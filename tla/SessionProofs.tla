---------------------------- MODULE SessionProofs ---------------------------
(***************************************************************************)
(* For every application, size of a block, number of faults and earlier    *)
(* session: what the ground believes to be on board is.                    *)
(***************************************************************************)
EXTENDS UpdateSession, UpdaterProofs

-----------------------------------------------------------------------------
(* The inductive invariant, beside that of the updater.                    *)

Acked == {"send", "progress", "verify", "done"}
InitPcs == {"erase", "info_erase", "info_head", "info_tail", "begin"}
SavePcs == {"save_head", "save_tail"}
AppInfo == [exists |-> TRUE, addr |-> App.addr, size |-> App.size, crc |-> App.crc]

\* A packet of the session: a block is one of the image, though its data may
\* be damaged; the one whose connection is live is of the present phase, and
\* none that starts the update anew is left after it was acknowledged.
PacketOK(p) ==
    /\ p \in Packets
    /\ p.kind = "send" =>
          /\ p.blk.addr \in App.addr .. (End - 1)
          /\ p.blk.size = Block(p.blk.addr).size /\ p.blk.crc = App.crc
          /\ p.blk \in Blocks
    /\ p.live => waiting /\ p.kind = phase /\ (phase = "send" => p.blk.addr = sent)
    /\ phase \in Acked => p.kind # "init"

\* Only the last of the packets on their way is live.
QueueInv ==
    /\ up \in Seq(Packets)
    /\ \A i \in DOMAIN up : PacketOK(up[i]) /\ (up[i].live => i = Len(up))
    /\ serving # NoPacket => PacketOK(serving) /\ (serving.live => up = <<>>)
    /\ down # NoPacket => waiting /\ up = <<>> /\ serving = NoPacket

\* Where the handler is, by the packet it serves.
HandlerInv ==
    /\ pc # "idle" => serving # NoPacket
    /\ pc \in InitPcs => serving.kind = "init" /\ req = [slot |-> "app", info |-> AppInfo]
    /\ pc \in {"program", "save", "finish"} => serving.kind = "send"
    /\ pc \in SavePcs => serving.kind \in {"init", "send"}
    /\ pc = "program" => blk = serving.blk /\ blk.data = App.crc

Programmed(lo, hi) == \A b \in lo .. (hi - 1) : flash[b] = App.crc

\* The records and the flash are those of an update with App.
Fresh ==
    /\ eeInfo["app"] = AppInfo
    /\ update.initialized =>
          /\ update.start = App.addr /\ update.size = App.size
          /\ update.next <= End
          /\ \A b \in App.addr .. (End - 1) : flash[b] \in {Erased, App.crc}
          /\ Programmed(App.addr, update.next)

\* What a request has brought about when it is answered with NOFAIL, while
\* the reply is with the service (at = the fields of it) or on its way.
Answered(kind, next) ==
    /\ kind = "init" => Fresh
    /\ kind = "send" => Programmed(sent, sent + Block(sent).size)
    /\ kind = "progress" => next \in App.addr .. (End - 1) /\ Programmed(App.addr, next)
    /\ kind = "verify" => Programmed(App.addr, End)

Good(p) ==
    \/ pc = "idle" /\ status = "NOFAIL"
    \/ pc \in SavePcs
    \/ p.kind = "send" /\ pc \in {"save", "finish"}

AnswerInv ==
    /\ serving # NoPacket /\ serving.live /\ Good(serving) => Answered(serving.kind, update.next)
    /\ serving # NoPacket /\ serving.kind = "init" /\ Good(serving) => Fresh
    /\ down # NoPacket /\ down.status = "NOFAIL" => Answered(phase, down.next)

GroundInv ==
    /\ phase \in {"init"} \cup Acked /\ waiting \in BOOLEAN
    /\ sent \in App.addr .. End /\ (phase = "send" => sent < End)
    /\ phase \in Acked => Fresh /\ Programmed(App.addr, sent)
    /\ phase = "done" => /\ Programmed(App.addr, End) /\ up = <<>> /\ serving = NoPacket
                         /\ ~waiting

SessionInv == IInv /\ QueueInv /\ HandlerInv /\ AnswerInv /\ GroundInv

-----------------------------------------------------------------------------
(* Facts about the constants.                                              *)

LEMMA AppFacts ==
    /\ App.addr \in Nat /\ App.size \in Nat /\ App.size > 0 /\ App.crc \in Images
    /\ End \in Nat /\ End = App.addr + App.size
    /\ App.crc \notin {Erased, Garbage, Torn} /\ Erased # Garbage
    /\ App.addr >= AppMin /\ SlotOf(App.addr) = "app" /\ AppMin \in Nat
    /\ BlockSize \in Nat /\ BlockSize > 0
    /\ \A b \in App.addr .. (End - 1) : b \in MainBytes
<1>1. App \in [addr : Nat, size : Nat, crc : Images]
  BY SessionAssumption, UpdaterAssumption
<1>2. AppMin \in Nat
  BY LimitsAssumption
<1>3. SlotOf(App.addr) = "app"
  BY <1>1, <1>2, SessionAssumption DEF SlotOf
<1> QED BY <1>1, <1>2, <1>3, SessionAssumption, UpdaterAssumption DEF End

LEMMA BlockFacts ==
    ASSUME NEW a \in App.addr .. (End - 1)
    PROVE  /\ Block(a) \in Blocks /\ [Block(a) EXCEPT !.data = Garbage] \in Blocks
           /\ Block(a).addr = a /\ Block(a).data = App.crc /\ Block(a).crc = App.crc
           /\ Block(a).size \in Nat /\ Block(a).size > 0 /\ a + Block(a).size <= End
<1>1. Block(a) \in Blocks /\ [Block(a) EXCEPT !.data = Garbage] \in Blocks
  BY PacketsAssumption
<1> QED BY <1>1, AppFacts DEF Block

LEMMA BlockTypes ==
    ASSUME NEW b \in Blocks
    PROVE  b.addr \in Nat /\ b.size \in Nat /\ b.size <= MaxBlock
BY UpdaterAssumption

-----------------------------------------------------------------------------
(* Every step of the session is a step of the updater, or none.            *)

LEMMA SessionInitInv == SessionInit => IInv
<1> SUFFICES ASSUME SessionInit PROVE IInv
  OBVIOUS
<1> USE DEF SessionInit
<1>1. eeUpdate \in UpdateInfo /\ update = eeUpdate /\ GoodRecord(eeUpdate)
  <2>1. CASE eeUpdate = NoUpdate
    BY <2>1, ConstantFacts DEF GoodRecord, NoUpdate
  <2>2. CASE eeUpdate \in Earlier
    <3>1. eeUpdate \in [initialized : {TRUE}, start : Nat, next : Nat, size : Nat, crc : Images]
      BY <2>2, SessionAssumption
    <3>2. eeUpdate \in UpdateInfo
      BY <3>1 DEF UpdateInfo
    <3> QED BY <3>2, <2>2, SessionAssumption DEF GoodRecord
  <2> QED BY <2>1, <2>2
<1>2. TypeOK
  <2>1. flash \in [MainBytes -> Contents] /\ eeInfo \in [Slots -> ImageInfo]
    BY ConstantFacts
  <2>2. blk \in Blocks \cup {NoBlock} /\ req \in [slot : Slots, info : ImageInfo]
    BY ConstantFacts
  <2>3. counter \in 0 .. SaveEvery
    BY ConstantFacts
  <2> QED BY <1>1, <2>1, <2>2, <2>3 DEF TypeOK, Pcs, Statuses
<1>3. FrameInv
  BY DEF FrameInv, InfoPcs
<1>4. eeUpdate.initialized => eeUpdate.next - eeUpdate.start # eeUpdate.size
  <2> SUFFICES ASSUME eeUpdate.initialized PROVE eeUpdate.next - eeUpdate.start # eeUpdate.size
    OBVIOUS
  <2>1. eeUpdate \in Earlier
    BY DEF NoUpdate
  <2>2. eeUpdate.next # eeUpdate.start + eeUpdate.size
    BY <2>1, SessionAssumption
  <2> QED BY <1>1, <2>2 DEF UpdateInfo
<1>5. RecordInv
  BY <1>1, <1>4 DEF RecordInv
<1>6. LagInv
  <2>1. update.next - eeUpdate.next = 0 /\ 0 * MaxBlock = 0 /\ eeUpdate.next <= update.next
    BY <1>1, ConstantFacts DEF UpdateInfo
  <2> QED BY <1>1, <2>1, ConstantFacts DEF LagInv, Unsaved
<1>7. ErasedInv /\ RecordMatchesProgress
  <2>1. ~eeInfo[SlotOf(update.start)].exists
    BY DEF SlotOf, Slots, NoImage
  <2> QED BY <2>1 DEF ErasedInv, RecordMatchesProgress, InfoPcs
<1>8. FlashMatchesProgress
  BY ConstantFacts DEF FlashMatchesProgress
<1> QED BY <1>2, <1>3, <1>5, <1>6, <1>7, <1>8 DEF IInv

\* The packet at the head of the queue.
LEMMA HeadOfQueue ==
    ASSUME QueueInv, up # <<>>
    PROVE  /\ PacketOK(Head(up)) /\ Head(up) \in Packets /\ Head(up) # NoPacket
           /\ Head(up).live => Tail(up) = <<>>
           /\ Tail(up) \in Seq(Packets)
           /\ \A i \in DOMAIN Tail(up) :
                 PacketOK(Tail(up)[i]) /\ (Tail(up)[i].live => i = Len(Tail(up)))
<1>1. up \in Seq(Packets) /\ \A i \in DOMAIN up : PacketOK(up[i]) /\ (up[i].live => i = Len(up))
  BY DEF QueueInv
<1>2. Len(up) \in Nat /\ Len(up) >= 1 /\ DOMAIN up = 1 .. Len(up) /\ Head(up) = up[1]
  BY <1>1
<1>3. PacketOK(Head(up)) /\ (Head(up).live => 1 = Len(up))
  BY <1>1, <1>2
<1>4. /\ Tail(up) \in Seq(Packets) /\ Len(Tail(up)) = Len(up) - 1
      /\ DOMAIN Tail(up) = 1 .. Len(up) - 1
      /\ \A i \in 1 .. Len(up) - 1 : Tail(up)[i] = up[i + 1]
  BY <1>1, <1>2
<1>5. Len(up) = 1 => Tail(up) = <<>>
  BY <1>4
<1>6. ASSUME NEW i \in 1 .. Len(up) - 1
      PROVE  PacketOK(Tail(up)[i]) /\ (Tail(up)[i].live => i = Len(up) - 1)
  <2>1. i \in Nat /\ i + 1 \in DOMAIN up /\ Tail(up)[i] = up[i + 1]
    BY <1>2, <1>4
  <2>2. PacketOK(up[i + 1]) /\ (up[i + 1].live => i + 1 = Len(up))
    BY <1>1, <2>1
  <2>3. Len(up) \in Nat
    BY <1>1
  <2>4. i + 1 = Len(up) => i = Len(up) - 1
    BY <2>3
  <2>5. PacketOK(Tail(up)[i])
    BY <2>1, <2>2
  <2>6. Tail(up)[i].live => i + 1 = Len(up)
    BY <2>1, <2>2
  <2> QED BY <2>4, <2>5, <2>6
<1>7. Head(up) \in Packets /\ Head(up) # NoPacket
  BY <1>3, PacketsAssumption DEF PacketOK
<1> QED BY <1>3, <1>4, <1>5, <1>6, <1>7

LEMMA StepOfUpdater ==
    ASSUME QueueInv, [SessionNext]_sessionVars
    PROVE  [Next]_vars
<1>1. CASE Send \/ Take \/ Timeout \/ SendReply \/ UNCHANGED sessionVars
  BY <1>1 DEF Send, Take, Timeout, SendReply, sessionVars
<1>2. CASE Serve
  <2>1. ASSUME Read("send"), ReceiveBlock(Head(up).blk) PROVE Next
    <3>1. Head(up).blk \in Blocks
      BY <2>1, HeadOfQueue DEF Read, PacketOK
    <3> QED BY <2>1, <3>1 DEF Next
  <2>2. App \in Requests /\ "app" \in Slots
    BY SessionAssumption DEF Slots
  <2> QED BY <1>2, <2>1, <2>2 DEF Serve, Next
<1>3. CASE Handle
  BY <1>3 DEF Handle, Next
<1>4. CASE Crash
  BY <1>4 DEF Crash, Next
<1> QED BY <1>1, <1>2, <1>3, <1>4 DEF SessionNext

-----------------------------------------------------------------------------
(* The ground                                                              *)

Rest4 == QueueInv /\ HandlerInv /\ AnswerInv /\ GroundInv

LEMMA Unchanged ==
    ASSUME UNCHANGED vars
    PROVE  /\ flash' = flash /\ eeInfo' = eeInfo /\ eeUpdate' = eeUpdate /\ update' = update
           /\ pc' = pc /\ req' = req /\ blk' = blk /\ status' = status
           /\ Fresh' = Fresh
           /\ \A lo, hi : Programmed(lo, hi)' = Programmed(lo, hi)
BY DEF vars, eeprom, ram, frame, Fresh, Programmed

\* What the ground sends.
LEMMA RequestOK ==
    ASSUME GroundInv, phase # "done", phase' = phase, sent' = sent, waiting',
           NEW r, r = Request \/ (phase = "send" /\ r = [Request EXCEPT !.blk.data = Garbage])
    PROVE  PacketOK(r)'
<1>1. phase \in {"init", "send", "progress", "verify"}
  BY DEF GroundInv, Acked
<1>2. CASE phase = "send"
  <2>1. sent \in App.addr .. (End - 1)
    BY <1>2, AppFacts DEF GroundInv
  <2>2. /\ Block(sent) \in Blocks /\ [Block(sent) EXCEPT !.data = Garbage] \in Blocks
        /\ Block(sent).addr = sent /\ Block(sent).crc = App.crc
    BY <2>1, BlockFacts
  <2>3. r.kind = "send" /\ r.live /\ r.blk \in {Block(sent), [Block(sent) EXCEPT !.data = Garbage]}
        /\ r = [kind |-> "send", live |-> TRUE, blk |-> r.blk]
    BY <1>2 DEF Request
  <2>4. r.blk.addr = sent /\ r.blk.size = Block(sent).size /\ r.blk.crc = App.crc
    BY <2>2, <2>3 DEF Block
  <2>5. r \in Packets
    BY <2>2, <2>3 DEF Packets
  <2>6. r.blk.addr \in App.addr .. (End - 1) /\ r.blk.size = Block(r.blk.addr).size /\ r.blk \in Blocks
    BY <2>1, <2>2, <2>3, <2>4
  <2>7. r.kind = phase' /\ (phase' = "send" => r.blk.addr = sent') /\ r.kind # "init"
    BY <1>2, <2>3, <2>4
  <2> QED BY <2>3, <2>4, <2>5, <2>6, <2>7 DEF PacketOK
<1>3. CASE phase # "send"
  <2>1. r = [kind |-> phase, live |-> TRUE, blk |-> NoBlock]
    BY <1>3 DEF Request
  <2> QED BY <1>1, <1>3, <2>1 DEF PacketOK, Packets, Acked
<1> QED BY <1>2, <1>3

LEMMA SendInv ==
    ASSUME SessionInv, Send
    PROVE  Rest4'
<1>1. /\ UNCHANGED vars /\ phase' = phase /\ sent' = sent /\ serving' = serving /\ down' = down
      /\ waiting' /\ waiting' = TRUE /\ ~waiting /\ phase # "done"
  BY DEF Send
<1>2. QueueInv /\ HandlerInv /\ AnswerInv /\ GroundInv
  BY DEF SessionInv
<1>3. down = NoPacket
  BY <1>1, <1>2 DEF QueueInv
<1>4. \A p : PacketOK(p) => PacketOK(p)' /\ ~p.live
  BY <1>1 DEF PacketOK
<1>5. PICK r : PacketOK(r)' /\ up' \in {up, Append(up, r)}
  <2> DEFINE damaged == [Request EXCEPT !.blk.data = Garbage]
  <2>1. PICK q : q = Request /\ PacketOK(q)'
    BY <1>1, <1>2, RequestOK
  <2>2. PICK d : phase = "send" => d = damaged /\ PacketOK(d)'
    BY <1>1, <1>2, RequestOK
  <2>3. \/ up' \in {up, Append(up, q)}
        \/ phase = "send" /\ up' = Append(up, d)
    BY <2>1, <2>2 DEF Send
  <2> QED BY <2>1, <2>2, <2>3
<1>6. QueueInv'
  <2>1. r \in Packets
    BY <1>5 DEF PacketOK
  <2>2. up \in Seq(Packets) /\ \A i \in DOMAIN up : PacketOK(up[i]) /\ ~up[i].live
    BY <1>2, <1>4 DEF QueueInv
  <2>3. CASE up' = up
    BY <2>2, <2>3, <1>1, <1>2, <1>3, <1>4 DEF QueueInv
  <2>4. CASE up' = Append(up, r)
    <3>1. up' \in Seq(Packets) /\ Len(up') = Len(up) + 1 /\ DOMAIN up' = 1 .. Len(up) + 1
      BY <2>1, <2>2, <2>4
    <3>2. ASSUME NEW i \in DOMAIN up' PROVE PacketOK(up[i])' /\ (up'[i].live => i = Len(up'))
      <4>1. CASE i = Len(up) + 1
        <5>1. up'[i] = r
          BY <4>1, <2>1, <2>2, <2>4
        <5> QED BY <5>1, <4>1, <3>1, <1>5
      <4>2. CASE i \in DOMAIN up
        <5>1. up'[i] = up[i] /\ PacketOK(up[i]) /\ ~up[i].live
          BY <4>2, <2>1, <2>2, <2>4
        <5> QED BY <5>1, <1>4
      <4>3. i = Len(up) + 1 \/ i \in DOMAIN up
        BY <2>2, <3>1
      <4> QED BY <4>1, <4>2, <4>3
    <3> QED BY <3>1, <3>2, <1>1, <1>2, <1>3, <1>4 DEF QueueInv
  <2> QED BY <2>3, <2>4, <1>5
<1>7. HandlerInv' /\ AnswerInv' /\ GroundInv'
  <2>1. Answered(serving.kind, update.next)' = Answered(serving.kind, update.next)
    BY <1>1, Unchanged DEF Answered
  <2>2. Good(serving)' = Good(serving)
    BY <1>1, Unchanged DEF Good
  <2>3. HandlerInv'
    BY <1>1, <1>2, Unchanged DEF HandlerInv
  <2>4. AnswerInv'
    BY <1>1, <1>2, <1>3, <2>1, <2>2, Unchanged DEF AnswerInv
  <2>5. GroundInv'
    BY <1>1, <1>2, Unchanged DEF GroundInv
  <2> QED BY <2>3, <2>4, <2>5
<1> QED BY <1>6, <1>7 DEF Rest4

\* A packet whose connection was given up.
LEMMA GivenUpOK ==
    ASSUME NEW p, PacketOK(p), phase' \in Acked => phase \in Acked
    PROVE  /\ PacketOK(GivenUp(p))' /\ GivenUp(p) \in Packets /\ GivenUp(p) # NoPacket
           /\ ~GivenUp(p).live /\ GivenUp(p).kind = p.kind /\ GivenUp(p).blk = p.blk
<1>1. p \in Packets /\ p # NoPacket
  BY PacketsAssumption DEF PacketOK
<1>2. GivenUp(p) = [p EXCEPT !.live = FALSE]
  BY <1>1 DEF GivenUp
<1>3. GivenUp(p) \in Packets
  BY <1>1, <1>2 DEF Packets
<1>4. ~GivenUp(p).live /\ GivenUp(p).kind = p.kind /\ GivenUp(p).blk = p.blk
  BY <1>1, <1>2 DEF Packets
<1>5. PICK q : q = GivenUp(p)
  OBVIOUS
<1>6. PacketOK(q)'
  BY <1>3, <1>4, <1>5 DEF PacketOK
<1>7. q = GivenUp(p)
  BY <1>5
<1> QED BY <1>3, <1>4, <1>6, <1>7, PacketsAssumption DEF GivenUp

LEMMA TimeoutInv ==
    ASSUME SessionInv, Timeout
    PROVE  Rest4'
<1>1. /\ UNCHANGED vars /\ sent' = sent /\ waiting /\ waiting' = FALSE /\ down' = NoPacket
      /\ up' = [i \in DOMAIN up |-> GivenUp(up[i])] /\ serving' = GivenUp(serving)
      /\ phase' = IF phase = "send" THEN "progress" ELSE phase
  BY DEF Timeout
<1>2. QueueInv /\ HandlerInv /\ AnswerInv /\ GroundInv
  BY DEF SessionInv
<1>3. phase # "done" /\ (phase' \in Acked => phase \in Acked) /\ phase' # "done"
  BY <1>1, <1>2 DEF GroundInv, Acked
<1>4. up' \in Seq(Packets) /\ \A i \in DOMAIN up' : PacketOK(up[i])' /\ ~up'[i].live
  <2>1. up \in Seq(Packets) /\ \A i \in DOMAIN up : PacketOK(up[i])
    BY <1>2 DEF QueueInv
  <2>2. DOMAIN up = 1 .. Len(up) /\ Len(up) \in Nat
    BY <2>1
  <2>3. ASSUME NEW i \in DOMAIN up
        PROVE  PacketOK(up[i])' /\ ~up'[i].live /\ up'[i] \in Packets
    <3>1. PICK q : q = up'[i] /\ q = GivenUp(up[i])
      BY <1>1
    <3>2. PICK p : p = up[i] /\ PacketOK(p)
      BY <2>1
    <3>3. q = GivenUp(p) /\ PacketOK(GivenUp(p))' /\ q \in Packets /\ ~q.live
      BY <3>1, <3>2, <1>3, GivenUpOK
    <3>4. PICK g : g = GivenUp(p)
      OBVIOUS
    <3> QED BY <3>1, <3>3 DEF GivenUp
  <2>4. up' \in [1 .. Len(up) -> Packets]
    BY <1>1, <2>2, <2>3
  <2> QED BY <1>1, <2>2, <2>3, <2>4
<1>5. serving # NoPacket =>
        /\ PacketOK(serving)' /\ serving' # NoPacket /\ ~serving'.live
        /\ serving'.kind = serving.kind /\ serving'.blk = serving.blk
  <2> SUFFICES ASSUME serving # NoPacket
               PROVE  /\ PacketOK(serving)' /\ serving' # NoPacket /\ ~serving'.live
                      /\ serving'.kind = serving.kind /\ serving'.blk = serving.blk
    OBVIOUS
  <2>1. PICK p : p = serving /\ PacketOK(p)
    BY <1>2 DEF QueueInv
  <2>2. /\ PacketOK(GivenUp(p))' /\ GivenUp(p) # NoPacket
        /\ ~GivenUp(p).live /\ GivenUp(p).kind = p.kind /\ GivenUp(p).blk = p.blk
    BY <2>1, <1>3, GivenUpOK
  <2> QED BY <1>1, <2>1, <2>2 DEF GivenUp
<1>6. serving = NoPacket => serving' = NoPacket
  BY <1>1 DEF GivenUp
<1>7. QueueInv'
  BY <1>1, <1>4, <1>5, <1>6 DEF QueueInv
<1>8. HandlerInv'
  BY <1>1, <1>2, <1>5, <1>6, Unchanged DEF HandlerInv
<1>9. AnswerInv'
  BY <1>1, <1>2, <1>5, <1>6, Unchanged DEF AnswerInv, Good
<1>10. GroundInv'
  BY <1>1, <1>2, <1>3, Unchanged DEF GroundInv, Acked
<1> QED BY <1>7, <1>8, <1>9, <1>10 DEF Rest4

LEMMA TakeInv ==
    ASSUME SessionInv, Take
    PROVE  Rest4'
<1>1. /\ UNCHANGED vars /\ down # NoPacket /\ down' = NoPacket /\ waiting' = FALSE
      /\ up' = up /\ serving' = serving /\ phase' = NextPhase(down)
  BY DEF Take
<1>2. QueueInv /\ HandlerInv /\ AnswerInv /\ GroundInv
  BY DEF SessionInv
<1>3. up = <<>> /\ serving = NoPacket /\ waiting /\ phase \in {"init", "send", "progress", "verify"}
  BY <1>1, <1>2 DEF QueueInv, GroundInv, Acked
<1>4. QueueInv' /\ HandlerInv' /\ AnswerInv'
  <2>1. QueueInv'
    BY <1>1, <1>2, <1>3 DEF QueueInv
  <2>2. HandlerInv'
    BY <1>1, <1>2, <1>3, Unchanged DEF HandlerInv
  <2>3. AnswerInv'
    BY <1>1, <1>3 DEF AnswerInv
  <2> QED BY <2>1, <2>2, <2>3
<1>5. GroundInv'
  <2> USE DEF NextPhase
  <2>1. down.status = "NOFAIL" => Answered(phase, down.next)
    BY <1>1, <1>2 DEF AnswerInv
  <2>2. /\ sent \in App.addr .. End /\ (phase = "send" => sent < End)
        /\ phase # "init" => Fresh /\ Programmed(App.addr, sent)
    BY <1>2, <1>3 DEF GroundInv, Acked
  <2>3. SUFFICES /\ phase' \in {"init"} \cup Acked
                 /\ sent' \in App.addr .. End /\ (phase' = "send" => sent' < End)
                 /\ phase' \in Acked => Fresh /\ Programmed(App.addr, sent')
                 /\ phase' = "done" => Programmed(App.addr, End)
    BY <1>1, <1>3, Unchanged DEF GroundInv
  <2>4. CASE phase' = "init"
    <3>1. sent' = App.addr
      BY <2>4 DEF Take
    <3> QED BY <2>4, <3>1, AppFacts DEF Acked
  <2>5. CASE phase = "init" /\ phase' # "init"
    <3>1. sent' = App.addr /\ phase' = "send" /\ Fresh
      BY <2>5, <1>1, <2>1 DEF Take, Answered
    <3> QED BY <3>1, AppFacts DEF Acked, Programmed
  <2>6. CASE phase = "send" /\ down.status = "NOFAIL"
    <3>1. sent' = sent + Block(sent).size /\ Programmed(sent, sent + Block(sent).size)
      BY <2>6, <1>1, <2>1 DEF Take, Answered
    <3>2. sent \in App.addr .. (End - 1)
      BY <2>2, <2>6, AppFacts
    <3>3. Block(sent).size \in Nat /\ sent + Block(sent).size <= End
      BY <3>2, BlockFacts
    <3>4. \A b \in App.addr .. (sent + Block(sent).size - 1) :
             b \in App.addr .. (sent - 1) \/ b \in sent .. (sent + Block(sent).size - 1)
      BY <3>2, <3>3, AppFacts
    <3>5. Programmed(App.addr, sent')
      BY <3>1, <3>4, <2>2, <2>6 DEF Programmed
    <3> QED BY <3>1, <3>2, <3>3, <3>5, <2>2, <2>6, <1>1, AppFacts DEF Acked
  <2>7. CASE phase = "send" /\ down.status # "NOFAIL"
    <3>1. sent' = sent /\ phase' = "progress"
      BY <2>7, <1>1 DEF Take
    <3> QED BY <3>1, <2>2, <2>7 DEF Acked
  <2>8. CASE phase = "progress" /\ phase' = "send"
    <3>1. sent' = down.next /\ down.next \in App.addr .. (End - 1) /\ Programmed(App.addr, down.next)
      BY <2>8, <1>1, <2>1 DEF Take, Answered
    <3> QED BY <3>1, <2>2, <2>8, AppFacts DEF Acked
  <2>9. CASE phase = "progress" /\ phase' = "verify"
    <3>1. sent' = sent
      BY <2>9, <1>1 DEF Take
    <3> QED BY <3>1, <2>2, <2>9 DEF Acked
  <2>10. CASE phase = "verify" /\ phase' = "done"
    <3>1. sent' = sent /\ Programmed(App.addr, End)
      BY <2>10, <1>1, <2>1 DEF Take, Answered
    <3> QED BY <3>1, <2>2, <2>10 DEF Acked
  <2> QED BY <1>1, <1>3, <2>4, <2>5, <2>6, <2>7, <2>8, <2>9, <2>10
<1> QED BY <1>4, <1>5 DEF Rest4

-----------------------------------------------------------------------------
(* The packet loop of the service                                          *)

\* What a read leaves in the queue.
LEMMA ReadQueue ==
    ASSUME SessionInv, NEW kind, Read(kind)
    PROVE  /\ QueueInv' /\ phase' = phase /\ sent' = sent /\ waiting' = waiting /\ phase # "done"
           /\ serving' = Head(up) /\ serving' # NoPacket /\ serving'.kind = kind /\ PacketOK(Head(up))
           /\ down' = NoPacket /\ pc = "idle"
<1>1. QueueInv /\ HandlerInv /\ GroundInv
  BY DEF SessionInv
<1>2. /\ serving = NoPacket /\ up # <<>> /\ Head(up).kind = kind /\ serving' = Head(up) /\ up' = Tail(up)
      /\ phase' = phase /\ sent' = sent /\ waiting' = waiting /\ down' = down
  BY DEF Read, ground
<1>3. down = NoPacket /\ phase # "done" /\ pc = "idle"
  BY <1>1, <1>2 DEF QueueInv, GroundInv, HandlerInv
<1>4. ASSUME NEW p, PacketOK(p) PROVE PacketOK(p)'
  BY <1>2, <1>4 DEF PacketOK
<1>5. /\ PacketOK(Head(up)) /\ Head(up) # NoPacket
      /\ Head(up).live => Tail(up) = <<>>
      /\ Tail(up) \in Seq(Packets)
      /\ \A i \in DOMAIN Tail(up) : PacketOK(Tail(up)[i]) /\ (Tail(up)[i].live => i = Len(Tail(up)))
  BY <1>1, <1>2, HeadOfQueue
<1>6. PICK h, t : h = Head(up) /\ t = Tail(up)
  OBVIOUS
<1>7. PacketOK(h)' /\ \A i \in DOMAIN t : PacketOK(t[i])' /\ (t[i].live => i = Len(t))
  BY <1>4, <1>5, <1>6
<1>8. QueueInv'
  BY <1>2, <1>3, <1>5, <1>6, <1>7 DEF QueueInv
<1> QED BY <1>2, <1>3, <1>5, <1>8

\* A handler that has only replied, or taken a request in.
LEMMA ReadKeeps ==
    ASSUME SessionInv, NEW kind, Read(kind), UNCHANGED <<flash, eeprom, ram, history>>
    PROVE  /\ flash' = flash /\ eeInfo' = eeInfo /\ update' = update /\ Fresh' = Fresh
           /\ GroundInv'
<1>1. flash' = flash /\ eeInfo' = eeInfo /\ update' = update
  BY DEF eeprom, ram
<1>2. Fresh' = Fresh
  BY <1>1 DEF Fresh, Programmed
<1>3. GroundInv
  BY DEF SessionInv
<1>4. GroundInv'
  BY <1>1, <1>2, <1>3, ReadQueue DEF GroundInv, Programmed
<1> QED BY <1>1, <1>2, <1>4

LEMMA ServeInit ==
    ASSUME SessionInv, Read("init"), InitializeUpdate(App)
    PROVE  Rest4'
<1>1. UNCHANGED <<flash, eeprom, ram, history>>
  BY DEF InitializeUpdate
<1>2. \/ pc' = "erase" /\ req' = [slot |-> "app", info |-> AppInfo]
      \/ pc' = "idle" /\ status' = "INVALIDADDR"
  BY AppFacts DEF InitializeUpdate, Reply, AppInfo
<1>3. HandlerInv'
  BY <1>2, ReadQueue DEF HandlerInv, InitPcs, SavePcs
<1>4. AnswerInv'
  BY <1>2, ReadQueue DEF AnswerInv, Good, SavePcs
<1> QED BY <1>1, <1>3, <1>4, ReadQueue, ReadKeeps DEF Rest4

LEMMA ServeSend ==
    ASSUME SessionInv, Read("send"), ReceiveBlock(Head(up).blk)
    PROVE  Rest4'
<1>1. UNCHANGED <<flash, eeprom, ram, history>>
  BY DEF ReceiveBlock
<1>2. \/ pc' = "program" /\ blk' = Head(up).blk /\ Head(up).blk.data = Head(up).blk.crc
      \/ pc' = "idle" /\ status' # "NOFAIL"
  BY DEF ReceiveBlock, Reply
<1>3. Head(up).blk.crc = App.crc
  BY ReadQueue DEF PacketOK
<1>4. HandlerInv'
  BY <1>2, <1>3, ReadQueue DEF HandlerInv, InitPcs, SavePcs
<1>5. AnswerInv'
  BY <1>2, ReadQueue DEF AnswerInv, Good, SavePcs
<1> QED BY <1>1, <1>4, <1>5, ReadQueue, ReadKeeps DEF Rest4

\* What the record in RAM says of the image, between two packets.
LEMMA IdleProgress ==
    ASSUME SessionInv, pc = "idle", Fresh, update.initialized
    PROVE  update.next \in App.addr .. (End - 1) /\ Programmed(App.addr, update.next)
<1>1. /\ update.start = App.addr /\ update.size = App.size /\ update.next <= End
      /\ Programmed(App.addr, update.next)
  BY DEF Fresh
<1>2. update.next \in Nat /\ update.start <= update.next /\ update.next - update.start # update.size
  BY DEF SessionInv, IInv, TypeOK, UpdateInfo, RecordInv, GoodRecord
<1> QED BY <1>1, <1>2, AppFacts

LEMMA ServeProgress ==
    ASSUME SessionInv, Read("progress"), GetProgress
    PROVE  Rest4'
<1>1. UNCHANGED <<flash, eeprom, ram, history>>
  BY DEF GetProgress
<1>2. pc = "idle" /\ pc' = "idle" /\ (status' = "NOFAIL" => update.initialized)
  BY DEF GetProgress, Reply
<1>3. HandlerInv'
  BY <1>2, ReadQueue DEF HandlerInv, InitPcs, SavePcs
<1>4. AnswerInv'
  <2>1. ASSUME serving'.live, status' = "NOFAIL"
        PROVE  update.next \in App.addr .. (End - 1) /\ Programmed(App.addr, update.next)
    <3>1. phase = "progress"
      BY <2>1, ReadQueue DEF PacketOK
    <3>2. Fresh
      BY <3>1 DEF SessionInv, GroundInv, Acked
    <3> QED BY <2>1, <3>2, <1>2, IdleProgress
  <2>2. flash' = flash /\ update' = update
    BY <1>1, ReadKeeps
  <2>3. serving'.live /\ status' = "NOFAIL" => Answered("progress", update.next)'
    BY <2>1, <2>2 DEF Answered, Programmed
  <2> QED BY <1>2, <2>3, ReadQueue DEF AnswerInv, Good, SavePcs
<1> QED BY <1>1, <1>3, <1>4, ReadQueue, ReadKeeps DEF Rest4

LEMMA ServeVerify ==
    ASSUME SessionInv, Read("verify"), VerifyImage("app")
    PROVE  Rest4'
<1>1. UNCHANGED <<flash, eeprom, ram, history>>
  BY DEF VerifyImage
<1>2. pc' = "idle" /\ (status' = "NOFAIL" => Verify(eeInfo["app"]))
  BY DEF VerifyImage, Reply
<1>3. HandlerInv'
  BY <1>2, ReadQueue DEF HandlerInv, InitPcs, SavePcs
<1>4. AnswerInv'
  <2>1. ASSUME serving'.live, status' = "NOFAIL"
        PROVE  Programmed(App.addr, End)
    <3>1. phase = "verify"
      BY <2>1, ReadQueue DEF PacketOK
    <3>2. eeInfo["app"] = AppInfo
      BY <3>1 DEF SessionInv, GroundInv, Acked, Fresh
    <3>3. Verify(AppInfo)
      BY <2>1, <3>2, <1>2
    <3>4. \A b \in Range32(App.addr, App.size) : flash[b] = App.crc
      BY <3>3 DEF Verify, AppInfo
    <3> QED BY <3>4, AppFacts DEF Range32, Programmed
  <2>2. flash' = flash
    BY <1>1, ReadKeeps
  <2>3. serving'.live /\ status' = "NOFAIL" => Answered("verify", update.next)'
    BY <2>1, <2>2 DEF Answered, Programmed
  <2> QED BY <1>2, <2>3, ReadQueue DEF AnswerInv, Good, SavePcs
<1> QED BY <1>1, <1>3, <1>4, ReadQueue, ReadKeeps DEF Rest4

LEMMA SendReplyInv ==
    ASSUME SessionInv, SendReply
    PROVE  Rest4'
<1>1. /\ UNCHANGED vars /\ phase' = phase /\ sent' = sent /\ waiting' = waiting /\ up' = up
      /\ pc = "idle" /\ serving # NoPacket /\ serving' = NoPacket
  BY DEF SendReply, ground
<1>2. QueueInv /\ HandlerInv /\ AnswerInv /\ GroundInv
  BY DEF SessionInv
<1>3. down = NoPacket /\ PacketOK(serving) /\ (serving.live => up = <<>>)
  BY <1>1, <1>2 DEF QueueInv
<1>4. down' # NoPacket => serving.live /\ down'.status = status /\ down'.next = update.next
  BY <1>3 DEF SendReply
<1>5. QueueInv'
  <2>1. ASSUME NEW p, PacketOK(p) PROVE PacketOK(p)'
    BY <1>1, <2>1 DEF PacketOK
  <2>2. down' # NoPacket => waiting /\ up = <<>>
    BY <1>3, <1>4 DEF PacketOK
  <2>3. PICK t : t = up
    OBVIOUS
  <2>4. t \in Seq(Packets) /\ \A i \in DOMAIN t : PacketOK(t[i])' /\ (t[i].live => i = Len(t))
    BY <2>1, <2>3, <1>2 DEF QueueInv
  <2> QED BY <1>1, <2>2, <2>3, <2>4 DEF QueueInv
<1>6. HandlerInv'
  BY <1>1, Unchanged DEF HandlerInv, InitPcs, SavePcs
<1>7. AnswerInv'
  <2>1. ASSUME down' # NoPacket, down'.status = "NOFAIL" PROVE Answered(phase, update.next)
    <3>1. serving.live /\ serving.kind = phase /\ Good(serving)
      BY <2>1, <1>1, <1>3, <1>4 DEF Good, PacketOK
    <3> QED BY <3>1, <1>1, <1>2 DEF AnswerInv
  <2>2. down' # NoPacket /\ down'.status = "NOFAIL" => Answered(phase, down.next)'
    BY <2>1, <1>1, <1>4, Unchanged DEF Answered
  <2> QED BY <1>1, <2>2 DEF AnswerInv
<1>8. GroundInv'
  BY <1>1, <1>2, Unchanged DEF GroundInv
<1> QED BY <1>5, <1>6, <1>7, <1>8 DEF Rest4

-----------------------------------------------------------------------------
(* The handler                                                             *)

\* A handler in work has a packet; the ground has no reply and is not done.
LEMMA InHandler ==
    ASSUME SessionInv, pc # "idle"
    PROVE  /\ serving # NoPacket /\ PacketOK(serving) /\ down = NoPacket /\ phase # "done"
           /\ pc \in InitPcs => serving.kind = "init" /\ phase = "init"
           /\ phase \in Acked => Fresh /\ Programmed(App.addr, sent)
           /\ sent \in App.addr .. End /\ (phase = "send" => sent < End)
<1>1. QueueInv /\ HandlerInv /\ GroundInv
  BY DEF SessionInv
<1>2. serving # NoPacket
  BY <1>1 DEF HandlerInv
<1>3. PacketOK(serving) /\ down = NoPacket /\ phase # "done"
  BY <1>1, <1>2 DEF QueueInv, GroundInv
<1>4. pc \in InitPcs => serving.kind = "init" /\ phase = "init"
  BY <1>1, <1>3 DEF HandlerInv, PacketOK, GroundInv
<1> QED BY <1>1, <1>2, <1>3, <1>4 DEF GroundInv

\* A step of the handler leaves the link and the ground alone.
LEMMA HandlerQueue ==
    ASSUME SessionInv, pc # "idle", UNCHANGED <<ground, link>>
    PROVE  /\ QueueInv' /\ phase' = phase /\ sent' = sent /\ waiting' = waiting
           /\ serving' = serving /\ up' = up /\ down' = down
           /\ (phase \in Acked => Fresh' /\ Programmed(App.addr, sent)') => GroundInv'
<1>1. /\ phase' = phase /\ sent' = sent /\ waiting' = waiting
      /\ serving' = serving /\ up' = up /\ down' = down
  BY DEF ground, link
<1>2. QueueInv /\ GroundInv /\ phase # "done"
  BY InHandler DEF SessionInv
<1>3. ASSUME NEW p, PacketOK(p) PROVE PacketOK(p)'
  BY <1>1, <1>3 DEF PacketOK
<1>4. PICK t, q : t = up /\ q = serving
  OBVIOUS
<1>5. /\ t \in Seq(Packets) /\ \A i \in DOMAIN t : PacketOK(t[i])' /\ (t[i].live => i = Len(t))
      /\ q # NoPacket => PacketOK(q)' /\ (q.live => t = <<>>)
  BY <1>2, <1>3, <1>4 DEF QueueInv
<1>6. QueueInv'
  BY <1>1, <1>2, <1>4, <1>5 DEF QueueInv
<1>7. (phase \in Acked => Fresh' /\ Programmed(App.addr, sent)') => GroundInv'
  BY <1>1, <1>2 DEF GroundInv, Programmed
<1> QED BY <1>1, <1>6, <1>7

LEMMA EraseImageKeeps ==
    ASSUME SessionInv, EraseImage, UNCHANGED <<ground, link>>
    PROVE  Rest4'
<1>1. /\ pc = "erase" /\ pc \in InitPcs
      /\ \/ pc' = "info_erase" /\ req' = req
         \/ pc' = "idle" /\ status' = "ERASEFAILED"
  BY DEF EraseImage, Reply, frame, InitPcs
<1>2. HandlerInv
  BY DEF SessionInv
<1>3. HandlerInv' /\ AnswerInv'
  BY <1>1, <1>2, InHandler, HandlerQueue DEF HandlerInv, AnswerInv, Good, SavePcs, InitPcs
<1>4. GroundInv'
  BY <1>1, InHandler, HandlerQueue DEF Acked
<1> QED BY <1>1, <1>3, <1>4, HandlerQueue DEF Rest4

LEMMA InfoKeeps ==
    ASSUME SessionInv, InfoErase \/ InfoHead \/ InfoTail, UNCHANGED <<ground, link>>
    PROVE  Rest4'
<1>1. HandlerInv
  BY DEF SessionInv
<1>2. pc \in {"info_erase", "info_head", "info_tail"} /\ pc \in InitPcs
  BY DEF InfoErase, InfoHead, InfoTail, InitPcs
<1>3. req = [slot |-> "app", info |-> AppInfo] /\ req.info.exists
  BY <1>1, <1>2 DEF HandlerInv, AppInfo
<1>4. pc' \in {"info_head", "info_tail", "begin"} /\ req' = req
  BY <1>3 DEF InfoErase, InfoHead, InfoTail, frame
<1>5. HandlerInv' /\ AnswerInv'
  BY <1>1, <1>2, <1>3, <1>4, InHandler, HandlerQueue DEF HandlerInv, AnswerInv, Good, SavePcs, InitPcs
<1>6. GroundInv'
  BY <1>2, InHandler, HandlerQueue DEF Acked
<1> QED BY <1>2, <1>5, <1>6, HandlerQueue DEF Rest4

LEMMA BeginKeeps ==
    ASSUME SessionInv, BeginUpdate, UNCHANGED <<ground, link>>
    PROVE  Rest4'
<1>1. HandlerInv /\ IInv
  BY DEF SessionInv
<1>2. /\ pc = "begin" /\ pc \in InitPcs /\ pc' = "save_head" /\ flash' = flash /\ eeInfo' = eeInfo
      /\ update' = [initialized |-> TRUE, start |-> req.info.addr, next |-> req.info.addr,
                    size |-> req.info.size, crc |-> req.info.crc]
  BY DEF BeginUpdate, SaveErase, InitPcs
<1>3. req = [slot |-> "app", info |-> AppInfo]
  BY <1>1, <1>2 DEF HandlerInv
<1>4. Fresh'
  <2>1. eeInfo["app"] = AppInfo
    BY <1>1, <1>2, <1>3 DEF IInv, FrameInv
  <2>2. update'.start = App.addr /\ update'.next = App.addr /\ update'.size = App.size
    BY <1>2, <1>3 DEF AppInfo
  <2>3. \A b \in App.addr .. (End - 1) : flash[b] = Erased
    <3>1. \A b \in MainBytes \cap Range32(App.addr, App.size) : flash[b] = Erased
      BY <1>1, <1>2, <1>3 DEF IInv, ErasedInv, AppInfo
    <3> QED BY <3>1, AppFacts DEF Range32
  <2> QED BY <1>2, <2>1, <2>2, <2>3, AppFacts DEF Fresh, Programmed
<1>5. serving.kind = "init"
  BY <1>2, InHandler
<1>6. HandlerInv'
  BY <1>2, <1>5, InHandler, HandlerQueue DEF HandlerInv, InitPcs, SavePcs
<1>7. AnswerInv'
  BY <1>2, <1>4, <1>5, InHandler, HandlerQueue DEF AnswerInv, Answered
<1>8. GroundInv'
  BY <1>2, InHandler, HandlerQueue DEF Acked
<1> QED BY <1>2, <1>6, <1>7, <1>8, HandlerQueue DEF Rest4

LEMMA SaveKeeps ==
    ASSUME SessionInv, SaveProgress \/ FinishUpdate \/ SaveHead \/ SaveTail, UNCHANGED <<ground, link>>
    PROVE  Rest4'
<1>1. HandlerInv /\ AnswerInv
  BY DEF SessionInv
<1>2. flash' = flash /\ eeInfo' = eeInfo
  BY DEF SaveProgress, FinishUpdate, SaveHead, SaveTail, SaveErase
<1>3. /\ pc \in {"save", "finish"} \cup SavePcs /\ pc # "idle"
      /\ pc' \in SavePcs \/ (pc' = "idle" /\ status' = "NOFAIL")
      /\ pc \in {"save", "finish"} \/ update' = update
  BY DEF SaveProgress, FinishUpdate, SaveHead, SaveTail, SaveErase, Reply, SavePcs, ram
<1>4. update' = update \/ update' = NoUpdate
  BY DEF SaveProgress, FinishUpdate, SaveHead, SaveTail, SaveErase, ram
<1>5. serving.kind \in {"init", "send"} /\ (serving.kind = "init" => pc \in SavePcs)
  BY <1>1, <1>3 DEF HandlerInv, SavePcs
<1>6. Fresh => Fresh'
  BY <1>2, <1>4 DEF Fresh, Programmed, NoUpdate
<1>7. Good(serving)
  BY <1>3, <1>5 DEF Good
<1>8. HandlerInv'
  BY <1>3, <1>5, InHandler, HandlerQueue DEF HandlerInv, InitPcs, SavePcs
<1>9. AnswerInv'
  <2>1. serving.live => Answered(serving.kind, update.next)
    BY <1>1, <1>3, <1>7, InHandler DEF AnswerInv
  <2>2. serving.kind = "init" => Fresh
    BY <1>1, <1>3, <1>7, InHandler DEF AnswerInv
  <2>3. serving.live => Answered(serving.kind, update.next)'
    BY <1>2, <1>3, <1>5, <1>6, <2>1, <2>2, HandlerQueue DEF Answered, Programmed
  <2> QED BY <1>3, <1>6, <2>2, <2>3, InHandler, HandlerQueue DEF AnswerInv
<1>10. GroundInv'
  BY <1>2, <1>3, <1>6, InHandler, HandlerQueue DEF Programmed
<1> QED BY <1>3, <1>8, <1>9, <1>10, HandlerQueue DEF Rest4

\* A block of the image, programmed in whole or in part over an update with
\* it: what holds the image keeps it.
LEMMA BurnedImage ==
    ASSUME SessionInv, pc = "program", Fresh, NEW n \in 0 .. blk.size, NEW beyond \in BOOLEAN,
           NEW b \in App.addr .. (End - 1)
    PROVE  /\ Burned(n, beyond)[b] \in {Erased, App.crc}
           /\ flash[b] = App.crc => Burned(n, beyond)[b] = App.crc
           /\ b \in Range32(blk.addr, n) => Burned(n, beyond)[b] = App.crc
<1>1. blk.data = App.crc /\ blk = serving.blk /\ serving.kind = "send"
  BY DEF SessionInv, HandlerInv
<1>2. update.initialized /\ blk.addr = update.next
  BY DEF SessionInv, IInv, FrameInv
<1>3. blk.addr \in App.addr .. (End - 1)
  BY <1>1, InHandler DEF PacketOK
<1>4. flash[b] \in {Erased, App.crc} /\ b \in MainBytes /\ b \in Nat
  BY <1>2, AppFacts DEF Fresh
<1>5. BankOf(b) = 1 /\ BankOf(blk.addr) = 1
  BY <1>3, AppFacts DEF BankOf
<1>6. Burned(n, beyond)[b] = IF b \in Range32(blk.addr, n) THEN Burn(flash[b], App.crc) ELSE flash[b]
  BY <1>1, <1>4, <1>5 DEF Burned
<1>7. Burn(flash[b], App.crc) = App.crc
  BY <1>4 DEF Burn
<1> QED BY <1>4, <1>6, <1>7

\* Where the block in work lies.
LEMMA BlockInWork ==
    ASSUME SessionInv, pc = "program"
    PROVE  /\ blk.addr \in App.addr .. (End - 1) /\ blk.size \in Nat /\ blk.addr + blk.size <= End
           /\ update.initialized /\ blk.addr = update.next
           /\ serving.kind = "send"
           /\ serving.live => phase = "send" /\ blk.addr = sent /\ blk.size = Block(sent).size
<1>1. blk = serving.blk /\ serving.kind = "send"
  BY DEF SessionInv, HandlerInv
<1>2. blk.addr \in App.addr .. (End - 1) /\ blk.size = Block(blk.addr).size
  BY <1>1, InHandler DEF PacketOK
<1>3. blk.size \in Nat /\ blk.addr + blk.size <= End
  BY <1>2, BlockFacts
<1>4. serving.live => phase = "send" /\ blk.addr = sent
  BY <1>1, InHandler DEF PacketOK
<1>5. update.initialized /\ blk.addr = update.next
  BY DEF SessionInv, IInv, FrameInv
<1> QED BY <1>1, <1>2, <1>3, <1>4, <1>5

LEMMA ProgramBlockKeeps ==
    ASSUME SessionInv, ProgramBlock, UNCHANGED <<ground, link>>
    PROVE  Rest4'
<1>1. /\ pc = "program" /\ pc # "idle" /\ eeInfo' = eeInfo
      /\ update' = [update EXCEPT !.next = blk.addr + blk.size]
      /\ \/ pc' \in {"finish", "save"}
         \/ pc' = "idle" /\ status' = "NOFAIL"
  BY DEF ProgramBlock, Reply, eeprom
<1>2. PICK beyond \in BOOLEAN : flash' = Burned(blk.size, beyond)
  BY DEF ProgramBlock
<1>3. /\ blk.addr \in App.addr .. (End - 1) /\ blk.size \in Nat /\ blk.addr + blk.size <= End
      /\ update.initialized /\ blk.addr = update.next
      /\ serving.kind = "send"
      /\ serving.live => phase = "send" /\ blk.addr = sent /\ blk.size = Block(sent).size
  BY <1>1, BlockInWork
<1>4. ASSUME Fresh
      PROVE  /\ \A b \in App.addr .. (End - 1) :
                  /\ flash'[b] \in {Erased, App.crc}
                  /\ flash[b] = App.crc => flash'[b] = App.crc
                  /\ b \in Range32(blk.addr, blk.size) => flash'[b] = App.crc
  <2>1. blk.size \in 0 .. blk.size
    BY <1>3
  <2> QED BY <1>1, <1>2, <1>4, <2>1, BurnedImage
<1>5. Fresh => Fresh'
  <2> SUFFICES ASSUME Fresh PROVE Fresh'
    OBVIOUS
  <2>1. update \in UpdateInfo
    BY DEF SessionInv, IInv, TypeOK
  <2>2. /\ update'.start = App.addr /\ update'.size = App.size
        /\ update'.next = blk.addr + blk.size
    BY <1>1, <1>3, <2>1 DEF Fresh, UpdateInfo
  <2>3. ASSUME NEW b \in App.addr .. (blk.addr + blk.size - 1) PROVE flash'[b] = App.crc
    <3>1. b \in App.addr .. (End - 1)
      BY <1>3, AppFacts
    <3>2. CASE b \in Range32(blk.addr, blk.size)
      BY <3>1, <3>2, <1>4
    <3>3. CASE b \notin Range32(blk.addr, blk.size)
      <4>1. b \in App.addr .. (update.next - 1)
        BY <3>3, <1>3, AppFacts DEF Range32
      <4>2. flash[b] = App.crc
        BY <4>1, <1>3 DEF Fresh, Programmed
      <4> QED BY <4>2, <3>1, <1>4
    <3> QED BY <3>2, <3>3
  <2>4. Programmed(App.addr, update.next)'
    BY <1>3, <2>2, <2>3, AppFacts DEF Programmed
  <2>5. eeInfo'["app"] = AppInfo
    BY <1>1 DEF Fresh
  <2>6. \A b \in App.addr .. (End - 1) : flash'[b] \in {Erased, App.crc}
    BY <1>4
  <2>7. update'.next <= End
    BY <2>2, <1>3
  <2> QED BY <2>2, <2>4, <2>5, <2>6, <2>7 DEF Fresh
<1>6. HandlerInv'
  BY <1>1, <1>3, InHandler, HandlerQueue DEF HandlerInv, InitPcs, SavePcs
<1>7. AnswerInv'
  <2>1. ASSUME serving.live PROVE Answered("send", update.next)'
    <3>1. Fresh /\ sent' = sent /\ blk.addr = sent /\ blk.size = Block(sent).size
      BY <2>1, <1>1, <1>3, InHandler, HandlerQueue DEF Acked
    <3>2. \A b \in sent .. (sent + Block(sent).size - 1) : flash'[b] = App.crc
      BY <3>1, <1>3, <1>4, AppFacts DEF Range32
    <3>3. sent \in Nat /\ sent' \in Nat /\ Block(sent).size \in Nat /\ Block(sent').size \in Nat
      BY <3>1, <1>3, AppFacts
    <3>4. Programmed(sent, sent + Block(sent).size)'
      BY <3>1, <3>2, <3>3 DEF Programmed
    <3> QED BY <3>4 DEF Answered
  <2> QED BY <1>1, <1>3, <2>1, InHandler, HandlerQueue DEF AnswerInv
<1>8. GroundInv'
  <2>1. ASSUME phase \in Acked PROVE Fresh' /\ Programmed(App.addr, sent)'
    <3>1. Fresh /\ Programmed(App.addr, sent) /\ sent \in App.addr .. End /\ sent' = sent
      BY <2>1, <1>1, InHandler, HandlerQueue
    <3>2. \A b \in App.addr .. (sent - 1) : flash'[b] = App.crc
      BY <3>1, <1>4, AppFacts DEF Programmed
    <3> QED BY <3>1, <3>2, <1>5 DEF Programmed
  <2> QED BY <1>1, <2>1, HandlerQueue
<1> QED BY <1>1, <1>6, <1>7, <1>8, HandlerQueue DEF Rest4

\* A restart during an update with the image keeps what holds it.
LEMMA RestartFresh ==
    ASSUME SessionInv, Restart, Fresh, pc \notin InitPcs
    PROVE  /\ Fresh'
           /\ \A b \in App.addr .. (End - 1) : flash[b] = App.crc => flash'[b] = App.crc
<1>1. /\ flash' \in Survivors /\ update' = Reload /\ eeInfo' = eeInfo
  BY DEF Restart, eeprom
<1>2. pc = "program" \/ flash' = flash
  BY <1>1 DEF Survivors, InitPcs
<1>3. ASSUME NEW b \in App.addr .. (End - 1)
      PROVE  /\ update.initialized => flash'[b] \in {Erased, App.crc}
             /\ flash[b] = App.crc => flash'[b] = App.crc
  <2>1. CASE flash' = flash
    BY <2>1 DEF Fresh
  <2>2. CASE pc = "program"
    <3>1. PICK n \in 0 .. blk.size, beyond \in BOOLEAN : flash' = Burned(n, beyond)
      BY <2>2, <1>1 DEF Survivors
    <3> QED BY <2>2, <3>1, BurnedImage
  <2> QED BY <1>2, <2>1, <2>2
<1>4. Fresh'
  <2>1. eeInfo'["app"] = AppInfo
    BY <1>1 DEF Fresh
  <2>2. CASE ~eeUpdate.initialized
    BY <1>1, <2>1, <2>2 DEF Fresh, Reload, NoUpdate
  <2>3. CASE eeUpdate.initialized
    <3>1. /\ update.initialized /\ update.start = eeUpdate.start /\ update.size = eeUpdate.size
          /\ eeUpdate.next <= update.next
      BY <2>3, LagBound DEF SessionInv
    <3>2. eeUpdate.next \in Nat /\ update.next \in Nat
      BY DEF SessionInv, IInv, TypeOK, UpdateInfo
    <3>3. update' = eeUpdate
      BY <1>1, <2>3 DEF Reload
    <3>4. /\ update.start = App.addr /\ update.size = App.size /\ update.next <= End
          /\ Programmed(App.addr, update.next)
      BY <3>1 DEF Fresh
    <3>5. \A b \in App.addr .. (eeUpdate.next - 1) :
             b \in App.addr .. (update.next - 1) /\ b \in App.addr .. (End - 1)
      BY <3>1, <3>2, <3>4, AppFacts
    <3>6. Programmed(App.addr, update.next)'
      BY <3>3, <3>4, <3>5, <1>3 DEF Programmed
    <3>7. update'.next <= End
      BY <3>1, <3>2, <3>3, <3>4, AppFacts
    <3> QED BY <2>1, <3>1, <3>3, <3>4, <3>6, <3>7, <1>3 DEF Fresh
  <2> QED BY <2>2, <2>3
<1> QED BY <1>3, <1>4

LEMMA CrashInv ==
    ASSUME SessionInv, Crash
    PROVE  Rest4'
<1>1. /\ Restart /\ phase' = phase /\ sent' = sent /\ waiting' = waiting /\ down' = down
      /\ serving' = NoPacket /\ up' \in {up, <<>>} /\ pc' = "idle"
  BY DEF Crash, ground, Restart, Reply
<1>2. QueueInv /\ HandlerInv /\ AnswerInv /\ GroundInv
  BY DEF SessionInv
<1>3. pc \in InitPcs => phase \notin Acked /\ down = NoPacket
  BY InHandler DEF InitPcs, Acked
<1>4. down # NoPacket => pc = "idle" /\ serving = NoPacket
  BY <1>2 DEF QueueInv, HandlerInv
<1>5. pc = "idle" => flash' = flash
  BY <1>1 DEF Restart, Survivors
<1>6. Fresh /\ pc \notin InitPcs =>
        /\ Fresh'
        /\ \A b \in App.addr .. (End - 1) : flash[b] = App.crc => flash'[b] = App.crc
  BY <1>1, RestartFresh
<1>7. QueueInv'
  <2>1. ASSUME NEW p, PacketOK(p) PROVE PacketOK(p)'
    BY <1>1, <2>1 DEF PacketOK
  <2>2. PICK t : t = up'
    OBVIOUS
  <2>3. t \in Seq(Packets) /\ \A i \in DOMAIN t : PacketOK(t[i]) /\ (t[i].live => i = Len(t))
    <3>1. CASE t = up
      BY <3>1, <1>2 DEF QueueInv
    <3>2. CASE t = <<>>
      BY <3>2
    <3> QED BY <1>1, <2>2, <3>1, <3>2
  <2>4. \A i \in DOMAIN t : PacketOK(t[i])' /\ (t[i].live => i = Len(t))
    BY <2>1, <2>3
  <2>5. down # NoPacket => waiting /\ up' = <<>>
    BY <1>1, <1>2 DEF QueueInv
  <2> QED BY <1>1, <2>2, <2>3, <2>4, <2>5 DEF QueueInv
<1>8. HandlerInv'
  BY <1>1 DEF HandlerInv, InitPcs, SavePcs
<1>9. AnswerInv'
  <2>1. ASSUME down # NoPacket, down.status = "NOFAIL" PROVE Answered(phase, down.next)'
    <3>1. Answered(phase, down.next) /\ flash' = flash /\ pc \notin InitPcs
      BY <2>1, <1>2, <1>4, <1>5 DEF AnswerInv, InitPcs
    <3> QED BY <3>1, <1>1, <1>6 DEF Answered, Programmed
  <2> QED BY <1>1, <2>1 DEF AnswerInv
<1>10. GroundInv'
  <2>1. ASSUME phase \in Acked PROVE Fresh' /\ Programmed(App.addr, sent)'
    <3>1. Fresh /\ Programmed(App.addr, sent) /\ sent \in App.addr .. End
      BY <2>1, <1>2 DEF GroundInv
    <3>2. \A b \in App.addr .. (sent - 1) : flash'[b] = App.crc
      BY <2>1, <3>1, <1>3, <1>6, AppFacts DEF Programmed
    <3> QED BY <2>1, <3>1, <3>2, <1>1, <1>3, <1>6 DEF Programmed
  <2>2. ASSUME phase = "done"
        PROVE  Programmed(App.addr, End)' /\ up' = <<>> /\ ~waiting'
    <3>1. Programmed(App.addr, End) /\ up = <<>> /\ serving = NoPacket /\ ~waiting
      BY <2>2, <1>2 DEF GroundInv
    <3>2. flash' = flash
      BY <3>1, <1>2, <1>5 DEF HandlerInv
    <3> QED BY <3>1, <3>2, <1>1 DEF Programmed
  <2> QED BY <1>1, <1>2, <2>1, <2>2 DEF GroundInv
<1> QED BY <1>7, <1>8, <1>9, <1>10 DEF Rest4

-----------------------------------------------------------------------------
(* The theorems                                                            *)

LEMMA SessionStep == SessionInv /\ [SessionNext]_sessionVars => SessionInv'
<1> SUFFICES ASSUME SessionInv, [SessionNext]_sessionVars PROVE SessionInv'
  OBVIOUS
<1>1. IInv'
  BY StepOfUpdater, StepInv DEF SessionInv
<1>2. SUFFICES Rest4'
  BY <1>1 DEF SessionInv, Rest4
<1>3. CASE Send
  BY <1>3, SendInv
<1>4. CASE Take
  BY <1>4, TakeInv
<1>5. CASE Timeout
  BY <1>5, TimeoutInv
<1>6. CASE Serve
  BY <1>6, ServeInit, ServeSend, ServeProgress, ServeVerify DEF Serve
<1>7. CASE Handle
  BY <1>7, EraseImageKeeps, InfoKeeps, BeginKeeps, SaveKeeps, ProgramBlockKeeps DEF Handle
<1>8. CASE SendReply
  BY <1>8, SendReplyInv
<1>9. CASE Crash
  BY <1>9, CrashInv
<1>10. CASE UNCHANGED sessionVars
  <2>1. UNCHANGED vars /\ UNCHANGED <<phase, sent, waiting, up, serving, down>>
    BY <1>10 DEF sessionVars, ground, link
  <2>2. PICK t, q : t = up /\ q = serving
    OBVIOUS
  <2>3. ASSUME NEW p, PacketOK(p) PROVE PacketOK(p)'
    BY <2>1, <2>3 DEF PacketOK
  <2>4. /\ t \in Seq(Packets) /\ \A i \in DOMAIN t : PacketOK(t[i])' /\ (t[i].live => i = Len(t))
        /\ q # NoPacket => PacketOK(q)' /\ (q.live => t = <<>>)
    BY <2>2, <2>3 DEF SessionInv, QueueInv
  <2>5. QueueInv'
    BY <2>1, <2>2, <2>4 DEF SessionInv, QueueInv
  <2>6. HandlerInv'
    BY <2>1, Unchanged DEF SessionInv, HandlerInv
  <2>7. AnswerInv'
    BY <2>1, Unchanged DEF SessionInv, AnswerInv, Answered, Good
  <2>8. GroundInv'
    BY <2>1, Unchanged DEF SessionInv, GroundInv
  <2> QED BY <2>5, <2>6, <2>7, <2>8 DEF Rest4
<1> QED BY <1>3, <1>4, <1>5, <1>6, <1>7, <1>8, <1>9, <1>10 DEF SessionNext

LEMMA SessionStart == SessionInit => SessionInv
<1> SUFFICES ASSUME SessionInit PROVE SessionInv
  OBVIOUS
<1>1. IInv
  BY SessionInitInv
<1>2. QueueInv /\ HandlerInv /\ AnswerInv
  BY DEF SessionInit, QueueInv, HandlerInv, AnswerInv, InitPcs, SavePcs
<1>3. GroundInv
  <2>1. sent \in App.addr .. End /\ phase = "init" /\ waiting = FALSE
    BY AppFacts DEF SessionInit
  <2> QED BY <2>1 DEF GroundInv, Acked
<1> QED BY <1>1, <1>2, <1>3 DEF SessionInv

THEOREM SessionHolds == SessionSpec => []SessionInv
BY SessionStart, SessionStep, PTL DEF SessionSpec

\* In a session, too, every step of the service is one of the updater: what is
\* proved of the updater's invariant holds behind the link.
THEOREM UpdaterInSession == SessionSpec => [][Next]_vars
<1>1. SessionInv /\ [SessionNext]_sessionVars => [Next]_vars
  BY StepOfUpdater DEF SessionInv
<1> QED BY <1>1, SessionHolds, PTL DEF SessionSpec

\* The bytes below the address the ground has come to hold the image, from the
\* first acknowledged block on: whatever is lost, late, repeated or restarted.
THEOREM AckedHolds == SessionSpec => []AckedIsProgrammed
<1>1. SessionInv => AckedIsProgrammed
  BY DEF SessionInv, GroundInv, Acked, Programmed, AckedIsProgrammed
<1> QED BY <1>1, SessionHolds, PTL

\* When the ground is done the application on board is the one it sent.
THEOREM GroundIsRight == SessionSpec => []GroundKnows
<1>1. SessionInv => GroundKnows
  <2> SUFFICES ASSUME SessionInv, phase = "done"
               PROVE  /\ [addr |-> eeInfo["app"].addr, size |-> eeInfo["app"].size,
                          crc |-> eeInfo["app"].crc] = App
                      /\ \A b \in App.addr .. (End - 1) : flash[b] = App.crc
                      /\ pc = "idle" /\ up = <<>>
    BY DEF GroundKnows
  <2>1. eeInfo["app"] = AppInfo /\ Programmed(App.addr, End) /\ up = <<>> /\ serving = NoPacket
    BY DEF SessionInv, GroundInv, Acked, Fresh
  <2>2. pc = "idle"
    BY <2>1 DEF SessionInv, HandlerInv
  <2>3. App \in [addr : Nat, size : Nat, crc : Images]
    BY SessionAssumption, UpdaterAssumption
  <2>4. [addr |-> eeInfo["app"].addr, size |-> eeInfo["app"].size, crc |-> eeInfo["app"].crc] = App
    BY <2>1, <2>3 DEF AppInfo
  <2> QED BY <2>1, <2>2, <2>4 DEF Programmed
<1> QED BY <1>1, SessionHolds, PTL

=============================================================================
