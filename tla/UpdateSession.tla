---------------------------- MODULE UpdateSession ---------------------------
(***************************************************************************)
(* An update of the application over the link: the service of Updater      *)
(* behind the packet loop of updater_service, and a ground that works by   *)
(* the reply codes.  Requests wait in order in the queues of the           *)
(* connections; a request or a reply may be lost, a block damaged, a reply *)
(* may come after the ground has given its connection up, and a restart    *)
(* may come between any two writes.  After finitely many such faults the   *)
(* update must end.                                                        *)
(*                                                                         *)
(* The ground is not in the repository: what it does is the least that the *)
(* replies of the service call for.                                        *)
(***************************************************************************)
EXTENDS Updater, Sequences

CONSTANTS
    App,        \* the request for the image to be sent: [addr, size, crc]
    BlockSize,  \* bytes of a block but the last
    Earlier,    \* progress records an earlier session may have left
    NoPacket,   \* no packet
    MaxFaults   \* bound: faults of the link and restarts

End == App.addr + App.size

\* An application, in flash; and records the service has written.
ASSUME SessionAssumption ==
    /\ App \in Requests /\ App.size > 0 /\ BlockSize \in 1 .. MaxBlock
    /\ App.addr >= AppMin /\ App.addr .. (End - 1) \subseteq MainBytes
    /\ MaxFaults \in Nat
    /\ Earlier \subseteq [initialized : {TRUE}, start : Nat, next : Nat, size : Nat, crc : Images]
    /\ \A u \in Earlier :
          /\ StartAddrCheck(u.start, u.size) /\ u.start + u.size < Word
          /\ u.start <= u.next /\ u.next # u.start + u.size

VARIABLES
    phase,      \* what the ground is doing
    sent,       \* the next address the ground has to send
    waiting,    \* it waits for a reply
    up,         \* requests, in order; not live if their connection was given up
    serving,    \* the request the service has read
    down,       \* the reply on the way
    faults      \* faults so far

ground == <<phase, sent, waiting>>
link == <<up, serving, down>>
sessionVars == <<vars, ground, link, faults>>

SessionInit ==
    /\ flash = [b \in MainBytes |-> Garbage]
    /\ eeInfo = [s \in Slots |-> NoImage]
    /\ eeUpdate \in {NoUpdate} \cup Earlier /\ update = eeUpdate /\ counter = 0
    /\ pc = "idle" /\ req = NoReq /\ blk = NoBlock /\ status = "none"
    /\ superseded = FALSE /\ resumed = TRUE /\ epoch = FALSE
    /\ phase = "init" /\ sent = App.addr /\ waiting = FALSE
    /\ up = <<>> /\ serving = NoPacket /\ down = NoPacket /\ faults = 0

Fault == faults < MaxFaults /\ faults' = faults + 1
NoFault == UNCHANGED faults

-----------------------------------------------------------------------------
(* The ground                                                              *)

Block(a) ==
    [addr |-> a, size |-> IF a + BlockSize <= End THEN BlockSize ELSE End - a,
     data |-> App.crc, crc |-> App.crc]

\* The packets of the session.
Packets == [kind : {"init", "send", "progress", "verify"}, live : BOOLEAN, blk : Blocks \cup {NoBlock}]

ASSUME PacketsAssumption ==
    /\ \A a \in App.addr .. (End - 1) : {Block(a), [Block(a) EXCEPT !.data = Garbage]} \subseteq Blocks
    /\ NoPacket \notin Packets

Request ==
    [kind |-> phase, live |-> TRUE, blk |-> IF phase = "send" THEN Block(sent) ELSE NoBlock]

Send ==
    /\ phase # "done" /\ ~waiting
    /\ \/ up' = Append(up, Request) /\ NoFault
       \/ UNCHANGED up /\ Fault
       \/ phase = "send" /\ up' = Append(up, [Request EXCEPT !.blk.data = Garbage]) /\ Fault
    /\ waiting' = TRUE
    /\ UNCHANGED <<vars, phase, sent, serving, down>>

\* What the ground does next when a reply comes.
NextPhase(reply) ==
    CASE phase = "init"     -> IF reply.status = "NOFAIL" THEN "send" ELSE "init"
      [] phase = "send"     -> IF reply.status = "NOFAIL"
                               THEN IF sent + Block(sent).size = End THEN "verify" ELSE "send"
                               ELSE "progress"
      [] phase = "progress" -> IF reply.status # "NOFAIL" THEN "verify"
                               ELSE IF reply.start = App.addr /\ reply.crc = App.crc THEN "send" ELSE "init"
      [] phase = "verify"   -> IF reply.status = "NOFAIL" THEN "done" ELSE "init"

Take ==
    /\ down # NoPacket
    /\ phase' = NextPhase(down)
    /\ sent' = CASE phase' = "init" \/ phase = "init" -> App.addr
                 [] phase = "send" /\ down.status = "NOFAIL" -> sent + Block(sent).size
                 [] phase = "progress" /\ phase' = "send" -> down.next
                 [] OTHER -> sent
    /\ waiting' = FALSE /\ down' = NoPacket
    /\ UNCHANGED <<vars, up, serving, faults>>

Live(p) == p # NoPacket /\ p.live
Pending == Live(serving) \/ down # NoPacket \/ \E i \in DOMAIN up : up[i].live
GivenUp(p) == IF p = NoPacket THEN p ELSE [p EXCEPT !.live = FALSE]

\* The ground gives the connection up: too early, or because nothing is left
\* that could answer.
Timeout ==
    /\ waiting
    /\ IF Pending THEN Fault ELSE NoFault
    /\ phase' = IF phase = "send" THEN "progress" ELSE phase
    /\ waiting' = FALSE
    /\ up' = [i \in DOMAIN up |-> GivenUp(up[i])]
    /\ serving' = GivenUp(serving) /\ down' = NoPacket
    /\ UNCHANGED <<vars, sent>>

-----------------------------------------------------------------------------
(* The packet loop of updater_service                                      *)

\* csp_read gives the next packet to updater_app.
Read(kind) ==
    /\ serving = NoPacket /\ up # <<>> /\ Head(up).kind = kind
    /\ serving' = Head(up) /\ up' = Tail(up)
    /\ UNCHANGED <<ground, down, faults>>

Serve ==
    \/ Read("init") /\ InitializeUpdate(App)
    \/ Read("send") /\ ReceiveBlock(Head(up).blk)
    \/ Read("progress") /\ GetProgress
    \/ Read("verify") /\ VerifyImage("app")

\* A step of the handler; a failed erase is a fault.
Handle ==
    /\ \/ EraseImage /\ IF status' = "ERASEFAILED" THEN Fault ELSE NoFault
       \/ NoFault /\ \/ InfoErase \/ InfoHead \/ InfoTail
                     \/ BeginUpdate \/ SaveProgress \/ FinishUpdate \/ SaveHead \/ SaveTail
                     \/ ProgramBlock
    /\ UNCHANGED <<ground, link>>

\* csp_send: the reply is lost, or its connection is gone, or it is on its way.
SendReply ==
    /\ pc = "idle" /\ serving # NoPacket
    /\ \/ /\ down' = IF serving.live
                     THEN [status |-> status, start |-> update.start, next |-> update.next, crc |-> update.crc]
                     ELSE down
          /\ NoFault
       \/ serving.live /\ UNCHANGED down /\ Fault
    /\ serving' = NoPacket
    /\ UNCHANGED <<vars, ground, up>>

\* A restart loses the packet in work, and may lose those in the queues.
Crash ==
    /\ Restart /\ Fault
    /\ serving' = NoPacket /\ up' \in {up, <<>>}
    /\ UNCHANGED <<ground, down>>

-----------------------------------------------------------------------------
SessionNext == Send \/ Take \/ Timeout \/ Serve \/ Handle \/ SendReply \/ Crash

\* The service task is scheduled, the ground goes on, replies arrive.
SessionFairness ==
    /\ WF_sessionVars(Serve) /\ WF_sessionVars(Handle) /\ WF_sessionVars(SendReply)
    /\ WF_sessionVars(Send) /\ WF_sessionVars(Take)
    /\ WF_sessionVars(Timeout /\ ~Pending)

SessionSpec == SessionInit /\ [][SessionNext]_sessionVars /\ SessionFairness
-----------------------------------------------------------------------------
\* What the ground believes to be on board is: the bytes below `sent' hold the
\* image from the first acknowledged block on, although replies are lost or
\* late, blocks come twice and restarts take the progress back.
AckedIsProgrammed ==
    phase \in {"send", "progress", "verify", "done"} =>
        \A b \in App.addr .. (sent - 1) : flash[b] = App.crc

\* When the ground is done, the image on board is the one it sent: no request
\* it gave up can come after and spoil it.
GroundKnows ==
    phase = "done" =>
        /\ [addr |-> eeInfo["app"].addr, size |-> eeInfo["app"].size, crc |-> eeInfo["app"].crc] = App
        /\ \A b \in App.addr .. (End - 1) : flash[b] = App.crc
        /\ pc = "idle" /\ up = <<>>

\* The update ends, whatever progress an earlier session left and wherever the
\* faults strike: the replies always show the ground a way on.
UpdateCompletes == <>(phase = "done")

=============================================================================
