------------------------------ MODULE I2cProofs ------------------------------
(***************************************************************************)
(* For every number of tasks, length of a transfer and set of failures: a  *)
(* call leaves nothing behind unless a call timed out or another master    *)
(* took the bus, a call that had a quiet bus for itself tells the truth,   *)
(* and no call moves more bytes than its buffer has.                       *)
(***************************************************************************)
EXTENDS I2cDriver, FiniteSetTheorems, TLAPS

-----------------------------------------------------------------------------
(* The inductive invariant                                                 *)

Device == [on : BOOLEAN, dir : {"rx", "tx"}, left : Nat, loaded : BOOLEAN,
           halted : BOOLEAN, stop : BOOLEAN, lost : BOOLEAN]

Results == {"ok", "failed", "timeout"}

Types ==
    /\ pc \in [Tasks -> Places] /\ ret \in [Tasks -> Results] /\ i2c_mutex \in Tasks \cup {Nobody}
    /\ i2c_block \in BOOLEAN /\ hadFailure \in BOOLEAN /\ expecting_scd \in BOOLEAN
    /\ transfer \in [owner : Tasks \cup {Nobody}, length : Nat]
    /\ dev \in Device /\ pend \in [FlagSet -> Nat]
    /\ call \in Nat /\ moved \in Nat /\ clean \in BOOLEAN /\ troubled \in BOOLEAN

\* Whoever is between the mutex and its release holds it.
Inside == {"setup", "block", "clear", "expect", "give"}
Exclusive == \A t \in Tasks : pc[t] \in Inside <=> i2c_mutex = t

\* Only a task that waits for the end of its transfer may find the bus or the
\* flags in use, and not once the semaphore is given.
InUse ==
    /\ pend["scd"] # 0 => ~dev.on
    /\ i2c_block => ~dev.on /\ pend = NoFlags /\ ~expecting_scd

Blocked == \E t \in Tasks : pc[t] = "block"

QuietInv == ~troubled => ~dev.lost /\ IF Blocked THEN InUse ELSE Quiet

\* The bytes that were moved, with the one that was received and not read.
Got == moved + IF pend["rx"] # 0 THEN 1 ELSE 0

\* The other end has refused, and the handler knows or will know.
Failing == hadFailure \/ pend["nack"] # 0 \/ pend["ardy"] # 0

OnBus ==
    /\ pend["scd"] = 0
    /\ dev.left <= Size /\ Got = Size - dev.left
    /\ dev.halted <=> Failing
    /\ dev.halted => dev.left > 0
    /\ dev.stop => dev.halted
    /\ dev.dir = "rx" => pend["tx"] = 0 /\ transfer.length = Size - moved
    /\ dev.dir = "tx" => pend["rx"] = 0

\* A transfer that began on a quiet bus.
TransferInv ==
    /\ call > 0 /\ pend["al"] = 0 /\ ~dev.lost
    /\ pend["rx"] # 0 => pend["rx"] = call /\ pend["tx"] = 0 /\ transfer.length > 0
    /\ i2c_block => ~dev.on /\ pend = NoFlags
    /\ dev.on => OnBus
    /\ ~dev.on => IF Failing THEN Got < Size ELSE Got = Size

EndedInv(t) ==
    /\ ~dev.on /\ ~dev.lost /\ pend = NoFlags
    /\ ret[t] = "ok" => moved = Size
    /\ ret[t] = "failed" => moved < Size

ResultInv ==
    clean => \A t \in Tasks :
        /\ pc[t] = "block" => TransferInv
        /\ Ended(t) /\ ret[t] # "timeout" => EndedInv(t)

IInv == Types /\ Exclusive /\ QuietInv /\ ResultInv

-----------------------------------------------------------------------------
(* The flags                                                               *)

LEMMA FlagNames == FlagSet = {"al", "nack", "ardy", "rx", "tx", "scd"}
<1>1. DOMAIN Flags = 1 .. 6
  BY DEF Flags
<1>2. /\ Flags[1] = "al" /\ Flags[2] = "nack" /\ Flags[3] = "ardy"
      /\ Flags[4] = "rx" /\ Flags[5] = "tx" /\ Flags[6] = "scd"
  BY DEF Flags
<1>3. \A k \in 1 .. 6 : k = 1 \/ k = 2 \/ k = 3 \/ k = 4 \/ k = 5 \/ k = 6
  OBVIOUS
<1> QED
  BY <1>1, <1>2, <1>3 DEF FlagSet

\* What a step of the handler does to the flags; the stop condition comes last.
LEMMA HandleFacts ==
    ASSUME NEW f \in FlagSet, Types, Handle(f)
    PROVE  /\ pend[f] # 0 /\ pend' \in [FlagSet -> Nat]
           /\ pend'[f] = 0 /\ \A g \in FlagSet : g # f => pend'[g] = pend[g]
           /\ f = "scd" => pend' = NoFlags
<1>1. /\ pend[f] # 0 /\ pend' = [pend EXCEPT ![f] = 0]
  BY DEF Handle
<1>2. /\ pend' \in [FlagSet -> Nat]
      /\ pend'[f] = 0 /\ \A g \in FlagSet : g # f => pend'[g] = pend[g]
  BY <1>1 DEF Types
<1>3. ASSUME f = "scd"
      PROVE  pend' = NoFlags
  <2>1. /\ DOMAIN Flags = 1 .. 6
        /\ Flags[1] = "al" /\ Flags[2] = "nack" /\ Flags[3] = "ardy"
        /\ Flags[4] = "rx" /\ Flags[5] = "tx" /\ Flags[6] = "scd"
    BY DEF Flags
  <2>2. \A k \in 1 .. 6 : pend[Flags[k]] # 0 => \E j \in 1 .. 6 : Flags[j] = "scd" /\ j <= k
    BY <1>3, <2>1 DEF Handle
  <2>3. \A j \in 1 .. 6 : Flags[j] = "scd" => j = 6
    <3>1. \A k \in 1 .. 6 : k = 1 \/ k = 2 \/ k = 3 \/ k = 4 \/ k = 5 \/ k = 6
      OBVIOUS
    <3> QED
      BY <2>1, <3>1
  <2>4. \A k \in 1 .. 5 : pend[Flags[k]] = 0
    BY <2>2, <2>3
  <2>5. \A g \in FlagSet : pend'[g] = 0
    <3>1. pend["al"] = 0 /\ pend["nack"] = 0 /\ pend["ardy"] = 0 /\ pend["rx"] = 0 /\ pend["tx"] = 0
      BY <2>1, <2>4
    <3> QED
      BY <1>2, <1>3, <3>1, FlagNames
  <2> QED
    BY <1>2, <2>5 DEF NoFlags
<1> QED
  BY <1>1, <1>2, <1>3

LEMMA RaiseFacts ==
    ASSUME NEW fs, Types, Raise(fs)
    PROVE  /\ pend' \in [FlagSet -> Nat]
           /\ \A f \in FlagSet : pend'[f] = IF f \in fs THEN call ELSE pend[f]
BY DEF Raise, Types

LEMMA NoFlagsFacts == NoFlags \in [FlagSet -> Nat] /\ \A f \in FlagSet : NoFlags[f] = 0
BY DEF NoFlags

LEMMA OffFacts ==
    Off \in Device /\ ~Off.on /\ ~Off.lost /\ ~Off.halted /\ ~Off.stop
BY DEF Off, Device

-----------------------------------------------------------------------------
(* Types and the mutex                                                     *)

LEMMA GotoFacts ==
    ASSUME Types, NEW t \in Tasks, NEW l \in Places, Goto(t, l)
    PROVE  /\ pc' \in [Tasks -> Places]
           /\ pc'[t] = l /\ \A u \in Tasks : u # t => pc'[u] = pc[u]
BY DEF Types, Goto

LEMMA InitTypes == Init => Types /\ Exclusive
<1> SUFFICES ASSUME Init PROVE Types /\ Exclusive
  OBVIOUS
<1>1. pc \in [Tasks -> Places] /\ ret \in [Tasks -> Results] /\ Exclusive
  BY I2cAssumption DEF Init, Exclusive, Inside, Places, Results
<1>2. dev \in Device /\ pend \in [FlagSet -> Nat]
  BY NoFlagsFacts, OffFacts DEF Init
<1> QED
  BY <1>1, <1>2 DEF Init, Types

LEMMA NextTypes ==
    ASSUME Types, Exclusive, [Next]_vars
    PROVE  Types' /\ Exclusive'
<1> USE DEF Inside, Places, Results
<1> Size \in Nat /\ Nobody \notin Tasks
  BY I2cAssumption
<1>1. ASSUME NEW t \in Tasks, Call(t)
      PROVE  Types' /\ Exclusive'
  <2>1. /\ pc' \in [Tasks -> Places]
        /\ pc'[t] = "mutex" /\ \A u \in Tasks : u # t => pc'[u] = pc[u]
    BY <1>1 DEF Call, Goto, Types
  <2>2. Exclusive'
    BY <1>1, <2>1 DEF Call, Exclusive
  <2> QED
    BY <1>1, <2>1, <2>2 DEF Call, Types, static, device, history
<1>2. ASSUME NEW t \in Tasks, TakeMutex(t)
      PROVE  Types' /\ Exclusive'
  <2>1. /\ pc' \in [Tasks -> Places]
        /\ pc'[t] = "setup" /\ \A u \in Tasks : u # t => pc'[u] = pc[u]
    BY <1>2 DEF TakeMutex, Goto, Types
  <2>2. Exclusive'
    BY <1>2, <2>1 DEF TakeMutex, Exclusive
  <2> QED
    BY <1>2, <2>1, <2>2 DEF TakeMutex, Types, static, device, history
<1>3. ASSUME NEW t \in Tasks, MutexTimeout(t)
      PROVE  Types' /\ Exclusive'
  <2>1. /\ pc' \in [Tasks -> Places]
        /\ pc'[t] = "idle" /\ \A u \in Tasks : u # t => pc'[u] = pc[u]
    BY <1>3 DEF MutexTimeout, Goto, Types
  <2>2. Exclusive'
    BY <1>3, <2>1 DEF MutexTimeout, Exclusive
  <2> QED
    BY <1>3, <2>1, <2>2 DEF MutexTimeout, Types, static, device, history
<1>4. ASSUME NEW t \in Tasks, NEW dir \in {"rx", "tx"}, Setup(t, dir)
      PROVE  Types' /\ Exclusive'
  <2> DEFINE kept == [f \in FlagSet |-> IF dir = "rx" /\ f \in {"al", "nack"} THEN 0 ELSE pend[f]]
  <2>1. pend' \in [FlagSet -> Nat]
    <3>1. kept \in [FlagSet -> Nat]
      BY DEF Types
    <3>2. pend' = kept \/ pend' = [kept EXCEPT !["scd"] = call]
      BY <1>4 DEF Setup
    <3> HIDE DEF kept
    <3> QED
      BY <3>1, <3>2 DEF Types
  <2>2. dev' \in Device
    BY <1>4 DEF Setup, Off, Device
  <2>3. transfer' \in [owner : Tasks \cup {Nobody}, length : Nat]
    BY <1>4, I2cAssumption DEF Setup
  <2>4. /\ call' \in Nat /\ moved' \in Nat /\ clean' \in BOOLEAN /\ troubled' \in BOOLEAN
        /\ i2c_block' \in BOOLEAN /\ hadFailure' \in BOOLEAN /\ expecting_scd' \in BOOLEAN
    BY <1>4 DEF Setup, Types, Quiet
  <2>5. /\ pc' \in [Tasks -> Places]
        /\ pc'[t] = "block" /\ \A u \in Tasks : u # t => pc'[u] = pc[u]
    BY <1>4 DEF Setup, Goto, Types
  <2>6. ret' \in [Tasks -> Results] /\ i2c_mutex' \in Tasks \cup {Nobody} /\ Exclusive'
    BY <1>4, <2>5 DEF Setup, Types, Exclusive
  <2> QED
    BY <2>1, <2>2, <2>3, <2>4, <2>5, <2>6 DEF Types
<1>5. ASSUME NEW t \in Tasks, TakeBlock(t)
      PROVE  Types' /\ Exclusive'
  <2>1. /\ pc' \in [Tasks -> Places]
        /\ pc'[t] = "clear" /\ \A u \in Tasks : u # t => pc'[u] = pc[u]
    BY <1>5 DEF TakeBlock, Goto, Types
  <2>2. Exclusive'
    BY <1>5, <2>1 DEF TakeBlock, Exclusive
  <2> QED
    BY <1>5, <2>1, <2>2 DEF TakeBlock, Types, device, history
<1>6. ASSUME NEW t \in Tasks, BlockTimeout(t)
      PROVE  Types' /\ Exclusive'
  <2>1. dev' \in Device
    BY <1>6 DEF BlockTimeout, SetStop, Types, Device
  <2>2. /\ pc' \in [Tasks -> Places]
        /\ pc'[t] = "clear" /\ \A u \in Tasks : u # t => pc'[u] = pc[u]
    BY <1>6 DEF BlockTimeout, Goto, Types
  <2>3. Exclusive'
    BY <1>6, <2>2 DEF BlockTimeout, Exclusive
  <2> QED
    BY <1>6, <2>1, <2>2, <2>3 DEF BlockTimeout, Types, static
<1>7. ASSUME NEW t \in Tasks, ClearScd(t)
      PROVE  Types' /\ Exclusive'
  <2>1. /\ pc' \in [Tasks -> Places]
        /\ pc'[t] = "expect" /\ \A u \in Tasks : u # t => pc'[u] = pc[u]
    BY <1>7 DEF ClearScd, Goto, Types
  <2>2. Exclusive'
    BY <1>7, <2>1 DEF ClearScd, Exclusive
  <2> QED
    BY <1>7, <2>1, <2>2 DEF ClearScd, Types, static, history
<1>8. ASSUME NEW t \in Tasks, StopExpecting(t)
      PROVE  Types' /\ Exclusive'
  <2>1. /\ pc' \in [Tasks -> Places]
        /\ pc'[t] = "give" /\ \A u \in Tasks : u # t => pc'[u] = pc[u]
    BY <1>8 DEF StopExpecting, Goto, Types
  <2>2. Exclusive'
    BY <1>8, <2>1 DEF StopExpecting, Exclusive
  <2> QED
    BY <1>8, <2>1, <2>2 DEF StopExpecting, Types, device, history
<1>9. ASSUME NEW t \in Tasks, GiveMutex(t)
      PROVE  Types' /\ Exclusive'
  <2>1. /\ pc' \in [Tasks -> Places]
        /\ pc'[t] = "idle" /\ \A u \in Tasks : u # t => pc'[u] = pc[u]
    BY <1>9 DEF GiveMutex, Goto, Types
  <2>2. Exclusive'
    BY <1>9, <2>1 DEF GiveMutex, Exclusive
  <2> QED
    BY <1>9, <2>1, <2>2 DEF GiveMutex, Types, static, device, history
<1>10. CASE NotifyRefused
  <2>1. pend' \in [FlagSet -> Nat]
    BY <1>10, HandleFacts, FlagNames DEF NotifyRefused
  <2>2. dev' \in Device
    BY <1>10 DEF NotifyRefused, SetStop, Types, Device
  <2> QED
    BY <1>10, <2>1, <2>2 DEF NotifyRefused, Types, Exclusive, task, history
<1>11. CASE NotifyArbitration
  <2>1. pend' \in [FlagSet -> Nat]
    BY <1>11, HandleFacts, FlagNames DEF NotifyArbitration
  <2>2. dev' \in Device
    BY <1>11 DEF NotifyArbitration, SetStop, Types, Device
  <2> QED
    BY <1>11, <2>1, <2>2 DEF NotifyArbitration, Types, Exclusive, task, static, history
<1>12. ASSUME NEW f \in {"rx", "tx"}, Shift(f)
       PROVE  Types' /\ Exclusive'
  <2>1. pend' \in [FlagSet -> Nat]
    BY <1>12, HandleFacts, FlagNames DEF Shift
  <2>2. dev' \in Device
    BY <1>12 DEF Shift, Types, Device
  <2>3. transfer' \in [owner : Tasks \cup {Nobody}, length : Nat]
    BY <1>12 DEF Shift, Types
  <2>4. moved' \in Nat
    BY <1>12 DEF Shift, Types
  <2> QED
    BY <1>12, <2>1, <2>2, <2>3, <2>4 DEF Shift, Types, Exclusive, task
<1>13. CASE NotifyStop
  <2>1. pend' \in [FlagSet -> Nat]
    BY <1>13, HandleFacts, FlagNames DEF NotifyStop
  <2> QED
    BY <1>13, <2>1 DEF NotifyStop, Types, Exclusive, task, history
<1>14. CASE Move
  <2>1. pend' \in [FlagSet -> Nat]
    BY <1>14, RaiseFacts DEF Move
  <2>2. dev.left > 0 /\ dev \in Device /\ moved \in Nat
    BY <1>14 DEF Move, Types
  <2>3. dev.left - 1 \in Nat /\ moved + 1 \in Nat
    BY <2>2 DEF Device
  <2>4. dev' \in Device /\ moved' \in Nat
    BY <1>14, <2>2, <2>3 DEF Move, Device
  <2> QED
    BY <1>14, <2>1, <2>4 DEF Move, Types, Exclusive, task, static
<1>15. CASE Stop \/ OtherStop
  <2>1. pend' \in [FlagSet -> Nat] /\ dev' \in Device
    BY <1>15, RaiseFacts, OffFacts DEF Stop, OtherStop
  <2> QED
    BY <1>15, <2>1 DEF Stop, OtherStop, Types, Exclusive, task, static, history
<1>16. CASE Refused
  <2>1. pend' \in [FlagSet -> Nat]
    BY <1>16, RaiseFacts DEF Refused
  <2>2. dev' \in Device
    BY <1>16 DEF Refused, Types, Device
  <2> QED
    BY <1>16, <2>1, <2>2 DEF Refused, Types, Exclusive, task, static, history
<1>17. CASE LoseArbitration
  <2>1. pend' \in [FlagSet -> Nat]
    BY <1>17, RaiseFacts DEF LoseArbitration
  <2>2. dev' \in Device
    BY <1>17 DEF LoseArbitration, Off, Device
  <2> QED
    BY <1>17, <2>1, <2>2 DEF LoseArbitration, Types, Exclusive, task, static
<1>18. CASE UNCHANGED vars
  BY <1>18 DEF vars, task, static, device, history, Types, Exclusive
<1> QED
  BY <1>1, <1>2, <1>3, <1>4, <1>5, <1>6, <1>7, <1>8, <1>9, <1>10, <1>11, <1>12, <1>13,
     <1>14, <1>15, <1>16, <1>17, <1>18 DEF Next, InCall, Interrupt

-----------------------------------------------------------------------------
(* The bounds                                                              *)

\* The tasks that will start a transfer are counted before they do.
BeforeStart == {u \in Tasks : pc[u] \in {"mutex", "setup"}}
CallsInv == call + Cardinality(BeforeStart) <= MaxCalls /\ \A f \in FlagSet : pend[f] <= call

\* What is moved, received and still to come is no more than the transfer; a
\* byte of an earlier call that comes late is counted for no one.
Unread == IF pend["rx"] # 0 /\ pend["rx"] = call THEN 1 ELSE 0
BytesInv == transfer.length <= Size /\ (~dev.on => dev.left = 0) /\ moved + dev.left + Unread <= Size

ExpectInv == expecting_scd => \E t \in Tasks : i2c_mutex = t /\ pc[t] \in {"block", "clear", "expect"}

Bounds == CallsInv /\ BytesInv /\ ExpectInv

LEMMA BeforeStartFacts ==
    /\ IsFiniteSet(BeforeStart) /\ Cardinality(BeforeStart) \in Nat
    /\ \A t : /\ t \notin BeforeStart => Cardinality(BeforeStart \cup {t}) = Cardinality(BeforeStart) + 1
              /\ t \in BeforeStart => Cardinality(BeforeStart \ {t}) = Cardinality(BeforeStart) - 1
<1>1. IsFiniteSet(BeforeStart)
  BY I2cAssumption, FS_Subset DEF BeforeStart
<1> QED
  BY <1>1, FS_CardinalityType, FS_AddElement, FS_RemoveElement

\* A task goes from one place to another: the number of those that will start a
\* transfer changes as it enters or leaves them.
LEMMA BeforeStartGoes ==
    ASSUME Types, NEW t \in Tasks, NEW l \in Places, Goto(t, l)
    PROVE  /\ pc' \in [Tasks -> Places] /\ pc'[t] = l /\ \A u \in Tasks : u # t => pc'[u] = pc[u]
           /\ LET before == pc[t] \in {"mutex", "setup"}
                  after == l \in {"mutex", "setup"}
              IN /\ before <=> after => Cardinality(BeforeStart') = Cardinality(BeforeStart)
                 /\ ~before /\ after => Cardinality(BeforeStart') = Cardinality(BeforeStart) + 1
                 /\ before /\ ~after => Cardinality(BeforeStart') = Cardinality(BeforeStart) - 1
<1>1. pc' \in [Tasks -> Places] /\ pc'[t] = l /\ \A u \in Tasks : u # t => pc'[u] = pc[u]
  BY GotoFacts
<1>2. CASE pc[t] \in {"mutex", "setup"} <=> l \in {"mutex", "setup"}
  <2>1. BeforeStart' = BeforeStart
    BY <1>1, <1>2 DEF BeforeStart
  <2> QED
    BY <1>1, <1>2, <2>1
<1>3. CASE pc[t] \notin {"mutex", "setup"} /\ l \in {"mutex", "setup"}
  <2>1. BeforeStart' = BeforeStart \cup {t} /\ t \notin BeforeStart
    BY <1>1, <1>3 DEF BeforeStart
  <2> QED
    BY <1>1, <1>3, <2>1, BeforeStartFacts
<1>4. CASE pc[t] \in {"mutex", "setup"} /\ l \notin {"mutex", "setup"}
  <2>1. BeforeStart' = BeforeStart \ {t} /\ t \in BeforeStart
    BY <1>1, <1>4 DEF BeforeStart
  <2> QED
    BY <1>1, <1>4, <2>1, BeforeStartFacts
<1> QED
  BY <1>2, <1>3, <1>4

LEMMA InitBounds == Init => Bounds
<1> SUFFICES ASSUME Init PROVE Bounds
  OBVIOUS
<1>1. BeforeStart = {}
  BY DEF Init, BeforeStart
<1>2. Cardinality(BeforeStart) = 0
  BY <1>1, FS_EmptySet
<1>3. CallsInv
  BY <1>2, I2cAssumption, NoFlagsFacts DEF Init, CallsInv
<1>4. Unread = 0
  BY NoFlagsFacts, FlagNames DEF Init, Unread
<1>5. dev.left = 0 /\ transfer.length = 0 /\ moved = 0 /\ ~dev.on
  BY DEF Init, Off
<1>6. BytesInv
  BY <1>4, <1>5, I2cAssumption DEF BytesInv
<1> QED
  BY <1>3, <1>6 DEF Init, Bounds, ExpectInv

\* The calls: a transfer that starts was counted before.
LEMMA NextCalls ==
    ASSUME Types, Exclusive, CallsInv, [Next]_vars
    PROVE  CallsInv'
<1>1. call \in Nat /\ MaxCalls \in Nat /\ Cardinality(BeforeStart) \in Nat /\ \A f \in FlagSet : pend[f] \in Nat
  BY I2cAssumption, BeforeStartFacts DEF Types
<1>2. call + Cardinality(BeforeStart) <= MaxCalls /\ \A f \in FlagSet : pend[f] <= call
  BY DEF CallsInv
<1>3. ASSUME NEW t \in Tasks, NEW l \in Places, Goto(t, l), call' = call,
             \A f \in FlagSet : pend'[f] <= call,
             (pc[t] \notin {"mutex", "setup"} /\ l \in {"mutex", "setup"}) => call + Cardinality(BeforeStart) < MaxCalls
      PROVE  CallsInv'
  <2>1. Cardinality(BeforeStart') <= Cardinality(BeforeStart)
        \/ (Cardinality(BeforeStart') = Cardinality(BeforeStart) + 1 /\ call + Cardinality(BeforeStart) < MaxCalls)
    BY <1>1, <1>3, BeforeStartGoes
  <2>2. Cardinality(BeforeStart') \in Int
    BY <1>1, <1>3, BeforeStartGoes
  <2> QED
    BY <1>1, <1>2, <1>3, <2>1, <2>2 DEF CallsInv
<1>4. ASSUME pc' = pc, call' = call, \A f \in FlagSet : pend'[f] <= call
      PROVE  CallsInv'
  BY <1>2, <1>4 DEF CallsInv, BeforeStart
<1>5. ASSUME NEW t \in Tasks, Call(t)
      PROVE  CallsInv'
  BY <1>2, <1>3, <1>5 DEF Call, BeforeStart, device, history, Places
<1>6. ASSUME NEW t \in Tasks, TakeMutex(t) \/ MutexTimeout(t) \/ StopExpecting(t) \/ GiveMutex(t)
      PROVE  CallsInv'
  BY <1>2, <1>3, <1>6 DEF TakeMutex, MutexTimeout, StopExpecting, GiveMutex, device, history, Places
<1>7. ASSUME NEW t \in Tasks, TakeBlock(t) \/ BlockTimeout(t)
      PROVE  CallsInv'
  BY <1>2, <1>3, <1>7 DEF TakeBlock, BlockTimeout, device, history, Places
<1>8. ASSUME NEW t \in Tasks, ClearScd(t)
      PROVE  CallsInv'
  <2>1. \A f \in FlagSet : pend'[f] <= call
    BY <1>1, <1>2, <1>8 DEF ClearScd, Types
  <2> QED
    BY <1>3, <1>8, <2>1 DEF ClearScd, history, Places
<1>9. ASSUME NEW t \in Tasks, NEW dir \in {"rx", "tx"}, Setup(t, dir)
      PROVE  CallsInv'
  <2> DEFINE kept == [f \in FlagSet |-> IF dir = "rx" /\ f \in {"al", "nack"} THEN 0 ELSE pend[f]]
  <2>1. \A f \in FlagSet : kept[f] <= call
    BY <1>1, <1>2
  <2>2. pend' = kept \/ pend' = [kept EXCEPT !["scd"] = call]
    BY <1>9 DEF Setup
  <2>3. kept = [f \in FlagSet |-> kept[f]]
    OBVIOUS
  <2> HIDE DEF kept
  <2>4. \A f \in FlagSet : pend'[f] <= call
    BY <1>1, <2>1, <2>2, <2>3
  <2>5. pc[t] = "setup" /\ Goto(t, "block") /\ call' = call + 1 /\ "block" \in Places
    BY <1>9 DEF Setup, Places
  <2>6. Cardinality(BeforeStart') = Cardinality(BeforeStart) - 1
    BY <2>5, BeforeStartGoes
  <2>7. \A f \in FlagSet : pend'[f] \in Int
    BY NextTypes DEF Types
  <2>8. call' + Cardinality(BeforeStart') <= MaxCalls
    BY <1>1, <1>2, <2>5, <2>6
  <2>9. \A f \in FlagSet : pend'[f] <= call'
    BY <1>1, <2>4, <2>5, <2>7
  <2> QED
    BY <2>8, <2>9 DEF CallsInv
<1>10. ASSUME NEW f \in FlagSet, Handle(f)
       PROVE  \A g \in FlagSet : pend'[g] <= call
  BY <1>1, <1>2, <1>10, HandleFacts
<1>11. ASSUME NEW fs, Raise(fs)
       PROVE  \A g \in FlagSet : pend'[g] <= call
  BY <1>1, <1>2, <1>11, RaiseFacts
<1>12. CASE Interrupt
  <2>1. pc' = pc /\ call' = call
    BY <1>12 DEF Interrupt, NotifyRefused, NotifyArbitration, Shift, NotifyStop, task, history
  <2>2. \E f \in FlagSet : Handle(f)
    BY <1>12, FlagNames DEF Interrupt, NotifyRefused, NotifyArbitration, Shift, NotifyStop
  <2> QED
    BY <1>4, <1>10, <2>1, <2>2
<1>13. CASE Move \/ Stop \/ Refused \/ LoseArbitration \/ OtherStop
  <2>1. pc' = pc /\ call' = call
    BY <1>13 DEF Move, Stop, Refused, LoseArbitration, OtherStop, task, history
  <2>2. \E fs : Raise(fs)
    BY <1>13 DEF Move, Stop, Refused, LoseArbitration, OtherStop
  <2> QED
    BY <1>4, <1>11, <2>1, <2>2
<1>14. CASE UNCHANGED vars
  BY <1>2, <1>4, <1>14 DEF vars, task, device, history
<1> QED
  BY <1>5, <1>6, <1>7, <1>8, <1>9, <1>12, <1>13, <1>14 DEF Next, InCall

\* The bytes: each step moves one from those to come to those that are moved, or
\* forgets some.
LEMMA NextBytes ==
    ASSUME Types, Exclusive, CallsInv, BytesInv, [Next]_vars
    PROVE  BytesInv'
<1>1. /\ call \in Nat /\ moved \in Nat /\ transfer.length \in Nat /\ dev.left \in Nat /\ Unread \in 0 .. 1
      /\ dev \in Device /\ Size \in Nat /\ Size >= 1
      /\ \A f \in FlagSet : pend[f] \in Nat /\ pend[f] <= call
  BY I2cAssumption DEF Types, Device, Unread, CallsInv
<1>2. transfer.length <= Size /\ (~dev.on => dev.left = 0) /\ moved + dev.left + Unread <= Size
  BY DEF BytesInv
<1>3. "rx" \in FlagSet /\ "scd" \in FlagSet /\ "tx" \in FlagSet
  BY FlagNames
<1>4. ASSUME transfer'.length <= Size, dev' = dev \/ dev' = [dev EXCEPT !.stop = dev.on] \/ dev' = Off,
             moved' = moved, call' = call, pend'["rx"] = pend["rx"] \/ pend'["rx"] = 0
      PROVE  BytesInv'
  <2>1. dev'.left \in Nat /\ dev'.left <= dev.left /\ (~dev'.on => dev'.left = 0)
    BY <1>1, <1>2, <1>4 DEF Device, Off
  <2>2. Unread' \in 0 .. 1 /\ Unread' <= Unread
    BY <1>4 DEF Unread
  <2> QED
    BY <1>1, <1>2, <1>4, <2>1, <2>2 DEF BytesInv
<1>5. ASSUME NEW t \in Tasks, Call(t) \/ TakeMutex(t) \/ MutexTimeout(t) \/ StopExpecting(t) \/ GiveMutex(t)
      PROVE  BytesInv'
  BY <1>2, <1>4, <1>5 DEF Call, TakeMutex, MutexTimeout, StopExpecting, GiveMutex, static, device, history
<1>6. ASSUME NEW t \in Tasks, TakeBlock(t) \/ BlockTimeout(t)
      PROVE  BytesInv'
  BY <1>2, <1>4, <1>6 DEF TakeBlock, BlockTimeout, SetStop, static, device, history
<1>7. ASSUME NEW t \in Tasks, ClearScd(t)
      PROVE  BytesInv'
  <2>1. pend'["rx"] = pend["rx"]
    BY <1>3, <1>7 DEF ClearScd, Types
  <2> QED
    BY <1>2, <1>4, <1>7, <2>1 DEF ClearScd, static, history
<1>8. ASSUME NEW t \in Tasks, NEW dir \in {"rx", "tx"}, Setup(t, dir)
      PROVE  BytesInv'
  <2> DEFINE kept == [f \in FlagSet |-> IF dir = "rx" /\ f \in {"al", "nack"} THEN 0 ELSE pend[f]]
  <2>1. kept["rx"] = pend["rx"] /\ kept = [f \in FlagSet |-> kept[f]]
    BY <1>3
  <2>2. pend' = kept \/ pend' = [kept EXCEPT !["scd"] = call]
    BY <1>8 DEF Setup
  <2> HIDE DEF kept
  <2>3. pend'["rx"] = pend["rx"] /\ pend["rx"] < call + 1 /\ call' = call + 1
    BY <1>1, <1>3, <1>8, <2>1, <2>2 DEF Setup
  <2>4. Unread' = 0
    BY <1>1, <1>3, <2>3 DEF Unread
  <2>5. dev'.on /\ dev'.left = Size /\ moved' = 0
    BY <1>8 DEF Setup, Off
  <2>6. transfer'.length <= Size
    BY <1>1, <1>8 DEF Setup
  <2> QED
    BY <1>1, <2>4, <2>5, <2>6 DEF BytesInv
<1>9. CASE NotifyRefused \/ NotifyArbitration \/ NotifyStop
  <2>1. pend'["rx"] = pend["rx"]
    BY <1>3, <1>9, FlagNames DEF NotifyRefused, NotifyArbitration, NotifyStop, Handle, Types
  <2> QED
    BY <1>2, <1>4, <1>9, <2>1 DEF NotifyRefused, NotifyArbitration, NotifyStop, SetStop, static, history
<1>10. ASSUME NEW f \in {"rx", "tx"}, Shift(f)
       PROVE  BytesInv'
  <2>1. /\ pend[f] # 0 /\ pend'[f] = 0 /\ (f = "tx" => pend'["rx"] = pend["rx"])
    BY <1>3, <1>10, HandleFacts DEF Shift
  <2>2. transfer'.length <= Size
    BY <1>1, <1>2, <1>10 DEF Shift, Types
  <2>3. dev'.left = dev.left /\ dev'.on = dev.on /\ call' = call
    BY <1>1, <1>10 DEF Shift, Device
  <2>4. moved' + Unread' <= moved + Unread /\ moved' \in Nat /\ Unread' \in Nat
    <3>1. CASE f = "rx"
      <4>1. Unread' = 0 /\ (moved' = moved \/ (moved' = moved + 1 /\ pend["rx"] = call))
        BY <1>10, <2>1, <3>1 DEF Shift, Unread
      <4> QED
        BY <1>1, <2>1, <3>1, <4>1 DEF Unread
    <3>2. CASE f = "tx"
      BY <1>1, <1>10, <2>1, <3>2 DEF Shift, Unread
    <3> QED
      BY <3>1, <3>2
  <2> QED
    BY <1>1, <1>2, <2>2, <2>3, <2>4 DEF BytesInv
<1>11. CASE Move
  <2>1. dev.on /\ dev.left > 0 /\ transfer' = transfer /\ call' = call
    BY <1>11 DEF Move, static
  <2>2. dev'.on = dev.on /\ dev'.left = dev.left - 1
    BY <1>1, <1>11 DEF Move, Device
  <2>3. moved' + Unread' <= moved + Unread + 1 /\ moved' \in Nat /\ Unread' \in Nat
    <3>1. CASE pend["rx"] = 0 /\ Raise({"rx"}) /\ moved' = moved
      BY <1>1, <3>1 DEF Unread
    <3>2. CASE \E fs \in SUBSET {"tx"} : Raise(fs) /\ moved' = moved + 1
      <4>1. pend'["rx"] = pend["rx"]
        BY <1>3, <3>2, RaiseFacts
      <4> QED
        BY <1>1, <2>1, <3>2, <4>1 DEF Unread
    <3> QED
      BY <1>11, <3>1, <3>2 DEF Move
  <2>4. Unread \in Nat /\ dev.left \in Nat /\ moved \in Nat /\ Size \in Nat
    BY <1>1
  <2>5. moved' + dev'.left + Unread' <= Size
    BY <1>2, <2>2, <2>3, <2>4
  <2>6. transfer'.length <= Size /\ (~dev'.on => dev'.left = 0)
    BY <1>2, <2>1, <2>2
  <2> QED
    BY <2>5, <2>6 DEF BytesInv
<1>12. CASE Stop \/ OtherStop
  <2>1. pend'["rx"] = pend["rx"]
    BY <1>3, <1>12, RaiseFacts DEF Stop, OtherStop
  <2> QED
    BY <1>2, <1>4, <1>12, <2>1 DEF Stop, OtherStop, static, history
<1>13. CASE Refused
  <2>1. pend'["rx"] = pend["rx"]
    <3>1. \E fs \in SUBSET {"nack", "ardy"} : Raise(fs)
      BY <1>13, I2cAssumption DEF Refused
    <3> QED
      BY <1>3, <3>1, RaiseFacts
  <2>2. dev'.on = dev.on /\ dev'.left = dev.left /\ moved' = moved /\ call' = call /\ transfer' = transfer
    BY <1>1, <1>13 DEF Refused, Device, static, history
  <2>3. Unread' = Unread
    BY <2>1, <2>2 DEF Unread
  <2> QED
    BY <1>2, <2>2, <2>3 DEF BytesInv
<1>14. CASE LoseArbitration
  <2>1. pend'["rx"] = pend["rx"]
    BY <1>3, <1>14, RaiseFacts DEF LoseArbitration
  <2>2. dev'.left = 0 /\ moved' = moved /\ call' = call /\ transfer' = transfer
    BY <1>14 DEF LoseArbitration, Off, static
  <2>3. Unread' = Unread
    BY <2>1, <2>2 DEF Unread
  <2> QED
    BY <1>1, <1>2, <2>2, <2>3 DEF BytesInv
<1>15. CASE UNCHANGED vars
  BY <1>2, <1>4, <1>15 DEF vars, static, device, history
<1> QED
  BY <1>5, <1>6, <1>7, <1>8, <1>9, <1>10, <1>11, <1>12, <1>13, <1>14, <1>15 DEF Next, InCall, Interrupt

\* A stop condition is expected from the start of a transfer until the call
\* that started it no longer expects one.
LEMMA NextExpect ==
    ASSUME Types, Exclusive, ExpectInv, [Next]_vars
    PROVE  ExpectInv'
<1> DEFINE Expecting == {"block", "clear", "expect"}
           Holds == \E t \in Tasks : i2c_mutex = t /\ pc[t] \in Expecting
<1>1. ASSUME NEW t \in Tasks, NEW l \in Places, Goto(t, l), i2c_mutex' = i2c_mutex,
             pc[t] \in Expecting => l \in Expecting, expecting_scd' => expecting_scd
      PROVE  ExpectInv'
  BY <1>1, GotoFacts DEF ExpectInv
<1>2. ASSUME UNCHANGED <<pc, i2c_mutex>>, expecting_scd' => expecting_scd
      PROVE  ExpectInv'
  BY <1>2 DEF ExpectInv
<1>3. ASSUME NEW t \in Tasks, Call(t)
      PROVE  ExpectInv'
  BY <1>1, <1>3 DEF Call, static, Places
<1>4. ASSUME NEW t \in Tasks, TakeMutex(t)
      PROVE  ExpectInv'
  BY <1>4, I2cAssumption DEF TakeMutex, static, ExpectInv
<1>5. ASSUME NEW t \in Tasks, MutexTimeout(t)
      PROVE  ExpectInv'
  BY <1>1, <1>5 DEF MutexTimeout, static, Places
<1>6. ASSUME NEW t \in Tasks, NEW dir \in {"rx", "tx"}, Setup(t, dir)
      PROVE  ExpectInv'
  <2>1. Goto(t, "block") /\ i2c_mutex' = i2c_mutex /\ i2c_mutex = t
    BY <1>6 DEF Setup, Exclusive, Inside
  <2>2. pc'[t] = "block"
    BY <2>1, GotoFacts DEF Places
  <2> QED
    BY <2>1, <2>2 DEF ExpectInv
<1>7. ASSUME NEW t \in Tasks, TakeBlock(t) \/ BlockTimeout(t) \/ ClearScd(t)
      PROVE  ExpectInv'
  BY <1>1, <1>7 DEF TakeBlock, BlockTimeout, ClearScd, static, Places
<1>8. ASSUME NEW t \in Tasks, StopExpecting(t)
      PROVE  ExpectInv'
  BY <1>8 DEF StopExpecting, ExpectInv
<1>9. ASSUME NEW t \in Tasks, GiveMutex(t)
      PROVE  ExpectInv'
  <2>1. i2c_mutex = t /\ pc[t] = "give" /\ expecting_scd' = expecting_scd
    BY <1>9 DEF GiveMutex, static, Exclusive, Inside
  <2>2. ~expecting_scd
    BY <2>1 DEF ExpectInv
  <2> QED
    BY <2>1, <2>2 DEF ExpectInv
<1>10. CASE Interrupt
  BY <1>2, <1>10 DEF Interrupt, NotifyRefused, NotifyArbitration, Shift, NotifyStop, task, static
<1>11. CASE Move \/ Stop \/ Refused \/ LoseArbitration \/ OtherStop
  BY <1>2, <1>11 DEF Move, Stop, Refused, LoseArbitration, OtherStop, task, static
<1>12. CASE UNCHANGED vars
  BY <1>2, <1>12 DEF vars, task, static
<1> QED
  BY <1>3, <1>4, <1>5, <1>6, <1>7, <1>8, <1>9, <1>10, <1>11, <1>12 DEF Next, InCall

-----------------------------------------------------------------------------
(* Nothing is left behind                                                  *)

LEMMA NextQuiet ==
    ASSUME Types, Exclusive, QuietInv, [Next]_vars
    PROVE  QuietInv'
<1> SUFFICES ASSUME ~troubled'
             PROVE  ~dev'.lost /\ IF Blocked' THEN InUse' ELSE Quiet'
  BY DEF QuietInv
<1> USE DEF Places
<1>1. ASSUME NEW t \in Tasks, Call(t) \/ TakeMutex(t) \/ MutexTimeout(t) \/ GiveMutex(t)
      PROVE  ~dev'.lost /\ IF Blocked' THEN InUse' ELSE Quiet'
  <2>1. Blocked' <=> Blocked
    BY <1>1 DEF Call, TakeMutex, MutexTimeout, GiveMutex, Goto, Types, Blocked
  <2> QED
    BY <1>1, <2>1 DEF Call, TakeMutex, MutexTimeout, GiveMutex, static, device, history, QuietInv, InUse, Quiet
<1>2. ASSUME NEW t \in Tasks, NEW dir \in {"rx", "tx"}, Setup(t, dir)
      PROVE  ~dev'.lost /\ IF Blocked' THEN InUse' ELSE Quiet'
  <2>1. ~Blocked /\ Blocked'
    BY <1>2 DEF Setup, Goto, Types, Blocked, Exclusive, Inside
  <2>2. Quiet /\ ~troubled
    BY <1>2, <2>1 DEF Setup, QuietInv
  <2>3. ~dev'.lost
    BY <1>2 DEF Setup, Off
  <2>4. pend'["scd"] = 0
    BY <1>2, <2>2, FlagNames, NoFlagsFacts DEF Setup, Quiet, Types
  <2> QED
    BY <1>2, <2>1, <2>2, <2>3, <2>4 DEF Setup, Quiet, InUse
<1>3. ASSUME NEW t \in Tasks, TakeBlock(t)
      PROVE  ~dev'.lost /\ IF Blocked' THEN InUse' ELSE Quiet'
  <2>1. Blocked /\ ~Blocked'
    BY <1>3 DEF TakeBlock, Goto, Types, Blocked, Exclusive, Inside
  <2> QED
    BY <1>3, <2>1 DEF TakeBlock, device, history, QuietInv, InUse, Quiet
<1>4. ASSUME NEW t \in Tasks, BlockTimeout(t)
      PROVE  FALSE
  BY <1>4 DEF BlockTimeout
<1>5. ASSUME NEW t \in Tasks, ClearScd(t) \/ StopExpecting(t)
      PROVE  ~dev'.lost /\ IF Blocked' THEN InUse' ELSE Quiet'
  <2>1. ~Blocked /\ ~Blocked'
    BY <1>5 DEF ClearScd, StopExpecting, Goto, Types, Blocked, Exclusive, Inside
  <2>2. Quiet /\ ~troubled
    BY <1>5, <2>1 DEF ClearScd, StopExpecting, history, QuietInv
  <2>3. pend' = NoFlags
    <3>1. CASE ClearScd(t)
      BY <2>2, <3>1, FlagNames DEF ClearScd, Quiet, NoFlags
    <3> QED
      BY <1>5, <2>2, <3>1 DEF StopExpecting, device, Quiet
  <2> QED
    BY <1>5, <2>1, <2>2, <2>3 DEF ClearScd, StopExpecting, static, device, Quiet
<1>6. ASSUME Interrupt \/ Move \/ Stop \/ Refused \/ LoseArbitration \/ OtherStop
      PROVE  ~dev'.lost /\ IF Blocked' THEN InUse' ELSE Quiet'
  <2>1. pc' = pc /\ (Blocked' <=> Blocked) /\ ~troubled
    BY <1>6 DEF Interrupt, NotifyRefused, NotifyArbitration, Shift, NotifyStop, Move, Stop,
                Refused, LoseArbitration, OtherStop, task, history, Blocked
  <2>2. ~dev.lost /\ IF Blocked THEN InUse ELSE Quiet
    BY <2>1 DEF QuietInv
  <2>3. CASE Interrupt
    <3>1. PICK f \in FlagSet : Handle(f)
      BY <2>3, FlagNames DEF Interrupt, NotifyRefused, NotifyArbitration, Shift, NotifyStop
    <3>2. pend[f] # 0 /\ \A g \in FlagSet : g # f => pend'[g] = pend[g]
      BY <3>1, HandleFacts
    <3>3. Blocked /\ InUse /\ ~i2c_block
      BY <2>2, <3>2, NoFlagsFacts DEF Quiet, InUse
    <3>4. pend'["scd"] # 0 => pend["scd"] # 0
      BY <3>1, HandleFacts, FlagNames
    <3>5. CASE NotifyRefused \/ NotifyArbitration
      <4>1. dev'.on = dev.on /\ dev'.lost = dev.lost
        BY <3>5 DEF NotifyRefused, NotifyArbitration, SetStop, Types, Device
      <4> QED
        BY <2>1, <2>2, <3>3, <3>4, <3>5, <4>1 DEF NotifyRefused, NotifyArbitration, static, InUse
    <3>6. ASSUME NEW g \in {"rx", "tx"}, Shift(g)
          PROVE  InUse' /\ ~dev'.lost
      <4>1. dev'.on = dev.on /\ dev'.lost = dev.lost
        BY <3>6 DEF Shift, Types, Device
      <4> QED
        BY <2>2, <3>3, <3>4, <3>6, <4>1 DEF Shift, InUse
    <3>7. CASE NotifyStop
      <4>1. pend["scd"] # 0 /\ pend' = NoFlags
        BY <3>7, HandleFacts, FlagNames DEF NotifyStop
      <4> QED
        BY <2>1, <2>2, <3>3, <3>7, <4>1, NoFlagsFacts, FlagNames DEF NotifyStop, InUse
    <3> QED
      BY <2>1, <2>3, <3>3, <3>5, <3>6, <3>7 DEF Interrupt, InUse, QuietInv
  <2>4. CASE OtherStop \/ LoseArbitration
    BY <2>2, <2>4 DEF OtherStop, LoseArbitration
  <2>5. CASE Move \/ Stop \/ Refused
    <3>1. dev.on
      BY <2>5 DEF Move, Stop, Refused
    <3>2. Blocked /\ InUse /\ ~i2c_block /\ pend["scd"] = 0
      BY <2>2, <3>1 DEF Quiet, InUse
    <3>3. CASE Move \/ Refused
      <4>1. pend'["scd"] = 0
        BY <3>2, <3>3, RaiseFacts, FlagNames, I2cAssumption DEF Move, Refused
      <4>2. dev'.lost = dev.lost
        BY <3>3 DEF Move, Refused, Types, Device
      <4> QED
        BY <2>1, <2>2, <3>2, <3>3, <4>1, <4>2 DEF Move, Refused, static, InUse
    <3>4. CASE Stop
      BY <2>1, <3>2, <3>4, OffFacts DEF Stop, static, InUse
    <3> QED
      BY <2>5, <3>3, <3>4
  <2> QED
    BY <1>6, <2>3, <2>4, <2>5
<1>7. CASE UNCHANGED vars
  BY <1>7 DEF vars, task, static, device, history, QuietInv, Blocked, InUse, Quiet
<1> QED
  BY <1>1, <1>2, <1>3, <1>4, <1>5, <1>6, <1>7 DEF Next, InCall

-----------------------------------------------------------------------------
(* The result is true                                                      *)

\* The handler at work on a transfer that began on a quiet bus.
LEMMA HandlerTransfer ==
    ASSUME Types, TransferInv, Interrupt
    PROVE  TransferInv'
<1>0. PICK f \in FlagSet : Handle(f)
  BY FlagNames DEF Interrupt, NotifyRefused, NotifyArbitration, Shift, NotifyStop
<1>1. /\ pend[f] # 0 /\ ~i2c_block
      /\ pend["al"] = 0 /\ pend'["al"] = 0
  BY <1>0, HandleFacts, NoFlagsFacts, FlagNames DEF TransferInv
<1>2. dev \in Device /\ moved \in Nat /\ transfer.length \in Nat /\ Size \in Nat
  BY I2cAssumption DEF Types
<1>3. CASE NotifyRefused
  <2>1. /\ pend'["rx"] = pend["rx"] /\ pend'["tx"] = pend["tx"] /\ pend'["scd"] = pend["scd"]
        /\ Failing /\ Failing'
    BY <1>3, HandleFacts, FlagNames DEF NotifyRefused, Failing
  <2>2. /\ moved' = moved /\ call' = call /\ transfer' = transfer /\ i2c_block' = i2c_block
        /\ dev'.on = dev.on /\ dev'.lost = dev.lost /\ dev'.left = dev.left
        /\ dev'.halted = dev.halted /\ dev'.dir = dev.dir /\ dev'.stop = dev.on
    BY <1>2, <1>3 DEF NotifyRefused, SetStop, history, Device
  <2>3. Got' = Got
    BY <2>1, <2>2 DEF Got
  <2>4. dev'.on => OnBus'
    BY <2>1, <2>2, <2>3 DEF TransferInv, OnBus
  <2> QED
    BY <1>1, <2>1, <2>2, <2>3, <2>4 DEF TransferInv
<1>4. CASE NotifyArbitration
  BY <1>1, <1>4 DEF NotifyArbitration, Handle
<1>5. CASE Shift("rx")
  <2>1. /\ pend["rx"] # 0 /\ pend'["rx"] = 0 /\ pend'["tx"] = pend["tx"] /\ pend'["scd"] = pend["scd"]
        /\ pend'["nack"] = pend["nack"] /\ pend'["ardy"] = pend["ardy"]
    BY <1>5, HandleFacts, FlagNames DEF Shift
  <2>2. pend["rx"] = call /\ pend["tx"] = 0 /\ transfer.length > 0
    BY <2>1 DEF TransferInv
  <2>3. /\ moved' = moved + 1 /\ transfer'.length = transfer.length - 1
        /\ dev' = dev /\ call' = call /\ hadFailure' = hadFailure /\ i2c_block' = i2c_block
    BY <1>5, <2>2 DEF Shift, Types
  <2>4. Got' = Got /\ (Failing' <=> Failing)
    BY <1>2, <2>1, <2>3 DEF Got, Failing
  <2>5. dev.on => OnBus'
    BY <1>2, <2>1, <2>2, <2>3, <2>4 DEF TransferInv, OnBus
  <2> QED
    BY <1>1, <2>1, <2>3, <2>4, <2>5 DEF TransferInv
<1>6. CASE Shift("tx")
  <2>1. /\ pend["tx"] # 0 /\ pend'["tx"] = 0 /\ pend'["rx"] = pend["rx"] /\ pend'["scd"] = pend["scd"]
        /\ pend'["nack"] = pend["nack"] /\ pend'["ardy"] = pend["ardy"]
    BY <1>6, HandleFacts, FlagNames DEF Shift
  <2>2. pend["rx"] = 0
    BY <2>1 DEF TransferInv
  <2>3. /\ moved' = moved /\ call' = call /\ hadFailure' = hadFailure /\ i2c_block' = i2c_block
        /\ dev'.on = dev.on /\ dev'.lost = dev.lost /\ dev'.left = dev.left
        /\ dev'.halted = dev.halted /\ dev'.dir = dev.dir /\ dev'.stop = dev.stop
    BY <1>2, <1>6 DEF Shift, Device
  <2>4. Got' = Got /\ (Failing' <=> Failing)
    BY <2>1, <2>3 DEF Got, Failing
  <2>5. dev.on => dev.dir = "tx"
    BY <1>2, <2>1 DEF TransferInv, OnBus, Device
  <2>6. dev'.on => OnBus'
    BY <2>1, <2>2, <2>3, <2>4, <2>5 DEF TransferInv, OnBus
  <2> QED
    BY <1>1, <2>1, <2>2, <2>3, <2>4, <2>6 DEF TransferInv
<1>7. CASE NotifyStop
  <2>1. pend["scd"] # 0 /\ pend' = NoFlags /\ \A g \in FlagSet : g # "scd" => pend[g] = 0
    BY <1>7, HandleFacts, NoFlagsFacts, FlagNames DEF NotifyStop
  <2>2. ~dev.on
    BY <2>1 DEF TransferInv, OnBus
  <2>3. dev' = dev /\ moved' = moved /\ call' = call /\ hadFailure' = hadFailure
    BY <1>7 DEF NotifyStop, history
  <2>4. Got' = Got /\ (Failing' <=> Failing)
    BY <2>1, <2>3, NoFlagsFacts, FlagNames DEF Got, Failing
  <2> QED
    BY <2>1, <2>2, <2>3, <2>4, NoFlagsFacts, FlagNames DEF TransferInv
<1> QED
  BY <1>3, <1>4, <1>5, <1>6, <1>7 DEF Interrupt

\* The bus at work on it.
LEMMA BusTransfer ==
    ASSUME Types, TransferInv, clean', Move \/ Stop \/ Refused \/ LoseArbitration \/ OtherStop
    PROVE  TransferInv'
<1>1. dev \in Device /\ moved \in Nat /\ transfer.length \in Nat /\ Size \in Nat /\ call \in Nat
  BY I2cAssumption DEF Types
<1>2. CASE LoseArbitration \/ OtherStop
  BY <1>2 DEF LoseArbitration, OtherStop, TransferInv
<1>3. CASE Move \/ Stop \/ Refused
  <2>1. dev.on /\ OnBus /\ ~i2c_block /\ call > 0 /\ pend["al"] = 0 /\ ~dev.lost
    BY <1>3 DEF Move, Stop, Refused, TransferInv
  <2>2. i2c_block' = i2c_block /\ hadFailure' = hadFailure /\ call' = call /\ transfer' = transfer
    BY <1>3 DEF Move, Stop, Refused, static, history
  <2>3. CASE Move /\ dev.dir = "rx"
    <3>1. /\ pend["rx"] = 0 /\ moved' = moved /\ ~dev.halted /\ dev.left > 0
          /\ dev'.on = dev.on /\ dev'.lost = dev.lost /\ dev'.left = dev.left - 1
          /\ dev'.halted = dev.halted /\ dev'.dir = dev.dir /\ dev'.stop = dev.stop
      BY <1>1, <2>3 DEF Move, Device
    <3>2. /\ pend'["rx"] = call /\ pend'["tx"] = pend["tx"] /\ pend'["scd"] = pend["scd"]
          /\ pend'["al"] = pend["al"] /\ pend'["nack"] = pend["nack"] /\ pend'["ardy"] = pend["ardy"]
      BY <2>3, RaiseFacts, FlagNames DEF Move
    <3>3. Got' = Got + 1 /\ (Failing' <=> Failing)
      BY <1>1, <2>1, <2>2, <3>1, <3>2 DEF Got, Failing
    <3>4. transfer.length > 0 /\ pend["tx"] = 0
      BY <1>1, <2>1, <2>3, <3>1 DEF OnBus, Got, Device
    <3>5. OnBus'
      BY <1>1, <2>1, <2>2, <2>3, <3>1, <3>2, <3>3, <3>4 DEF OnBus, Device
    <3> QED
      BY <2>1, <2>2, <3>1, <3>2, <3>4, <3>5 DEF TransferInv
  <2>4. CASE Move /\ dev.dir = "tx"
    <3>1. /\ moved' = moved + 1 /\ ~dev.halted /\ dev.left > 0
          /\ dev'.on = dev.on /\ dev'.lost = dev.lost /\ dev'.left = dev.left - 1
          /\ dev'.halted = dev.halted /\ dev'.dir = dev.dir /\ dev'.stop = dev.stop
      BY <1>1, <2>4 DEF Move, Device
    <3>2. /\ pend'["rx"] = pend["rx"] /\ pend'["scd"] = pend["scd"]
          /\ pend'["al"] = pend["al"] /\ pend'["nack"] = pend["nack"] /\ pend'["ardy"] = pend["ardy"]
      BY <2>4, RaiseFacts, FlagNames DEF Move
    <3>3. pend["rx"] = 0 /\ Got' = Got + 1 /\ (Failing' <=> Failing)
      BY <1>1, <2>1, <2>2, <2>4, <3>1, <3>2 DEF Got, Failing, OnBus
    <3>4. OnBus'
      BY <1>1, <2>1, <2>2, <2>4, <3>1, <3>2, <3>3 DEF OnBus, Device
    <3> QED
      BY <2>1, <2>2, <3>1, <3>2, <3>3, <3>4 DEF TransferInv
  <2>5. CASE Stop
    <3>1. /\ moved' = moved /\ dev' = Off /\ \A g \in FlagSet : g # "scd" => pend'[g] = pend[g]
      BY <2>5, RaiseFacts DEF Stop, history
    <3>2. Got' = Got /\ (Failing' <=> Failing)
      BY <2>2, <3>1, FlagNames DEF Got, Failing
    <3>3. IF Failing THEN Got < Size ELSE Got = Size
      <4>1. dev.left = 0 \/ dev.stop
        BY <2>5 DEF Stop
      <4> QED
        BY <1>1, <2>1, <4>1 DEF OnBus, Device
    <3> QED
      BY <2>1, <2>2, <3>1, <3>2, <3>3, OffFacts, FlagNames DEF TransferInv
  <2>6. CASE Refused
    <3>1. PICK fs \in SUBSET (Failures \ {"al"}) : fs # {} /\ Raise(fs)
      BY <2>6 DEF Refused
    <3>2. fs \subseteq {"nack", "ardy"}
      BY <3>1, I2cAssumption
    <3>3. /\ moved' = moved /\ ~dev.halted /\ dev.left > 0
          /\ dev'.on = dev.on /\ dev'.lost = dev.lost /\ dev'.left = dev.left
          /\ dev'.halted = TRUE /\ dev'.dir = dev.dir /\ dev'.stop = dev.stop
      BY <1>1, <2>6 DEF Refused, Device, history
    <3>4. /\ pend'["rx"] = pend["rx"] /\ pend'["tx"] = pend["tx"] /\ pend'["scd"] = pend["scd"]
          /\ pend'["al"] = pend["al"] /\ (pend'["nack"] = call \/ pend'["ardy"] = call)
      <4>1. \A f \in FlagSet : pend'[f] = IF f \in fs THEN call ELSE pend[f]
        BY <3>1, RaiseFacts
      <4>2. "nack" \in fs \/ "ardy" \in fs
        BY <3>1, <3>2
      <4> QED
        BY <3>2, <4>1, <4>2, FlagNames
    <3>5. Got' = Got /\ Failing'
      BY <2>1, <3>3, <3>4 DEF Got, Failing
    <3>6. OnBus'
      BY <2>1, <2>2, <3>3, <3>4, <3>5 DEF OnBus
    <3> QED
      BY <2>1, <2>2, <3>3, <3>4, <3>6 DEF TransferInv
  <2> QED
    BY <1>1, <1>3, <2>3, <2>4, <2>5, <2>6 DEF Device
<1> QED
  BY <1>2, <1>3

LEMMA NextResult ==
    ASSUME Types, Exclusive, ResultInv, [Next]_vars
    PROVE  ResultInv'
<1> USE DEF Places
<1> SUFFICES ASSUME clean', NEW u \in Tasks
             PROVE  /\ pc'[u] = "block" => TransferInv'
                    /\ Ended(u)' /\ ret'[u] # "timeout" => EndedInv(u)'
  BY DEF ResultInv
<1>1. ASSUME NEW t \in Tasks, Call(t) \/ TakeMutex(t) \/ MutexTimeout(t) \/ GiveMutex(t)
      PROVE  /\ pc'[u] = "block" => TransferInv'
             /\ Ended(u)' /\ ret'[u] # "timeout" => EndedInv(u)'
  <2>1. /\ pc'[u] = "block" => pc[u] = "block"
        /\ Ended(u)' => Ended(u) /\ ret'[u] = ret[u]
    BY <1>1 DEF Call, TakeMutex, MutexTimeout, GiveMutex, Goto, Types, Ended
  <2>2. /\ dev' = dev /\ pend' = pend /\ call' = call /\ moved' = moved /\ clean
        /\ i2c_block' = i2c_block /\ hadFailure' = hadFailure /\ transfer' = transfer
    BY <1>1 DEF Call, TakeMutex, MutexTimeout, GiveMutex, static, device, history
  <2>3. /\ pc[u] = "block" => TransferInv
        /\ Ended(u) /\ ret[u] # "timeout" => EndedInv(u)
    BY <2>2 DEF ResultInv
  <2> QED
    BY <2>1, <2>2, <2>3 DEF TransferInv, OnBus, Got, Failing, EndedInv
<1>2. ASSUME NEW t \in Tasks, NEW dir \in {"rx", "tx"}, Setup(t, dir)
      PROVE  /\ pc'[u] = "block" => TransferInv'
             /\ Ended(u)' /\ ret'[u] # "timeout" => EndedInv(u)'
  <2>1. ~Ended(u)'
    BY <1>2 DEF Setup, Goto, Types, Ended, Exclusive, Inside
  <2>2. Quiet
    BY <1>2 DEF Setup
  <2>3. pend' = NoFlags
    BY <1>2, <2>2, FlagNames, NoFlagsFacts DEF Setup, Quiet, NoFlags
  <2>4. /\ dev'.on /\ ~dev'.lost /\ ~dev'.halted /\ ~dev'.stop /\ dev'.left = Size /\ dev'.dir = dir
        /\ transfer'.length = IF dir = "rx" THEN Size ELSE Size - 1
    BY <1>2 DEF Setup, Off
  <2>5. moved' = 0 /\ call' > 0 /\ ~i2c_block' /\ ~hadFailure'
    BY <1>2, <2>2 DEF Setup, Quiet, Types
  <2>6. Size \in Nat \ {0, 1}
    BY I2cAssumption
  <2> QED
    BY <2>1, <2>3, <2>4, <2>5, <2>6, NoFlagsFacts, FlagNames DEF TransferInv, OnBus, Got, Failing
<1>3. ASSUME NEW t \in Tasks, TakeBlock(t)
      PROVE  /\ pc'[u] = "block" => TransferInv'
             /\ Ended(u)' /\ ret'[u] # "timeout" => EndedInv(u)'
  <2>1. pc'[u] # "block" /\ (Ended(u)' => u = t)
    BY <1>3 DEF TakeBlock, Goto, Types, Ended, Exclusive, Inside
  <2>2. TransferInv /\ i2c_block
    BY <1>3 DEF TakeBlock, ResultInv, history
  <2>3. /\ ~dev.on /\ ~dev.lost /\ pend = NoFlags
        /\ IF hadFailure THEN moved < Size ELSE moved = Size
    BY <2>2, NoFlagsFacts, FlagNames DEF TransferInv, Got, Failing, Types
  <2>4. ret'[t] = IF hadFailure THEN "failed" ELSE "ok"
    BY <1>3 DEF TakeBlock, Types
  <2>5. dev' = dev /\ pend' = pend /\ moved' = moved
    BY <1>3 DEF TakeBlock, device, history
  <2> QED
    BY <2>1, <2>3, <2>4, <2>5 DEF EndedInv
<1>4. ASSUME NEW t \in Tasks, BlockTimeout(t)
      PROVE  /\ pc'[u] = "block" => TransferInv'
             /\ Ended(u)' /\ ret'[u] # "timeout" => EndedInv(u)'
  <2>1. pc'[u] # "block" /\ (Ended(u)' => u = t)
    BY <1>4 DEF BlockTimeout, Goto, Types, Ended, Exclusive, Inside
  <2>2. ret'[t] = "timeout"
    BY <1>4 DEF BlockTimeout, Types
  <2> QED
    BY <2>1, <2>2
<1>5. ASSUME NEW t \in Tasks, ClearScd(t) \/ StopExpecting(t)
      PROVE  /\ pc'[u] = "block" => TransferInv'
             /\ Ended(u)' /\ ret'[u] # "timeout" => EndedInv(u)'
  <2>1. pc'[u] # "block" /\ (Ended(u)' => Ended(u)) /\ ret' = ret
    BY <1>5 DEF ClearScd, StopExpecting, Goto, Types, Ended, Exclusive, Inside
  <2>2. dev' = dev /\ moved' = moved /\ clean
    BY <1>5 DEF ClearScd, StopExpecting, device, history
  <2>3. pend = NoFlags => pend' = NoFlags
    <3>1. CASE ClearScd(t)
      BY <3>1, FlagNames DEF ClearScd, NoFlags
    <3> QED
      BY <1>5, <3>1 DEF StopExpecting, device
  <2> QED
    BY <2>1, <2>2, <2>3 DEF ResultInv, EndedInv
<1>6. ASSUME Interrupt \/ Move \/ Stop \/ Refused \/ LoseArbitration \/ OtherStop
      PROVE  /\ pc'[u] = "block" => TransferInv'
             /\ Ended(u)' /\ ret'[u] # "timeout" => EndedInv(u)'
  <2>1. pc' = pc /\ ret' = ret /\ (Ended(u)' <=> Ended(u)) /\ clean
    BY <1>6 DEF Interrupt, NotifyRefused, NotifyArbitration, Shift, NotifyStop, Move, Stop,
                Refused, LoseArbitration, OtherStop, task, history, Ended
  <2>2. ASSUME pc[u] = "block"
        PROVE  TransferInv'
    <3>1. TransferInv
      BY <2>1, <2>2 DEF ResultInv
    <3>2. CASE Interrupt
      BY <3>1, <3>2, HandlerTransfer
    <3>3. CASE Move \/ Stop \/ Refused \/ LoseArbitration \/ OtherStop
      BY <3>1, <3>3, BusTransfer
    <3> QED
      BY <1>6, <3>2, <3>3
  <2>3. ASSUME Ended(u), ret[u] # "timeout"
        PROVE  FALSE
    <3>1. ~dev.on /\ ~dev.lost /\ \A f \in FlagSet : pend[f] = 0
      BY <2>1, <2>3, NoFlagsFacts DEF ResultInv, EndedInv
    <3>2. \A f \in FlagSet : ~Handle(f)
      BY <3>1 DEF Handle
    <3> QED
      BY <1>6, <3>1, <3>2, FlagNames DEF Interrupt, NotifyRefused, NotifyArbitration, Shift, NotifyStop,
                Move, Stop, Refused, LoseArbitration, OtherStop
  <2> QED
    BY <2>1, <2>2, <2>3
<1>7. ASSUME UNCHANGED vars
      PROVE  /\ pc'[u] = "block" => TransferInv'
             /\ Ended(u)' /\ ret'[u] # "timeout" => EndedInv(u)'
  <2>1. /\ pc[u] = "block" => TransferInv
        /\ Ended(u) /\ ret[u] # "timeout" => EndedInv(u)
    BY <1>7 DEF ResultInv, vars, history
  <2> QED
    BY <1>7, <2>1 DEF vars, task, static, device, history, TransferInv, OnBus, Got, Failing, EndedInv, Ended
<1> QED
  BY <1>1, <1>2, <1>3, <1>4, <1>5, <1>6, <1>7 DEF Next, InCall

-----------------------------------------------------------------------------
LEMMA InitIInv == Init => IInv
<1> SUFFICES ASSUME Init PROVE IInv
  OBVIOUS
<1>1. Types /\ Exclusive
  BY InitTypes
<1>2. ~Blocked /\ \A t \in Tasks : ~Ended(t) /\ pc[t] # "block"
  BY DEF Init, Blocked, Ended
<1>3. Quiet /\ ~dev.lost
  BY OffFacts DEF Init, Quiet
<1> QED
  BY <1>1, <1>2, <1>3 DEF IInv, QuietInv, ResultInv

LEMMA NextIInv == IInv /\ [Next]_vars => IInv'
BY NextTypes, NextQuiet, NextResult DEF IInv

\* Every variable has its type: no more transfers are started than were called
\* for, and no more bytes are moved, whatever bytes of earlier calls come late.
THEOREM TypeCorrect == Spec => []TypeOK
<1> DEFINE Inv == Types /\ Exclusive /\ Bounds
<1>1. Init => Inv
  BY InitTypes, InitBounds
<1>2. Inv /\ [Next]_vars => Inv'
  BY NextTypes, NextCalls, NextBytes, NextExpect DEF Bounds
<1>3. Inv => TypeOK
  <2> SUFFICES ASSUME Types, Exclusive, Bounds
               PROVE  TypeOK
    OBVIOUS
  <2>1. call \in 0 .. MaxCalls /\ pend \in [FlagSet -> 0 .. MaxCalls]
    <3>1. /\ call \in Nat /\ MaxCalls \in Nat /\ Cardinality(BeforeStart) \in Nat
          /\ pend \in [FlagSet -> Nat] /\ \A f \in FlagSet : pend[f] \in Nat /\ pend[f] <= call
          /\ call + Cardinality(BeforeStart) <= MaxCalls
      BY I2cAssumption, BeforeStartFacts DEF Types, Bounds, CallsInv
    <3>2. call <= MaxCalls /\ \A f \in FlagSet : pend[f] \in 0 .. MaxCalls
      BY <3>1
    <3> QED
      BY <3>1, <3>2
  <2>2. /\ moved \in Nat /\ transfer.length \in Nat /\ dev.left \in Nat /\ Size \in Nat /\ Unread \in 0 .. 1
        /\ moved + dev.left + Unread <= Size /\ transfer.length <= Size
    BY I2cAssumption DEF Types, Device, Bounds, BytesInv, Unread
  <2>3. moved \in 0 .. Size /\ transfer.length \in 0 .. Size /\ dev.left \in 0 .. Size
    BY <2>2
  <2>4. dev \in Devices
    BY <2>3 DEF Types, Device, Devices
  <2>5. transfer \in [owner : Tasks \cup {Nobody}, length : 0 .. Size]
    BY <2>3 DEF Types
  <2> QED
    BY <2>1, <2>3, <2>4, <2>5 DEF TypeOK, Types, Results, Bounds, ExpectInv
<1> QED
  BY <1>1, <1>2, <1>3, PTL DEF Spec

\* Between two calls nothing of the last one is left, no flag, no semaphore and
\* no byte on the bus, unless a call timed out or another master took the bus
\* (i2c_io.c:61-178).
THEOREM NothingLeftBehind == Spec => []QuietBetweenCalls
<1>1. IInv => QuietBetweenCalls
  BY I2cAssumption DEF IInv, QuietInv, QuietBetweenCalls, Exclusive, Inside, Blocked
<1> QED
  BY <1>1, InitIInv, NextIInv, PTL DEF Spec

\* A call that had a quiet bus for itself returns 0 if all its bytes were
\* moved, and a failure if they were not, however calls before it ended
\* (i2c_io.c:61-152).
THEOREM ResultsAreTrue == Spec => []ResultTrue
<1>1. IInv => ResultTrue
  BY DEF IInv, ResultInv, EndedInv, ResultTrue
<1> QED
  BY <1>1, InitIInv, NextIInv, PTL DEF Spec

=============================================================================
