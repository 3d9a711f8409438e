------------------------------ MODULE I2cDriver ------------------------------
(***************************************************************************)
(* i2c_Send and i2c_Receive of one bus, called by several tasks, with the  *)
(* interrupt handler that moves the bytes and ends the transfer.  The      *)
(* callers are outside this repository, and so is the controller: it moves *)
(* the bytes, is refused, loses the bus to another master, or keeps quiet, *)
(* and raises a flag for what happened.  A flag and a transfer know the    *)
(* call they come from, which the code does not.                           *)
(***************************************************************************)
EXTENDS Naturals, FiniteSets

CONSTANTS
    Tasks,      \* the callers
    Nobody,     \* no task
    Size,       \* bytes of a transfer
    Failures,   \* what may happen on the bus: "nack", "ardy", "al"
    MaxCalls    \* bound: transfers started

ASSUME I2cAssumption ==
    /\ IsFiniteSet(Tasks) /\ Nobody \notin Tasks /\ Size \in Nat \ {0, 1}
    /\ Failures \subseteq {"nack", "ardy", "al"} /\ MaxCalls \in Nat

VARIABLES
    pc,             \* where each task is
    ret,            \* what its call returns: 0 ("ok"), -1 after a failure or a timeout
    i2c_mutex,      \* the task that holds the mutex
    i2c_block,      \* the semaphore is given
    hadFailure,     \* static flags
    expecting_scd,
    transfer,       \* g_i2cTransfer_t: the caller whose buffer it is, and the length left
    dev,            \* the controller
    pend,           \* for each flag the call that raised it, or 0
    call,           \* the transfers started so far
    moved,          \* history: bytes of the last transfer that were moved
    clean,          \* history: it has had a quiet bus for itself
    troubled        \* history: a call timed out, or another master took the bus

task == <<pc, ret, i2c_mutex>>
static == <<i2c_block, hadFailure, expecting_scd, transfer>>
device == <<dev, pend>>
history == <<call, moved, clean, troubled>>
vars == <<task, static, device, history>>

\* In the order of the interrupt vectors.
Flags == <<"al", "nack", "ardy", "rx", "tx", "scd">>
FlagSet == {Flags[k] : k \in DOMAIN Flags}

Off == [on |-> FALSE, dir |-> "rx", left |-> 0, loaded |-> FALSE, halted |-> FALSE, stop |-> FALSE, lost |-> FALSE]
NoFlags == [f \in FlagSet |-> 0]

Init ==
    /\ pc = [t \in Tasks |-> "idle"] /\ ret = [t \in Tasks |-> "ok"] /\ i2c_mutex = Nobody
    /\ i2c_block = FALSE /\ hadFailure = FALSE /\ expecting_scd = FALSE
    /\ transfer = [owner |-> Nobody, length |-> 0]
    /\ dev = Off /\ pend = NoFlags
    /\ call = 0 /\ moved = 0 /\ clean = TRUE /\ troubled = FALSE

Goto(t, l) == pc' = [pc EXCEPT ![t] = l]

\* i2cSetStop: only a master stops.
SetStop == dev' = [dev EXCEPT !.stop = dev.on]

Quiet == ~dev.on /\ ~dev.lost /\ pend = NoFlags /\ ~i2c_block /\ ~hadFailure /\ ~expecting_scd

-----------------------------------------------------------------------------
(* i2c_Send, i2c_Receive                                                   *)

Call(t) ==
    /\ pc[t] = "idle" /\ call + Cardinality({u \in Tasks : pc[u] \in {"mutex", "setup"}}) < MaxCalls
    /\ Goto(t, "mutex") /\ ret' = [ret EXCEPT ![t] = "ok"]
    /\ UNCHANGED <<i2c_mutex, static, device, history>>

TakeMutex(t) ==
    /\ pc[t] = "mutex" /\ i2c_mutex = Nobody
    /\ i2c_mutex' = t
    /\ Goto(t, "setup")
    /\ UNCHANGED <<ret, static, device, history>>

MutexTimeout(t) ==
    /\ pc[t] = "mutex" /\ i2c_mutex # Nobody
    /\ ret' = [ret EXCEPT ![t] = "timeout"] /\ Goto(t, "idle")
    /\ UNCHANGED <<i2c_mutex, static, device, history>>

\* The critical section.  i2cReceive clears the flags of an error, i2cSend
\* writes the first byte.  The stop condition of a transfer that is still on
\* the bus may be seen in this one.
Setup(t, dir) ==
    /\ pc[t] = "setup"
    /\ call' = call + 1
    /\ expecting_scd' = TRUE
    /\ transfer' = [owner |-> t, length |-> IF dir = "rx" THEN Size ELSE Size - 1]
    /\ dev' = [Off EXCEPT !.on = TRUE, !.dir = dir, !.left = Size, !.loaded = dir = "tx"]
    /\ LET kept == [f \in FlagSet |-> IF dir = "rx" /\ f \in {"al", "nack"} THEN 0 ELSE pend[f]] IN
       \/ pend' = kept
       \/ dev.on /\ pend' = [kept EXCEPT !["scd"] = call]
    /\ moved' = 0 /\ clean' = Quiet
    /\ Goto(t, "block")
    /\ UNCHANGED <<ret, i2c_mutex, i2c_block, hadFailure, troubled>>

\* The semaphore comes: the call has failed if the handler says so.
TakeBlock(t) ==
    /\ pc[t] = "block" /\ i2c_block
    /\ i2c_block' = FALSE
    /\ ret' = [ret EXCEPT ![t] = IF hadFailure THEN "failed" ELSE "ok"]
    /\ hadFailure' = FALSE
    /\ Goto(t, "clear")
    /\ UNCHANGED <<i2c_mutex, expecting_scd, transfer, device, history>>

BlockTimeout(t) ==
    /\ pc[t] = "block" /\ ~i2c_block
    /\ ret' = [ret EXCEPT ![t] = "timeout"]
    /\ SetStop
    /\ troubled' = TRUE
    /\ Goto(t, "clear")
    /\ UNCHANGED <<i2c_mutex, static, pend, call, moved, clean>>

\* i2cClearSCD.
ClearScd(t) ==
    /\ pc[t] = "clear"
    /\ pend' = [pend EXCEPT !["scd"] = 0]
    /\ Goto(t, "expect")
    /\ UNCHANGED <<ret, i2c_mutex, static, dev, history>>

\* Mutated form: the stop condition stays expected.
StopExpectingNot(t) ==
    /\ pc[t] = "expect"
    /\ Goto(t, "give")
    /\ UNCHANGED <<ret, i2c_mutex, static, device, history>>

StopExpecting(t) ==
    /\ pc[t] = "expect"
    /\ expecting_scd' = FALSE
    /\ Goto(t, "give")
    /\ UNCHANGED <<ret, i2c_mutex, i2c_block, hadFailure, transfer, device, history>>

\* Mutated form: a call that failed returns at once.
GiveMutexOnSuccess(t) ==
    /\ pc[t] = "give"
    /\ i2c_mutex' = IF ret[t] = "ok" THEN Nobody ELSE i2c_mutex
    /\ Goto(t, "idle")
    /\ UNCHANGED <<ret, static, device, history>>

GiveMutex(t) ==
    /\ pc[t] = "give"
    /\ i2c_mutex' = Nobody
    /\ Goto(t, "idle")
    /\ UNCHANGED <<ret, static, device, history>>

-----------------------------------------------------------------------------
(* The controller                                                          *)

Raise(fs) == pend' = [f \in FlagSet |-> IF f \in fs THEN call ELSE pend[f]]

\* A byte is received, once the last one has been read; or the byte that was
\* loaded is sent.
Move ==
    /\ dev.on /\ ~dev.halted /\ dev.left > 0
    /\ \/ /\ dev.dir = "rx" /\ pend["rx"] = 0
          /\ Raise({"rx"}) /\ UNCHANGED moved
          /\ dev' = [dev EXCEPT !.left = @ - 1]
       \/ /\ dev.dir = "tx" /\ dev.loaded
          /\ Raise(IF transfer.length > 0 THEN {"tx"} ELSE {}) /\ moved' = moved + 1
          /\ dev' = [dev EXCEPT !.left = @ - 1, !.loaded = FALSE]
    /\ UNCHANGED <<task, static, call, clean, troubled>>

\* The stop condition: after the last byte, or when it was asked for.
Stop ==
    /\ dev.on /\ (dev.left = 0 \/ dev.stop)
    /\ dev' = Off /\ Raise({"scd"})
    /\ UNCHANGED <<task, static, history>>

\* The device at the other end refuses.
Refused ==
    /\ dev.on /\ ~dev.halted /\ dev.left > 0
    /\ \E fs \in SUBSET (Failures \ {"al"}) : fs # {} /\ Raise(fs)
    /\ dev' = [dev EXCEPT !.halted = TRUE]
    /\ UNCHANGED <<task, static, history>>

\* Another master has the bus, and ends its transfer with a stop condition.
LoseArbitration ==
    /\ "al" \in Failures /\ dev.on /\ dev.left > 0
    /\ dev' = [Off EXCEPT !.lost = TRUE] /\ Raise({"al"})
    /\ clean' = FALSE /\ troubled' = TRUE
    /\ UNCHANGED <<task, static, call, moved>>

OtherStop ==
    /\ dev.lost
    /\ dev' = Off /\ Raise({"scd"})
    /\ UNCHANGED <<task, static, history>>

-----------------------------------------------------------------------------
(* i2cInterrupt and i2cNotification; not in the critical section           *)

\* The flag of the highest priority is handled and cleared.
Handle(f) ==
    /\ pend[f] # 0
    /\ \A k \in DOMAIN Flags : pend[Flags[k]] # 0 => \E j \in DOMAIN Flags : Flags[j] = f /\ j <= k
    /\ pend' = [pend EXCEPT ![f] = 0]

\* Mutated form: a refusal wakes the task at once.
NotifyRefusedGives ==
    /\ Handle("nack") \/ Handle("ardy")
    /\ hadFailure' = TRUE /\ i2c_block' = TRUE
    /\ SetStop
    /\ UNCHANGED <<task, expecting_scd, transfer, history>>

\* Mutated form: the failure is noted of a NACK only.
NotifyNackOnly ==
    /\ \/ Handle("nack") /\ hadFailure' = TRUE
       \/ Handle("ardy") /\ UNCHANGED hadFailure
    /\ SetStop
    /\ UNCHANGED <<task, i2c_block, expecting_scd, transfer, history>>

\* I2C_NACK_INT, I2C_ARDY_INT.
NotifyRefused ==
    /\ Handle("nack") \/ Handle("ardy")
    /\ hadFailure' = TRUE
    /\ SetStop
    /\ UNCHANGED <<task, i2c_block, expecting_scd, transfer, history>>

\* I2C_AL_INT: no failure is noted.
NotifyArbitration ==
    /\ Handle("al")
    /\ SetStop
    /\ UNCHANGED <<task, static, history>>

\* A byte goes to the buffer of the last call, or from it.
Shift(f) ==
    /\ Handle(f)
    /\ LET more == transfer.length > 0 IN
       /\ transfer' = [transfer EXCEPT !.length = IF more THEN @ - 1 ELSE 0]
       /\ moved' = IF more /\ f = "rx" /\ pend[f] = call THEN moved + 1 ELSE moved
       /\ dev' = IF more /\ f = "tx" THEN [dev EXCEPT !.loaded = dev.on /\ dev.dir = "tx"] ELSE dev
    /\ UNCHANGED <<task, i2c_block, hadFailure, expecting_scd, call, clean, troubled>>

\* I2C_SCD_INT: the stop condition of whichever transfer.
NotifyStop ==
    /\ Handle("scd")
    /\ i2c_block' = (i2c_block \/ expecting_scd)
    /\ expecting_scd' = FALSE
    /\ UNCHANGED <<task, hadFailure, transfer, dev, history>>

-----------------------------------------------------------------------------
Interrupt == NotifyRefused \/ NotifyArbitration \/ Shift("rx") \/ Shift("tx") \/ NotifyStop

InCall(t) ==
    \/ \E dir \in {"rx", "tx"} : Setup(t, dir)
    \/ TakeBlock(t) \/ BlockTimeout(t) \/ ClearScd(t) \/ StopExpecting(t) \/ GiveMutex(t)

Next ==
    \/ \E t \in Tasks : Call(t) \/ TakeMutex(t) \/ MutexTimeout(t) \/ InCall(t)
    \/ Interrupt
    \/ Move \/ Stop \/ Refused \/ LoseArbitration \/ OtherStop

\* Tasks are scheduled and waits end after their second.  Nothing is asked of
\* the bus.
Fairness ==
    /\ \A t \in Tasks : WF_vars(InCall(t)) /\ WF_vars(TakeMutex(t) \/ MutexTimeout(t))
    /\ WF_vars(Interrupt)

Spec == Init /\ [][Next]_vars /\ Fairness
-----------------------------------------------------------------------------
Places == {"idle", "mutex", "setup", "block", "clear", "expect", "give"}
Devices == [on : BOOLEAN, dir : {"rx", "tx"}, left : 0 .. Size, loaded : BOOLEAN,
            halted : BOOLEAN, stop : BOOLEAN, lost : BOOLEAN]

\* Every variable has its type, and a stop condition is expected only within a
\* call.
TypeOK ==
    /\ pc \in [Tasks -> Places] /\ ret \in [Tasks -> {"ok", "failed", "timeout"}]
    /\ i2c_mutex \in Tasks \cup {Nobody}
    /\ i2c_block \in BOOLEAN /\ hadFailure \in BOOLEAN /\ expecting_scd \in BOOLEAN
    /\ expecting_scd => \E t \in Tasks : i2c_mutex = t /\ pc[t] \in {"block", "clear", "expect"}
    /\ transfer \in [owner : Tasks \cup {Nobody}, length : 0 .. Size]
    /\ dev \in Devices /\ pend \in [FlagSet -> 0 .. MaxCalls]
    /\ call \in 0 .. MaxCalls /\ moved \in 0 .. Size /\ clean \in BOOLEAN /\ troubled \in BOOLEAN

\* The call of t has its result.
Ended(t) == pc[t] \in {"clear", "expect", "give"}

\* A call that has had a quiet bus for itself tells the truth: 0 if all its
\* bytes were moved, -1 before its timeout if the other end refused them, also
\* when calls before it timed out.
ResultTrue ==
    \A t \in Tasks :
        Ended(t) /\ clean =>
            /\ ret[t] = "ok" => moved = Size
            /\ ret[t] = "failed" => moved < Size

\* A call leaves nothing behind for the next one, no flag, no semaphore, no
\* byte on its way, unless a call has timed out or
\* another master has taken the bus.
QuietBetweenCalls ==
    i2c_mutex = Nobody /\ ~troubled => Quiet

\* "Returns 0 data read, <0 if unable to read data" (i2c_io.c:58), of every call.
ZeroMeansDone ==
    \A t \in Tasks : Ended(t) /\ ret[t] = "ok" => moved = Size

\* The mutex is free again and again, however calls and waits end.
MutexComesFree == []<>(i2c_mutex = Nobody)

=============================================================================
