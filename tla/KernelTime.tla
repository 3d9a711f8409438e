------------------------------ MODULE KernelTime -----------------------------
(***************************************************************************)
(* What the services of the bootloader take from the kernel: delays, and   *)
(* waits for a semaphore that end after a time.  Modelled are the tick     *)
(* counter and its wrap, the two lists of delayed tasks, the suspension of *)
(* the scheduler with the ticks and the wake-ups it holds back, and the    *)
(* take of a binary semaphore, which an interrupt gives, with the lock of  *)
(* its queue.                                                              *)
(*                                                                         *)
(* sw_watchdog delays until a time; Delayers may delay for a time, Takers  *)
(* take the semaphore, and a task may do both.  Any task that is ready may run: what is *)
(* promised here depends on no priority.                                   *)
(***************************************************************************)
EXTENDS Integers, Sequences

CONSTANTS
    Periodic, Delayers, Takers,     \* the tasks
    Nobody,     \* no task
    Wrap,       \* the tick counter counts modulo Wrap
    Period,     \* WDT_DELAY
    Delays,     \* the times of vTaskDelay
    Waits,      \* the times of xSemaphoreTake
    MaxLag,     \* bound: ticks by which a periodic task may be late
    MaxTime     \* bound: ticks

Tasks == Periodic \cup Delayers \cup Takers
portMAX_DELAY == Wrap - 1

ASSUME KernelTimeAssumption ==
    /\ Periodic \cap (Delayers \cup Takers) = {} /\ Nobody \notin Tasks
    /\ Wrap \in Nat \ {0, 1} /\ Period \in 1 .. Wrap - 1 /\ MaxLag \in 1 .. Wrap - 1
    /\ Delays \subseteq 1 .. portMAX_DELAY /\ Waits \subseteq 0 .. portMAX_DELAY
    \* xTaskCheckForTimeOut cannot tell a wait that is more than a round of the
    \* counter too late from one that has just begun.
    /\ \A w \in Waits \ {portMAX_DELAY} : w + MaxLag <= Wrap
    /\ MaxTime \in Nat

VARIABLES
    xTickCount, xNumOfOverflows, xNextTaskUnblockTime,
    item,           \* the list each task is in, and the value it has there
    suspended,      \* the task that has suspended the scheduler
    uxPendedTicks,
    xPendingReadyList,
    semaphore,      \* uxMessagesWaiting, cTxLock and xTasksWaitingToReceive
    pc,             \* where each task is
    ticks,          \* the time it waits for
    timeOut,        \* xTimeOut of a take; *pxPreviousWakeTime of a periodic task
    now,            \* history: ticks since the start
    due             \* history: when the wait of each task is over, in such ticks

clock == <<xTickCount, xNumOfOverflows, xNextTaskUnblockTime>>
scheduler == <<item, suspended, uxPendedTicks, xPendingReadyList>>
local == <<ticks, timeOut>>
history == <<now, due>>
vars == <<clock, scheduler, semaphore, pc, local, history>>

UNLOCKED == -1
LOCKED_UNMODIFIED == 0
Ready == [list |-> "ready", value |-> 0]
NoTime == [count |-> 0, entering |-> 0]

Init ==
    /\ xTickCount = 0 /\ xNumOfOverflows = 0 /\ xNextTaskUnblockTime = portMAX_DELAY
    /\ item = [t \in Tasks |-> Ready] /\ suspended = Nobody /\ uxPendedTicks = 0 /\ xPendingReadyList = {}
    /\ semaphore = [messages |-> 0, lock |-> UNLOCKED, waiting |-> <<>>]
    /\ pc = [t \in Tasks |-> "idle"] /\ ticks = [t \in Tasks |-> 0]
    /\ timeOut = [t \in Tasks |-> NoTime]
    /\ now = 0 /\ due = [t \in Tasks |-> 0]

\* The count of ticks that does not wrap.
Count == xNumOfOverflows * Wrap + xTickCount

Runs(t) == suspended = t \/ (suspended = Nobody /\ item[t].list = "ready")
At(t, l) == pc[t] = l /\ Runs(t)
Goto(t, l) == pc' = [pc EXCEPT ![t] = l]

\* A call returns: its variables are gone.
Return(t) ==
    /\ Goto(t, "idle") /\ ticks' = [ticks EXCEPT ![t] = 0]
    /\ timeOut' = [timeOut EXCEPT ![t] = NoTime] /\ due' = [due EXCEPT ![t] = 0]

-----------------------------------------------------------------------------
(* The lists of delayed tasks, and the tick                                *)

In(items, l) == {t \in Tasks : items[t].list = l}

\* prvResetNextTaskUnblockTime: the head of the list, which is in order.
HeadValue(items) ==
    IF In(items, "delayed") = {} THEN portMAX_DELAY
    ELSE CHOOSE v \in 0 .. portMAX_DELAY :
            /\ \E t \in In(items, "delayed") : items[t].value = v
            /\ \A t \in In(items, "delayed") : v <= items[t].value

\* taskSWITCH_DELAYED_LISTS.
Switched(items) ==
    [t \in Tasks |->
        CASE items[t].list = "overflow" -> [items[t] EXCEPT !.list = "delayed"]
          [] items[t].list = "delayed"  -> [items[t] EXCEPT !.list = "overflow"]
          [] OTHER -> items[t]]

Woken(items, ts) == [t \in Tasks |-> IF t \in ts THEN Ready ELSE items[t]]

\* uxListRemove, of each of these tasks.
Without(w, ts) ==
    LET left[n \in 0 .. Len(w)] ==
            IF n = 0 THEN <<>>
            ELSE IF w[n] \in ts THEN left[n - 1] ELSE Append(left[n - 1], w[n])
    IN left[Len(w)]

\* xTaskIncrementTick, with the scheduler not suspended.
IncrementTick(k) ==
    LET tick == (k.tick + 1) % Wrap
        items == IF tick = 0 THEN Switched(k.item) ELSE k.item
        next == IF tick = 0 THEN HeadValue(items) ELSE k.next
        over == {t \in In(items, "delayed") : items[t].value <= tick}
        left == Woken(items, over)
    IN [tick |-> tick, overflows |-> k.overflows + IF tick = 0 THEN 1 ELSE 0,
        item |-> IF tick >= next THEN left ELSE items,
        next |-> IF tick >= next THEN HeadValue(left) ELSE next,
        waiting |-> IF tick >= next THEN Without(k.waiting, over) ELSE k.waiting]

Kernel(items, next) ==
    [tick |-> xTickCount, overflows |-> xNumOfOverflows, item |-> items, next |-> next,
     waiting |-> semaphore.waiting]

Becomes(k) ==
    /\ xTickCount' = k.tick /\ xNumOfOverflows' = k.overflows /\ xNextTaskUnblockTime' = k.next
    /\ item' = k.item /\ semaphore' = [semaphore EXCEPT !.waiting = k.waiting]

\* A wait that has a time.
Timed(t) ==
    \/ t \in Periodic
    \/ pc[t] \notin {"idle", "try", "delay", "resume_delay", "delayed"} /\ ticks[t] # portMAX_DELAY

\* The tick interrupt.  Bound: no call is held up for more than MaxLag ticks
\* after its time, and a periodic task begins its next delay by then; the
\* counter does not go round in the meantime.
Tick ==
    /\ now < MaxTime /\ now' = now + 1
    /\ \A t \in Tasks : Timed(t) => now < due[t] + MaxLag
    /\ IF suspended = Nobody
       THEN Becomes(IncrementTick(Kernel(item, xNextTaskUnblockTime))) /\ UNCHANGED uxPendedTicks
       ELSE uxPendedTicks' = uxPendedTicks + 1 /\ UNCHANGED <<clock, item, semaphore>>
    /\ UNCHANGED <<suspended, xPendingReadyList, pc, local, due>>

\* Mutated form: a wait that ends after the wrap is like any other.
AddToDelayedOnly(t, wait, forever) ==
    LET v == (xTickCount + wait) % Wrap IN
    IF forever /\ wait = portMAX_DELAY
    THEN item' = [item EXCEPT ![t] = [list |-> "suspended", value |-> 0]] /\ UNCHANGED clock
    ELSE /\ item' = [item EXCEPT ![t] = [list |-> "delayed", value |-> v]]
         /\ xNextTaskUnblockTime' =
                IF v >= xTickCount /\ v < xNextTaskUnblockTime THEN v ELSE xNextTaskUnblockTime
         /\ UNCHANGED <<xTickCount, xNumOfOverflows>>

\* Mutated form: the time of the next wake-up stays.
AddToDelayedNextStays(t, wait, forever) ==
    LET v == (xTickCount + wait) % Wrap IN
    /\ item' = [item EXCEPT ![t] =
                    IF forever /\ wait = portMAX_DELAY THEN [list |-> "suspended", value |-> 0]
                    ELSE [list |-> IF v < xTickCount THEN "overflow" ELSE "delayed", value |-> v]]
    /\ UNCHANGED clock

\* prvAddCurrentTaskToDelayedList.
AddToDelayedList(t, wait, forever) ==
    LET v == (xTickCount + wait) % Wrap IN
    IF forever /\ wait = portMAX_DELAY
    THEN item' = [item EXCEPT ![t] = [list |-> "suspended", value |-> 0]] /\ UNCHANGED clock
    ELSE /\ item' = [item EXCEPT ![t] = [list |-> IF v < xTickCount THEN "overflow" ELSE "delayed", value |-> v]]
         /\ xNextTaskUnblockTime' =
                IF v >= xTickCount /\ v < xNextTaskUnblockTime THEN v ELSE xNextTaskUnblockTime
         /\ UNCHANGED <<xTickCount, xNumOfOverflows>>

-----------------------------------------------------------------------------
(* The suspension of the scheduler                                         *)

Suspend(t, l) ==
    /\ suspended' = t /\ Goto(t, l)
    /\ UNCHANGED <<clock, item, uxPendedTicks, xPendingReadyList, semaphore>>

\* Mutated form: the ticks that were held back are forgotten.
ResumeForgets(t, l) ==
    LET items == Woken(item, xPendingReadyList)
        next == IF xPendingReadyList = {} THEN xNextTaskUnblockTime ELSE HeadValue(items)
    IN /\ suspended' = Nobody /\ xPendingReadyList' = {} /\ uxPendedTicks' = 0
       /\ Becomes(Kernel(items, next))
       /\ Goto(t, l)

\* xTaskResumeAll: the wake-ups that were held back, then the ticks.
ResumeAll(t, l) ==
    LET items == Woken(item, xPendingReadyList)
        next == IF xPendingReadyList = {} THEN xNextTaskUnblockTime ELSE HeadValue(items)
        after[n \in 0 .. uxPendedTicks] ==
            IF n = 0 THEN Kernel(items, next) ELSE IncrementTick(after[n - 1])
    IN /\ suspended' = Nobody /\ xPendingReadyList' = {} /\ uxPendedTicks' = 0
       /\ Becomes(after[uxPendedTicks])
       /\ Goto(t, l)

-----------------------------------------------------------------------------
(* vTaskDelayUntil, vTaskDelay                                             *)

BeginDelay(t) ==
    /\ t \notin Takers \ Delayers /\ At(t, "idle") /\ suspended = Nobody
    /\ Suspend(t, "delay")
    /\ \E d \in Delays : ticks' = IF t \in Delayers THEN [ticks EXCEPT ![t] = d] ELSE ticks
    /\ UNCHANGED <<timeOut, history>>

\* Mutated form: the wake time is compared without regard to the wrap.
DelayUntilNoWrap(t) ==
    LET previous == timeOut[t].entering
        wake == (previous + Period) % Wrap
    IN /\ t \in Periodic /\ At(t, "delay")
       /\ timeOut' = [timeOut EXCEPT ![t].entering = wake]
       /\ due' = [due EXCEPT ![t] = @ + Period]
       /\ IF wake > xTickCount
          THEN AddToDelayedList(t, (wake - xTickCount) % Wrap, FALSE) ELSE UNCHANGED <<clock, item>>
       /\ Goto(t, "resume_delay")
       /\ UNCHANGED <<suspended, uxPendedTicks, xPendingReadyList, semaphore, ticks, now>>

DelayUntil(t) ==
    LET previous == timeOut[t].entering
        wake == (previous + Period) % Wrap
    IN /\ t \in Periodic /\ At(t, "delay")
       /\ timeOut' = [timeOut EXCEPT ![t].entering = wake]
       /\ due' = [due EXCEPT ![t] = @ + Period]
       /\ IF \/ xTickCount < previous /\ wake < previous /\ wake > xTickCount
             \/ xTickCount >= previous /\ (wake < previous \/ wake > xTickCount)
          THEN AddToDelayedList(t, (wake - xTickCount) % Wrap, FALSE) ELSE UNCHANGED <<clock, item>>
       /\ Goto(t, "resume_delay")
       /\ UNCHANGED <<suspended, uxPendedTicks, xPendingReadyList, semaphore, ticks, now>>

Delay(t) ==
    /\ t \in Delayers /\ At(t, "delay")
    /\ AddToDelayedList(t, ticks[t], FALSE)
    /\ due' = [due EXCEPT ![t] = Count + ticks[t]]
    /\ Goto(t, "resume_delay")
    /\ UNCHANGED <<suspended, uxPendedTicks, xPendingReadyList, semaphore, local, now>>

EndDelay(t) ==
    /\ At(t, "resume_delay")
    /\ ResumeAll(t, "delayed")
    /\ UNCHANGED <<local, history>>

\* The task runs again.
AfterDelay(t) ==
    /\ At(t, "delayed") /\ suspended = Nobody
    /\ IF t \in Delayers THEN Return(t) ELSE Goto(t, "idle") /\ UNCHANGED <<local, due>>
    /\ UNCHANGED <<clock, scheduler, semaphore, now>>

-----------------------------------------------------------------------------
(* xSemaphoreTake of a binary semaphore                                    *)

\* An interrupt or a task wakes the first that waits.  With tickless idle the
\* next wake-up is computed again.
Wake(w) ==
    /\ semaphore' = w
    /\ LET woken == {semaphore.waiting[i] : i \in 1 .. Len(semaphore.waiting) - Len(w.waiting)} IN
       /\ IF suspended = Nobody
          THEN item' = Woken(item, woken) /\ UNCHANGED xPendingReadyList
          ELSE xPendingReadyList' = xPendingReadyList \cup woken /\ UNCHANGED item
       /\ xNextTaskUnblockTime' = IF woken = {} THEN xNextTaskUnblockTime ELSE HeadValue(item')
    /\ UNCHANGED <<xTickCount, xNumOfOverflows, suspended, uxPendedTicks>>

Rest(s, n) == SubSeq(s, n + 1, Len(s))

\* Mutated form: a locked queue is not told that it was given.
GiveFromISRUncounted ==
    /\ semaphore.messages = 0
    /\ IF semaphore.lock = UNLOCKED
       THEN Wake([semaphore EXCEPT !.messages = 1, !.waiting = Rest(@, 1)])
       ELSE Wake([semaphore EXCEPT !.messages = 1])
    /\ UNCHANGED <<pc, local, history>>

\* xQueueGiveFromISR.
GiveFromISR ==
    /\ semaphore.messages = 0
    /\ IF semaphore.lock = UNLOCKED
       THEN Wake([semaphore EXCEPT !.messages = 1, !.waiting = Rest(@, 1)])
       ELSE Wake([semaphore EXCEPT !.messages = 1, !.lock = @ + 1])
    /\ UNCHANGED <<pc, local, history>>

Take(t) ==
    /\ t \in Takers /\ At(t, "idle")
    /\ \E w \in Waits : ticks' = [ticks EXCEPT ![t] = w]
    /\ Goto(t, "try")
    /\ UNCHANGED <<clock, scheduler, semaphore, timeOut, history>>

Got(t) ==
    /\ pc[t] \in {"try", "retry"} /\ Runs(t) /\ semaphore.messages = 1
    /\ semaphore' = [semaphore EXCEPT !.messages = 0]
    /\ Return(t)
    /\ UNCHANGED <<clock, scheduler, now>>

Entering == [count |-> xNumOfOverflows, entering |-> xTickCount]

\* Nothing there: leave, or note the time at the first attempt.
NotGot(t) ==
    /\ pc[t] \in {"try", "retry"} /\ Runs(t) /\ semaphore.messages = 0
    /\ \/ ticks[t] = 0 /\ Return(t)
       \/ /\ ticks[t] # 0 /\ pc[t] = "try"
          /\ timeOut' = [timeOut EXCEPT ![t] = Entering] /\ due' = [due EXCEPT ![t] = Count + ticks[t]]
          /\ Goto(t, "suspend") /\ UNCHANGED ticks
       \/ ticks[t] # 0 /\ pc[t] = "retry" /\ Goto(t, "suspend") /\ UNCHANGED <<local, due>>
    /\ UNCHANGED <<clock, scheduler, semaphore, now>>

SuspendAll(t) ==
    /\ t \in Takers /\ At(t, "suspend") /\ suspended = Nobody
    /\ Suspend(t, "lock")
    /\ UNCHANGED <<local, history>>

LockQueue(t) ==
    /\ At(t, "lock")
    /\ semaphore' = [semaphore EXCEPT !.lock = IF @ = UNLOCKED THEN LOCKED_UNMODIFIED ELSE @]
    /\ Goto(t, "check")
    /\ UNCHANGED <<clock, scheduler, local, history>>

\* xTaskCheckForTimeOut.
CheckForTimeOut(t) ==
    LET passed == (xTickCount - timeOut[t].entering) % Wrap
        expired == \/ xNumOfOverflows # timeOut[t].count /\ xTickCount >= timeOut[t].entering
                   \/ passed >= ticks[t]
    IN /\ At(t, "check")
       /\ \/ /\ ticks[t] = portMAX_DELAY
             /\ Goto(t, "empty") /\ UNCHANGED local
          \/ /\ ticks[t] # portMAX_DELAY /\ expired
             /\ Goto(t, "unlock_expired") /\ UNCHANGED local
          \/ /\ ticks[t] # portMAX_DELAY /\ ~expired
             /\ ticks' = [ticks EXCEPT ![t] = @ - passed] /\ timeOut' = [timeOut EXCEPT ![t] = Entering]
             /\ Goto(t, "empty")
       /\ UNCHANGED <<clock, scheduler, semaphore, history>>

IsQueueEmpty(t) ==
    /\ At(t, "empty")
    /\ Goto(t, IF semaphore.messages = 0 THEN "place" ELSE "unlock")
    /\ UNCHANGED <<clock, scheduler, semaphore, local, history>>

\* vTaskPlaceOnEventList.
PlaceOnEventList(t) ==
    /\ At(t, "place")
    /\ semaphore' = [semaphore EXCEPT !.waiting = Append(@, t)]
    /\ AddToDelayedList(t, ticks[t], TRUE)
    /\ Goto(t, "unlock")
    /\ UNCHANGED <<suspended, uxPendedTicks, xPendingReadyList, local, history>>

\* Mutated form: the queue stays locked if nothing was given.
UnlockQueueIfGiven(t) ==
    LET n == IF semaphore.lock > Len(semaphore.waiting) THEN Len(semaphore.waiting) ELSE semaphore.lock IN
    /\ pc[t] \in {"unlock", "unlock_expired"} /\ Runs(t)
    /\ IF n > 0 THEN Wake([semaphore EXCEPT !.lock = UNLOCKED, !.waiting = Rest(@, n)])
                ELSE Wake(semaphore)
    /\ Goto(t, IF pc[t] = "unlock" THEN "resume" ELSE "resume_expired")
    /\ UNCHANGED <<local, history>>

\* prvUnlockQueue: one wake-up for each time it was given.
UnlockQueue(t) ==
    LET n == IF semaphore.lock > Len(semaphore.waiting) THEN Len(semaphore.waiting) ELSE semaphore.lock IN
    /\ pc[t] \in {"unlock", "unlock_expired"} /\ Runs(t)
    /\ Wake([semaphore EXCEPT !.lock = UNLOCKED, !.waiting = Rest(@, n)])
    /\ Goto(t, IF pc[t] = "unlock" THEN "resume" ELSE "resume_expired")
    /\ UNCHANGED <<local, history>>

ResumeTake(t) ==
    /\ \/ At(t, "resume") /\ ResumeAll(t, "retry")
       \/ At(t, "resume_expired") /\ ResumeAll(t, "expired")
    /\ UNCHANGED <<local, history>>

\* The time is over: one more look.
Expired(t) ==
    /\ At(t, "expired")
    /\ \/ semaphore.messages = 0 /\ Return(t)
       \/ semaphore.messages = 1 /\ Goto(t, "retry") /\ UNCHANGED <<local, due>>
    /\ UNCHANGED <<clock, scheduler, semaphore, now>>

-----------------------------------------------------------------------------
TakeStep(t) ==
    \/ Got(t) \/ NotGot(t) \/ SuspendAll(t) \/ LockQueue(t) \/ CheckForTimeOut(t)
    \/ IsQueueEmpty(t) \/ PlaceOnEventList(t) \/ UnlockQueue(t) \/ ResumeTake(t) \/ Expired(t)

DelayStep(t) == DelayUntil(t) \/ Delay(t) \/ EndDelay(t) \/ AfterDelay(t)

Next ==
    \/ \E t \in Tasks : Take(t) \/ TakeStep(t) \/ BeginDelay(t) \/ DelayStep(t)
    \/ Tick \/ GiveFromISR

Places == {"idle", "delay", "resume_delay", "delayed", "try", "retry", "suspend", "lock", "check", "empty", "place",
           "unlock", "unlock_expired", "resume", "resume_expired", "expired"}

\* Where the task is changes: what each of the steps of a call does.
GoesOn(t) == pc[t] # "idle" /\ Runs(t) /\ \E l \in Places : pc' = [pc EXCEPT ![t] = l]

\* A call goes on while its task can run.
Spec == Init /\ [][Next]_vars /\ \A t \in Tasks : WF_pc(GoesOn(t))
-----------------------------------------------------------------------------
Lists == {"ready", "delayed", "overflow", "suspended"}

\* Every variable has its type; the queue is locked, ticks and wake-ups are
\* held back only while the scheduler is suspended.
TypeOK ==
    /\ xTickCount \in 0 .. portMAX_DELAY /\ xNumOfOverflows \in Nat /\ xNextTaskUnblockTime \in 0 .. portMAX_DELAY
    /\ item \in [Tasks -> [list : Lists, value : 0 .. portMAX_DELAY]]
    /\ suspended \in Tasks \cup {Nobody} /\ uxPendedTicks \in Nat /\ xPendingReadyList \subseteq Takers
    /\ semaphore.messages \in 0 .. 1 /\ semaphore.lock \in -1 .. 1 /\ semaphore.waiting \in Seq(Takers)
    /\ suspended = Nobody => semaphore.lock = UNLOCKED /\ uxPendedTicks = 0 /\ xPendingReadyList = {}
    /\ pc \in [Tasks -> Places] /\ ticks \in [Tasks -> 0 .. portMAX_DELAY]
    /\ now \in 0 .. MaxTime

\* No tick is lost: those held back while the scheduler was suspended are
\* counted later, across a wrap, too.
TicksKept == Count + uxPendedTicks = now

\* configASSERT of taskSWITCH_DELAYED_LISTS (os_tasks.c:244): when the counter
\* is about to wrap, nobody is left in the list that is exchanged.
DelayedEmptyAtWrap == xTickCount = portMAX_DELAY => In(item, "delayed") = {}

\* Nobody sleeps longer than asked for, on whichever side of the wrap the end
\* is, and however often a wait was begun again for what was left.
NotLate == \A t \in Tasks : item[t].list \in {"delayed", "overflow"} => Count < due[t]

\* And nobody is woken before, nor is a take given up before.
NotEarly ==
    \A t \in Tasks :
        (\/ pc[t] = "delayed" /\ item[t].list = "ready"
         \/ pc[t] \in {"unlock_expired", "resume_expired", "expired"})
        => Count >= due[t]

\* No wake-up is lost: a semaphore that is given while a task waits for it is
\* taken, also when it is given between the look at it and the sleep.
GivenIsTaken ==
    (semaphore.messages = 1 /\ semaphore.waiting # <<>>) ~>
        (semaphore.messages = 0 \/ semaphore.waiting = <<>>)

=============================================================================
