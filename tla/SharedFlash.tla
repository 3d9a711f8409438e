----------------------------- MODULE SharedFlash ----------------------------
(***************************************************************************)
(* The tasks of the bootloader that use the flash at the same time, without *)
(* a lock: the command line, the update service, the reboot task and the   *)
(* watchdog task.  Modelled are the scheduler's priorities, the masking of *)
(* interrupts, the mode each task runs in, the static flag that            *)
(* raise_privilege_ and reset_privilege_ share, the steps of eeprom_write  *)
(* and of an image command at which a task can be preempted, and the one   *)
(* flash state machine (FSM) that executes what they issue.                *)
(*                                                                         *)
(* A record of the EEPROM has a head and a tail, as it is programmed in    *)
(* pieces; the value of a piece is the task that wrote it.                 *)
(***************************************************************************)
EXTENDS Naturals, Sequences

CONSTANTS
    Nobody,     \* no task
    MaxOps      \* bound: operations begun

ASSUME SharedFlashAssumption ==
    MaxOps \in Nat /\ Nobody \notin {"cli", "updater", "rebooter", "watchdog"}

VARIABLES
    pc,         \* where each task is
    mode,       \* the mode it runs in
    xRunningPrivileged, \* the static flag of raise_privilege_
    masked,     \* the task that has disabled interrupts, or Nobody
    job,        \* the records it has still to write
    step,       \* what eeprom_write does next: erase, program head, tail
    image,      \* the image command of the update service
    bank,       \* the active bank of the FSM
    fsm,        \* the command the FSM executes
    fsmOk,      \* FAPI_GET_FSM_STATUS is success
    eeprom,     \* the records
    last,       \* history: the value of the last complete write of a record
    overlapped, \* history: a task raised while another was in a write
    raced,      \* history: two tasks disturbed each other's commands
    ops         \* operations begun

cpu == <<pc, mode, xRunningPrivileged, masked>>
work == <<job, step, image>>
device == <<bank, fsm, fsmOk, eeprom>>
history == <<last, overlapped, raced, ops>>
vars == <<cpu, work, device, history>>

Services == {"cli", "updater"}
Writers == Services \cup {"rebooter"}
Tasks == Writers \cup {"watchdog"}
Slots == {"app", "update", "boot", "leop"}
Parts == {"head", "tail"}

CreatedMode(t) == IF t = "updater" THEN "privileged" ELSE "user"
Priority(t) == IF t \in Services THEN 1 ELSE 4

Whole(v) == [p \in Parts |-> v]
Blank == Whole("blank")
NoImage == [cmd |-> "none", bank |-> 0]
NoCommand == [by |-> Nobody, op |-> "none", slot |-> "none", value |-> "none"]

EepromBank == 7

\* The tasks as the scheduler starts them.
Init ==
    /\ pc = [t \in Tasks |-> "idle"] /\ mode = [t \in Tasks |-> CreatedMode(t)]
    /\ xRunningPrivileged = FALSE /\ masked = Nobody
    /\ job = [t \in Writers |-> <<>>] /\ step = [t \in Writers |-> "erase"] /\ image = NoImage
    /\ bank = EepromBank /\ fsm = NoCommand /\ fsmOk = TRUE
    /\ eeprom = [s \in Slots |-> Whole("init")] /\ last = eeprom
    /\ overlapped = FALSE /\ raced = FALSE /\ ops = 0

\* A task runs unless interrupts are masked by another, or one of a higher
\* priority is ready; tasks of one priority share the processor in slices.
Runs(t) ==
    /\ masked \in {t, Nobody}
    /\ \A u \in Tasks : Priority(u) > Priority(t) => pc[u] \in {"idle", "delay"}

Goto(t, l) == pc' = [pc EXCEPT ![t] = l]
At(t, l) == pc[t] = l /\ Runs(t)

\* What eeprom_read copies: nothing is defined while the bank is in use.
Read(s) == {eeprom[s]} \cup IF fsm.slot # "none" THEN {Whole("garbage")} ELSE {}

InJob(t, s) == \E i \in DOMAIN job[t] : job[t][i].slot = s
Shared(t, s) == \E u \in Writers \ {t} : InJob(u, s)

Update(record, parts, t) == [p \in Parts |-> IF p \in parts THEN t ELSE record[p]]

\* The task has the records of w to write; a record that another task is
\* writing, or has read and not yet written, is a race.
BeginWrites(t, w) ==
    /\ job' = [job EXCEPT ![t] = w]
    /\ step' = [step EXCEPT ![t] = "erase"]
    /\ raced' = (raced \/ \E i \in DOMAIN w : Shared(t, w[i].slot))

-----------------------------------------------------------------------------
(* What the tasks are asked to do                                          *)

Begin(t) ==
    /\ At(t, "idle") /\ ops < MaxOps /\ ops' = ops + 1

\* Read a record, change some of it, write it.
ReadModifyWrite(t, s, parts) ==
    /\ Begin(t)
    /\ \E r \in Read(s) : BeginWrites(t, <<[slot |-> s, new |-> Update(r, parts, t)]>>)
    /\ Goto(t, "raise")
    /\ UNCHANGED <<mode, xRunningPrivileged, masked, image, device, last, overlapped>>

AddressCommand == ReadModifyWrite("cli", "app", {"tail"})
SetCommand     == ReadModifyWrite("cli", "boot", {"head"})
LeopCommand    == ReadModifyWrite("cli", "leop", Parts)
EraseApp       == ReadModifyWrite("updater", "app", {"head"})

\* The command line creates the task, which first waits three seconds.
RebootCommand ==
    /\ Begin("cli") /\ pc["rebooter"] = "idle"
    /\ Goto("rebooter", "delay")
    /\ UNCHANGED <<mode, xRunningPrivileged, masked, work, device, last, overlapped, raced>>

\* The delay ends, sw_reset reads boot_info and writes it.
RebootDue ==
    /\ At("rebooter", "delay")
    /\ \E r \in Read("boot") :
          BeginWrites("rebooter", <<[slot |-> "boot", new |-> Update(r, Parts, "rebooter")]>>)
    /\ Goto("rebooter", "raise")
    /\ UNCHANGED <<mode, xRunningPrivileged, masked, image, device, last, overlapped, ops>>

\* An image command is masked if it erases or programs bank 0.
BeginImage(cmd, b, w) ==
    /\ Begin("updater")
    /\ image' = [cmd |-> cmd, bank |-> b]
    /\ masked' = IF cmd = "erase" \/ b = 0 THEN "updater" ELSE masked
    /\ BeginWrites("updater", w)
    /\ Goto("updater", "img_bank")
    /\ UNCHANGED <<mode, xRunningPrivileged, device, last, overlapped>>

WriteOf(s) == [slot |-> s, new |-> Whole("updater")]

InitializeUpdate == BeginImage("erase", 0, <<WriteOf("app"), WriteOf("update")>>)
ProgramBlock == \E b \in {0, 1}, w \in {<<>>, <<WriteOf("update")>>} : BeginImage("program", b, w)

-----------------------------------------------------------------------------
(* The flash state machine                                                 *)

\* A task hands the FSM a command.  While another is executed it is lost;
\* with another bank active it is lost or executed.
Issue(t, b, command) ==
    /\ IF fsm.op # "none" THEN UNCHANGED <<fsm, fsmOk>>
       ELSE \/ fsm' = command /\ fsmOk' = TRUE
            \/ bank # b /\ UNCHANGED <<fsm, fsmOk>>
    /\ raced' = (raced \/ fsm.by \notin {t, Nobody} \/ bank # b)

\* Programming a piece that is not blank with another value spoils it, and
\* the FSM may report that.
Burn(old, v) == IF old \in {"blank", v} THEN v ELSE "garbage"

FsmDone ==
    /\ fsm.op # "none"
    /\ fsm' = NoCommand
    /\ \/ /\ fsm.op = "image" /\ UNCHANGED <<eeprom, fsmOk>>
       \/ /\ fsm.op = "erase"
          /\ eeprom' = [eeprom EXCEPT ![fsm.slot] = Blank] /\ UNCHANGED fsmOk
       \/ /\ fsm.op \in Parts
          /\ LET v == Burn(eeprom[fsm.slot][fsm.op], fsm.value) IN
             /\ eeprom' = [eeprom EXCEPT ![fsm.slot][fsm.op] = v]
             /\ fsmOk' \in IF v = fsm.value THEN {TRUE} ELSE BOOLEAN
    /\ UNCHANGED <<cpu, work, bank, history>>

-----------------------------------------------------------------------------
(* eeprom_write                                                            *)

InWrite == {"bank", "ready", "issue", "busy", "reset"}

\* Mutated form: no supervisor call if the flag says privileged already.
RaiseIfFlagClear(t) ==
    /\ At(t, "raise")
    /\ mode' = IF xRunningPrivileged THEN mode ELSE [mode EXCEPT ![t] = "privileged"]
    /\ xRunningPrivileged' = (mode[t] = "privileged")
    /\ overlapped' = (overlapped \/ \E u \in Writers \ {t} : pc[u] \in InWrite)
    /\ Goto(t, "bank")
    /\ UNCHANGED <<masked, work, device, last, raced, ops>>

\* raise_privilege_: the supervisor call returns the mode it found.
RaisePrivilege(t) ==
    /\ At(t, "raise")
    /\ mode' = [mode EXCEPT ![t] = "privileged"]
    /\ xRunningPrivileged' = (mode[t] = "privileged")
    /\ overlapped' = (overlapped \/ \E u \in Writers \ {t} : pc[u] \in InWrite)
    /\ Goto(t, "bank")
    /\ UNCHANGED <<masked, work, device, last, raced, ops>>

\* Fapi_BlockErase and Fapi_BlockProgram make bank 7 active, ...
SelectBank(t) ==
    /\ At(t, "bank")
    /\ bank' = EepromBank
    /\ Goto(t, "ready")
    /\ UNCHANGED <<mode, xRunningPrivileged, masked, work, fsm, fsmOk, eeprom, history>>

\* Mutated form: the last command must have succeeded, too (bl_flash.c:179).
AwaitReadyAndSuccess(t) ==
    /\ At(t, "ready") /\ fsm.op = "none" /\ fsmOk
    /\ Goto(t, "issue")
    /\ UNCHANGED <<mode, xRunningPrivileged, masked, work, device, history>>

\* Mutated form: the FSM is not waited for.
AwaitNothing(t) ==
    /\ At(t, "ready")
    /\ Goto(t, "issue")
    /\ UNCHANGED <<mode, xRunningPrivileged, masked, work, device, history>>

\* ... wait for the FSM, ...
AwaitReady(t) ==
    /\ At(t, "ready") /\ fsm.op = "none"
    /\ Goto(t, "issue")
    /\ UNCHANGED <<mode, xRunningPrivileged, masked, work, device, history>>

\* ... issue the command, ...
IssueCommand(t) ==
    /\ At(t, "issue")
    /\ Issue(t, EepromBank,
             [by |-> t, op |-> step[t], slot |-> Head(job[t]).slot,
              value |-> IF step[t] = "erase" THEN "blank" ELSE Head(job[t]).new[step[t]]])
    /\ Goto(t, "busy")
    /\ UNCHANGED <<mode, xRunningPrivileged, masked, work, bank, eeprom, last, overlapped, ops>>

\* Mutated form: a record is programmed with one command.
AwaitDoneOnePiece(t) ==
    /\ At(t, "busy") /\ fsm.op = "none" /\ fsmOk
    /\ \/ step[t] = "erase" /\ step' = [step EXCEPT ![t] = "head"] /\ Goto(t, "bank")
       \/ step[t] = "head" /\ step' = [step EXCEPT ![t] = "erase"] /\ Goto(t, "reset")
    /\ UNCHANGED <<mode, xRunningPrivileged, masked, job, image, device, history>>

\* ... and wait for its end: an erase is followed by a program, which makes
\* the bank active again, a piece by the next piece.
AwaitDone(t) ==
    /\ At(t, "busy") /\ fsm.op = "none" /\ fsmOk
    /\ \/ step[t] = "erase" /\ step' = [step EXCEPT ![t] = "head"] /\ Goto(t, "bank")
       \/ step[t] = "head" /\ step' = [step EXCEPT ![t] = "tail"] /\ Goto(t, "issue")
       \/ step[t] = "tail" /\ step' = [step EXCEPT ![t] = "erase"] /\ Goto(t, "reset")
    /\ UNCHANGED <<mode, xRunningPrivileged, masked, job, image, device, history>>

\* Mutated form: the flag is not looked at.
ResetAlways(t) ==
    /\ At(t, "reset")
    /\ mode' = [mode EXCEPT ![t] = "user"]
    /\ last' = [last EXCEPT ![Head(job[t]).slot] = Head(job[t]).new]
    /\ job' = [job EXCEPT ![t] = Tail(@)]
    /\ Goto(t, IF job'[t] # <<>> THEN "raise" ELSE IF t = "rebooter" THEN "sysecr" ELSE "idle")
    /\ UNCHANGED <<xRunningPrivileged, masked, step, image, device, overlapped, raced, ops>>

\* reset_privilege_, and the end of eeprom_write.
ResetPrivilege(t) ==
    /\ At(t, "reset")
    /\ mode' = IF xRunningPrivileged THEN mode ELSE [mode EXCEPT ![t] = "user"]
    /\ last' = [last EXCEPT ![Head(job[t]).slot] = Head(job[t]).new]
    /\ job' = [job EXCEPT ![t] = Tail(@)]
    /\ Goto(t, IF job'[t] # <<>> THEN "raise" ELSE IF t = "rebooter" THEN "sysecr" ELSE "idle")
    /\ UNCHANGED <<xRunningPrivileged, masked, step, image, device, overlapped, raced, ops>>

-----------------------------------------------------------------------------
(* An image command of the update service, which raises no privilege       *)

\* In user mode the registers of the flash controller cannot be written.
ImageSelectBank ==
    /\ At("updater", "img_bank")
    /\ bank' = IF mode["updater"] = "privileged" THEN image.bank ELSE bank
    /\ Goto("updater", "img_ready")
    /\ UNCHANGED <<mode, xRunningPrivileged, masked, work, fsm, fsmOk, eeprom, history>>

\* Mutated form: the FSM is not waited for.
ImageAwaitNothing ==
    /\ At("updater", "img_ready")
    /\ Goto("updater", "img_issue")
    /\ UNCHANGED <<mode, xRunningPrivileged, masked, work, device, history>>

ImageAwaitReady ==
    /\ At("updater", "img_ready") /\ fsm.op = "none"
    /\ Goto("updater", "img_issue")
    /\ UNCHANGED <<mode, xRunningPrivileged, masked, work, device, history>>

ImageIssue ==
    /\ At("updater", "img_issue")
    /\ IF mode["updater"] = "privileged"
       THEN Issue("updater", image.bank, [by |-> "updater", op |-> "image", slot |-> "none", value |-> "none"])
       ELSE UNCHANGED <<fsm, fsmOk, raced>>
    /\ Goto("updater", "img_busy")
    /\ UNCHANGED <<mode, xRunningPrivileged, masked, work, bank, eeprom, last, overlapped, ops>>

ImageDone ==
    /\ At("updater", "img_busy") /\ fsm.op = "none" /\ fsmOk
    /\ masked' = Nobody /\ image' = NoImage
    /\ Goto("updater", IF job["updater"] = <<>> THEN "idle" ELSE "raise")
    /\ UNCHANGED <<mode, xRunningPrivileged, job, step, device, history>>

-----------------------------------------------------------------------------
(* The watchdog task: pet_dog keeps what the supervisor call returned in a *)
(* variable of its own.                                                    *)

WatchdogRaise ==
    /\ Begin("watchdog")
    /\ mode' = [mode EXCEPT !["watchdog"] = "privileged"]
    /\ Goto("watchdog", IF mode["watchdog"] = "privileged" THEN "pet_privileged" ELSE "pet_user")
    /\ UNCHANGED <<xRunningPrivileged, masked, work, device, last, overlapped, raced>>

WatchdogReset ==
    /\ pc["watchdog"] \in {"pet_privileged", "pet_user"} /\ Runs("watchdog")
    /\ mode' = IF pc["watchdog"] = "pet_user" THEN [mode EXCEPT !["watchdog"] = "user"] ELSE mode
    /\ Goto("watchdog", "idle")
    /\ UNCHANGED <<xRunningPrivileged, masked, work, device, history>>

-----------------------------------------------------------------------------
(* Resets                                                                  *)

\* RAM and registers are lost and the behaviour ends: what the start finds in
\* the records is in Boot and Updater.
Reset ==
    /\ pc' = [t \in Tasks |-> "down"] /\ mode' = [t \in Tasks |-> CreatedMode(t)]
    /\ xRunningPrivileged' = FALSE /\ masked' = Nobody
    /\ job' = [t \in Writers |-> <<>>] /\ step' = [t \in Writers |-> "erase"] /\ image' = NoImage
    /\ bank' = EepromBank /\ fsm' = NoCommand /\ fsmOk' = TRUE
    /\ last' = eeprom /\ overlapped' = FALSE /\ raced' = FALSE /\ ops' = MaxOps
    /\ UNCHANGED eeprom

\* The end of sw_reset.
SwReset == At("rebooter", "sysecr") /\ Reset

\* The write to a protected register in user mode may be a data abort.
UserModeAbort ==
    /\ pc["updater"] \in {"img_bank", "img_issue"} /\ Runs("updater") /\ mode["updater"] = "user"
    /\ Reset

\* While interrupts are off nobody pets the watchdog; an erase of an image may
\* take longer than its period, and a command that failed is waited for forever.
WatchdogExpires == masked # Nobody /\ pc["watchdog"] # "down" /\ Reset

-----------------------------------------------------------------------------
EepromWrite(t) ==
    \/ RaisePrivilege(t) \/ SelectBank(t) \/ AwaitReady(t)
    \/ IssueCommand(t) \/ AwaitDone(t) \/ ResetPrivilege(t)

ImageCommand == ImageSelectBank \/ ImageAwaitReady \/ ImageIssue \/ ImageDone

Next ==
    \/ AddressCommand \/ SetCommand \/ LeopCommand \/ RebootCommand
    \/ EraseApp \/ InitializeUpdate \/ ProgramBlock
    \/ RebootDue
    \/ \E t \in Writers : EepromWrite(t)
    \/ ImageCommand
    \/ FsmDone
    \/ WatchdogRaise \/ WatchdogReset
    \/ SwReset \/ UserModeAbort \/ WatchdogExpires

\* What the reboot task does once its delay is over.
RebootStep == EepromWrite("rebooter") \/ SwReset

\* Every command ends.  Under a mask the update service runs on, or the
\* watchdog does.  The reboot task has the highest priority; a tick that came
\* while interrupts were off is taken when they are on again, so its delay ends
\* even if they are on only now and then.
Fairness ==
    /\ WF_vars(FsmDone)
    /\ WF_vars(ImageCommand \/ WatchdogExpires)
    /\ WF_vars(RebootStep)
    /\ SF_vars(RebootDue)

Spec == Init /\ [][Next]_vars /\ Fairness
-----------------------------------------------------------------------------
ImageLabels == {"img_bank", "img_ready", "img_issue", "img_busy"}

\* A task is privileged from its raise to its reset: whatever other tasks do
\* to the shared flag between, no command of eeprom_write is issued in user
\* mode (bl_eeprom.c:65-68).
CommandsPrivileged ==
    \A t \in Writers : pc[t] \in InWrite => mode[t] = "privileged"

\* The mode a task was created with comes back after each of its writes, as
\* long as no two tasks were in a write at the same time; the watchdog task,
\* which does not use the shared flag, keeps its mode even then.
PrivilegeKept ==
    \A t \in Tasks :
        pc[t] \in {"idle", "delay", "sysecr"} \cup ImageLabels /\ (overlapped => t = "watchdog") =>
            mode[t] = CreatedMode(t)

\* A masked image command finds the FSM ready and its own bank active,
\* whatever command of another task it came upon (updater.c:209, 262).
MaskedImageAlone ==
    masked = "updater" /\ pc["updater"] = "img_issue" /\ mode["updater"] = "privileged" =>
        fsm.op = "none" /\ bank = image.bank

\* When a requested reset is done, boot_info is whole and is the reboot task's,
\* whoever was writing that record or another one when the reboot came due.
RebootStored == pc["rebooter"] = "sysecr" => eeprom["boot"] = Whole("rebooter")

\* A record that no task is writing holds what was last written to it: a write
\* disturbs no record but its own, however the tasks are interleaved, unless
\* one's command met the other's in the FSM or they wrote the same record.
RecordsKept ==
    ~raced => \A s \in Slots : (\A t \in Writers : ~InJob(t, s)) => eeprom[s] = last[s]

\* A reboot that was asked for comes, even if the update service or the
\* command line hangs on a command of the FSM that failed.
RebootHappens == pc["rebooter"] # "idle" ~> pc["rebooter"] = "down"

=============================================================================
