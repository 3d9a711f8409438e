-------------------------- MODULE SharedFlashProofs --------------------------
(***************************************************************************)
(* For every number of operations and every interleaving of the tasks: the *)
(* commands of eeprom_write are issued in privileged mode, a masked image  *)
(* command is alone, the reset task leaves a whole boot_info, and the mode *)
(* of a task comes back unless two writes met.                             *)
(***************************************************************************)
EXTENDS SharedFlash, TLAPS

-----------------------------------------------------------------------------
(* The inductive invariant, by what each part is about.                    *)

Labels == {"idle", "delay", "raise", "sysecr", "pet_privileged", "pet_user", "down"}
              \cup InWrite \cup ImageLabels
Values == Writers \cup {"init", "blank", "garbage"}
Records == [Parts -> Values]
Steps == {"erase", "head", "tail"}
Jobs == Seq([slot : Slots, new : Records])

\* What the FSM executes of eeprom_write.
Commands == [by : Writers, op : Steps, slot : Slots, value : Values]
ImageCommands == [by : {"updater"}, op : {"image"}, slot : {"none"}, value : {"none"}]

TypeInv ==
    /\ pc \in [Tasks -> Labels] /\ mode \in [Tasks -> {"privileged", "user"}]
    /\ masked \in {Nobody, "updater"}
    /\ job \in [Writers -> Jobs] /\ step \in [Writers -> Steps]
    /\ fsm \in Commands \cup ImageCommands \cup {NoCommand}
    /\ eeprom \in [Slots -> Records]

\* A task in eeprom_write has a record to write.
JobInv == \A t \in Writers : pc[t] \in InWrite \cup {"raise"} => job[t] # <<>>

\* Interrupts are masked for an image command only; it has waited for the FSM.
MaskInv ==
    masked = "updater" =>
        /\ pc["updater"] \in ImageLabels
        /\ pc["updater"] = "img_issue" => fsm.op = "none"
        /\ pc["updater"] \in {"img_ready", "img_issue"} /\ mode["updater"] = "privileged" => bank = image.bank

\* The reset task has begun to write boot_info.
Rebooting == pc["rebooter"] \in InWrite \cup {"raise", "sysecr"}

\* The command it issues next, or has issued.
Mine ==
    [by |-> "rebooter", op |-> step["rebooter"], slot |-> "boot",
     value |-> IF step["rebooter"] = "erase" THEN "blank" ELSE "rebooter"]

Holds(h, t) == eeprom["boot"]["head"] = h /\ eeprom["boot"]["tail"] = t

\* Nobody but the FSM interferes with it, which has nothing else to do once
\* the task has waited; so boot_info is what its last command left.
RebootInv ==
    LET at == pc["rebooter"]
        s  == step["rebooter"]
    IN
    /\ Rebooting => masked # "updater"
    /\ at \in InWrite \cup {"raise"} => job["rebooter"] = <<[slot |-> "boot", new |-> Whole("rebooter")]>>
    /\ at \in {"raise", "reset"} => s = "erase"
    /\ at \in {"bank", "ready"} => s # "tail" /\ (s = "head" => fsm.op = "none" /\ Holds("blank", "blank"))
    /\ at \in {"ready", "issue", "busy"} => bank = EepromBank
    /\ at = "issue" =>
          /\ fsm.op = "none"
          /\ s = "head" => Holds("blank", "blank")
          /\ s = "tail" => Holds("rebooter", "blank")
    /\ at = "busy" /\ fsm.op # "none" =>
          /\ fsm = Mine
          /\ s = "head" => Holds("blank", "blank")
          /\ s = "tail" => Holds("rebooter", "blank")
    /\ at = "busy" /\ fsm.op = "none" =>
          /\ s = "erase" => Holds("blank", "blank")
          /\ s = "head" => Holds("rebooter", "blank")
          /\ s = "tail" => Holds("rebooter", "rebooter")
    /\ at \in {"reset", "sysecr"} => fsm.op = "none" /\ Holds("rebooter", "rebooter")

IInv == TypeInv /\ JobInv /\ CommandsPrivileged /\ MaskInv /\ RebootInv

-----------------------------------------------------------------------------
(* The types, and that a task in eeprom_write has a record to write.       *)

LEMMA RecordFacts ==
    /\ \A v \in Values : Whole(v) \in Records
    /\ \A r \in Records, t \in Writers : \A parts : Update(r, parts, t) \in Records
<1>1. \A v \in Values : Whole(v) \in Records
  BY DEF Whole, Records
<1>2. ASSUME NEW r \in Records, NEW t \in Writers, NEW parts PROVE Update(r, parts, t) \in Records
  <2>1. \A p \in Parts : (IF p \in parts THEN t ELSE r[p]) \in Values
    BY DEF Records, Values
  <2> QED
    BY <2>1 DEF Update, Records
<1> QED
  BY <1>1, <1>2

LEMMA ReadFacts ==
    ASSUME TypeInv, NEW s \in Slots, NEW r \in Read(s)
    PROVE  r \in Records
<1>1. Whole("garbage") \in Records
  BY RecordFacts DEF Values
<1> QED
  BY <1>1 DEF Read, TypeInv

\* The records that a command of a service, or the reset task, writes.
LEMMA JobFacts ==
    /\ \A s \in Slots, r \in Records : <<[slot |-> s, new |-> r]>> \in Jobs
    /\ <<>> \in Jobs
    /\ \A j \in Jobs : j # <<>> => Head(j) \in [slot : Slots, new : Records] /\ Tail(j) \in Jobs
<1> DEFINE W == [slot : Slots, new : Records]
<1>1. \A s \in Slots, r \in Records : [slot |-> s, new |-> r] \in W
  OBVIOUS
<1>2. Jobs = Seq(W)
  BY DEF Jobs
<1> HIDE DEF W
<1>3. \A s \in Slots, r \in Records : <<[slot |-> s, new |-> r]>> \in Seq(W)
  <2> SUFFICES ASSUME NEW s \in Slots, NEW r \in Records PROVE <<[slot |-> s, new |-> r]>> \in Seq(W)
    OBVIOUS
  <2> DEFINE x == [slot |-> s, new |-> r]
  <2>1. x \in W
    BY <1>1
  <2> HIDE DEF x
  <2>2. <<x>> \in Seq(W)
    BY <2>1
  <2> QED
    BY <2>2 DEF x
<1>4. <<>> \in Seq(W) /\ \A j \in Seq(W) : j # <<>> => Head(j) \in W /\ Tail(j) \in Seq(W)
  OBVIOUS
<1>5. \A s \in Slots, r \in Records : <<[slot |-> s, new |-> r]>> \in Jobs
  BY <1>2, <1>3
<1>6. <<>> \in Jobs /\ \A j \in Jobs : j # <<>> => Head(j) \in W /\ Tail(j) \in Jobs
  BY <1>2, <1>4
<1>7. \A j \in Jobs : j # <<>> => Head(j) \in [slot : Slots, new : Records] /\ Tail(j) \in Jobs
  BY <1>6 DEF W
<1> QED
  BY <1>5, <1>6, <1>7

LEMMA ServiceJobs ==
    /\ <<WriteOf("app"), WriteOf("update")>> \in Jobs
    /\ <<WriteOf("update")>> \in Jobs
<1>1. Whole("updater") \in Records
  BY RecordFacts DEF Values, Writers, Services
<1>2. WriteOf("app") \in [slot : Slots, new : Records] /\ WriteOf("update") \in [slot : Slots, new : Records]
  BY <1>1 DEF WriteOf, Slots
<1> QED
  BY <1>2 DEF Jobs

LEMMA InitTypes == Init => TypeInv /\ JobInv
<1> SUFFICES ASSUME Init PROVE TypeInv /\ JobInv
  OBVIOUS
<1>1. Whole("init") \in Records
  BY RecordFacts DEF Values
<1>2. eeprom \in [Slots -> Records]
  BY <1>1 DEF Init
<1>3. job \in [Writers -> Jobs]
  BY JobFacts DEF Init
<1>4. pc \in [Tasks -> Labels] /\ mode \in [Tasks -> {"privileged", "user"}]
  BY DEF Init, Labels, CreatedMode
<1>5. step \in [Writers -> Steps]
  BY DEF Init, Steps
<1>6. JobInv
  BY DEF Init, JobInv, InWrite, Tasks
<1> QED
  BY <1>2, <1>3, <1>4, <1>5, <1>6 DEF Init, TypeInv

\* A task begins to write the records of w.
LEMMA BeginTypes ==
    ASSUME TypeInv, JobInv, NEW t \in Writers, NEW w \in Jobs, BeginWrites(t, w),
           NEW l \in {"raise", "img_bank"}, Goto(t, l), l = "raise" => w # <<>>
    PROVE  /\ pc' \in [Tasks -> Labels]
           /\ job' \in [Writers -> Jobs] /\ step' \in [Writers -> Steps]
           /\ JobInv'
<1>1. pc' \in [Tasks -> Labels]
  BY DEF TypeInv, Goto, Labels, ImageLabels, Tasks
<1>2. job' \in [Writers -> Jobs] /\ step' \in [Writers -> Steps]
  BY DEF TypeInv, BeginWrites, Steps
<1>3. JobInv'
  <2> SUFFICES ASSUME NEW u \in Writers, pc'[u] \in InWrite \cup {"raise"} PROVE job'[u] # <<>>
    BY DEF JobInv
  <2>1. CASE u = t
    BY <2>1 DEF TypeInv, Goto, BeginWrites, InWrite, Tasks
  <2>2. CASE u # t
    BY <2>2 DEF TypeInv, JobInv, Goto, BeginWrites, Tasks
  <2> QED
    BY <2>1, <2>2
<1> QED
  BY <1>1, <1>2, <1>3

\* A step of a task that leaves the records it has to write.
LEMMA GoesOnTypes ==
    ASSUME TypeInv, JobInv, NEW t \in Tasks, NEW l \in Labels, Goto(t, l), UNCHANGED job,
           t \in Writers /\ l \in InWrite \cup {"raise"} => job[t] # <<>>
    PROVE  pc' \in [Tasks -> Labels] /\ JobInv'
<1>1. pc' \in [Tasks -> Labels]
  BY DEF TypeInv, Goto
<1>2. ASSUME NEW u \in Writers, pc'[u] \in InWrite \cup {"raise"} PROVE job'[u] # <<>>
  <2>1. CASE u = t
    BY <1>2, <2>1 DEF TypeInv, Goto
  <2>2. CASE u # t
    BY <1>2, <2>2 DEF TypeInv, JobInv, Goto, Tasks
  <2> QED
    BY <2>1, <2>2
<1> QED
  BY <1>1, <1>2 DEF JobInv

LEMMA ReadModifyWriteTypes ==
    ASSUME TypeInv, JobInv, NEW t \in Services, NEW s \in Slots, NEW parts, ReadModifyWrite(t, s, parts)
    PROVE  TypeInv' /\ JobInv'
<1>1. t \in Writers
  BY DEF Writers
<1>2. PICK r \in Read(s) : BeginWrites(t, <<[slot |-> s, new |-> Update(r, parts, t)]>>)
  BY DEF ReadModifyWrite
<1>3. Update(r, parts, t) \in Records
  BY <1>1, ReadFacts, RecordFacts
<1>4. <<[slot |-> s, new |-> Update(r, parts, t)]>> \in Jobs
  BY <1>3, JobFacts
<1>5. Goto(t, "raise") /\ UNCHANGED <<mode, masked, fsm, eeprom>>
  BY DEF ReadModifyWrite, device
<1>6. <<[slot |-> s, new |-> Update(r, parts, t)]>> # <<>>
  OBVIOUS
<1>7. pc' \in [Tasks -> Labels] /\ job' \in [Writers -> Jobs] /\ step' \in [Writers -> Steps] /\ JobInv'
  BY <1>1, <1>2, <1>4, <1>5, <1>6, BeginTypes
<1> QED
  BY <1>5, <1>7 DEF TypeInv

LEMMA BeginImageTypes ==
    ASSUME TypeInv, JobInv, NEW cmd, NEW b, NEW w \in Jobs, BeginImage(cmd, b, w)
    PROVE  TypeInv' /\ JobInv'
<1>1. BeginWrites("updater", w) /\ Goto("updater", "img_bank") /\ UNCHANGED <<mode, fsm, eeprom>>
  BY DEF BeginImage, device
<1>2. pc' \in [Tasks -> Labels] /\ job' \in [Writers -> Jobs] /\ step' \in [Writers -> Steps] /\ JobInv'
  BY <1>1, BeginTypes DEF Writers, Services
<1>3. masked' \in {Nobody, "updater"}
  BY DEF BeginImage, TypeInv
<1> QED
  BY <1>1, <1>2, <1>3 DEF TypeInv

LEMMA RebootDueTypes ==
    ASSUME TypeInv, JobInv, RebootDue
    PROVE  TypeInv' /\ JobInv'
<1>1. "rebooter" \in Writers /\ "boot" \in Slots
  BY DEF Writers, Slots
<1>2. PICK r \in Read("boot") :
         BeginWrites("rebooter", <<[slot |-> "boot", new |-> Update(r, Parts, "rebooter")]>>)
  BY DEF RebootDue
<1>3. Update(r, Parts, "rebooter") \in Records
  BY <1>1, ReadFacts, RecordFacts
<1>4. <<[slot |-> "boot", new |-> Update(r, Parts, "rebooter")]>> \in Jobs
  BY <1>1, <1>3, JobFacts
<1>5. Goto("rebooter", "raise") /\ UNCHANGED <<mode, masked, fsm, eeprom>>
  BY DEF RebootDue, device
<1>6. <<[slot |-> "boot", new |-> Update(r, Parts, "rebooter")]>> # <<>>
  OBVIOUS
<1>7. pc' \in [Tasks -> Labels] /\ job' \in [Writers -> Jobs] /\ step' \in [Writers -> Steps] /\ JobInv'
  BY <1>1, <1>2, <1>4, <1>5, <1>6, BeginTypes
<1> QED
  BY <1>5, <1>7 DEF TypeInv

\* What the FSM is handed has the type of a command.
LEMMA IssueTypes ==
    ASSUME TypeInv, NEW t \in Tasks, NEW b, NEW c \in Commands \cup ImageCommands, Issue(t, b, c)
    PROVE  fsm' \in Commands \cup ImageCommands \cup {NoCommand}
BY DEF Issue, TypeInv

LEMMA IssueCommandTypes ==
    ASSUME TypeInv, JobInv, NEW t \in Writers, IssueCommand(t)
    PROVE  TypeInv' /\ JobInv'
<1> DEFINE c == [by |-> t, op |-> step[t], slot |-> Head(job[t]).slot,
                 value |-> IF step[t] = "erase" THEN "blank" ELSE Head(job[t]).new[step[t]]]
<1>1. job[t] # <<>> /\ job[t] \in Jobs /\ step[t] \in Steps
  BY DEF IssueCommand, At, JobInv, InWrite, TypeInv
<1>2. Head(job[t]).slot \in Slots /\ Head(job[t]).new \in Records
  BY <1>1, JobFacts
<1>3. step[t] # "erase" => Head(job[t]).new[step[t]] \in Values
  BY <1>1, <1>2 DEF Records, Steps, Parts
<1>4. c \in Commands
  BY <1>1, <1>2, <1>3 DEF Commands, Values
<1>5. Issue(t, EepromBank, c)
  BY DEF IssueCommand
<1> HIDE DEF c
<1>6. fsm' \in Commands \cup ImageCommands \cup {NoCommand}
  BY <1>4, <1>5, IssueTypes DEF Tasks
<1>7. Goto(t, "busy") /\ UNCHANGED <<mode, masked, job, step, eeprom>>
  BY DEF IssueCommand, work
<1>8. pc' \in [Tasks -> Labels] /\ JobInv'
  BY <1>1, <1>7, GoesOnTypes DEF Labels, InWrite, Tasks
<1> QED
  BY <1>6, <1>7, <1>8 DEF TypeInv

LEMMA FsmDoneTypes ==
    ASSUME TypeInv, JobInv, FsmDone
    PROVE  TypeInv' /\ JobInv'
<1>1. fsm' = NoCommand /\ UNCHANGED <<pc, mode, masked, job, step>>
  BY DEF FsmDone, cpu, work
<1>2. JobInv'
  BY <1>1 DEF JobInv
<1>3. eeprom' \in [Slots -> Records]
  <2>1. CASE UNCHANGED eeprom
    BY <2>1 DEF TypeInv
  <2>2. CASE fsm.op = "erase" /\ eeprom' = [eeprom EXCEPT ![fsm.slot] = Blank]
    <3>1. Blank \in Records
      BY RecordFacts DEF Blank, Values
    <3> QED
      BY <2>2, <3>1 DEF TypeInv
  <2>3. CASE /\ fsm.op \in Parts
             /\ eeprom' = [eeprom EXCEPT ![fsm.slot][fsm.op] = Burn(eeprom[fsm.slot][fsm.op], fsm.value)]
    <3>1. fsm \in Commands
      BY <2>3 DEF TypeInv, ImageCommands, NoCommand, Parts
    <3>2. fsm.slot \in Slots /\ fsm.value \in Values
      BY <3>1 DEF Commands
    <3>3. Burn(eeprom[fsm.slot][fsm.op], fsm.value) \in Values
      BY <3>2 DEF Burn, Values
    <3>4. eeprom[fsm.slot] \in [Parts -> Values]
      BY <3>2 DEF TypeInv, Records
    <3>5. [eeprom[fsm.slot] EXCEPT ![fsm.op] = Burn(eeprom[fsm.slot][fsm.op], fsm.value)] \in Records
      BY <3>3, <3>4 DEF Records
    <3> QED
      BY <2>3, <3>5 DEF TypeInv
  <2> QED
    BY <2>1, <2>2, <2>3 DEF FsmDone
<1> QED
  BY <1>1, <1>2, <1>3 DEF TypeInv

LEMMA RaiseTypes ==
    ASSUME TypeInv, JobInv, NEW t \in Writers, RaisePrivilege(t)
    PROVE  TypeInv' /\ JobInv'
<1>1. Goto(t, "bank") /\ UNCHANGED <<masked, job, step, fsm, eeprom>> /\ job[t] # <<>>
  BY DEF RaisePrivilege, work, device, At, JobInv
<1>2. pc' \in [Tasks -> Labels] /\ JobInv'
  BY <1>1, GoesOnTypes DEF Labels, InWrite, Tasks
<1>3. mode' \in [Tasks -> {"privileged", "user"}]
  BY DEF RaisePrivilege, TypeInv
<1> QED
  BY <1>1, <1>2, <1>3 DEF TypeInv

LEMMA WaitTypes ==
    ASSUME TypeInv, JobInv, NEW t \in Writers, SelectBank(t) \/ AwaitReady(t) \/ AwaitDone(t)
    PROVE  TypeInv' /\ JobInv'
<1>1. UNCHANGED <<mode, masked, job, fsm, eeprom>> /\ job[t] # <<>>
  BY DEF SelectBank, AwaitReady, AwaitDone, work, device, At, JobInv, InWrite
<1>2. \E l \in InWrite : Goto(t, l)
  BY DEF SelectBank, AwaitReady, AwaitDone, InWrite
<1>3. pc' \in [Tasks -> Labels] /\ JobInv'
  BY <1>1, <1>2, GoesOnTypes DEF Labels, Tasks
<1>4. step' \in [Writers -> Steps]
  BY DEF SelectBank, AwaitReady, AwaitDone, work, TypeInv, Steps
<1> QED
  BY <1>1, <1>3, <1>4 DEF TypeInv

LEMMA ResetPrivilegeTypes ==
    ASSUME TypeInv, JobInv, NEW t \in Writers, ResetPrivilege(t)
    PROVE  TypeInv' /\ JobInv'
<1>1. UNCHANGED <<masked, step, fsm, eeprom>> /\ job' = [job EXCEPT ![t] = Tail(@)]
      /\ Goto(t, IF job'[t] # <<>> THEN "raise" ELSE IF t = "rebooter" THEN "sysecr" ELSE "idle")
  BY DEF ResetPrivilege, device
<1>2. job[t] \in Jobs /\ job[t] # <<>>
  BY DEF ResetPrivilege, At, JobInv, InWrite, TypeInv
<1>3. job' \in [Writers -> Jobs]
  BY <1>1, <1>2, JobFacts DEF TypeInv
<1>4. pc' \in [Tasks -> Labels]
  BY <1>1 DEF Goto, TypeInv, Labels, Tasks
<1>5. ASSUME NEW u \in Writers, pc'[u] \in InWrite \cup {"raise"} PROVE job'[u] # <<>>
  <2>1. CASE u = t
    BY <1>1, <1>5, <2>1 DEF TypeInv, Goto, Tasks, InWrite
  <2>2. CASE u # t
    BY <1>1, <1>5, <2>2 DEF TypeInv, JobInv, Goto, Tasks
  <2> QED
    BY <2>1, <2>2
<1>6. mode' \in [Tasks -> {"privileged", "user"}]
  BY DEF ResetPrivilege, TypeInv
<1> QED
  BY <1>1, <1>3, <1>4, <1>5, <1>6 DEF TypeInv, JobInv

LEMMA ImageTypes ==
    ASSUME TypeInv, JobInv, ImageCommand
    PROVE  TypeInv' /\ JobInv'
<1> "updater" \in Writers /\ "updater" \in Tasks
  BY DEF Writers, Services, Tasks
<1>1. UNCHANGED <<mode, job, step, eeprom>>
  BY DEF ImageCommand, ImageSelectBank, ImageAwaitReady, ImageIssue, ImageDone, work, device
<1>2. \E l \in Labels : Goto("updater", l) /\ (l \in InWrite \cup {"raise"} => job["updater"] # <<>>)
  <2>1. CASE ImageDone
    BY <2>1 DEF ImageDone, Labels, InWrite
  <2>2. CASE ~ImageDone
    BY <2>2 DEF ImageCommand, ImageSelectBank, ImageAwaitReady, ImageIssue, Labels, ImageLabels, InWrite
  <2> QED
    BY <2>1, <2>2
<1>3. pc' \in [Tasks -> Labels] /\ JobInv'
  BY <1>1, <1>2, GoesOnTypes
<1>4. masked' \in {Nobody, "updater"}
  BY DEF ImageCommand, ImageSelectBank, ImageAwaitReady, ImageIssue, ImageDone, TypeInv
<1>5. fsm' \in Commands \cup ImageCommands \cup {NoCommand}
  <2>1. CASE UNCHANGED fsm
    BY <2>1 DEF TypeInv
  <2>2. CASE Issue("updater", image.bank, [by |-> "updater", op |-> "image", slot |-> "none", value |-> "none"])
    <3>1. [by |-> "updater", op |-> "image", slot |-> "none", value |-> "none"] \in ImageCommands
      BY DEF ImageCommands
    <3> QED
      BY <2>2, <3>1, IssueTypes
  <2> QED
    BY <2>1, <2>2 DEF ImageCommand, ImageSelectBank, ImageAwaitReady, ImageIssue, ImageDone, device
<1> QED
  BY <1>1, <1>3, <1>4, <1>5 DEF TypeInv

LEMMA WatchdogTypes ==
    ASSUME TypeInv, JobInv, WatchdogRaise \/ WatchdogReset \/ RebootCommand
    PROVE  TypeInv' /\ JobInv'
<1>1. UNCHANGED <<masked, job, step, fsm, eeprom>>
  BY DEF WatchdogRaise, WatchdogReset, RebootCommand, work, device
<1>2. \E t \in Tasks : \E l \in Labels : Goto(t, l) /\ l \notin InWrite \cup {"raise"}
  BY DEF WatchdogRaise, WatchdogReset, RebootCommand, Labels, InWrite, Tasks, Writers
<1>3. pc' \in [Tasks -> Labels] /\ JobInv'
  BY <1>1, <1>2, GoesOnTypes
<1>4. mode' \in [Tasks -> {"privileged", "user"}]
  BY DEF WatchdogRaise, WatchdogReset, RebootCommand, TypeInv
<1> QED
  BY <1>1, <1>3, <1>4 DEF TypeInv

LEMMA ResetTypes ==
    ASSUME TypeInv, Reset
    PROVE  TypeInv' /\ JobInv'
<1>1. pc' = [t \in Tasks |-> "down"] /\ pc' \in [Tasks -> Labels]
  BY DEF Reset, Labels
<1>2. mode' \in [Tasks -> {"privileged", "user"}]
  BY DEF Reset, CreatedMode
<1>3. job' \in [Writers -> Jobs] /\ step' \in [Writers -> Steps]
  BY JobFacts DEF Reset, Steps
<1>4. JobInv'
  BY <1>1 DEF JobInv, InWrite, Tasks
<1>5. masked' \in {Nobody, "updater"} /\ fsm' = NoCommand /\ eeprom' \in [Slots -> Records]
  BY DEF Reset, TypeInv
<1> QED
  BY <1>1, <1>2, <1>3, <1>4, <1>5 DEF TypeInv

LEMMA NextTypes ==
    ASSUME TypeInv, JobInv, [Next]_vars
    PROVE  TypeInv' /\ JobInv'
<1>1. CASE AddressCommand \/ SetCommand \/ LeopCommand \/ EraseApp
  BY <1>1, ReadModifyWriteTypes DEF AddressCommand, SetCommand, LeopCommand, EraseApp, Services, Slots
<1>2. CASE RebootCommand \/ WatchdogRaise \/ WatchdogReset
  BY <1>2, WatchdogTypes
<1>3. CASE InitializeUpdate \/ ProgramBlock
  BY <1>3, BeginImageTypes, ServiceJobs, JobFacts DEF InitializeUpdate, ProgramBlock
<1>4. CASE RebootDue
  BY <1>4, RebootDueTypes
<1>5. ASSUME NEW t \in Writers, EepromWrite(t) PROVE TypeInv' /\ JobInv'
  BY <1>5, RaiseTypes, WaitTypes, IssueCommandTypes, ResetPrivilegeTypes DEF EepromWrite
<1>6. CASE ImageCommand
  BY <1>6, ImageTypes
<1>7. CASE FsmDone
  BY <1>7, FsmDoneTypes
<1>8. CASE SwReset \/ UserModeAbort \/ WatchdogExpires
  BY <1>8, ResetTypes DEF SwReset, UserModeAbort, WatchdogExpires
<1>9. CASE UNCHANGED vars
  BY <1>9 DEF vars, cpu, work, device, TypeInv, JobInv
<1> QED
  BY <1>1, <1>2, <1>3, <1>4, <1>5, <1>6, <1>7, <1>8, <1>9 DEF Next

-----------------------------------------------------------------------------
(* Commands are issued in privileged mode                                  *)

LEMMA NextPrivileged ==
    ASSUME TypeInv, CommandsPrivileged, [Next]_vars
    PROVE  CommandsPrivileged'
\* A task does something that is not part of a write.
<1>1. ASSUME NEW t \in Tasks, NEW l \in Labels \ InWrite, Goto(t, l), t \notin Writers \/ UNCHANGED mode,
             \A u \in Tasks \ {t} : mode'[u] = mode[u]
      PROVE  CommandsPrivileged'
  BY <1>1 DEF CommandsPrivileged, TypeInv, Goto, Tasks
<1>2. CASE AddressCommand \/ SetCommand \/ LeopCommand \/ EraseApp
  <2>1. PICK t \in Services : Goto(t, "raise") /\ UNCHANGED mode
    BY <1>2 DEF AddressCommand, SetCommand, LeopCommand, EraseApp, ReadModifyWrite, Services
  <2> QED
    BY <2>1, <1>1 DEF Labels, InWrite, Tasks, Writers
<1>3. CASE RebootCommand \/ RebootDue
  <2>1. PICK l \in {"delay", "raise"} : Goto("rebooter", l) /\ UNCHANGED mode
    BY <1>3 DEF RebootCommand, RebootDue
  <2> QED
    BY <2>1, <1>1 DEF Labels, InWrite, Tasks, Writers
<1>4. CASE InitializeUpdate \/ ProgramBlock \/ ImageCommand
  <2>1. PICK l \in ImageLabels \cup {"idle", "raise"} : Goto("updater", l) /\ UNCHANGED mode
    BY <1>4 DEF InitializeUpdate, ProgramBlock, BeginImage, ImageCommand, ImageSelectBank, ImageAwaitReady,
                ImageIssue, ImageDone, ImageLabels
  <2> QED
    BY <2>1, <1>1 DEF Labels, InWrite, ImageLabels, Tasks, Writers, Services
<1>5. CASE WatchdogRaise \/ WatchdogReset
  <2>1. PICK l \in {"idle", "pet_privileged", "pet_user"} :
            Goto("watchdog", l) /\ \A u \in Tasks \ {"watchdog"} : mode'[u] = mode[u]
    BY <1>5 DEF WatchdogRaise, WatchdogReset, TypeInv
  <2>2. "watchdog" \in Tasks \ Writers
    BY DEF Tasks, Writers, Services
  <2> QED
    BY <2>1, <2>2, <1>1 DEF Labels, InWrite
<1>6. ASSUME NEW t \in Writers, RaisePrivilege(t) PROVE CommandsPrivileged'
  BY <1>6 DEF RaisePrivilege, CommandsPrivileged, TypeInv, Goto, Tasks
<1>7. ASSUME NEW t \in Writers, SelectBank(t) \/ AwaitReady(t) \/ IssueCommand(t) \/ AwaitDone(t)
      PROVE  CommandsPrivileged'
  <2>1. pc[t] \in InWrite /\ UNCHANGED mode /\ \E l \in InWrite : Goto(t, l)
    BY <1>7 DEF SelectBank, AwaitReady, IssueCommand, AwaitDone, At, InWrite
  <2> QED
    BY <2>1 DEF CommandsPrivileged, TypeInv, Goto, Tasks
<1>8. ASSUME NEW t \in Writers, ResetPrivilege(t) PROVE CommandsPrivileged'
  <2>1. \A u \in Tasks \ {t} : mode'[u] = mode[u] /\ pc'[u] = pc[u]
    BY <1>8 DEF ResetPrivilege, TypeInv, Goto
  <2>2. pc'[t] \notin InWrite
    BY <1>8 DEF ResetPrivilege, TypeInv, Goto, InWrite, Tasks
  <2> QED
    BY <2>1, <2>2 DEF CommandsPrivileged, Tasks
<1>9. CASE FsmDone
  BY <1>9 DEF FsmDone, cpu, CommandsPrivileged
<1>10. CASE SwReset \/ UserModeAbort \/ WatchdogExpires
  BY <1>10 DEF SwReset, UserModeAbort, WatchdogExpires, Reset, CommandsPrivileged, InWrite, Tasks
<1>11. CASE UNCHANGED vars
  BY <1>11 DEF vars, cpu, CommandsPrivileged
<1> QED
  BY <1>2, <1>3, <1>4, <1>5, <1>6, <1>7, <1>8, <1>9, <1>10, <1>11 DEF Next, EepromWrite

-----------------------------------------------------------------------------
(* A masked image command is alone                                         *)

LEMMA NobodyIsNoTask == Nobody # "updater"
BY SharedFlashAssumption

LEMMA NextMasked ==
    ASSUME TypeInv, MaskInv, [Next]_vars
    PROVE  MaskInv'
<1> USE NobodyIsNoTask
\* Under a mask only the image command goes on: nothing else can have been done.
<1>1. ASSUME NEW t \in Tasks, Runs(t), pc["updater"] \notin ImageLabels \/ t # "updater", UNCHANGED masked
      PROVE  MaskInv'
  BY <1>1 DEF MaskInv, Runs
<1>2. CASE AddressCommand \/ SetCommand \/ LeopCommand \/ EraseApp
  <2>1. PICK t \in Services : At(t, "idle") /\ UNCHANGED masked
    BY <1>2 DEF AddressCommand, SetCommand, LeopCommand, EraseApp, ReadModifyWrite, Services, Begin
  <2> QED
    BY <2>1, <1>1 DEF At, ImageLabels, Tasks, Writers
<1>3. CASE RebootCommand \/ RebootDue
  <2>1. PICK t \in {"cli", "rebooter"} : Runs(t) /\ UNCHANGED masked
    BY <1>3 DEF RebootCommand, RebootDue, Begin, At
  <2> QED
    BY <2>1, <1>1 DEF Tasks, Writers, Services
<1>4. CASE InitializeUpdate \/ ProgramBlock
  <2>1. Goto("updater", "img_bank")
    BY <1>4 DEF InitializeUpdate, ProgramBlock, BeginImage
  <2> QED
    BY <2>1 DEF Goto, TypeInv, MaskInv, ImageLabels, Tasks, Writers, Services
<1>5. ASSUME NEW t \in Writers, EepromWrite(t) PROVE MaskInv'
  <2>1. Runs(t) /\ pc[t] \in InWrite \cup {"raise"} /\ UNCHANGED masked
    BY <1>5 DEF EepromWrite, RaisePrivilege, SelectBank, AwaitReady, IssueCommand, AwaitDone, ResetPrivilege,
                At, InWrite
  <2>2. pc[t] \notin ImageLabels
    BY <2>1 DEF InWrite, ImageLabels
  <2> QED
    BY <2>1, <2>2, <1>1 DEF Tasks
<1>6. CASE WatchdogRaise \/ WatchdogReset
  <2>1. Runs("watchdog") /\ UNCHANGED masked
    BY <1>6 DEF WatchdogRaise, WatchdogReset, Begin, At
  <2> QED
    BY <2>1, <1>1 DEF Tasks
<1>7. CASE ImageSelectBank
  BY <1>7 DEF ImageSelectBank, Goto, TypeInv, MaskInv, ImageLabels, Tasks, Writers, Services, work
<1>8. CASE ImageAwaitReady
  BY <1>8 DEF ImageAwaitReady, At, Goto, TypeInv, MaskInv, ImageLabels, Tasks, Writers, Services, work, device
<1>9. CASE ImageIssue
  BY <1>9 DEF ImageIssue, Goto, TypeInv, MaskInv, ImageLabels, Tasks, Writers, Services
<1>10. CASE ImageDone
  BY <1>10 DEF ImageDone, MaskInv
<1>11. CASE FsmDone
  BY <1>11 DEF FsmDone, MaskInv, cpu, work, NoCommand
<1>12. CASE SwReset \/ UserModeAbort \/ WatchdogExpires
  BY <1>12 DEF SwReset, UserModeAbort, WatchdogExpires, Reset, MaskInv
<1>13. CASE UNCHANGED vars
  BY <1>13 DEF vars, cpu, work, device, MaskInv
<1> QED
  BY <1>2, <1>3, <1>4, <1>5, <1>6, <1>7, <1>8, <1>9, <1>10, <1>11, <1>12, <1>13 DEF Next, ImageCommand

-----------------------------------------------------------------------------
(* The reset task leaves a whole boot_info                                 *)

\* While it writes, the services wait: it has the higher priority.
LEMMA ServicesWait ==
    ASSUME Rebooting, NEW t \in Services, Runs(t)
    PROVE  FALSE
<1>1. "rebooter" \in Tasks /\ Priority("rebooter") > Priority(t)
  BY DEF Tasks, Writers, Priority, Services
<1> QED
  BY <1>1 DEF Rebooting, Runs, InWrite

\* A step that leaves the reset task, the FSM and boot_info alone.
LEMMA RebootUndisturbed ==
    ASSUME RebootInv, pc'["rebooter"] = pc["rebooter"],
           Rebooting => UNCHANGED <<masked, job, step, bank, fsm, eeprom>>
    PROVE  RebootInv'
<1>1. CASE Rebooting
  BY <1>1 DEF RebootInv, Rebooting, Mine, Holds
<1>2. CASE ~Rebooting
  BY <1>2 DEF RebootInv, Rebooting, InWrite
<1> QED
  BY <1>1, <1>2

LEMMA ServiceStep ==
    ASSUME TypeInv, RebootInv, NEW t \in Services, Runs(t), pc'["rebooter"] = pc["rebooter"]
    PROVE  RebootInv'
BY ServicesWait, RebootUndisturbed

LEMMA WriteStep ==
    ASSUME TypeInv, RebootInv, EepromWrite("rebooter")
    PROVE  RebootInv'
<1> USE DEF Tasks, Writers
<1>0. "rebooter" \in Tasks /\ "rebooter" \in Writers
  OBVIOUS
<1>1. CASE RaisePrivilege("rebooter")
  BY <1>0, <1>1 DEF RaisePrivilege, At, Goto, TypeInv, RebootInv, Rebooting, InWrite, Holds, Mine, work, device
<1>2. CASE SelectBank("rebooter")
  BY <1>0, <1>2 DEF SelectBank, At, Goto, TypeInv, RebootInv, Rebooting, InWrite, Holds, Mine, work
<1>3. CASE AwaitReady("rebooter")
  BY <1>0, <1>3 DEF AwaitReady, At, Goto, TypeInv, RebootInv, Rebooting, InWrite, Holds, Mine, work, device, Steps
<1>4. CASE IssueCommand("rebooter")
  <2> DEFINE c == [by |-> "rebooter", op |-> step["rebooter"], slot |-> Head(job["rebooter"]).slot,
                   value |-> IF step["rebooter"] = "erase" THEN "blank"
                             ELSE Head(job["rebooter"]).new[step["rebooter"]]]
  <2>1. pc["rebooter"] = "issue" /\ bank = EepromBank /\ fsm.op = "none"
    BY <1>4 DEF IssueCommand, At, RebootInv
  <2>2. job["rebooter"] = <<[slot |-> "boot", new |-> Whole("rebooter")]>>
    BY <1>4 DEF IssueCommand, At, RebootInv, InWrite
  <2>3. Head(job["rebooter"]) = [slot |-> "boot", new |-> Whole("rebooter")]
    BY <2>2
  <2>4. step["rebooter"] \in Steps
    BY <1>0 DEF TypeInv
  <2>5. step["rebooter"] # "erase" => Whole("rebooter")[step["rebooter"]] = "rebooter"
    BY <2>4 DEF Whole, Steps, Parts
  <2>6. c = Mine
    BY <2>3, <2>5 DEF Mine
  <2>7. fsm' = Mine
    BY <1>4, <2>1, <2>6 DEF IssueCommand, Issue
  <2>8. fsm'.op # "none" /\ Mine' = Mine
    BY <1>4, <2>4, <2>7 DEF Mine, Steps, IssueCommand, work
  <2>9. pc' = [pc EXCEPT !["rebooter"] = "busy"] /\ UNCHANGED <<masked, job, step, bank, eeprom>>
    BY <1>4 DEF IssueCommand, Goto, work
  <2>10. pc'["rebooter"] = "busy"
    BY <1>0, <2>9 DEF TypeInv
  <2> QED
    BY <2>1, <2>2, <2>7, <2>8, <2>9, <2>10 DEF RebootInv, Rebooting, InWrite, Holds
<1>5. CASE AwaitDone("rebooter")
  <2>1. pc["rebooter"] = "busy" /\ fsm.op = "none" /\ UNCHANGED <<masked, job, bank, fsm, eeprom>>
    BY <1>5 DEF AwaitDone, At, device
  <2>2. \/ step["rebooter"] = "erase" /\ step'["rebooter"] = "head" /\ pc'["rebooter"] = "bank"
        \/ step["rebooter"] = "head" /\ step'["rebooter"] = "tail" /\ pc'["rebooter"] = "issue"
        \/ step["rebooter"] = "tail" /\ step'["rebooter"] = "erase" /\ pc'["rebooter"] = "reset"
    BY <1>0, <1>5 DEF AwaitDone, Goto, TypeInv
  <2> QED
    BY <2>1, <2>2 DEF RebootInv, Rebooting, InWrite, Holds
<1>6. CASE ResetPrivilege("rebooter")
  <2>1. pc["rebooter"] = "reset" /\ job["rebooter"] = <<[slot |-> "boot", new |-> Whole("rebooter")]>>
    BY <1>6 DEF ResetPrivilege, At, RebootInv, InWrite
  <2>2. job' = [job EXCEPT !["rebooter"] = Tail(@)]
    BY <1>6 DEF ResetPrivilege
  <2>3. Tail(job["rebooter"]) = <<>>
    BY <2>1
  <2>4. job'["rebooter"] = <<>>
    BY <1>0, <2>2, <2>3 DEF TypeInv
  <2>5. pc'["rebooter"] = "sysecr"
    BY <1>0, <1>6, <2>4 DEF ResetPrivilege, Goto, TypeInv
  <2>6. UNCHANGED <<masked, fsm, eeprom>>
    BY <1>6 DEF ResetPrivilege, device
  <2> QED
    BY <2>1, <2>5, <2>6 DEF RebootInv, Rebooting, InWrite, Holds
<1> QED
  BY <1>1, <1>2, <1>3, <1>4, <1>5, <1>6 DEF EepromWrite

\* The FSM ends the command of the reset task, or one that it waits for.
LEMMA FsmStep ==
    ASSUME TypeInv, RebootInv, FsmDone
    PROVE  RebootInv'
<1>1. fsm' = NoCommand /\ fsm'.op = "none" /\ fsm.op # "none" /\ UNCHANGED <<pc, masked, job, step, bank>>
  BY DEF FsmDone, cpu, work, NoCommand
<1>2. CASE pc["rebooter"] # "busy"
  BY <1>1, <1>2 DEF RebootInv, Rebooting, InWrite
<1>3. CASE pc["rebooter"] = "busy"
  <2>1. fsm = Mine
    BY <1>1, <1>3 DEF RebootInv
  <2>2. fsm.slot = "boot" /\ fsm.op = step["rebooter"] /\ fsm.op # "image"
        /\ fsm.value = IF step["rebooter"] = "erase" THEN "blank" ELSE "rebooter"
    BY <2>1 DEF Mine, TypeInv, Steps, Writers
  <2>3. step["rebooter"] \in Steps /\ "boot" \in Slots /\ eeprom["boot"] \in [Parts -> Values]
    BY DEF TypeInv, Writers, Slots, Records
  <2>4. CASE step["rebooter"] = "erase"
    <3>1. eeprom' = [eeprom EXCEPT !["boot"] = Blank]
      BY <2>2, <2>4 DEF FsmDone, Parts
    <3>2. Holds("blank", "blank")'
      BY <2>3, <3>1 DEF TypeInv, Blank, Whole, Parts, Holds
    <3> QED
      BY <1>1, <1>3, <2>4, <3>2 DEF RebootInv, Rebooting, InWrite
  <2>5. CASE step["rebooter"] = "head"
    <3>1. Holds("blank", "blank")
      BY <1>1, <1>3, <2>5 DEF RebootInv
    <3>2. eeprom' = [eeprom EXCEPT !["boot"]["head"] = Burn(eeprom["boot"]["head"], "rebooter")]
      BY <2>2, <2>5 DEF FsmDone, Parts
    <3>3. eeprom'["boot"] = [eeprom["boot"] EXCEPT !["head"] = "rebooter"]
      BY <2>3, <3>1, <3>2 DEF TypeInv, Holds, Burn
    <3>4. Holds("rebooter", "blank")'
      BY <2>3, <3>1, <3>3 DEF Holds, Parts
    <3> QED
      BY <1>1, <1>3, <2>5, <3>4 DEF RebootInv, Rebooting, InWrite
  <2>6. CASE step["rebooter"] = "tail"
    <3>1. Holds("rebooter", "blank")
      BY <1>1, <1>3, <2>6 DEF RebootInv
    <3>2. eeprom' = [eeprom EXCEPT !["boot"]["tail"] = Burn(eeprom["boot"]["tail"], "rebooter")]
      BY <2>2, <2>6 DEF FsmDone, Parts
    <3>3. eeprom'["boot"] = [eeprom["boot"] EXCEPT !["tail"] = "rebooter"]
      BY <2>3, <3>1, <3>2 DEF TypeInv, Holds, Burn
    <3>4. Holds("rebooter", "rebooter")'
      BY <2>3, <3>1, <3>3 DEF Holds, Parts
    <3> QED
      BY <1>1, <1>3, <2>6, <3>4 DEF RebootInv, Rebooting, InWrite
  <2> QED
    BY <2>3, <2>4, <2>5, <2>6 DEF Steps
<1> QED
  BY <1>2, <1>3

LEMMA BeginReboot ==
    ASSUME TypeInv, RebootInv, RebootDue, step' = [step EXCEPT !["rebooter"] = "erase"]
    PROVE  RebootInv'
<1> "rebooter" \in Tasks /\ "rebooter" \in Writers
  BY DEF Tasks, Writers
<1>1. PICK r \in Read("boot") :
         BeginWrites("rebooter", <<[slot |-> "boot", new |-> Update(r, Parts, "rebooter")]>>)
  BY DEF RebootDue
<1>2. Update(r, Parts, "rebooter") = Whole("rebooter")
  BY DEF Update, Whole
<1>3. job'["rebooter"] = <<[slot |-> "boot", new |-> Whole("rebooter")]>>
  BY <1>1, <1>2 DEF BeginWrites, TypeInv
<1>4. pc'["rebooter"] = "raise" /\ step'["rebooter"] = "erase"
  BY DEF RebootDue, Goto, TypeInv
<1>5. masked' # "updater"
  BY SharedFlashAssumption DEF RebootDue, At, Runs
<1> QED
  BY <1>3, <1>4, <1>5 DEF RebootInv, Rebooting, InWrite

LEMMA NextReboot ==
    ASSUME TypeInv, RebootInv, [Next]_vars
    PROVE  RebootInv'
<1>1. CASE AddressCommand \/ SetCommand \/ LeopCommand \/ EraseApp
  <2>1. PICK t \in Services : At(t, "idle") /\ Goto(t, "raise")
    BY <1>1 DEF AddressCommand, SetCommand, LeopCommand, EraseApp, ReadModifyWrite, Services, Begin
  <2>2. pc'["rebooter"] = pc["rebooter"]
    BY <2>1 DEF Goto, TypeInv, Services, Tasks, Writers
  <2> QED
    BY <2>1, <2>2, ServiceStep DEF At
<1>2. CASE RebootCommand
  BY <1>2 DEF RebootCommand, Goto, TypeInv, RebootInv, Rebooting, InWrite, Tasks, Writers
<1>3. CASE RebootDue
  <2>1. step' = [step EXCEPT !["rebooter"] = "erase"]
    BY <1>3 DEF RebootDue, BeginWrites
  <2> QED
    BY <1>3, <2>1, BeginReboot
<1>4. CASE InitializeUpdate \/ ProgramBlock \/ ImageCommand
  <2>1. Runs("updater") /\ \E l \in Labels : Goto("updater", l)
    <3>1. CASE InitializeUpdate \/ ProgramBlock
      BY <3>1 DEF InitializeUpdate, ProgramBlock, BeginImage, Begin, At, Labels, ImageLabels
    <3>2. CASE ImageCommand
      BY <3>2 DEF ImageCommand, ImageSelectBank, ImageAwaitReady, ImageIssue, ImageDone, At, Labels, ImageLabels
    <3> QED
      BY <1>4, <3>1, <3>2
  <2>2. pc'["rebooter"] = pc["rebooter"]
    BY <2>1 DEF Goto, TypeInv, Tasks, Writers
  <2> QED
    BY <2>1, <2>2, ServiceStep DEF Services
<1>5. ASSUME NEW t \in Writers, EepromWrite(t) PROVE RebootInv'
  <2>1. CASE t = "rebooter"
    BY <1>5, <2>1, WriteStep
  <2>2. CASE t \in Services
    <3>1. Runs(t) /\ pc' = [pc EXCEPT ![t] = pc'[t]]
      BY <1>5 DEF EepromWrite, RaisePrivilege, SelectBank, AwaitReady, IssueCommand, AwaitDone, ResetPrivilege,
                  At, Goto, TypeInv, Tasks
    <3>2. pc'["rebooter"] = pc["rebooter"]
      BY <2>2, <3>1 DEF TypeInv, Services, Tasks, Writers
    <3> QED
      BY <2>2, <3>1, <3>2, ServiceStep
  <2> QED
    BY <2>1, <2>2 DEF Writers
<1>6. CASE WatchdogRaise \/ WatchdogReset
  <2>1. pc'["rebooter"] = pc["rebooter"]
    BY <1>6 DEF WatchdogRaise, WatchdogReset, Goto, TypeInv, Tasks, Writers
  <2>2. UNCHANGED <<masked, job, step, bank, fsm, eeprom>>
    BY <1>6 DEF WatchdogRaise, WatchdogReset, work, device
  <2> QED
    BY <2>1, <2>2, RebootUndisturbed
<1>7. CASE FsmDone
  BY <1>7, FsmStep
<1>8. CASE SwReset \/ UserModeAbort \/ WatchdogExpires
  <2>1. pc'["rebooter"] = "down"
    BY <1>8 DEF SwReset, UserModeAbort, WatchdogExpires, Reset, Tasks, Writers
  <2> QED
    BY <2>1 DEF RebootInv, Rebooting, InWrite
<1>9. CASE UNCHANGED vars
  BY <1>9, RebootUndisturbed DEF vars, cpu, work, device
<1> QED
  BY <1>1, <1>2, <1>3, <1>4, <1>5, <1>6, <1>7, <1>8, <1>9 DEF Next

-----------------------------------------------------------------------------
(* The mode of a task outside its writes                                   *)

Quiet == {"idle", "delay", "raise", "sysecr", "down"} \cup ImageLabels

\* The watchdog task is created in user mode, and keeps the answer of the
\* supervisor call to itself.
WatchdogInv ==
    /\ pc["watchdog"] \in {"idle", "pet_user", "down"}
    /\ pc["watchdog"] \in {"idle", "down"} => mode["watchdog"] = "user"

\* As long as no two writes met, the shared flag is that of the one task in a
\* write, and says what the task was created with.
FlagInv ==
    ~overlapped =>
        /\ \A t \in Writers : pc[t] \in Quiet => mode[t] = CreatedMode(t)
        /\ \A t, u \in Writers : pc[t] \in InWrite /\ pc[u] \in InWrite => t = u
        /\ \A t \in Writers : pc[t] \in InWrite => xRunningPrivileged = (CreatedMode(t) = "privileged")

LEMMA NextWatchdog ==
    ASSUME TypeInv, WatchdogInv, [Next]_vars
    PROVE  WatchdogInv'
<1>1. CASE WatchdogRaise
  BY <1>1 DEF WatchdogRaise, WatchdogInv, Begin, At, Goto, TypeInv, Tasks
<1>2. CASE WatchdogReset
  BY <1>2 DEF WatchdogReset, WatchdogInv, Goto, TypeInv, Tasks
<1>3. CASE SwReset \/ UserModeAbort \/ WatchdogExpires
  BY <1>3 DEF SwReset, UserModeAbort, WatchdogExpires, Reset, WatchdogInv, Tasks, CreatedMode
<1>4. CASE UNCHANGED vars
  BY <1>4 DEF vars, cpu, WatchdogInv
<1>5. CASE FsmDone
  BY <1>5 DEF FsmDone, cpu, WatchdogInv
<1>6. ASSUME NEW t \in Writers, EepromWrite(t) PROVE WatchdogInv'
  <2>1. pc'["watchdog"] = pc["watchdog"]
    BY <1>6 DEF EepromWrite, RaisePrivilege, SelectBank, AwaitReady, IssueCommand, AwaitDone, ResetPrivilege,
                Goto, TypeInv, Tasks, Writers, Services
  <2>2. mode'["watchdog"] = mode["watchdog"]
    BY <1>6 DEF EepromWrite, RaisePrivilege, SelectBank, AwaitReady, IssueCommand, AwaitDone, ResetPrivilege,
                TypeInv, Tasks, Writers, Services
  <2> QED
    BY <2>1, <2>2 DEF WatchdogInv
<1>7. CASE ImageCommand
  BY <1>7 DEF ImageCommand, ImageSelectBank, ImageAwaitReady, ImageIssue, ImageDone, Goto, WatchdogInv, TypeInv, Tasks
<1>8. CASE \/ AddressCommand \/ SetCommand \/ LeopCommand \/ RebootCommand
           \/ EraseApp \/ InitializeUpdate \/ ProgramBlock \/ RebootDue
  BY <1>8 DEF AddressCommand, SetCommand, LeopCommand, RebootCommand, EraseApp, InitializeUpdate, ProgramBlock,
              RebootDue, ReadModifyWrite, BeginImage, Goto, WatchdogInv, TypeInv, Tasks
<1> QED
  BY <1>1, <1>2, <1>3, <1>4, <1>5, <1>6, <1>7, <1>8 DEF Next

\* A step at which no writer enters or leaves a write.
LEMMA FlagUndisturbed ==
    ASSUME FlagInv, UNCHANGED <<xRunningPrivileged, overlapped>>,
           \A t \in Writers :
              /\ mode'[t] = mode[t]
              /\ pc'[t] = pc[t] \/ (pc[t] \in Quiet /\ pc'[t] \in Quiet) \/ (pc[t] \in InWrite /\ pc'[t] \in InWrite)
    PROVE  FlagInv'
<1>1. \A t \in Writers : pc'[t] \in Quiet <=> pc[t] \in Quiet
  BY DEF Quiet, InWrite, ImageLabels
<1>2. \A t \in Writers : pc'[t] \in InWrite <=> pc[t] \in InWrite
  BY DEF Quiet, InWrite, ImageLabels
<1> QED
  BY <1>1, <1>2 DEF FlagInv, CreatedMode

LEMMA RaiseFlag ==
    ASSUME TypeInv, FlagInv, NEW t \in Writers, RaisePrivilege(t)
    PROVE  FlagInv'
<1> SUFFICES ASSUME ~overlapped'
             PROVE  /\ \A u \in Writers : pc'[u] \in Quiet => mode'[u] = CreatedMode(u)
                    /\ \A u \in Writers : pc'[u] \in InWrite =>
                          u = t /\ xRunningPrivileged' = (CreatedMode(u) = "privileged")
  BY DEF FlagInv, CreatedMode
<1>1. ~overlapped /\ \A u \in Writers \ {t} : pc[u] \notin InWrite
  BY DEF RaisePrivilege
<1>2. pc[t] = "raise" /\ mode[t] = CreatedMode(t)
  BY <1>1 DEF RaisePrivilege, At, FlagInv, Quiet
<1>3. pc'[t] = "bank" /\ xRunningPrivileged' = (mode[t] = "privileged")
  BY DEF RaisePrivilege, Goto, TypeInv, Tasks
<1>4. \A u \in Writers \ {t} : pc'[u] = pc[u] /\ mode'[u] = mode[u]
  BY DEF RaisePrivilege, Goto, TypeInv, Tasks
<1>5. "bank" \notin Quiet
  BY DEF Quiet, ImageLabels
<1> QED
  BY <1>1, <1>2, <1>3, <1>4, <1>5 DEF FlagInv

LEMMA ResetFlag ==
    ASSUME TypeInv, CommandsPrivileged, FlagInv, NEW t \in Writers, ResetPrivilege(t)
    PROVE  FlagInv'
<1> SUFFICES ASSUME ~overlapped'
             PROVE  /\ \A u \in Writers : pc'[u] \in Quiet => mode'[u] = CreatedMode(u)
                    /\ \A u \in Writers : pc'[u] \notin InWrite
  BY DEF FlagInv
<1>1. ~overlapped /\ pc[t] \in InWrite
  BY DEF ResetPrivilege, At, InWrite
<1>2. xRunningPrivileged = (CreatedMode(t) = "privileged") /\ mode[t] = "privileged"
  BY <1>1 DEF FlagInv, CommandsPrivileged
<1>3. mode'[t] = CreatedMode(t)
  BY <1>2 DEF ResetPrivilege, CreatedMode, TypeInv, Tasks
<1>4. pc'[t] \in {"raise", "sysecr", "idle"}
  BY DEF ResetPrivilege, Goto, TypeInv, Tasks
<1>5. \A u \in Writers \ {t} : pc'[u] = pc[u] /\ mode'[u] = mode[u]
  BY DEF ResetPrivilege, Goto, TypeInv, Tasks
<1>6. \A u \in Writers \ {t} : pc[u] \notin InWrite
  BY <1>1 DEF FlagInv
<1>7. pc'[t] \notin InWrite
  BY <1>4 DEF InWrite
<1> QED
  BY <1>1, <1>3, <1>5, <1>6, <1>7 DEF FlagInv

LEMMA NextFlag ==
    ASSUME TypeInv, CommandsPrivileged, FlagInv, [Next]_vars
    PROVE  FlagInv'
<1>1. ASSUME NEW t \in Services, NEW s, NEW parts, ReadModifyWrite(t, s, parts) PROVE FlagInv'
  <2>1. pc[t] = "idle" /\ pc' = [pc EXCEPT ![t] = "raise"] /\ UNCHANGED <<mode, xRunningPrivileged, overlapped>>
    BY <1>1 DEF ReadModifyWrite, Begin, At, Goto
  <2> QED
    BY <2>1, FlagUndisturbed DEF Quiet, TypeInv, Writers, Tasks
<1>2. CASE RebootCommand \/ RebootDue
  <2>1. /\ pc["rebooter"] \in Quiet
        /\ \E l \in Quiet : pc' = [pc EXCEPT !["rebooter"] = l]
        /\ UNCHANGED <<mode, xRunningPrivileged, overlapped>>
    BY <1>2 DEF RebootCommand, RebootDue, At, Goto, Quiet
  <2> QED
    BY <2>1, FlagUndisturbed DEF TypeInv, Writers, Tasks
<1>3. ASSUME NEW cmd, NEW b, NEW w, BeginImage(cmd, b, w) PROVE FlagInv'
  <2>1. /\ pc["updater"] = "idle" /\ pc' = [pc EXCEPT !["updater"] = "img_bank"]
        /\ UNCHANGED <<mode, xRunningPrivileged, overlapped>>
    BY <1>3 DEF BeginImage, Begin, At, Goto
  <2> QED
    BY <2>1, FlagUndisturbed DEF Quiet, ImageLabels, TypeInv, Writers, Tasks
<1>4. CASE ImageCommand
  <2>1. /\ pc["updater"] \in ImageLabels
        /\ \E l \in Quiet : pc' = [pc EXCEPT !["updater"] = l]
        /\ UNCHANGED <<mode, xRunningPrivileged, overlapped>>
    BY <1>4 DEF ImageCommand, ImageSelectBank, ImageAwaitReady, ImageIssue, ImageDone, At, Goto, history,
                Quiet, ImageLabels
  <2>2. pc["updater"] \in Quiet
    BY <2>1 DEF Quiet
  <2> QED
    BY <2>1, <2>2, FlagUndisturbed DEF TypeInv, Writers, Tasks
<1>5. ASSUME NEW t \in Writers, EepromWrite(t) PROVE FlagInv'
  <2>1. CASE RaisePrivilege(t)
    BY <2>1, RaiseFlag
  <2>2. CASE ResetPrivilege(t)
    BY <2>2, ResetFlag
  <2>3. CASE SelectBank(t) \/ AwaitReady(t) \/ IssueCommand(t) \/ AwaitDone(t)
    <3>1. /\ pc[t] \in InWrite
          /\ \E l \in InWrite : pc' = [pc EXCEPT ![t] = l]
          /\ UNCHANGED <<mode, xRunningPrivileged, overlapped>>
      BY <2>3 DEF SelectBank, AwaitReady, IssueCommand, AwaitDone, At, Goto, history, InWrite
    <3> QED
      BY <3>1, FlagUndisturbed DEF TypeInv, Tasks
  <2> QED
    BY <1>5, <2>1, <2>2, <2>3 DEF EepromWrite
<1>6. CASE WatchdogRaise \/ WatchdogReset
  <2>1. \A t \in Writers : pc'[t] = pc[t] /\ mode'[t] = mode[t]
    BY <1>6 DEF WatchdogRaise, WatchdogReset, Goto, TypeInv, Tasks, Writers, Services
  <2>2. UNCHANGED <<xRunningPrivileged, overlapped>>
    BY <1>6 DEF WatchdogRaise, WatchdogReset, history
  <2> QED
    BY <2>1, <2>2, FlagUndisturbed
<1>7. CASE FsmDone \/ UNCHANGED vars
  <2>1. UNCHANGED <<pc, mode, xRunningPrivileged, overlapped>>
    BY <1>7 DEF FsmDone, vars, cpu, history
  <2> QED
    BY <2>1, FlagUndisturbed
<1>8. CASE SwReset \/ UserModeAbort \/ WatchdogExpires
  <2>1. Reset
    BY <1>8 DEF SwReset, UserModeAbort, WatchdogExpires
  <2>2. \A t \in Writers : pc'[t] = "down" /\ mode'[t] = CreatedMode(t)
    BY <2>1 DEF Reset, Tasks
  <2> QED
    BY <2>2 DEF FlagInv, InWrite, CreatedMode
<1> QED
  BY <1>1, <1>2, <1>3, <1>4, <1>5, <1>6, <1>7, <1>8
     DEF Next, AddressCommand, SetCommand, LeopCommand, EraseApp, InitializeUpdate, ProgramBlock, Services

-----------------------------------------------------------------------------
(* What is in the records while no two tasks race                          *)

\* Outside a write there is nothing half done, and an idle task has no record
\* to write.
ProgressOf(t) ==
    /\ pc[t] \in {"idle", "delay"} => job[t] = <<>>
    /\ pc[t] \notin {"bank", "ready", "issue", "busy"} => step[t] = "erase"
    /\ pc[t] \in {"bank", "ready"} => step[t] # "tail"

CommandOf(t) ==
    [by |-> t, op |-> step[t], slot |-> Head(job[t]).slot,
     value |-> IF step[t] = "erase" THEN "blank" ELSE Head(job[t]).new[step[t]]]

\* The task whose command the FSM executes waits for it.
ExecInv ==
    /\ fsm.op \in Steps => pc[fsm.by] = "busy" /\ fsm = CommandOf(fsm.by)
    /\ fsm.op = "image" => pc["updater"] = "img_busy"

\* The record t writes, when its head is to be programmed next, and its tail.
Ready(t, s) ==
    LET new == Head(job[t]).new
        now == eeprom[Head(job[t]).slot]
    IN  /\ s = "head" => now["head"] = "blank" /\ now["tail"] = "blank"
        /\ s = "tail" => now["head"] = new["head"] /\ now["tail"] = "blank"
        /\ s = "done" => now["head"] = new["head"] /\ now["tail"] = new["tail"]

Following(s) == IF s = "erase" THEN "head" ELSE IF s = "head" THEN "tail" ELSE "done"

WrittenBy(t) ==
    /\ pc[t] \in {"bank", "ready", "issue"} \/ (pc[t] = "busy" /\ fsm.by = t) => Ready(t, step[t])
    /\ pc[t] = "busy" /\ fsm.by # t => Ready(t, Following(step[t]))
    /\ pc[t] = "reset" => Ready(t, "done")

JobsApart == \A t, u \in Writers, s \in Slots : InJob(t, s) /\ InJob(u, s) => t = u
Untouched == \A s \in Slots : (\A t \in Writers : ~InJob(t, s)) => eeprom[s] = last[s]

KeptInv ==
    /\ last \in [Slots -> Records]
    /\ \A t \in Writers : ProgressOf(t)
    /\ ExecInv
    /\ ~raced => JobsApart /\ (\A t \in Writers : WrittenBy(t)) /\ Untouched

LEMMA NobodyWrites == \A t \in Writers : t # Nobody
BY SharedFlashAssumption DEF Writers, Services

LEMMA HeadInJob ==
    ASSUME TypeInv, NEW t \in Writers, job[t] # <<>>
    PROVE  /\ Head(job[t]).slot \in Slots /\ Head(job[t]).new \in Records
           /\ InJob(t, Head(job[t]).slot)
<1>1. job[t] \in Jobs
  BY DEF TypeInv
<1>2. 1 \in DOMAIN job[t] /\ Head(job[t]) = job[t][1]
  BY <1>1 DEF Jobs
<1> QED
  BY <1>1, <1>2, JobFacts DEF InJob

\* What is left to write when the first record is written.
LEMMA TailInJob ==
    ASSUME NEW j \in Jobs, j # <<>>, NEW s
    PROVE  (\E i \in DOMAIN j : j[i].slot = s) <=>
              Head(j).slot = s \/ \E i \in DOMAIN Tail(j) : Tail(j)[i].slot = s
<1> DEFINE W == [slot : Slots, new : Records]
<1>1. j \in Seq(W)
  BY DEF Jobs
<1> HIDE DEF W
<1>2. /\ Head(j) = j[1] /\ Len(j) \in Nat /\ Len(j) >= 1
      /\ DOMAIN j = 1 .. Len(j) /\ DOMAIN Tail(j) = 1 .. Len(j) - 1
      /\ \A i \in 1 .. Len(j) - 1 : Tail(j)[i] = j[i + 1]
  BY <1>1
<1>3. ASSUME NEW i \in DOMAIN j, j[i].slot = s
      PROVE  Head(j).slot = s \/ \E k \in DOMAIN Tail(j) : Tail(j)[k].slot = s
  <2>1. CASE i = 1
    BY <1>2, <1>3, <2>1
  <2>2. CASE i # 1
    <3>1. i - 1 \in 1 .. Len(j) - 1 /\ (i - 1) + 1 = i
      BY <1>2, <2>2
    <3>2. Tail(j)[i - 1] = j[i]
      BY <1>2, <3>1
    <3> QED
      BY <1>2, <1>3, <3>1, <3>2
  <2> QED
    BY <2>1, <2>2
<1>4. ASSUME NEW i \in DOMAIN Tail(j), Tail(j)[i].slot = s PROVE \E k \in DOMAIN j : j[k].slot = s
  <2>1. i + 1 \in 1 .. Len(j) /\ j[i + 1].slot = s
    BY <1>2, <1>4
  <2> QED
    BY <1>2, <2>1
<1>5. Head(j).slot = s => \E k \in DOMAIN j : j[k].slot = s
  BY <1>2
<1> QED
  BY <1>3, <1>4, <1>5

\* A step that leaves the records and what is to be written of them.
LEMMA KeptUndisturbed ==
    ASSUME KeptInv, UNCHANGED <<job, eeprom, last>>, raced => raced',
           ~raced' => \A t \in Writers : WrittenBy(t) => WrittenBy(t)'
    PROVE  ~raced' => JobsApart' /\ (\A t \in Writers : WrittenBy(t)') /\ Untouched'
<1> SUFFICES ASSUME ~raced' PROVE JobsApart' /\ (\A t \in Writers : WrittenBy(t)') /\ Untouched'
  OBVIOUS
<1>1. ~raced /\ JobsApart /\ Untouched /\ \A t \in Writers : WrittenBy(t)
  BY DEF KeptInv
<1>2. \A t \in Writers, s \in Slots : InJob(t, s)' <=> InJob(t, s)
  BY DEF InJob
<1>3. JobsApart' /\ Untouched'
  BY <1>1, <1>2 DEF JobsApart, Untouched
<1> QED
  BY <1>1, <1>3

\* The FSM goes on with the command of the task that waits for it.
LEMMA ExecUndisturbed ==
    ASSUME TypeInv, ExecInv, UNCHANGED fsm,
           fsm.op # "none" => \A t \in Writers : pc[t] \in {"busy", "img_busy"} =>
              pc'[t] = pc[t] /\ step'[t] = step[t] /\ job'[t] = job[t]
    PROVE  ExecInv'
<1>1. CASE fsm.op \in Steps
  <2>1. fsm.by \in Writers
    BY <1>1 DEF TypeInv, Commands, ImageCommands, NoCommand, Steps
  <2>2. pc[fsm.by] = "busy" /\ fsm = CommandOf(fsm.by)
    BY <1>1 DEF ExecInv
  <2>3. CommandOf(fsm.by)' = CommandOf(fsm.by)
    BY <1>1, <2>1, <2>2 DEF CommandOf, Steps
  <2> QED
    BY <1>1, <2>1, <2>2, <2>3 DEF ExecInv, Steps
<1>2. CASE fsm.op \notin Steps
  BY <1>2 DEF ExecInv, Writers, Services
<1> QED
  BY <1>1, <1>2

\* A task other than t is where it was, and so is what it writes.
LEMMA OtherWritten ==
    ASSUME TypeInv, JobInv, NEW u \in Writers, WrittenBy(u),
           pc'[u] = pc[u], step'[u] = step[u], job'[u] = job[u],
           pc[u] \in InWrite => eeprom'[Head(job[u]).slot] = eeprom[Head(job[u]).slot],
           pc[u] = "busy" => (fsm'.by = u <=> fsm.by = u)
    PROVE  WrittenBy(u)'
<1>1. CASE pc[u] \in InWrite
  <2>1. \A s : Ready(u, s)' <=> Ready(u, s)
    BY <1>1 DEF Ready
  <2> QED
    BY <2>1 DEF WrittenBy
<1>2. CASE pc[u] \notin InWrite
  BY <1>2 DEF WrittenBy, InWrite
<1> QED
  BY <1>1, <1>2

\* A task begins to write the records of w.
LEMMA BeginKept ==
    ASSUME TypeInv, JobInv, KeptInv, NEW t \in Writers, NEW w \in Jobs, NEW l \in {"raise", "img_bank"},
           pc[t] \in {"idle", "delay"}, BeginWrites(t, w), Goto(t, l), UNCHANGED <<fsm, eeprom, last>>
    PROVE  KeptInv'
<1>1. /\ pc'[t] = l /\ step'[t] = "erase" /\ job'[t] = w /\ job[t] = <<>>
      /\ \A u \in Writers \ {t} : pc'[u] = pc[u] /\ step'[u] = step[u] /\ job'[u] = job[u]
  BY DEF Goto, BeginWrites, TypeInv, Tasks, KeptInv, ProgressOf
<1>2. \A u \in Writers : ProgressOf(u)'
  BY <1>1 DEF KeptInv, ProgressOf
<1>3. ExecInv'
  BY <1>1, ExecUndisturbed DEF KeptInv
<1>4. ASSUME ~raced' PROVE JobsApart' /\ (\A u \in Writers : WrittenBy(u)') /\ Untouched'
  <2>1. ~raced /\ \A i \in DOMAIN w, u \in Writers \ {t} : ~InJob(u, w[i].slot)
    BY <1>4 DEF BeginWrites, Shared
  <2>2. \A u \in Writers \ {t}, s \in Slots : InJob(u, s)' <=> InJob(u, s)
    BY <1>1 DEF InJob
  <2>3. \A s \in Slots : ~InJob(t, s) /\ (InJob(t, s)' => \A u \in Writers \ {t} : ~InJob(u, s))
    BY <1>1, <2>1 DEF InJob
  <2>4. JobsApart'
    BY <2>1, <2>2, <2>3 DEF JobsApart, KeptInv
  <2>5. Untouched'
    BY <2>1, <2>2, <2>3 DEF Untouched, KeptInv
  <2>6. WrittenBy(t)'
    BY <1>1 DEF WrittenBy
  <2>7. \A u \in Writers \ {t} : WrittenBy(u)'
    BY <1>1, <2>1, OtherWritten DEF KeptInv
  <2> QED
    BY <2>4, <2>5, <2>6, <2>7
<1> QED
  BY <1>2, <1>3, <1>4 DEF KeptInv

\* A task goes on, and leaves the FSM, the records and what is to be written.
LEMMA StepKept ==
    ASSUME TypeInv, JobInv, KeptInv, NEW t \in Writers, NEW l, Goto(t, l),
           \A u \in Writers \ {t} : step'[u] = step[u],
           UNCHANGED <<job, fsm, eeprom, last, raced>>,
           pc[t] \in {"busy", "img_busy"} => fsm.op = "none",
           ProgressOf(t)', ~raced => WrittenBy(t)'
    PROVE  KeptInv'
<1>1. \A u \in Writers \ {t} : pc'[u] = pc[u]
  BY DEF Goto, TypeInv, Tasks
<1>2. \A u \in Writers : ProgressOf(u)'
  BY <1>1 DEF KeptInv, ProgressOf
<1>3. ExecInv'
  BY <1>1, ExecUndisturbed DEF KeptInv
<1>4. ASSUME ~raced', NEW u \in Writers, WrittenBy(u) PROVE WrittenBy(u)'
  <2>1. CASE u = t
    BY <1>4, <2>1
  <2>2. CASE u # t
    BY <1>1, <1>4, <2>2, OtherWritten
  <2> QED
    BY <2>1, <2>2
<1>5. ~raced' => JobsApart' /\ (\A u \in Writers : WrittenBy(u)') /\ Untouched'
  BY <1>4, KeptUndisturbed
<1> QED
  BY <1>2, <1>3, <1>5 DEF KeptInv

\* Without a race the FSM is free when a task issues a command, and takes it.
LEMMA IssueTaken ==
    ASSUME TypeInv, KeptInv, NEW t \in Writers, pc[t] \in {"issue", "img_issue"},
           NEW b, NEW c, Issue(t, b, c), ~raced'
    PROVE  ~raced /\ fsm.by = Nobody /\ fsm' = c
<1>1. ~raced /\ fsm.by \in {t, Nobody} /\ bank = b
  BY DEF Issue
<1>2. fsm.by # t
  <2> SUFFICES ASSUME fsm.by = t PROVE FALSE
    OBVIOUS
  <2>1. t # Nobody
    BY NobodyWrites
  <2>2. fsm \in Commands \cup ImageCommands
    BY <2>1 DEF TypeInv, NoCommand
  <2>3. pc[t] \in {"busy", "img_busy"}
    BY <2>2 DEF KeptInv, ExecInv, Commands, ImageCommands
  <2> QED
    BY <2>3
<1>3. fsm = NoCommand
  BY <1>1, <1>2, NobodyWrites DEF TypeInv, Commands, ImageCommands, Writers, Services
<1> QED
  BY <1>1, <1>2, <1>3 DEF Issue, NoCommand

LEMMA IssueKept ==
    ASSUME TypeInv, JobInv, KeptInv, NEW t \in Writers, IssueCommand(t)
    PROVE  KeptInv'
<1>1. /\ pc[t] = "issue" /\ pc'[t] = "busy" /\ UNCHANGED <<job, step, eeprom, last>>
      /\ \A u \in Writers \ {t} : pc'[u] = pc[u]
      /\ Issue(t, EepromBank, CommandOf(t))
  BY DEF IssueCommand, At, Goto, work, TypeInv, Tasks, CommandOf
<1>2. \A u \in Writers : ProgressOf(u)'
  BY <1>1 DEF KeptInv, ProgressOf
<1>3. ExecInv'
  <2>1. CASE UNCHANGED fsm
    BY <1>1, <2>1, ExecUndisturbed DEF KeptInv
  <2>2. CASE fsm' = CommandOf(t)
    <3>1. CommandOf(t)' = CommandOf(t)
      BY <1>1 DEF CommandOf
    <3>2. step[t] # "image"
      BY DEF TypeInv, Steps
    <3> QED
      BY <1>1, <2>2, <3>1, <3>2 DEF ExecInv, CommandOf
  <2> QED
    BY <1>1, <2>1, <2>2 DEF Issue
<1>4. raced => raced'
  BY <1>1 DEF Issue
<1>5. ASSUME ~raced', NEW u \in Writers, WrittenBy(u) PROVE WrittenBy(u)'
  <2>1. fsm.by = Nobody /\ fsm'.by = t
    BY <1>1, <1>5, IssueTaken DEF CommandOf
  <2>2. CASE u = t
    <3>1. Ready(t, step[t])
      BY <1>1, <1>5, <2>2 DEF WrittenBy
    <3>2. Ready(t, step[t])'
      BY <1>1, <3>1 DEF Ready
    <3> QED
      BY <1>1, <2>1, <2>2, <3>2 DEF WrittenBy
  <2>3. CASE u # t
    BY <1>1, <1>5, <2>1, <2>3, OtherWritten, NobodyWrites
  <2> QED
    BY <2>2, <2>3
<1>6. ~raced' => JobsApart' /\ (\A u \in Writers : WrittenBy(u)') /\ Untouched'
  BY <1>1, <1>4, <1>5, KeptUndisturbed
<1> QED
  BY <1>1, <1>2, <1>3, <1>6 DEF KeptInv

LEMMA ImageIssueKept ==
    ASSUME TypeInv, JobInv, KeptInv, ImageIssue
    PROVE  KeptInv'
<1> DEFINE c == [by |-> "updater", op |-> "image", slot |-> "none", value |-> "none"]
<1>1. "updater" \in Writers
  BY DEF Writers, Services
<1>2. /\ pc["updater"] = "img_issue" /\ pc'["updater"] = "img_busy" /\ UNCHANGED <<job, step, eeprom, last>>
      /\ \A u \in Writers \ {"updater"} : pc'[u] = pc[u]
      /\ UNCHANGED <<fsm, raced>> \/ Issue("updater", image.bank, c)
  BY <1>1 DEF ImageIssue, At, Goto, work, TypeInv, Tasks
<1>3. \A u \in Writers : ProgressOf(u)'
  BY <1>2 DEF KeptInv, ProgressOf
<1>4. ExecInv'
  <2>1. CASE UNCHANGED fsm
    BY <1>2, <2>1, ExecUndisturbed DEF KeptInv
  <2>2. CASE fsm' = c
    BY <1>2, <2>2 DEF ExecInv, Steps
  <2> QED
    BY <1>2, <2>1, <2>2 DEF Issue
<1>5. raced => raced'
  BY <1>2 DEF Issue
<1>6. ASSUME ~raced', NEW u \in Writers, WrittenBy(u) PROVE WrittenBy(u)'
  <2>1. UNCHANGED fsm \/ (fsm.by = Nobody /\ fsm'.by = "updater")
    BY <1>1, <1>2, <1>6, IssueTaken
  <2>2. CASE u = "updater"
    BY <1>2, <2>2 DEF WrittenBy
  <2>3. CASE u # "updater"
    BY <1>2, <1>6, <2>1, <2>3, OtherWritten, NobodyWrites
  <2> QED
    BY <2>2, <2>3
<1>7. ~raced' => JobsApart' /\ (\A u \in Writers : WrittenBy(u)') /\ Untouched'
  BY <1>2, <1>5, <1>6, KeptUndisturbed
<1> QED
  BY <1>2, <1>3, <1>4, <1>7 DEF KeptInv

\* The command of eeprom_write that the FSM executes is done: it has changed
\* the record its task waits for, and no other task's.
LEMMA FsmDoneKept ==
    ASSUME TypeInv, JobInv, KeptInv, FsmDone
    PROVE  KeptInv'
<1>1. fsm.op # "none" /\ fsm' = NoCommand /\ UNCHANGED <<pc, job, step, last, raced>>
  BY DEF FsmDone, cpu, work, history
<1>2. \A u \in Writers : ProgressOf(u)'
  BY <1>1 DEF KeptInv, ProgressOf
<1>3. ExecInv'
  BY <1>1 DEF ExecInv, NoCommand, Steps
<1>4. ASSUME ~raced PROVE JobsApart' /\ (\A u \in Writers : WrittenBy(u)') /\ Untouched'
  <2>1. \A u \in Writers : (\A s \in Slots : InJob(u, s)' <=> InJob(u, s)) /\ fsm'.by # u
    BY <1>1, NobodyWrites DEF InJob, NoCommand
  <2>2. JobsApart'
    BY <1>4, <2>1 DEF JobsApart, KeptInv
  <2>3. CASE fsm.op = "image"
    <3>1. UNCHANGED eeprom
      BY <2>3 DEF FsmDone, Parts
    <3>2. fsm.by = "updater" /\ pc["updater"] = "img_busy"
      BY <2>3 DEF KeptInv, ExecInv, TypeInv, Commands, ImageCommands, NoCommand, Steps
    <3>3. Untouched'
      BY <1>1, <1>4, <2>1, <3>1 DEF Untouched, KeptInv
    <3>4. \A u \in Writers : WrittenBy(u)'
      BY <1>1, <1>4, <2>1, <3>1, <3>2, OtherWritten DEF KeptInv
    <3> QED
      BY <2>2, <3>3, <3>4
  <2>4. ASSUME fsm.op # "image", NEW t \in Writers, t = fsm.by, NEW s \in Slots, s = fsm.slot
        PROVE  JobsApart' /\ (\A u \in Writers : WrittenBy(u)') /\ Untouched'
    <3>1. fsm \in Commands
      BY <1>1, <2>4 DEF TypeInv, ImageCommands, NoCommand
    <3>2. step[t] = fsm.op /\ pc[t] = "busy" /\ fsm = CommandOf(t)
      BY <2>4, <3>1 DEF KeptInv, ExecInv, Commands, CommandOf
    <3>3. job[t] # <<>> /\ s = Head(job[t]).slot
      BY <2>4, <3>2 DEF JobInv, InWrite, CommandOf
    <3>4. InJob(t, s)
      BY <3>3, HeadInJob
    <3>5. \A r \in Slots \ {s} : eeprom'[r] = eeprom[r]
      BY <2>4 DEF FsmDone, TypeInv
    <3>6. Untouched'
      BY <1>1, <1>4, <2>1, <3>4, <3>5 DEF Untouched, KeptInv
    <3>7. ASSUME NEW u \in Writers, u # t PROVE WrittenBy(u)'
      <4>1. pc[u] \in InWrite => Head(job[u]).slot \in Slots /\ Head(job[u]).slot # s
        BY <1>4, <3>4, <3>7, HeadInJob DEF JobInv, KeptInv, JobsApart
      <4> QED
        BY <1>1, <1>4, <2>1, <2>4, <3>5, <3>7, <4>1, OtherWritten DEF KeptInv
    <3>8. WrittenBy(t)'
      <4>1. Ready(t, step[t])
        BY <1>4, <2>4, <3>2 DEF KeptInv, WrittenBy
      <4>2. eeprom[s] \in Records
        BY DEF TypeInv
      <4>3. Ready(t, Following(step[t]))'
        <5>1. CASE fsm.op = "erase"
          <6>1. eeprom'[s] = Blank
            BY <2>4, <5>1 DEF FsmDone, TypeInv, Parts
          <6> QED
            BY <1>1, <3>2, <3>3, <5>1, <6>1 DEF Ready, Following, Blank, Whole, Parts
        <5>2. CASE fsm.op \in Parts
          <6>1. eeprom[s][fsm.op] = "blank" /\ fsm.value = Head(job[t]).new[fsm.op]
            BY <3>2, <3>3, <4>1, <5>2 DEF Ready, CommandOf, Parts
          <6>2. eeprom' = [eeprom EXCEPT ![s][fsm.op] = fsm.value]
            BY <2>4, <5>2, <6>1 DEF FsmDone, Burn, Parts
          <6>3. eeprom'[s][fsm.op] = fsm.value /\ \A p \in Parts \ {fsm.op} : eeprom'[s][p] = eeprom[s][p]
            BY <4>2, <5>2, <6>2 DEF TypeInv, Records
          <6> QED
            BY <1>1, <3>2, <3>3, <4>1, <5>2, <6>1, <6>3 DEF Ready, Following, Parts
        <5> QED
          BY <3>1, <5>1, <5>2 DEF Commands, Steps, Parts
      <4>4. fsm'.by # t /\ step' = step /\ pc' = pc
        BY <1>1, <2>1
      <4> QED
        BY <3>2, <4>3, <4>4 DEF WrittenBy
    <3> QED
      BY <2>2, <3>6, <3>7, <3>8
  <2>5. CASE fsm.op # "image"
    BY <1>1, <2>4, <2>5 DEF TypeInv, Commands, ImageCommands, NoCommand
  <2> QED
    BY <2>3, <2>5
<1> QED
  BY <1>1, <1>2, <1>3, <1>4 DEF KeptInv

\* The record is written: what is last written to it is what it holds.
LEMMA ResetKept ==
    ASSUME TypeInv, JobInv, KeptInv, NEW t \in Writers, ResetPrivilege(t)
    PROVE  KeptInv'
<1> DEFINE new == Head(job[t]).new
<1>1. /\ pc[t] = "reset" /\ job[t] # <<>> /\ job[t] \in Jobs
      /\ UNCHANGED <<step, fsm, eeprom, raced>>
      /\ job'[t] = Tail(job[t]) /\ pc'[t] \in {"raise", "sysecr", "idle"}
      /\ pc'[t] = "idle" => job'[t] = <<>>
  BY DEF ResetPrivilege, At, Goto, device, JobInv, InWrite, TypeInv, Tasks
<1>2. \A u \in Writers \ {t} : pc'[u] = pc[u] /\ job'[u] = job[u]
  BY DEF ResetPrivilege, Goto, TypeInv, Tasks
<1>3. PICK s \in Slots : s = Head(job[t]).slot /\ InJob(t, s) /\ new \in Records
  BY <1>1, HeadInJob
<1>4. last' = [last EXCEPT ![s] = new]
  BY <1>3 DEF ResetPrivilege
<1>5. last' \in [Slots -> Records]
  BY <1>3, <1>4 DEF KeptInv
<1>6. \A u \in Writers : ProgressOf(u)'
  BY <1>1, <1>2 DEF KeptInv, ProgressOf
<1>7. ExecInv'
  BY <1>1, <1>2, ExecUndisturbed DEF KeptInv
<1>8. ASSUME ~raced' PROVE JobsApart' /\ (\A u \in Writers : WrittenBy(u)') /\ Untouched'
  <2>1. ~raced /\ JobsApart /\ Untouched /\ \A u \in Writers : WrittenBy(u)
    BY <1>1, <1>8 DEF KeptInv
  <2>2. \A r : InJob(t, r) <=> r = s \/ InJob(t, r)'
    <3> SUFFICES ASSUME NEW r PROVE InJob(t, r) <=> r = s \/ InJob(t, r)'
      OBVIOUS
    <3> DEFINE j == job[t]
    <3>1. (\E i \in DOMAIN j : j[i].slot = r) <=>
             Head(j).slot = r \/ \E i \in DOMAIN Tail(j) : Tail(j)[i].slot = r
      BY <1>1, TailInJob
    <3>2. InJob(t, r)' <=> \E i \in DOMAIN Tail(j) : Tail(j)[i].slot = r
      BY <1>1 DEF InJob
    <3> QED
      BY <1>3, <3>1, <3>2 DEF InJob
  <2>3. \A u \in Writers \ {t}, r \in Slots : InJob(u, r)' <=> InJob(u, r)
    BY <1>2 DEF InJob
  <2>4. JobsApart'
    BY <2>1, <2>2, <2>3 DEF JobsApart
  <2>5. eeprom[s] = new
    <3>1. eeprom[s]["head"] = new["head"] /\ eeprom[s]["tail"] = new["tail"]
      BY <1>1, <1>3, <2>1 DEF WrittenBy, Ready
    <3>2. eeprom[s] \in [Parts -> Values] /\ new \in [Parts -> Values]
      BY <1>3 DEF TypeInv, Records
    <3> QED
      BY <3>1, <3>2 DEF Parts
  <2>6. Untouched'
    <3> SUFFICES ASSUME NEW r \in Slots, \A u \in Writers : ~InJob(u, r)' PROVE eeprom'[r] = last'[r]
      BY DEF Untouched
    <3>1. CASE r = s
      BY <1>1, <1>4, <2>5, <3>1 DEF KeptInv
    <3>2. CASE r # s
      <4>1. \A u \in Writers : ~InJob(u, r)
        BY <2>2, <2>3, <3>2
      <4>2. last'[r] = last[r]
        BY <1>4, <3>2 DEF KeptInv
      <4> QED
        BY <1>1, <2>1, <4>1, <4>2 DEF Untouched
    <3> QED
      BY <3>1, <3>2
  <2>7. WrittenBy(t)'
    BY <1>1 DEF WrittenBy
  <2>8. \A u \in Writers \ {t} : WrittenBy(u)'
    BY <1>1, <1>2, <2>1, OtherWritten
  <2> QED
    BY <2>4, <2>6, <2>7, <2>8
<1> QED
  BY <1>5, <1>6, <1>7, <1>8 DEF KeptInv

\* The steps of eeprom_write.
LEMMA WriteKept ==
    ASSUME TypeInv, JobInv, KeptInv, NEW t \in Writers, EepromWrite(t)
    PROVE  KeptInv'
<1>1. CASE RaisePrivilege(t)
  <2>1. pc[t] = "raise" /\ pc'[t] = "bank" /\ Goto(t, "bank") /\ UNCHANGED <<job, step, fsm, eeprom, last, raced>>
    BY <1>1 DEF RaisePrivilege, At, Goto, work, device, TypeInv, Tasks
  <2>2. step[t] = "erase"
    BY <2>1 DEF KeptInv, ProgressOf
  <2>3. ProgressOf(t)' /\ WrittenBy(t)'
    BY <2>1, <2>2 DEF ProgressOf, WrittenBy, Ready
  <2> QED
    BY <2>1, <2>3, StepKept
<1>2. CASE SelectBank(t)
  <2>1. pc[t] = "bank" /\ pc'[t] = "ready" /\ Goto(t, "ready") /\ UNCHANGED <<job, step, fsm, eeprom, last, raced>>
    BY <1>2 DEF SelectBank, At, Goto, work, history, TypeInv, Tasks
  <2>2. ProgressOf(t)' /\ (~raced => WrittenBy(t)')
    BY <2>1 DEF KeptInv, ProgressOf, WrittenBy, Ready
  <2> QED
    BY <2>1, <2>2, StepKept
<1>3. CASE AwaitReady(t)
  <2>1. pc[t] = "ready" /\ pc'[t] = "issue" /\ Goto(t, "issue") /\ UNCHANGED <<job, step, fsm, eeprom, last, raced>>
    BY <1>3 DEF AwaitReady, At, Goto, work, device, history, TypeInv, Tasks
  <2>2. ProgressOf(t)' /\ (~raced => WrittenBy(t)')
    BY <2>1 DEF KeptInv, ProgressOf, WrittenBy, Ready
  <2> QED
    BY <2>1, <2>2, StepKept
<1>4. CASE IssueCommand(t)
  BY <1>4, IssueKept
<1>5. CASE AwaitDone(t)
  <2>1. /\ pc[t] = "busy" /\ fsm.op = "none" /\ UNCHANGED <<job, fsm, eeprom, last, raced>>
        /\ \A u \in Writers \ {t} : step'[u] = step[u]
    BY <1>5 DEF AwaitDone, At, device, history, TypeInv
  <2>2. fsm.by # t
    BY <2>1, NobodyWrites DEF TypeInv, Commands, ImageCommands, NoCommand, Steps
  <2>3. ~raced => Ready(t, Following(step[t]))
    BY <2>1, <2>2 DEF KeptInv, WrittenBy
  <2>4. \A k : Ready(t, k)' <=> Ready(t, k)
    BY <2>1 DEF Ready
  <2>5. CASE step[t] = "erase" /\ step' = [step EXCEPT ![t] = "head"] /\ Goto(t, "bank")
    <3>1. step'[t] = "head" /\ pc'[t] = "bank"
      BY <2>5 DEF Goto, TypeInv, Tasks
    <3>2. ProgressOf(t)'
      BY <3>1 DEF ProgressOf
    <3>3. ~raced => WrittenBy(t)'
      BY <2>3, <2>4, <2>5, <3>1 DEF WrittenBy, Following
    <3> QED
      BY <2>1, <2>5, <3>2, <3>3, StepKept
  <2>6. CASE step[t] = "head" /\ step' = [step EXCEPT ![t] = "tail"] /\ Goto(t, "issue")
    <3>1. step'[t] = "tail" /\ pc'[t] = "issue"
      BY <2>6 DEF Goto, TypeInv, Tasks
    <3>2. ProgressOf(t)'
      BY <3>1 DEF ProgressOf
    <3>3. ~raced => WrittenBy(t)'
      BY <2>3, <2>4, <2>6, <3>1 DEF WrittenBy, Following
    <3> QED
      BY <2>1, <2>6, <3>2, <3>3, StepKept
  <2>7. CASE step[t] = "tail" /\ step' = [step EXCEPT ![t] = "erase"] /\ Goto(t, "reset")
    <3>1. step'[t] = "erase" /\ pc'[t] = "reset"
      BY <2>7 DEF Goto, TypeInv, Tasks
    <3>2. ProgressOf(t)'
      BY <3>1 DEF ProgressOf
    <3>3. ~raced => WrittenBy(t)'
      BY <2>3, <2>4, <2>7, <3>1 DEF WrittenBy, Following
    <3> QED
      BY <2>1, <2>7, <3>2, <3>3, StepKept
  <2> QED
    BY <1>5, <2>5, <2>6, <2>7 DEF AwaitDone
<1>6. CASE ResetPrivilege(t)
  BY <1>6, ResetKept
<1> QED
  BY <1>1, <1>2, <1>3, <1>4, <1>5, <1>6 DEF EepromWrite

LEMMA NextKept ==
    ASSUME TypeInv, JobInv, KeptInv, [Next]_vars
    PROVE  KeptInv'
<1>1. ASSUME NEW t \in Services, NEW s \in Slots, NEW parts, ReadModifyWrite(t, s, parts) PROVE KeptInv'
  <2>1. t \in Writers
    BY DEF Writers
  <2>2. PICK r \in Read(s) : BeginWrites(t, <<[slot |-> s, new |-> Update(r, parts, t)]>>)
    BY <1>1 DEF ReadModifyWrite
  <2>3. <<[slot |-> s, new |-> Update(r, parts, t)]>> \in Jobs
    BY <2>1, JobFacts, ReadFacts, RecordFacts
  <2>4. pc[t] = "idle" /\ Goto(t, "raise") /\ UNCHANGED <<fsm, eeprom, last>>
    BY <1>1 DEF ReadModifyWrite, Begin, At, device
  <2> QED
    BY <2>1, <2>2, <2>3, <2>4, BeginKept
<1>2. CASE RebootDue
  <2>1. "rebooter" \in Writers /\ "boot" \in Slots
    BY DEF Writers, Slots
  <2>2. PICK r \in Read("boot") :
           BeginWrites("rebooter", <<[slot |-> "boot", new |-> Update(r, Parts, "rebooter")]>>)
    BY <1>2 DEF RebootDue
  <2>3. <<[slot |-> "boot", new |-> Update(r, Parts, "rebooter")]>> \in Jobs
    BY <2>1, JobFacts, ReadFacts, RecordFacts
  <2>4. pc["rebooter"] = "delay" /\ Goto("rebooter", "raise") /\ UNCHANGED <<fsm, eeprom, last>>
    BY <1>2 DEF RebootDue, At, device
  <2> QED
    BY <2>1, <2>2, <2>3, <2>4, BeginKept
<1>3. ASSUME NEW cmd, NEW b, NEW w \in Jobs, BeginImage(cmd, b, w) PROVE KeptInv'
  <2>1. /\ pc["updater"] = "idle" /\ Goto("updater", "img_bank") /\ BeginWrites("updater", w)
        /\ UNCHANGED <<fsm, eeprom, last>>
    BY <1>3 DEF BeginImage, Begin, At, device
  <2> QED
    BY <2>1, BeginKept DEF Writers, Services
<1>4. CASE RebootCommand
  <2>1. /\ pc["rebooter"] = "idle" /\ Goto("rebooter", "delay") /\ "rebooter" \in Writers
        /\ UNCHANGED <<job, step, fsm, eeprom, last, raced>>
    BY <1>4 DEF RebootCommand, work, device, Writers
  <2>2. pc'["rebooter"] = "delay"
    BY <2>1 DEF Goto, TypeInv, Tasks
  <2>3. ProgressOf("rebooter")' /\ WrittenBy("rebooter")'
    BY <2>1, <2>2 DEF KeptInv, ProgressOf, WrittenBy
  <2> QED
    BY <2>1, <2>3, StepKept
<1>5. CASE ImageSelectBank \/ ImageAwaitReady \/ ImageDone
  <2>1. PICK l : /\ Goto("updater", l) /\ l \in {"img_ready", "img_issue", "idle", "raise"}
                 /\ l = "idle" => job["updater"] = <<>>
    BY <1>5 DEF ImageSelectBank, ImageAwaitReady, ImageDone
  <2>2. /\ pc["updater"] \in ImageLabels /\ UNCHANGED <<job, step, fsm, eeprom, last, raced>>
        /\ pc["updater"] = "img_busy" => fsm.op = "none"
    BY <1>5 DEF ImageSelectBank, ImageAwaitReady, ImageDone, At, ImageLabels, work, device, history
  <2>3. pc'["updater"] = l /\ "updater" \in Writers
    BY <2>1 DEF Goto, TypeInv, Tasks, Writers, Services
  <2>4. ProgressOf("updater")' /\ WrittenBy("updater")'
    BY <2>1, <2>2, <2>3 DEF KeptInv, ProgressOf, WrittenBy, ImageLabels
  <2> QED
    BY <2>1, <2>2, <2>3, <2>4, StepKept DEF ImageLabels
<1>6. CASE ImageIssue
  BY <1>6, ImageIssueKept
<1>7. ASSUME NEW t \in Writers, EepromWrite(t) PROVE KeptInv'
  BY <1>7, WriteKept
<1>8. CASE FsmDone
  BY <1>8, FsmDoneKept
<1>9. CASE WatchdogRaise \/ WatchdogReset \/ UNCHANGED vars
  <2>1. /\ UNCHANGED <<job, step, fsm, eeprom, last, raced>>
        /\ \A u \in Writers : pc'[u] = pc[u]
    BY <1>9 DEF WatchdogRaise, WatchdogReset, vars, cpu, work, device, history, Goto, TypeInv, Tasks, Writers, Services
  <2>2. \A u \in Writers : ProgressOf(u)'
    BY <2>1 DEF KeptInv, ProgressOf
  <2>3. ExecInv'
    BY <2>1, ExecUndisturbed DEF KeptInv
  <2>4. \A u \in Writers : WrittenBy(u) => WrittenBy(u)'
    BY <2>1, OtherWritten
  <2>5. ~raced' => JobsApart' /\ (\A u \in Writers : WrittenBy(u)') /\ Untouched'
    BY <2>1, <2>4, KeptUndisturbed
  <2> QED
    BY <2>1, <2>2, <2>3, <2>5 DEF KeptInv
<1>10. CASE SwReset \/ UserModeAbort \/ WatchdogExpires
  <2>1. Reset
    BY <1>10 DEF SwReset, UserModeAbort, WatchdogExpires
  <2>2. /\ last' = eeprom /\ eeprom' = eeprom /\ fsm' = NoCommand
        /\ \A u \in Writers : pc'[u] = "down" /\ job'[u] = <<>> /\ step'[u] = "erase"
    BY <2>1 DEF Reset, Tasks
  <2>3. \A u \in Writers, s \in Slots : ~InJob(u, s)'
    BY <2>2 DEF InJob
  <2>4. (\A u \in Writers : ProgressOf(u)' /\ WrittenBy(u)') /\ ExecInv'
    BY <2>2 DEF ProgressOf, WrittenBy, ExecInv, NoCommand, Steps
  <2>5. JobsApart' /\ Untouched'
    BY <2>2, <2>3 DEF JobsApart, Untouched
  <2> QED
    BY <2>2, <2>4, <2>5 DEF KeptInv, TypeInv
<1>11. CASE InitializeUpdate
  BY <1>3, <1>11, ServiceJobs DEF InitializeUpdate
<1>12. CASE ProgramBlock
  <2>1. \E b \in {0, 1}, w \in Jobs : BeginImage("program", b, w)
    BY <1>12, ServiceJobs, JobFacts DEF ProgramBlock
  <2> QED
    BY <1>3, <2>1
<1> QED
  BY <1>1, <1>2, <1>4, <1>5, <1>6, <1>7, <1>8, <1>9, <1>10, <1>11, <1>12
     DEF Next, AddressCommand, SetCommand, LeopCommand, EraseApp, Services, Slots, ImageCommand

LEMMA InitKept == Init => KeptInv
<1> SUFFICES ASSUME Init PROVE KeptInv
  OBVIOUS
<1>1. Whole("init") \in Records
  BY RecordFacts DEF Values
<1>2. last \in [Slots -> Records] /\ eeprom = last
  BY <1>1 DEF Init
<1>3. \A t \in Writers, s \in Slots : ~InJob(t, s)
  BY DEF Init, InJob
<1>4. (\A t \in Writers : ProgressOf(t) /\ WrittenBy(t)) /\ ExecInv
  BY DEF Init, ProgressOf, WrittenBy, ExecInv, NoCommand, Steps, Tasks
<1>5. JobsApart /\ Untouched
  BY <1>2, <1>3 DEF JobsApart, Untouched
<1> QED
  BY <1>2, <1>4, <1>5 DEF KeptInv

-----------------------------------------------------------------------------
(* The theorems                                                            *)

LEMMA InitInv == Init => IInv
<1> SUFFICES ASSUME Init PROVE IInv
  OBVIOUS
<1>1. TypeInv /\ JobInv
  BY InitTypes
<1>2. \A t \in Tasks : pc[t] = "idle"
  BY DEF Init
<1>3. masked # "updater"
  BY NobodyIsNoTask DEF Init
<1> QED
  BY <1>1, <1>2, <1>3 DEF IInv, CommandsPrivileged, MaskInv, RebootInv, Rebooting, InWrite, Tasks, Writers

LEMMA InvHolds == Spec => []IInv
<1>1. IInv /\ [Next]_vars => IInv'
  BY NextTypes, NextPrivileged, NextMasked, NextReboot DEF IInv
<1> QED
  BY <1>1, InitInv, PTL DEF Spec

\* Whatever the tasks do to the shared flag of raise_privilege_, no command of
\* eeprom_write is issued in user mode (bl_eeprom.c:65-68).
THEOREM AlwaysPrivileged == Spec => []CommandsPrivileged
<1>1. IInv => CommandsPrivileged
  BY DEF IInv
<1> QED
  BY <1>1, InvHolds, PTL

\* A task has the mode it was created with outside its writes, as long as no
\* two tasks were in a write at the same time, for only then does one of them
\* find the other's answer in the shared flag; the watchdog task keeps its own
\* and has its mode back even then (bl_eeprom.c:65-68).
THEOREM ModeComesBack == Spec => []PrivilegeKept
<1> DEFINE PInv == IInv /\ WatchdogInv /\ FlagInv
<1>1. Init => PInv
  <2>1. Init => WatchdogInv /\ FlagInv
    BY DEF Init, WatchdogInv, FlagInv, InWrite, Tasks, CreatedMode
  <2> QED
    BY <2>1, InitInv
<1>2. PInv /\ [Next]_vars => PInv'
  BY NextTypes, NextPrivileged, NextMasked, NextReboot, NextWatchdog, NextFlag DEF IInv
<1>3. PInv => PrivilegeKept
  <2> SUFFICES ASSUME PInv, NEW t \in Tasks,
                      pc[t] \in {"idle", "delay", "sysecr"} \cup ImageLabels, overlapped => t = "watchdog"
               PROVE  mode[t] = CreatedMode(t)
    BY DEF PrivilegeKept
  <2>1. CASE t = "watchdog"
    BY <2>1 DEF WatchdogInv, CreatedMode, ImageLabels
  <2>2. CASE t # "watchdog"
    BY <2>2 DEF FlagInv, Quiet, Tasks
  <2> QED
    BY <2>1, <2>2
<1> HIDE DEF PInv
<1> QED
  BY <1>1, <1>2, <1>3, PTL DEF Spec

\* A masked image command finds the FSM ready and its own bank active,
\* whatever command of another task it came upon (updater.c:209, 262).
THEOREM MaskedIsAlone == Spec => []MaskedImageAlone
<1>1. IInv => MaskedImageAlone
  BY DEF IInv, MaskInv, MaskedImageAlone
<1> QED
  BY <1>1, InvHolds, PTL

\* When a requested reset is done, boot_info is whole and is the reset task's,
\* whoever was writing a record when the reboot came due (bl_cli.c:243).
THEOREM RebootIsStored == Spec => []RebootStored
<1>1. IInv => RebootStored
  <2> SUFFICES ASSUME IInv, pc["rebooter"] = "sysecr" PROVE eeprom["boot"] = Whole("rebooter")
    BY DEF RebootStored
  <2>1. Holds("rebooter", "rebooter")
    BY DEF IInv, RebootInv
  <2>2. eeprom["boot"] \in [Parts -> Values]
    BY DEF IInv, TypeInv, Slots, Records
  <2> QED
    BY <2>1, <2>2 DEF Holds, Whole, Parts
<1> QED
  BY <1>1, InvHolds, PTL

\* A record that no task is writing holds what was last written to it, however
\* the writes of the tasks are interleaved, unless two of them raced
\* (bl_eeprom.c:64-88).
THEOREM RecordsAreKept == Spec => []RecordsKept
<1> DEFINE KInv == IInv /\ KeptInv
<1>1. Init => KInv
  BY InitInv, InitKept
<1>2. KInv /\ [Next]_vars => KInv'
  BY NextTypes, NextPrivileged, NextMasked, NextReboot, NextKept DEF IInv
<1>3. KInv => RecordsKept
  BY DEF KeptInv, Untouched, RecordsKept
<1> HIDE DEF KInv
<1> QED
  BY <1>1, <1>2, <1>3, PTL DEF Spec

=============================================================================
