-------------------------------- MODULE Boot --------------------------------
(***************************************************************************)
(* The boot decision of main/bl_main.c and what surrounds it: the          *)
(* boot_info record in the EEPROM, sw_reset, the launch of an image        *)
(* (bl_source/bl_launch.c), and the commands of services/source/bl_cli.c   *)
(* that set the record or reboot.  A reset of any source may come between  *)
(* any two steps, also between the writes of a record.                     *)
(*                                                                         *)
(* An image is what verify_application or verify_golden finds: "valid",    *)
(* "invalid", or "unreadable" when its record points where a read aborts.  *)
(* The application is the environment: it runs, returns, or is reset; it   *)
(* does not write boot_info.  The reason in boot_info is left out: it is   *)
(* shown to the ground and decides nothing.                                *)
(***************************************************************************)
EXTENDS FlashSectors

CONSTANTS
    Blank,        \* the type byte of an erased record, none of 'A', 'G', 'B'
    MaxAttempts,  \* 5
    Byte,         \* 256
    CountMod,     \* 2^32, or a divisor of it: count is kept modulo CountMod
    GoldSize,     \* the size of the golden image
    Sources,      \* the reset sources considered
    AppStates,    \* what verification of the application may find
    GoldStates    \* what verification of the golden image may find

Types == {"A", "G", "B"}
ResetSources == {"POWERON", "OSC_FAILURE", "WATCHDOG", "WATCHDOG2", "DEBUG",
                 "INTERCONNECT", "CPU0", "SW", "EXT", "NO_RESET"}
ImageStates == {"valid", "invalid", "unreadable"}

ASSUME BootAssumption ==
    /\ Blank \notin Types
    /\ MaxAttempts \in Nat /\ Byte \in Nat \ {0} /\ MaxAttempts < Byte /\ Byte <= Word
    /\ CountMod \in Nat \ {0}
    /\ \A n \in 0 .. Word - 1 : (n - (n % Byte)) + (Byte - 1) < Word  \* Byte divides Word
    /\ Sources \subseteq ResetSources
    /\ AppStates \subseteq ImageStates /\ GoldStates \subseteq ImageStates
    /\ GoldSize \in Nat

VARIABLES
    boot,       \* boot_info in the EEPROM
    app, gold,  \* what verify_application and verify_golden find
    pc,         \* where the processor is
    rst,        \* rstSrc, the source of the reset this boot follows
    writer,     \* who is writing boot_info, see Writers
    info,       \* the writer's copy of boot_info
    bootType,   \* what get_boot_type returned
    rebooters,  \* the types of the vRebootHandler tasks that wait
    tries,      \* history: automatic launches since attempts was reset
    asked,      \* history: the types boot_info may hold
    boots,      \* history: boots, counted as b_inf.count is
    lost        \* history: "cut" or "preempted" if a write of boot_info was
images == <<app, gold>>
write == <<writer, info>>
history == <<tries, asked, boots, lost>>
vars == <<boot, images, pc, rst, write, bootType, rebooters, history>>

AllOnes == Word - 1
Preserve == "0"  \* the boot type 0 of sw_reset
ErasedInfo == [type |-> Blank, count |-> CountMod - 1, attempts |-> AllOnes]
NoInfo == [type |-> Blank, count |-> 0, attempts |-> 0]

\* bl_main, the `set' command, sw_reset in a task, sw_reset outside of any task.
Writers == {"boot", "set", "task", "reset"}
Writing == {"erase", "head", "tail"}
\* The scheduler runs and the command line is not being preempted for good.
InLoader == pc = "loader" \/ (pc \in Writing /\ writer = "set")

Init ==
    /\ \/ boot = ErasedInfo /\ asked = {} /\ lost = "cut"
       \/ \E t \in Types :
             /\ boot = [NoInfo EXCEPT !.type = t]
             /\ asked = {t} /\ lost = "no"
    /\ app \in AppStates /\ gold \in GoldStates
    /\ pc = "boot" /\ rst = "POWERON"
    /\ writer = "none" /\ info = NoInfo /\ bootType = "B" /\ rebooters = {}
    /\ tries = 0 /\ boots = 0

-----------------------------------------------------------------------------
(* A reset: everything in RAM is gone, bl_main starts again.               *)

\* What the writer has done to the count would be lost if it stopped here.
CountGone == pc = "head" \/ (pc = "erase" /\ writer = "boot")
Lose(how) == lost' = IF CountGone /\ lost # "cut" THEN how ELSE lost

Restart(src) ==
    /\ pc' = "boot" /\ rst' = src
    /\ writer' = "none" /\ info' = NoInfo /\ bootType' = "B" /\ rebooters' = {}

\* A reset that no code of this program asked for through sw_reset.  It finds
\* the processor anywhere; only the scheduler and the application start the
\* watchdog.
Reset(src) ==
    /\ src = "WATCHDOG" => InLoader \/ writer = "task" \/ pc = "app"
    /\ Restart(src)
    /\ Lose("cut")
    /\ UNCHANGED <<boot, images, tries, asked, boots>>

-----------------------------------------------------------------------------
(* Writing boot_info: erase, then the first eight bytes (type, count and   *)
(* the upper bytes of attempts), then the rest.                            *)

Write(who, new) == writer' = who /\ info' = new /\ pc' = "erase"

UpperBytes(n) == (n - (n % Byte)) + (Byte - 1)

EraseInfo ==
    /\ pc = "erase"
    /\ boot' = ErasedInfo /\ pc' = "head"
    /\ UNCHANGED <<images, rst, write, bootType, rebooters, history>>

WriteHead ==
    /\ pc = "head"
    /\ boot' = [info EXCEPT !.attempts = UpperBytes(@)]
    /\ pc' = "tail"
    /\ UNCHANGED <<images, rst, write, bootType, rebooters, history>>

\* bl_main goes on to the switch over the boot type, `set' returns, sw_reset
\* resets.
WriteTail ==
    /\ pc = "tail"
    /\ boot' = info /\ asked' = asked \cap {info.type}
    /\ \/ /\ writer \in {"boot", "set"}
          /\ pc' = IF writer = "boot" /\ bootType = "A" THEN "launch"
                   ELSE IF writer = "boot" /\ bootType = "G" THEN "golden" ELSE "loader"
          /\ writer' = "none" /\ info' = NoInfo
          /\ UNCHANGED <<rst, bootType, rebooters>>
       \/ writer \in {"task", "reset"} /\ Restart("SW")
    /\ UNCHANGED <<images, tries, boots, lost>>

\* sw_reset(t, reason) up to its write.  It reads the record as it is, which
\* may be half written by the task it preempts.
SwReset(who, t, reason) ==
    /\ Write(who, [boot EXCEPT !.attempts = IF reason = "REQUESTED" THEN 0 ELSE @,
                               !.type = IF t \in Types THEN t ELSE @])
    /\ asked' = IF t \in Types THEN asked \cup {t} ELSE asked
    /\ tries' = IF reason = "REQUESTED" THEN 0 ELSE tries
    /\ Lose("preempted")

-----------------------------------------------------------------------------
(* bl_main.                                                                *)

Automatic == rst \in {"SW", "WATCHDOG"}

\* Mutated form: one attempt too many.
EscalatesLate == Automatic /\ boot.attempts > MaxAttempts

\* The attempts are used up.
Escalates == Automatic /\ boot.attempts >= MaxAttempts

\* Mutated form: the stored type whatever the attempts.
GetBootTypeNoLimit == IF Automatic \/ rst = "POWERON" THEN boot.type ELSE "B"

\* get_boot_type: what to boot ...
GetBootType ==
    IF Escalates THEN IF boot.type = "A" THEN "G" ELSE "B"
    ELSE IF Automatic \/ rst = "POWERON" THEN boot.type ELSE "B"

\* Mutated form: the attempts are counted on and never reset.
AttemptsCountedOn == IF Automatic THEN boot.attempts + 1 ELSE boot.attempts

\* ... and the attempts it leaves in the record.
Attempts ==
    IF Escalates THEN 0 ELSE IF Automatic THEN boot.attempts + 1 ELSE boot.attempts

\* Mutated form: what is booted becomes the stored type.
BlMainStoresDecision ==
    /\ pc = "boot"
    /\ bootType' = GetBootType
    /\ Write("boot", [type |-> GetBootType, count |-> (boot.count + 1) % CountMod, attempts |-> Attempts])
    /\ boots' = (boots + 1) % CountMod
    /\ tries' = IF Escalates THEN 0 ELSE tries
    /\ UNCHANGED <<boot, images, rst, rebooters, asked, lost>>

\* bl_main up to its write: the decision, the attempts and the count.
BlMain ==
    /\ pc = "boot"
    /\ bootType' = GetBootType
    /\ Write("boot", [boot EXCEPT !.count = (@ + 1) % CountMod, !.attempts = Attempts])
    /\ boots' = (boots + 1) % CountMod
    /\ tries' = IF Escalates THEN 0 ELSE tries
    /\ UNCHANGED <<boot, images, rst, rebooters, asked, lost>>

StartApplication ==
    /\ pc = "launch" /\ app # "unreadable"
    /\ IF app = "valid"
       THEN pc' = "app" /\ tries' = IF Automatic THEN tries + 1 ELSE tries
       ELSE pc' = "golden" /\ UNCHANGED tries
    /\ UNCHANGED <<boot, images, rst, write, bootType, rebooters, asked, boots, lost>>

AppReturns ==
    /\ pc = "app" /\ pc' = "golden"
    /\ UNCHANGED <<boot, images, rst, write, bootType, rebooters, history>>

\* start_golden and copy_golden_image.  The copy is refused when its region is
\* accepted; done, it would leave the golden image as the application.
StartGolden ==
    /\ pc = "golden" /\ gold # "unreadable"
    /\ IF gold = "valid" /\ ~StartAddrCheck(AppMin, GoldSize)
       THEN app' = "valid" /\ SwReset("reset", "A", "REQUESTED") /\ UNCHANGED boots
       ELSE pc' = "loader" /\ UNCHANGED <<app, write, history>>
    /\ UNCHANGED <<boot, gold, rst, bootType, rebooters>>

\* crc16 over a region that cannot be read: the abort handler resets.
VerifyAborts ==
    /\ \/ pc = "launch" /\ app = "unreadable"
       \/ pc = "golden" /\ gold = "unreadable"
    /\ Restart("SW")
    /\ UNCHANGED <<boot, images, history>>

-----------------------------------------------------------------------------
(* With the scheduler running.                                             *)

\* vTaskStartScheduler returned: the call of sw_reset in _c_int00.
SchedulerEnds ==
    /\ pc = "loader" /\ rebooters = {}
    /\ SwReset("reset", Preserve, "REQUESTED")
    /\ UNCHANGED <<boot, images, rst, bootType, rebooters, boots>>

StackOverflow ==
    /\ InLoader \/ writer = "task"
    /\ SwReset("reset", "B", "DABORT")
    /\ UNCHANGED <<boot, images, rst, bootType, rebooters, boots>>

Verified(t) == (t = "A" => app = "valid") /\ (t = "G" => gold = "valid")

\* Mutated form: the record is written without having been read.
SetCommandFresh(t) ==
    /\ pc = "loader" /\ Verified(t)
    /\ Write("set", [NoInfo EXCEPT !.type = t])
    /\ asked' = asked \cup {t}
    /\ UNCHANGED <<boot, images, rst, bootType, rebooters, tries, boots, lost>>

\* prvSetCommand up to its write.
SetCommand(t) ==
    /\ pc = "loader" /\ Verified(t)
    /\ Write("set", [boot EXCEPT !.type = t])
    /\ asked' = asked \cup {t}
    /\ UNCHANGED <<boot, images, rst, bootType, rebooters, tries, boots, lost>>

RebootCommand(t) ==
    /\ pc = "loader" /\ Verified(t)
    /\ t \notin rebooters /\ rebooters' = rebooters \cup {t}
    /\ UNCHANGED <<boot, images, pc, rst, write, bootType, history>>

\* vRebootHandler after its delay; its priority is above the command line's.
RebootDue(t) ==
    /\ InLoader /\ t \in rebooters
    /\ SwReset("task", t, "REQUESTED")
    /\ rebooters' = rebooters \ {t}
    /\ UNCHANGED <<boot, images, rst, bootType, boots>>

\* The update service or the address command changes an image or its record.
UpdateImage ==
    /\ InLoader
    /\ \/ app' \in AppStates \ {app} /\ UNCHANGED gold
       \/ gold' \in GoldStates \ {gold} /\ UNCHANGED app
    /\ UNCHANGED <<boot, pc, rst, write, bootType, rebooters, history>>

-----------------------------------------------------------------------------
BootStep ==
    \/ BlMain \/ EraseInfo \/ WriteHead \/ WriteTail
    \/ StartApplication \/ StartGolden \/ VerifyAborts

Next ==
    \/ BootStep \/ AppReturns
    \/ SchedulerEnds \/ StackOverflow \/ UpdateImage
    \/ \E t \in Types : SetCommand(t) \/ RebootCommand(t) \/ RebootDue(t)
    \/ \E src \in Sources : Reset(src)

\* The processor goes on: no step of bl_main or of a write waits for anything.
Spec == Init /\ [][Next]_vars /\ WF_vars(BootStep)

-----------------------------------------------------------------------------
Counts == 0 .. CountMod - 1
Infos == [type : Types \cup {Blank}, count : Counts, attempts : 0 .. AllOnes]

\* Every variable has its type, and a writer is named exactly during a write.
TypeOK ==
    /\ boot \in Infos /\ info \in Infos
    /\ app \in ImageStates /\ gold \in ImageStates
    /\ pc \in Writing \cup {"boot", "launch", "golden", "app", "loader"}
    /\ rst \in ResetSources
    /\ writer \in Writers \cup {"none"} /\ (writer # "none" <=> pc \in Writing)
    /\ bootType \in Types \cup {Blank}
    /\ rebooters \subseteq Types /\ asked \subseteq Types
    /\ tries \in Nat /\ boots \in Counts /\ lost \in {"no", "preempted", "cut"}

\* However resets, cuts of a write and commands fall, the application is
\* launched at most MaxAttempts times by software and watchdog resets before
\* get_boot_type gives up on it or a reset is requested.
LaunchesBounded == tries <= MaxAttempts

\* The boot type that is stored is one that a command or a hook asked for
\* since the last complete write, or an erased byte: deciding a boot, giving
\* up on the application and tearing a write never invent another.
StoredTypeAsked == boot.type \in asked \cup {Blank}

\* As long as no write of boot_info was cut or preempted while it held the
\* only copy, every boot is counted once.
CountExact == lost = "no" /\ ~CountGone => boot.count = boots

-----------------------------------------------------------------------------
\* A boot that is disturbed: power comes back, or a reset hits bl_main before
\* it has launched something.
Disturbed ==
    /\ pc' = "boot"
    /\ \/ rst' = "POWERON"
       \/ pc = "boot" \/ writer = "boot"
       \/ pc = "golden" /\ gold # "unreadable"

\* If the application never stays up, disturbances cease and the golden image
\* can be read, the bootloader runs again and again: a dead application is
\* given up on.
Undisturbed == <>[][~Disturbed]_vars /\ []<>(pc # "app")
LoaderReached == Undisturbed /\ <>[](gold # "unreadable") => []<>InLoader

-----------------------------------------------------------------------------
(* What documents and comments say and the program does not do.            *)

\* Boot_decisions.drawio: verify_golden passes, "Golden Image Running".
GoldenPassRuns == [][pc = "golden" /\ gold = "valid" => pc' # "loader"]_vars

=============================================================================
