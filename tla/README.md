# The Ex-Alta 2 bootloader in TLA+

A verification project for the bootloader of the Athena board: the image update
over the radio link, the flash it writes, the decision what to boot, the command
line and the packets it answers, the I2C driver, and what all of these take from
the FreeRTOS kernel. The modules are TLA+; TLC checks them on small instances and
TLAPS proves the main properties for every value of the constants.

## The system and its parts

The bootloader sits in the first sectors of flash bank 0. Above it, in the same
bank, is the golden image; bank 1 holds the application. Bank 7 is the emulated
EEPROM: one sector per record. At every reset `_c_int00` finds the reset source
and calls `bl_main`, which decides from it and from the record `boot_info`
whether to launch the application, try the golden image, or stay in the
bootloader. In the bootloader FreeRTOS runs the update service, the command
line, the communication service, a ping server and a watchdog task.

| Part | State | Operations | Interacts with |
|---|---|---|---|
| Flash (`bl_flash.c`) | bytes of the banks, the active bank of the flash state machine | region check, `Fapi_BlockErase`, `Fapi_BlockProgram` | called by the updater, the EEPROM, the golden copy |
| EEPROM records (`bl_eeprom.c`) | `boot_info`, two `image_info`, `update_info`, `leop_status`, `key_store` | get and set, each set an erase and a program; `verify_*`; `sw_reset` | called by every other part, from several tasks |
| Updater (`updater.c`) | `update` in RAM, the block counter | six subservices, the reload after a restart, five commands | packets from the ground; flash; EEPROM |
| Boot (`bl_main.c`, `bl_launch.c`) | the copy of `boot_info`, the boot type | `get_boot_type`, `bl_main`, `start_application`, `start_golden`, the hooks | reset sources; EEPROM; images |
| Command line (`bl_cli.c`, `FreeRTOS_CLI.c`) | the interpreter's static pointers, waiting reboot tasks | `cli_app`, `cli_service`, set, reboot, leop, echo, help | packets; EEPROM; `sw_reset` |
| Server and services (`bl_csp_server.c`, `bl_communication.c`) | connections and the packets in work | read, answer, send, free | the pool of packet buffers of CSP |
| I2C (`i2c_io.c`, `HL_i2c.c`) | a mutex, a semaphore, two flags, the transfer record | `i2c_Send`, `i2c_Receive`, `i2cNotification`, the interrupt | the controller; its callers |
| Privilege and watchdog | one static flag; the time of the last pet | raise, reset, `pet_dog` | every task that issues a flash command |
| Kernel (`os_tasks.c`, `os_queue.c`) | tick counter, lists of delayed and pending tasks, lock of a queue | delay, delay until, suspend, resume, tick, take and give a semaphore | all tasks and the interrupts |

What is hard in this code, and what makes each part correct:

- **A reset at any point.** Power is lost between two flash commands, the
  watchdog fires in a long erase, an exception resets. Every record is written
  by erase, then program in pieces of eight bytes. Correct is: what the records
  say after the restart agrees with the flash (`FlashMatchesProgress`,
  `RecordMatchesProgress`, `ProgressLag`), and the boot logic does not forget
  its limit nor invent a boot type (`LaunchesBounded`, `StoredTypeAsked`).
- **An unreliable link.** Packets and replies are lost, damaged, repeated,
  late. Correct is: an update that ends has all its bytes (`FinishedVerifies`,
  `TransferSpec`), the ground may trust an answer (`AckedIsProgrammed`,
  `GroundKnows`), and a ground that goes on gets to the end
  (`UpdateCompletes`).
- **Preemption without locks.** The reboot task and the watchdog task run above
  the services; they share one flash state machine, one privilege flag, the
  records. Correct is: a flash command is never issued in user mode
  (`CommandsPrivileged`), an image command has its bank (`MaskedImageAlone`), a
  reboot has its reason stored and comes (`RebootStored`, `RebootHappens`),
  boots are counted (`CountExact`); `PrivilegeKept` and `RecordsKept` say under
  which conditions the rest survives.
- **Resources that run out.** Ten packet buffers are shared by all services and
  a command needs two. Correct is: a buffer has one owner (`OneOwner`), all come
  back (`PoolRecovers`), a line gets its own answer (`RepliesRight`,
  `InterpreterAtRest`), only long answers suffer (`ExhaustionHitsLongAnswers`).
- **Late interrupts.** A transfer that timed out still owns the bus. Correct is:
  the result is true (`ResultTrue`), nothing is left for the next call
  (`QuietBetweenCalls`), the mutex comes free (`MutexComesFree`).
- **Arithmetic at boundaries.** Sector searches, the cut of the last command,
  sums modulo 2^32, the wrap of the tick counter (`EraseExact`, `ProgramExact`,
  `CommandInActiveBank`, `DelayedEmptyAtWrap`, `NotEarly`, `NotLate`).
- **Held-back events.** Ticks and wake-ups that come while the scheduler is
  suspended or a queue locked (`TicksKept`, `GivenIsTaken`).
- **Never giving up, or never ending.** A dead application must lead to the
  bootloader (`LoaderReached`); the flash loops must end (`CallsReturn`).

`PROJECT.json` lists every hazard with its line and the properties on it.

## The modules

| Module | Models | In the code |
|---|---|---|
| `FlashSectors` | sector table, region check, what an erase covers; constants and their assumptions | `flash_defines.h`, `bl_flash.c` |
| `FlashOps` | the loops of erase and program, one action per iteration | `bl_flash.c` |
| `ImageTransfer` | the abstract promise of an update: in order, ended at its size, taken back by a bounded lag | - |
| `Updater` | `updater_app`, the records it keeps, restarts | `updater.c`, `bl_eeprom.c` |
| `UpdateSession` | `Updater` behind its packet loop, with a ground and a faulty link | `updater.c` |
| `Boot` | `bl_main`, `sw_reset`, launch, set, reboot and address commands, resets | `bl_main.c`, `bl_launch.c`, `bl_eeprom.c`, `bl_cli.c`, `updater.c` |
| `CommandInterpreter` | the interpreter as an operator on its static state, with help and echo | `FreeRTOS_CLI.c`, `bl_cli.c` |
| `Services` | the packet loops of all services over one pool of buffers, with `CommandInterpreter` | `bl_cli.c`, `updater.c`, `bl_communication.c`, `bl_csp_server.c` |
| `I2cDriver` | the calls of the driver, its notification, the interrupt handler, a controller | `i2c_io.c`, `HL_i2c.c` |
| `SharedFlash` | four tasks on one flash state machine: priorities, masking, privilege, records | `bl_eeprom.c`, `bl_flash.c`, `bl_cli.c`, `updater.c`, the privilege functions, the watchdog |
| `KernelTime` | ticks, delays, suspension, a binary semaphore taken with a time | `os_tasks.c`, `os_queue.c`, the watchdog loop |
| `MCFlashOps`, `MCUpdater`, `MCSession`, `MCBoot`, `MCServices` | instances for TLC | - |
| `UpdaterProofs`, `SessionProofs`, `BootProofs`, `FlashOpsProofs`, `SharedFlashProofs`, `ServicesProofs`, `I2cProofs`, `KernelTimeProofs` | the theorems | - |

`FlashOps`, `Updater` and `Boot` extend `FlashSectors`. `FlashOps` shows what a
complete erase or program does; `Updater` uses that result as one action
(`ErasedBytes`, `Burned`) and the intermediate states as what a restart may
leave (`Survivors`). `UpdateSession` extends `Updater` and conjoins the service's
actions with the link's. `SharedFlash` looks at the same commands from the side
of the scheduler: there the data are who wrote, not what. `Updater` and `Boot`
may take a handler's flash commands as undisturbed because of what `SharedFlash`
shows, and only as far: an EEPROM write that another task disturbs may be lost
(`RecordsKept` names the cases).

### How state and actions correspond

*Updater.* `flash` holds for each byte `Erased`, `Garbage` or the image whose
byte it is; `eeInfo`, `eeUpdate` are the records in the EEPROM and `update`,
`counter` the static variables. `pc`, `req` and `blk` are the handler's place
and locals. A handler that makes no flash write is one action; one that does is
an action per write, because a restart may come between. `epoch`, `resumed` and
`superseded` are history: they name the restarts and the time in which `update`
is known to be of another image than the one being erased.

*UpdateSession.* `up` is the queue of requests in the service's connections,
`serving` the request it has read, `down` the reply on the way: `Serve`,
`Updater`'s actions and `SendReply` are the packet loop of `updater_service`.
`phase`, `sent`, `waiting` are the ground. Its program is not in the repository
(`src/ground` holds tools that compute checksums); what it does is the least the
replies call for: initialise, send blocks in order, ask for the progress when in
doubt and go on from there. The link may lose or delay every packet and damage a
block.

*Boot.* `boot` is `boot_info` in the EEPROM, `info` and `writer` the copy being
written and who writes it, `pc` the place: `boot` (reset done), `erase`, `head`,
`tail` (a write of `boot_info`), `launch`, `golden`, `app`, `loader`. `Reset` is
every reset that does not come from `sw_reset`. `tries`, `asked`, `boots`,
`lost` are history.

*Services.* `pc`, `packet` give for each task its place and the packet in work,
`original` the packet `cli_app` keeps while its clone is sent. `free`, `queue`,
`out` are CSP's: the pool, the packets that wait in connections, those being
sent. `state` is everything the interpreter and its commands keep in static
variables, `result` what it said last. A failed send, a failed clone and the
double free behind it are each an action.

*I2cDriver.* `pc` gives each caller's place; `i2c_mutex`, `i2c_block`,
`hadFailure`, `expecting_scd` and `transfer` are the variables of the code.
`dev` is the controller with the transfer it executes and `pend` its interrupt
flags. A flag carries the number of the call it is about, which the code cannot
see and the properties need.

*SharedFlash.* `mode`, `xRunningPrivileged`, `masked` are the processor's mode
in each task, the flag of `raise_privilege_` and who has disabled interrupts.
`job` and `step` are what a task has still to write; `fsm` is the command in the
flash state machine, `bank` its active bank; a record is a `head` and a `tail`,
each with the task that wrote it. `Runs` is the scheduling rule.

*KernelTime.* `xTickCount`, `xNumOfOverflows`, `xNextTaskUnblockTime`,
`uxPendedTicks`, `xPendingReadyList` are the kernel's; `item` gives each task's
list and the value of its list item, `semaphore` the count, lock and waiting
list of the queue. A function is cut where an interrupt can come: at the ends of
critical sections and of the suspension of the scheduler. `now` and `due` are
history: ticks that do not wrap.

### Abstractions

- A CRC-16 is the image it was computed from: two contents never collide. The
  runs therefore say nothing of accidental collisions.
- A flash command (one sector erase, one programming command of the EEPROM) is
  atomic, except that a cut sector erase leaves garbage, and a cut program a
  prefix. The F021 library is external: commands end with success, but for the
  one issued to a busy state machine in `SharedFlash`.
- `Fapi_BlockErase` returns the status of `Fapi_initializeFlashBanks`; it is
  free to fail, after which the erase is done all the same.
- Bytes of a block beyond the bank that was made active may be programmed or
  not.
- In `Boot` an image is what verification finds, and the update service one
  action that changes it. The application does not write `boot_info`. The reset
  reason is left out, the count is kept modulo `CountMod`.
- A golden image has one size, `GoldSize`. `copy_golden_image` goes on only if
  the region check refuses it; no golden image the updater accepts is refused
  there, so the copy is one branch of `StartGolden` and is not reached.
- A command line is a sequence of words and spaces; a string written out is a
  member of a small set. The commands that only print write one string.
- The I2C bus, CSP, the ground and the flash state machine are external: modelled
  from how the code uses them, marked so in the map.

## The runs

| Run | Expect | Shows |
|---|---|---|
| `FlashOps.cfg` | pass | erase and program exact, in the right bank, loops end |
| `Updater.cfg` | pass | progress, flash and records agree; refinement of `ImageTransfer` |
| `UpdaterOneImage.cfg` | pass | a finished update verifies; areas kept |
| `UpdaterOvershoot.cfg` | violation | the last golden block may leave its area |
| `UpdateSession.cfg` | pass | what was acknowledged is on board; at the end it is the image that was sent; the update ends |
| `Boot.cfg` | pass | launches bounded, type asked for, count exact, a dead application is given up on |
| `BootGolden.cfg` | violation | a valid golden image is not run: the check in `copy_golden_image` is inverted |
| `Services.cfg` | pass | buffers have one owner and come back; each line gets its own answer |
| `I2cDriver.cfg` | pass | true results, nothing left behind, the mutex comes free |
| `I2cTimeout.cfg` | violation | after a timeout the next call may report success before its bytes have moved |
| `SharedFlash.cfg` | pass | what survives four tasks without a lock; a reboot comes |
| `KernelTime.cfg` | pass | no tick and no wake-up is lost across wrap and suspension |

The findings are in `PROJECT.json` with the lines they quote. Four more
weaknesses were met and are not runs of their own, because no line of the
repository speaks against them: a region of bank 7 whose end wraps around is
accepted as an application; an INITIALIZE_UPDATE that is cut, or whose erase
reports failure, leaves the progress of the update before it over erased flash
(`Updater`'s `superseded` names these states); with unreadable image records
`bl_main` resets without end (`LoaderReached` asks that the golden one is
readable again at last); and a `sw_reset` that preempts the write of another
task loses the count of boots (`Boot`'s `lost`).

### Bounds and why they are enough

- *Geometry.* Four or five sectors: bootloader, golden area, application bank of
  two sectors, an EEPROM sector. Every relation of a region to sectors and banks
  occurs: inside one, over two, at a boundary, at the last byte. `MCFlashOps` has
  sectors of unequal size and a chunk width that does not divide them; every
  address and size below `Word` is a call. `MaxCalls` is 3: an erase, a program
  and one more.
- *Updates.* Images of two and three bytes, blocks of one and two, a save every
  two blocks: long enough to be saved in the middle, to lag, to be taken back
  and overshot. `SaveEvery` is 10 in the code; nothing depends on its value.
- *Session.* An application of five bytes over two sectors in blocks of two and
  a last one of one; up to six faults: one more than it takes to lose a request,
  its repetition, the question for the progress and its answer, and to restart.
  The records of an earlier session of the same and of another image are there.
- *Boot.* `MaxAttempts` is 2 in the passing run, so that attempts run out, are
  reset and run out again, and the 5 of the code in `BootGolden`. `Word` is 7:
  an erased or cut record has six attempts. One reset source stands for each
  case of `get_boot_type`.
- *Services.* Three buffers where the code has ten: the first number with which
  a command has its two and another service one, so every exhaustion occurs.
  Four packets, one service that answers in place (`updater_service` and
  `communication_service` have the same loop), seven lines: known and unknown
  commands, too many parameters, double and trailing spaces, the commands that
  answer in several strings.
- *I2C.* Two callers and three transfers: one that goes wrong, one that comes
  upon what it left, one after. Two bytes: the code treats the first and the last
  apart. The bus may refuse, stop early, be lost to another master, or be silent.
- *SharedFlash.* `MaxOps` is 3: each task may begin one while two others are in
  theirs. Two services are enough, as the others write no flash.
- *KernelTime.* The counter wraps at 5, twice within `MaxTime` 11; one periodic
  task, one that delays, one that takes, and the case in which two are one. A
  wait is 0, 2 or for ever. `MaxLag` says no call is held up for more than two
  ticks past its time: in the code, that no task is preempted for 49 days.

`CHECK_DEADLOCK FALSE` stands where such a bound ends the behaviour, or the
ground is done.

### Fairness

- `FlashOps`: weak on the loops; both functions spin until the flash state
  machine is done and issue the next command at once.
- `Boot`: weak on `BootStep`, the straight-line code before the scheduler.
  Nothing is fair in the environment. `LoaderReached` asks for what the code
  cannot give itself: that power comes back and resets hit `bl_main` only
  finitely often, that the application does not stay up, and that the record of
  the golden image does not remain unreadable.
- `UpdateSession`: the service is scheduled, the ground goes on when it has
  nothing to wait for, a reply that is not lost arrives. Faults are not fair but
  finite.
- `Services`: every task is scheduled and CSP sends what it took, or says that
  it cannot. No packet needs to arrive.
- `I2cDriver`: tasks are scheduled, a wait with a time ends, interrupts are
  handled. Nothing is asked of the bus.
- `SharedFlash`: a flash command ends, an image command ends or the watchdog
  expires in it, the reboot task goes on when it can run. Its delay comes to its
  end (strong fairness, as masked image commands can hold up the tick). The
  services need not go on.
- `KernelTime`: a call goes on while its task can run. Ticks and gives may stop.

## The proofs

Assumptions, each named in the module that declares the constants and evaluated
by TLC in the runs: the sector table is ordered and its sectors are disjoint
(`SectorsAssumption`), the areas begin at sectors (`LimitsAssumption`), an image
area has no gap and lies in bank 0 or 1 (`AreasAssumption`), the constants have
their types (`UpdaterAssumption`, `BootAssumption`, `SharedFlashAssumption`), and no request
wraps (`RequestsAssumption`, `OpsAssumption`; without it a region in bank 7
whose end wraps is a counterexample to `AreasKept`). The application of a session
lies in flash, and earlier sessions left records the service can have written
(`SessionAssumption`, `PacketsAssumption`). A command is registered once, under a
name that is a word, for a number of parameters or any (`RegisteredAssumption`:
the list in `bl_cli.c:413` and `updater.c:389`), and two words of a line are never
neighbours (`ServicesAssumption`). The callers of the I2C driver are finitely many
(`I2cAssumption`). A call to the kernel is held up for less than a round of the
tick counter, and a wait with its delay is not longer than a round
(`KernelTimeAssumption`). The second part of that was found by the proof of
`NotLate`: `xTaskCheckForTimeOut` compares modulo the counter, so that it takes a
wait that is a round too late for one that has just begun. A run in which a wait
of 3 may be held up for 4 ticks, at a counter of 5, violates `NotLate`; in the
code a round is 2^32 ticks, and no wait comes near it.

`UpdaterProofs` proves `TypeOK`, `ProgressLag`, `FlashMatchesProgress`,
`RecordMatchesProgress`, `AreasKept`, `FinishedVerifies` and that `Updater`
implements `ImageTransfer`. None of these is inductive: between the erase and the progress
record, and between the parts of a record, they hold only because of what the
handler still has in its frame. `IInv` adds that: `FrameInv` (a frame comes
from an accepted request, and what has been written of it), `RecordInv` (a
progress record is of an accepted request and `next` is not below `start`),
`LagInv` (the EEPROM copy in each phase of a save; how many blocks are not
saved), `ErasedInv` (the region is erased until the progress record is there).
`FinishedVerifies` holds if the ground has one image for each area and the areas
are memory throughout (`OneImageEach`, the theorem's assumption, which TLC
evaluates for the packets of `updater_one_image`); `DoneInv` says that no byte of
the image in progress is of anything else.

`SessionProofs` proves `AckedIsProgrammed` and `GroundKnows`, and that every step
of a session is a step of the updater or none, so that `IInv` holds behind the
link as well, from whatever record an earlier session left. `QueueInv` says that
at most one packet is live, the last in the queue, and of the ground's present
phase: a reply is the answer to what the ground last asked. `HandlerInv` ties the
handler's place to the packet it serves. `Fresh` says that records and flash are
those of an update with this application; it holds from the progress record of
an INITIALIZE_UPDATE on, through every restart, as a block of the image that is
programmed a second time leaves the bytes as they are. `AnswerInv` says what a
NOFAIL that the service has ready, or that is on its way, stands for.

`BootProofs` proves `TypeOK`, `LaunchesBounded`, `StoredTypeAsked` and
`CountExact`. The bound on launches needs `BudgetInv`: the launches made are
never more than the attempts in the record, *nor* in the copy being written, and
fewer when a launch is due. An erased or cut record has more attempts, not
fewer, so a reset in a write can only bring the escalation forward.

`FlashOpsProofs` proves `EraseExact`, `ProgramExact` and `CommandInActiveBank`.
Its lemma `SearchFinds` is about the two searches: the sectors from the one
found for the start to the one found for the end are exactly those that meet the
region, and they are of one bank. `EraseInv` then says that the sectors up to
the loop's index are erased and no other byte has changed, `ProgramInv` the same
of the bytes up to the destination.

`SharedFlashProofs` proves every safety property of `SharedFlash`:
`CommandsPrivileged`, `MaskedImageAlone`, `RebootStored`, `PrivilegeKept` and
`RecordsKept`. `JobInv` ties a task's place to what it has still to write,
`MaskInv` says what the state machine can be doing when a task masks interrupts
(priorities: whoever was preempted in a write is below), `RebootInv` that a
reboot task which is past its write finds the whole record. `FlagInv`, for
`PrivilegeKept`: while no two writes have met, at most one task is in a write and
the shared flag says what that task was created with. `KeptInv`, for
`RecordsKept`: the task whose command is executed waits for it (`ExecInv`, race or
not); without a race the records being written are apart (`JobsApart`), each is as
far as its task's place says (`WrittenBy`), and the others are untouched.

`ServicesProofs` proves every safety property of `Services`.

- `InterpreterAtRest`: the static position of help and echo belongs to the command
  in work (`TheirsAlone`), and what the interpreter said last determines the rest
  (`CliInv`); lemma `CallFacts` states what a call may do to the static state.
- `OneOwner`: a buffer is at one of five kinds of places, the pool, CSP's list, the
  clone, a task's packet or a task's connection (`Spots`, `At`). The invariant
  counts nothing: each buffer is at exactly one place (`OneSpot`), and once in its
  queue. Every step moves a set of buffers from one place to another (`Moves`), the
  failing command two of them one after the other; the number of places follows at
  the end (`OnePlace`). `PacketInv` says which of the two buffers of a command
  exist where the service is: without it a buffer could be written over.
- `RepliesRight` and `ExhaustionHitsLongAnswers`: `Position` says how many strings
  of the answer have been written by what the static variables hold, and lemma
  `CallAnswers` that one more call writes the next. It rests on `ParameterFacts`:
  for every line, the runs of spaces that `prvGetNumberOfParameters` counts are as
  many as the parameters, and the n-th word that `FreeRTOS_CLIGetParameter` looks
  for is the n-th parameter.

`I2cProofs` proves `QuietBetweenCalls`, `ResultTrue` and `TypeOK`. Only a task that
waits finds the bus or the flags in use (`QuietInv`, from the mutex); and while the
transfer is on the bus, bytes moved and bytes left make up the size, where a
received byte that was not yet read counts as left (`TransferInv`). That no call
moves more bytes than its buffer has needs the byte that lies in the receive
register after a timeout as well (`BytesInv`); that `call` stays in its bound needs
the tasks that are about to begin one to be counted with it (`CallsInv`).

`KernelTimeProofs` proves every safety property of `KernelTime`: `TypeOK`,
`TicksKept`, `DelayedEmptyAtWrap`, `NotLate` and `NotEarly`, for every width of the
counter, any set of tasks and any lag. The invariant says what each task's value in
a list stands for: in the list of the delayed a time of this round of the counter,
in the overflow list one of the next (`ItemInv`), and never one at or before the
counter, nor one the kernel does not look for in time (`xNextTaskUnblockTime`).
`DelayInv` and `TakeInv` say what a task knows of its time while it is on its way to
a list or back, `QueueInv` that a waiter of the semaphore sleeps, or has been taken
out of the queue. One tick keeps all this (`TickFacts`, with the exchange of the
lists at the wrap); `xTaskResumeAll` repeats it for the ticks that were held back,
and lemma `TicksFacts` is the induction over them.

The inductions over numbers (ticks held back, the places of a line, a queue from
which tasks are removed) are proved from the library's well-founded order, with a
set for the induction predicate (lemma `Induction`).

Every safety property of the passing runs is proved. Only model-checked is the
liveness (`CallsReturn`, `LoaderReached`, `UpdateCompletes`, `PoolRecovers`,
`MutexComesFree`, `RebootHappens`, `GivenIsTaken`), which is out of TLAPS's reach
because of the fairness and ENABLED in it, and the three disagreements.

## What is left

`Updater` takes an erase and a program of the flash as one action each, with
what a restart may leave of them. `FlashOps` proves what the loops do when they
return (`EraseExact`, `ProgramExact`); a theorem that the loops implement those
actions, with the intermediate states as stutters, would tie the two by
refinement instead of by the shared operators.

## Not modelled

- Keys: read once at the start; the code that sets them is compiled out.
- `hex2int` and `crc16`: functions of one argument, with no state.
- The radio's side of the communication service, and the commands that only
  print: no state of this program changes.
- HALCoGen's drivers, apart from the I2C interrupt and the calls the driver
  makes: generated register access to devices the bootloader initialises at most.
- TI's FEE library: nothing calls it; the records use the F021 library.
- FreeRTOS beyond `KernelTime`: heap, creation of tasks, notifications, timers,
  event groups, coroutines, the port's context switch. The bootloader uses them
  before the scheduler starts or not at all; the one task it creates later, for a
  reboot, is there from the start in `SharedFlash`, idle.
- CSP, an empty submodule here, beyond its buffers and queues.
- The real time the watchdog measures. Its expiry is an action that may come
  whenever interrupts have been masked long enough to starve it.

These libraries and drivers are nine tenths of the lines under `src/`; what the
modules map is the bootloader's own code and the parts of the kernel and driver
that its behaviour rests on.
