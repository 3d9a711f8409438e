------------------------------ MODULE Updater -------------------------------
(***************************************************************************)
(* The update service of services/source/updater.c: the handlers of        *)
(* updater_app, the progress record `update' in RAM and its copy in the    *)
(* EEPROM, the image records, the flash they describe, and a restart at    *)
(* any point between two writes.                                           *)
(*                                                                         *)
(* The ground is not modelled: any packet of Requests or Blocks may arrive *)
(* whenever the service is idle, which covers lost, repeated, delayed and  *)
(* reordered packets.  An image is a value; a flash byte holds Erased,     *)
(* Garbage or the image whose byte it is, and a CRC-16 is the image it was *)
(* computed from, so that two different contents have different CRCs.      *)
(***************************************************************************)
EXTENDS FlashSectors

CONSTANTS
    Images,            \* identities of images, and so of their CRCs
    Erased, Garbage,   \* contents of a byte that is no image's
    Torn,              \* the CRC field of a record whose last part was not written
    Requests,          \* INITIALIZE_UPDATE packets: [addr, size, crc]
    Blocks,            \* PROGRAM_BLOCK packets: [addr, size, data, crc]
    MaxBlock,          \* the largest block
    SaveEvery          \* 10: blocks between two saves of the progress

Contents == Images \cup {Erased, Garbage}

ASSUME UpdaterAssumption ==
    /\ Erased \notin Images /\ Garbage \notin Images /\ Torn \notin Images
    /\ Erased # Garbage /\ Torn # Erased
    /\ MaxBlock \in Nat /\ SaveEvery \in Nat \ {0}
    /\ Requests \subseteq [addr : Nat, size : Nat, crc : Images]
    /\ Blocks \subseteq [addr : Nat, size : 0 .. MaxBlock, data : Images \cup {Garbage}, crc : Images]

\* No request wraps around the end of the address space.
ASSUME RequestsAssumption == \A r \in Requests : r.addr + r.size < Word

VARIABLES
    flash,      \* the two main banks, byte by byte
    eeInfo,     \* the two image_info records in the EEPROM: "gold" and "app"
    eeUpdate,   \* update_info in the EEPROM
    update,     \* update_info in RAM
    counter,    \* blocks since `update' was saved by count
    pc,         \* where the service task is
    req,        \* the image_info the handler is about to store, and its slot
    blk,        \* the block the handler is about to program
    status,     \* the status byte of the last reply
    superseded, \* history: an erase began for an image that `update' does not describe
    resumed,    \* history: `update' was reloaded from the EEPROM
    epoch       \* history: changes with every restart
eeprom == <<eeInfo, eeUpdate>>
ram == <<update, counter>>
frame == <<req, blk>>
history == <<superseded, resumed, epoch>>
vars == <<flash, eeprom, ram, pc, frame, status, history>>

Slots == {"gold", "app"}
SlotOf(a) == IF a < AppMin THEN "gold" ELSE "app"

NoUpdate == [initialized |-> FALSE, start |-> 0, next |-> 0, size |-> 0, crc |-> Torn]
NoImage  == [exists |-> FALSE, addr |-> 0, size |-> 0, crc |-> Torn]
NoReq    == [slot |-> "app", info |-> NoImage]
NoBlock  == [addr |-> 0, size |-> 0, data |-> Garbage, crc |-> Torn]

Range32(a, n) == a .. (a + n - 1)

\* An erased EEPROM word, read as an address.
AllOnes == Word - 1

Init ==
    /\ flash = [b \in MainBytes |-> Garbage]
    /\ eeInfo = [s \in Slots |-> NoImage]
    /\ eeUpdate = NoUpdate /\ update = NoUpdate /\ counter = 0
    /\ pc = "idle" /\ req = NoReq /\ blk = NoBlock /\ status = "none"
    /\ superseded = FALSE /\ resumed = FALSE /\ epoch = FALSE

\* The handler ends: its locals are gone and the reply carries the status.
Reply(st) ==
    /\ pc' = "idle" /\ status' = st
    /\ req' = NoReq /\ blk' = NoBlock

-----------------------------------------------------------------------------
(* INITIALIZE_UPDATE: erase, store the image record, start the progress.   *)

\* Mutated form: not while an update is under way.
InitializeUpdateOnce(r) ==
    /\ pc = "idle"
    /\ IF StartAddrCheck(r.addr, r.size) /\ ~update.initialized
       THEN /\ pc' = "erase"
            /\ req' = [slot |-> SlotOf(r.addr),
                       info |-> [exists |-> TRUE, addr |-> r.addr, size |-> r.size, crc |-> r.crc]]
            /\ status' = "none" /\ UNCHANGED blk
       ELSE Reply("INVALIDADDR")
    /\ UNCHANGED <<flash, eeprom, ram, history>>

InitializeUpdate(r) ==
    /\ pc = "idle"
    /\ IF StartAddrCheck(r.addr, r.size)
       THEN /\ pc' = "erase"
            /\ req' = [slot |-> SlotOf(r.addr),
                       info |-> [exists |-> TRUE, addr |-> r.addr, size |-> r.size, crc |-> r.crc]]
            /\ status' = "none" /\ UNCHANGED blk
       ELSE Reply("INVALIDADDR")
    /\ UNCHANGED <<flash, eeprom, ram, history>>

\* Fapi_BlockErase.  Its result is that of Fapi_initializeFlashBanks and does
\* not depend on the erase, which is done in either case.
EraseImage ==
    /\ pc = "erase"
    /\ flash' = [b \in MainBytes |->
                    IF b \in ErasedBytes(req.info.addr, req.info.size) THEN Erased ELSE flash[b]]
    /\ superseded' = TRUE
    /\ \/ pc' = "info_erase" /\ UNCHANGED <<frame, status>>
       \/ Reply("ERASEFAILED")
    /\ UNCHANGED <<eeprom, ram, resumed, epoch>>

-----------------------------------------------------------------------------
(* eeprom_set_app_info and eeprom_set_golden_info: erase the sector, then  *)
(* program eight bytes at a time: exists and size first, then addr and crc. *)

InfoErase ==
    /\ pc = "info_erase"
    /\ eeInfo' = [eeInfo EXCEPT ![req.slot] = NoImage]
    /\ pc' = "info_head"
    /\ UNCHANGED <<flash, eeUpdate, ram, frame, status, history>>

InfoHead ==
    /\ pc = "info_head"
    /\ eeInfo' = [eeInfo EXCEPT ![req.slot] = [req.info EXCEPT !.addr = AllOnes, !.crc = Torn]]
    /\ pc' = "info_tail"
    /\ UNCHANGED <<flash, eeUpdate, ram, frame, status, history>>

\* Mutated form: the record names the default address of its area.
InfoTailDefaultAddr ==
    /\ pc = "info_tail"
    /\ eeInfo' = [eeInfo EXCEPT ![req.slot] =
                    [req.info EXCEPT !.addr = IF req.slot = "app" THEN AppMin ELSE GoldMin]]
    /\ IF req.info.exists THEN pc' = "begin" /\ UNCHANGED <<frame, status>>
                          ELSE Reply("NOFAIL")
    /\ UNCHANGED <<flash, eeUpdate, ram, history>>

\* INITIALIZE_UPDATE goes on to the progress record, ERASE_APP replies.
InfoTail ==
    /\ pc = "info_tail"
    /\ eeInfo' = [eeInfo EXCEPT ![req.slot] = req.info]
    /\ IF req.info.exists THEN pc' = "begin" /\ UNCHANGED <<frame, status>>
                          ELSE Reply("NOFAIL")
    /\ UNCHANGED <<flash, eeUpdate, ram, history>>

-----------------------------------------------------------------------------
(* The progress record: assigned in RAM, then written to the EEPROM.  The  *)
(* assignment cannot be seen before the EEPROM sector is erased, so both   *)
(* are one step; then start, size, next and the flag are written, then crc. *)

SaveErase(new) ==
    /\ update' = new /\ eeUpdate' = NoUpdate
    /\ pc' = "save_head"
    /\ UNCHANGED <<flash, eeInfo, frame, status>>

\* Mutated form: the new progress is not saved until blocks have come.
BeginUpdateUnsaved ==
    /\ pc = "begin"
    /\ update' = [initialized |-> TRUE, start |-> req.info.addr, next |-> req.info.addr,
                  size |-> req.info.size, crc |-> req.info.crc]
    /\ Reply("NOFAIL")
    /\ superseded' = FALSE /\ resumed' = FALSE
    /\ UNCHANGED <<flash, eeprom, counter, epoch>>

BeginUpdate ==
    /\ pc = "begin"
    /\ SaveErase([initialized |-> TRUE, start |-> req.info.addr, next |-> req.info.addr,
                  size |-> req.info.size, crc |-> req.info.crc])
    /\ superseded' = FALSE /\ resumed' = FALSE
    /\ UNCHANGED <<counter, epoch>>

\* Mutated form: the block counter is not reset.
SaveProgressNoReset ==
    /\ pc = "save"
    /\ SaveErase(update)
    /\ UNCHANGED <<counter, history>>

SaveProgress ==
    /\ pc = "save"
    /\ SaveErase(update)
    /\ counter' = 0
    /\ UNCHANGED history

FinishUpdate ==
    /\ pc = "finish"
    /\ SaveErase(NoUpdate)
    /\ counter' = 0
    /\ UNCHANGED history

SaveHead ==
    /\ pc = "save_head"
    /\ eeUpdate' = [update EXCEPT !.crc = Torn]
    /\ pc' = "save_tail"
    /\ UNCHANGED <<flash, eeInfo, ram, frame, status, history>>

SaveTail ==
    /\ pc = "save_tail"
    /\ eeUpdate' = update
    /\ Reply("NOFAIL")
    /\ UNCHANGED <<flash, eeInfo, ram, history>>

-----------------------------------------------------------------------------
(* PROGRAM_BLOCK                                                           *)

\* Mutated form: a block is taken at any address.
ReceiveBlockAnyOrder(b) ==
    /\ pc = "idle"
    /\ \/ ~update.initialized /\ Reply("NOINIT")
       \/ update.initialized /\ b.data # b.crc /\ Reply("CRCMISMATCH")
       \/ /\ update.initialized /\ b.data = b.crc
          /\ pc' = "program" /\ blk' = b /\ status' = "none" /\ UNCHANGED req
    /\ UNCHANGED <<flash, eeprom, ram, history>>

\* Mutated form: the CRC of the data is not compared.
ReceiveBlockNoCrc(b) ==
    /\ pc = "idle"
    /\ \/ ~update.initialized /\ Reply("NOINIT")
       \/ update.initialized /\ b.addr # update.next /\ Reply("OUTOFORDER")
       \/ /\ update.initialized /\ b.addr = update.next
          /\ pc' = "program" /\ blk' = b /\ status' = "none" /\ UNCHANGED req
    /\ UNCHANGED <<flash, eeprom, ram, history>>

ReceiveBlock(b) ==
    /\ pc = "idle"
    /\ \/ /\ ~update.initialized
          /\ Reply("NOINIT")
       \/ /\ update.initialized /\ b.addr # update.next
          /\ Reply("OUTOFORDER")
       \/ /\ update.initialized /\ b.addr = update.next /\ b.data # b.crc
          /\ Reply("CRCMISMATCH")
       \/ /\ update.initialized /\ b.addr = update.next /\ b.data = b.crc
          /\ pc' = "program" /\ blk' = b /\ status' = "none" /\ UNCHANGED req
    /\ UNCHANGED <<flash, eeprom, ram, history>>

\* Programming can only clear bits: a byte that is not erased keeps its value
\* if it is programmed with it again and is spoilt otherwise.
Burn(old, new) == IF old \in {Erased, new} THEN new ELSE Garbage

\* The flash after the first n bytes of blk have been programmed.  Bytes that
\* lie beyond the bank that was made active may be programmed or not.
Burned(n, beyond) ==
    [b \in MainBytes |->
        IF b \in Range32(blk.addr, n) /\ (beyond \/ BankOf(b) = BankOf(blk.addr))
        THEN Burn(flash[b], blk.data) ELSE flash[b]]

\* Mutated form: the update is done when at least its size has come.
ProgramBlockAtLeast ==
    /\ pc = "program"
    /\ \E beyond \in BOOLEAN : flash' = Burned(blk.size, beyond)
    /\ update' = [update EXCEPT !.next = blk.addr + blk.size]
    /\ IF update'.next - update.start >= update.size
       THEN pc' = "finish" /\ UNCHANGED <<counter, frame, status>>
       ELSE /\ counter' = counter + 1
            /\ IF counter' % SaveEvery = 0
               THEN pc' = "save" /\ UNCHANGED <<frame, status>>
               ELSE Reply("NOFAIL")
    /\ UNCHANGED <<eeprom, history>>

\* Fapi_BlockProgram, which always returns 0, and what follows it.
ProgramBlock ==
    /\ pc = "program"
    /\ \E beyond \in BOOLEAN : flash' = Burned(blk.size, beyond)
    /\ update' = [update EXCEPT !.next = blk.addr + blk.size]
    /\ IF update'.next - update.start = update.size
       THEN pc' = "finish" /\ UNCHANGED <<counter, frame, status>>
       ELSE /\ counter' = counter + 1
            /\ IF counter' % SaveEvery = 0
               THEN pc' = "save" /\ UNCHANGED <<frame, status>>
               ELSE Reply("NOFAIL")
    /\ UNCHANGED <<eeprom, history>>

-----------------------------------------------------------------------------
(* The other subservices                                                   *)

GetProgress ==
    /\ pc = "idle"
    /\ Reply(IF update.initialized THEN "NOFAIL" ELSE "NOINIT")
    /\ UNCHANGED <<flash, eeprom, ram, history>>

EraseApp ==
    /\ pc = "idle"
    /\ pc' = "info_erase"
    /\ req' = [slot |-> "app", info |-> [eeInfo["app"] EXCEPT !.exists = FALSE]]
    /\ status' = "none"
    /\ UNCHANGED <<flash, eeprom, ram, blk, history>>

\* verify_application and verify_golden read the region the record names.
Readable(info) == Range32(info.addr, info.size) \subseteq MainBytes

\* Mutated form: an image that was recorded is good.
VerifyExists(info) == info.exists /\ Readable(info)

Verify(info) ==
    /\ info.exists /\ Readable(info)
    /\ \A b \in Range32(info.addr, info.size) : flash[b] = info.crc

VerifyImage(s) ==
    /\ pc = "idle"
    /\ Reply(IF Verify(eeInfo[s]) THEN "NOFAIL" ELSE "VERIFYFAILED")
    /\ UNCHANGED <<flash, eeprom, ram, history>>

-----------------------------------------------------------------------------
(* Power loss or reset, and start_updater_service after it                 *)

\* An erase that was cut: the sectors before k are erased, k is undefined.
CutErase(k) ==
    LET gone == {j \in WalkedSectors(req.info.addr, req.info.size) : j < k} IN
    [b \in MainBytes |-> CASE \E j \in gone : InSector(b, j) -> Erased
                          [] InSector(b, k) -> Garbage
                          [] OTHER -> flash[b]]

\* What the flash may hold when the handler is cut where it is.
Survivors ==
    CASE pc = "erase"   -> {CutErase(k) : k \in WalkedSectors(req.info.addr, req.info.size)}
      [] pc = "program" -> {Burned(n, beyond) : n \in 0 .. blk.size, beyond \in BOOLEAN}
      [] OTHER -> {flash}

\* Mutated form: the block that was on its way is taken as programmed.
ReloadAhead ==
    IF eeUpdate.initialized THEN [eeUpdate EXCEPT !.next = @ + MaxBlock] ELSE NoUpdate

\* start_updater_service: the record is reloaded; without the flag it is zeroed.
Reload == IF eeUpdate.initialized THEN eeUpdate ELSE NoUpdate

Restart ==
    /\ flash' \in Survivors
    /\ update' = Reload /\ counter' = 0
    /\ Reply("none")
    /\ superseded' = (superseded \/ pc = "erase")
    /\ resumed' = TRUE /\ epoch' = ~epoch
    /\ UNCHANGED eeprom

\* Reading an address that is not memory may be a data abort, which resets.
AbortInVerify(s) ==
    /\ pc = "idle"
    /\ eeInfo[s].exists /\ ~Readable(eeInfo[s])
    /\ Restart

-----------------------------------------------------------------------------
Next ==
    \/ \E r \in Requests : InitializeUpdate(r)
    \/ EraseImage
    \/ InfoErase \/ InfoHead \/ InfoTail
    \/ BeginUpdate \/ SaveProgress \/ FinishUpdate \/ SaveHead \/ SaveTail
    \/ \E b \in Blocks : ReceiveBlock(b)
    \/ ProgramBlock
    \/ GetProgress \/ EraseApp
    \/ \E s \in Slots : VerifyImage(s) \/ AbortInVerify(s)
    \/ Restart

Spec == Init /\ [][Next]_vars
-----------------------------------------------------------------------------
UpdateInfo ==
    [initialized : BOOLEAN, start : Nat, next : Nat, size : Nat, crc : Images \cup {Torn}]
ImageInfo == [exists : BOOLEAN, addr : Nat, size : Nat, crc : Images \cup {Torn}]
Pcs == {"idle", "erase", "info_erase", "info_head", "info_tail", "begin", "program",
        "save", "finish", "save_head", "save_tail"}
Statuses == {"none", "NOFAIL", "INVALIDADDR", "NOINIT", "ERASEFAILED", "OUTOFORDER",
             "CRCMISMATCH", "VERIFYFAILED"}

\* Every variable has its type: a record is a record at every cut of a write,
\* the block counter is back at 0 by SaveEvery, the handlers end in a status.
TypeOK ==
    /\ flash \in [MainBytes -> Contents]
    /\ eeInfo \in [Slots -> ImageInfo]
    /\ eeUpdate \in UpdateInfo /\ update \in UpdateInfo
    /\ counter \in 0 .. SaveEvery
    /\ pc \in Pcs /\ status \in Statuses
    /\ req \in [slot : Slots, info : ImageInfo]
    /\ blk \in Blocks \cup {NoBlock}
    /\ superseded \in BOOLEAN /\ resumed \in BOOLEAN /\ epoch \in BOOLEAN

\* The record in the EEPROM is at no time ahead of the one in RAM, describes
\* the same image, and is at most SaveEvery blocks behind (updater.c:289-293);
\* while the service waits for a packet an update in RAM is in the EEPROM too.
ProgressLag ==
    /\ eeUpdate.initialized =>
          /\ update.initialized
          /\ update.start = eeUpdate.start /\ update.size = eeUpdate.size
          /\ eeUpdate.next <= update.next
          /\ update.next - eeUpdate.next <= SaveEvery * MaxBlock
    /\ pc = "idle" /\ update.initialized => eeUpdate.initialized

\* The bytes GET_PROGRESS reports as done are programmed, and until a restart
\* the rest of the image is still erased: no block is skipped, and none, sent
\* again or late, is programmed twice.  Except while the record is of an image
\* that a cut or failed INITIALIZE_UPDATE has erased under it (updater.c:212).
FlashMatchesProgress ==
    update.initialized /\ ~superseded =>
        \A b \in MainBytes \cap Range32(update.start, update.size) :
            /\ b < update.next => flash[b] # Erased
            /\ b >= update.next /\ ~resumed => flash[b] = Erased

\* The update in progress is the update of the image recorded for its area.
RecordMatchesProgress ==
    update.initialized /\ ~superseded =>
        LET info == eeInfo[SlotOf(update.start)] IN
        info.exists => /\ info.addr = update.start /\ info.size = update.size
                       /\ update.crc \in {info.crc, Torn}

\* The ground has one image for each area, Sent, and its blocks are of it; each
\* area is memory throughout.
OneImageEach(Sent) ==
    /\ \A r \in Requests : StartAddrCheck(r.addr, r.size) => r.crc = Sent[SlotOf(r.addr)]
    /\ \A b \in Blocks : b.size > 0 /\ b.data = b.crc => b.data = Sent[SlotOf(b.addr)]
    /\ GoldMin .. (AppLimit - 1) \subseteq MainBytes

\* When the last block of an image is in, the image verifies: whatever was
\* lost, sent again, cut by a restart and programmed a second time.  (Asked
\* where one image is sent for each area; blocks of another version of the
\* image are accepted and only verification finds them.)
FinishedVerifies ==
    pc = "finish" /\ ~superseded =>
        LET info == eeInfo[SlotOf(update.start)] IN info.exists => Verify(info)

\* No packet changes the bootloader, and a packet that changes a byte of the
\* golden area is an erase or a block of a golden image.
KeepsAreas ==
    \A b \in MainBytes : flash'[b] # flash[b] =>
        /\ b >= GoldMin
        /\ b < AppMin => \/ pc = "erase" /\ req.slot = "gold"
                         \/ pc = "program" /\ SlotOf(update.start) = "gold"
AreasKept == [][KeepsAreas]_vars

\* The progress record is an image transfer: in order, ended at exactly its
\* size, taken back by a restart by at most SaveEvery blocks.
ProgressAsTransfer ==
    [active |-> update.initialized, base |-> update.start,
     size |-> update.size, done |-> update.next - update.start]
Transfer == INSTANCE ImageTransfer WITH
    Lag <- SaveEvery * MaxBlock, transfer <- ProgressAsTransfer
TransferSpec == Transfer!TransferSpec

\* bl_flash.c:91-93, "If flashing to the golden image bank, the size of the
\* image may not write higher than 0x00200000": nor does any block of it.
GoldenBelowApp ==
    pc = "program" /\ SlotOf(update.start) = "gold" => blk.addr + blk.size <= AppMin

=============================================================================
