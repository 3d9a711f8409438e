------------------------------ MODULE FlashOps ------------------------------
(***************************************************************************)
(* Fapi_BlockErase and Fapi_BlockProgram of bl_flash.c step by step: the   *)
(* loop that enables banks, the loop that erases sector after sector, the  *)
(* loop that programs in chunks of the bank's width.  The callers are the  *)
(* updater (an image region that StartAddrCheck accepted, then blocks of   *)
(* it) and eeprom_write (one record at the start of an EEPROM sector).     *)
(***************************************************************************)
EXTENDS FlashSectors, FiniteSets, FiniteSetsExt

CONSTANTS
    Addrs, Sizes,        \* the addresses and sizes an INITIALIZE_UPDATE may carry
    MainWidth, EeWidth,  \* bytes one command programs: 32, and 8 in bank 7
    MaxCalls             \* bound: calls made in one behaviour

ASSUME OpsAssumption ==
    /\ Addrs \subseteq 0 .. (Word - 1) /\ Sizes \subseteq 0 .. (Word - 1)
    /\ MainWidth \in Nat \ {0} /\ EeWidth \in Nat \ {0} /\ MaxCalls \in Nat
    /\ \A a \in Addrs, n \in Sizes : a + n < Word     \* no request wraps around

\* The image areas have no gap and lie in banks 0 and 1, as the table says.
ASSUME AreasAssumption ==
    /\ \A b \in GoldMin .. (AppLimit - 1) : InFlash(b)
    /\ \A s \in DOMAIN Sectors :
          /\ GoldMin <= Sectors[s].start /\ Sectors[s].start < AppMin => Sectors[s].bank = 0
          /\ AppMin <= Sectors[s].start /\ Sectors[s].start < AppLimit => Sectors[s].bank = 1

VARIABLES
    flash,   \* each byte: "old", "erased", "new" (programmed once), "over" (programmed again)
    pc,      \* "idle", "enable", "erase" or "program"
    call,    \* [kind, addr, size, caller] of the call in progress or just made
    region,  \* [addr, size] of the updater's last erase
    i,       \* the loop index
    last,    \* ucEndSector
    dst,     \* the next address Fapi_BlockProgram writes
    active,  \* the bank the flash state machine works on
    before,  \* flash when the call was made (history)
    calls    \* calls made so far
vars == <<flash, pc, call, region, i, last, dst, active, before, calls>>

Bytes == MainBytes \cup EepromBytes

Init ==
    /\ flash = [b \in Bytes |-> "old"]
    /\ before = flash
    /\ pc = "idle"
    /\ call = [kind |-> "none", addr |-> 0, size |-> 0, caller |-> "none"]
    /\ region = [addr |-> 0, size |-> 0]
    /\ i = 0 /\ last = 0 /\ dst = 0 /\ active = 0 /\ calls = 0

\* updater_app and eeprom_write: the two conditions under which a call is made.
Callable(a, n, caller) ==
    \/ caller = "updater" /\ StartAddrCheck(a, n)
    \/ /\ caller = "eeprom"
       /\ n # 0
       /\ \E s \in DOMAIN Sectors : Sectors[s].bank = EepromBank
             /\ a = Sectors[s].start /\ n <= Sectors[s].length

\* Entry of Fapi_BlockErase: both sector searches.  If the second finds no
\* sector, ucEndSector is read uninitialised: any value.
CallErase(a, n, caller) ==
    /\ pc = "idle" /\ calls < MaxCalls
    /\ Callable(a, n, caller)
    /\ call' = [kind |-> "erase", addr |-> a, size |-> n, caller |-> caller]
    /\ region' = IF caller = "updater" THEN [addr |-> a, size |-> n] ELSE region
    /\ last' \in IF EndSectors(a, n) = {} THEN DOMAIN Sectors ELSE EndSectors(a, n)
    /\ i' = Sectors[StartSector(a)].bank
    /\ pc' = "enable" /\ before' = flash /\ calls' = calls + 1
    /\ UNCHANGED <<flash, dst, active>>

EnableBank ==
    /\ pc = "enable"
    /\ IF i <= Sectors[last].bank
       THEN active' = i /\ i' = i + 1 /\ UNCHANGED pc
       ELSE i' = StartSector(call.addr) /\ pc' = "erase" /\ UNCHANGED active
    /\ UNCHANGED <<flash, call, region, last, dst, before, calls>>

EraseSector ==
    /\ pc = "erase" /\ i <= last
    /\ flash' = [b \in Bytes |-> IF InSector(b, i) THEN "erased" ELSE flash[b]]
    /\ i' = i + 1
    /\ UNCHANGED <<pc, call, region, last, dst, active, before, calls>>

EraseReturn ==
    /\ pc = "erase" /\ i > last
    /\ pc' = "idle"
    /\ UNCHANGED <<flash, call, region, i, last, dst, active, before, calls>>

Width(bank) == IF bank = EepromBank THEN EeWidth ELSE MainWidth

\* Entry of Fapi_BlockProgram: the updater programs a piece of the region it
\* erased, eeprom_write the record whose sector it has just erased.
CallProgram(a, n, caller) ==
    /\ pc = "idle" /\ calls < MaxCalls /\ n # 0
    /\ \/ /\ caller = "updater"
          /\ region.addr <= a /\ a + n <= region.addr + region.size
       \/ caller = "eeprom" /\ call = [kind |-> "erase", addr |-> a, size |-> n, caller |-> "eeprom"]
    /\ call' = [kind |-> "program", addr |-> a, size |-> n, caller |-> caller]
    /\ dst' = a
    /\ active' = IF caller = "eeprom" THEN EepromBank ELSE BankOf(a)
    /\ pc' = "program" /\ before' = flash /\ calls' = calls + 1
    /\ UNCHANGED <<flash, region, i, last>>

\* Mutated form: SizeInBytes runs below zero instead of being cut.
ChunkUncut == dst .. (dst + Width(active) - 1)

\* The bytes of the next programming command.
Chunk == dst .. (dst + Min({Width(active), call.addr + call.size - dst}) - 1)

\* Mutated form: the last command is not cut to the bytes that are left.
ProgramChunkUncut ==
    /\ pc = "program" /\ dst < call.addr + call.size
    /\ flash' = [b \in Bytes |-> IF b \in dst .. (dst + Width(active) - 1)
                                 THEN IF flash[b] = "erased" THEN "new" ELSE "over"
                                 ELSE flash[b]]
    /\ dst' = dst + Cardinality(Chunk)
    /\ UNCHANGED <<pc, call, region, i, last, active, before, calls>>

ProgramChunk ==
    /\ pc = "program" /\ dst < call.addr + call.size
    /\ flash' = [b \in Bytes |-> IF b \in Chunk
                                 THEN IF flash[b] = "erased" THEN "new" ELSE "over"
                                 ELSE flash[b]]
    /\ dst' = dst + Cardinality(Chunk)
    /\ UNCHANGED <<pc, call, region, i, last, active, before, calls>>

ProgramReturn ==
    /\ pc = "program" /\ dst = call.addr + call.size
    /\ pc' = "idle"
    /\ UNCHANGED <<flash, call, region, i, last, dst, active, before, calls>>

Next ==
    \/ \E a \in Addrs, n \in Sizes : CallErase(a, n, "updater")
    \/ \E a \in EepromBytes, n \in Sizes : CallErase(a, n, "eeprom")
    \/ \E a \in Bytes, n \in Sizes, c \in {"updater", "eeprom"} : CallProgram(a, n, c)
    \/ EnableBank \/ EraseSector \/ EraseReturn
    \/ ProgramChunk \/ ProgramReturn

\* Both functions spin until the flash state machine has finished each command.
Spec == Init /\ [][Next]_vars
             /\ WF_vars(EnableBank \/ EraseSector \/ EraseReturn \/ ProgramChunk \/ ProgramReturn)
-----------------------------------------------------------------------------
\* A finished Fapi_BlockErase (107-154) erased exactly the sectors that meet
\* [ulAddr, ulAddr + Size): none is missed at either end and none is added,
\* whatever the position of the region in its sectors.
EraseExact ==
    pc = "idle" /\ call.kind = "erase" =>
        LET Meets(s) == Sectors[s].start < call.addr + call.size /\ call.addr < EndOf(s)
        IN  \A s \in DOMAIN Sectors : \A b \in SectorBytes(s) :
                flash[b] = IF Meets(s) THEN "erased" ELSE before[b]

\* A finished Fapi_BlockProgram (158-197) programmed every byte of its
\* destination once and no other byte, also when the size is not a multiple
\* of the bank's width.
ProgramExact ==
    pc = "idle" /\ call.kind = "program" =>
        \A b \in Bytes :
            flash[b] = IF b \in call.addr .. (call.addr + call.size - 1)
                       THEN IF before[b] = "erased" THEN "new" ELSE "over"
                       ELSE before[b]

\* Every erase and program command goes to the bank that was made active for
\* it: the enable loop (132-141) leaves the last bank active for all sectors,
\* which is right only because no accepted region spans two banks.
CommandInActiveBank ==
    /\ pc = "erase" /\ i <= last => Sectors[i].bank = active
    /\ pc = "program" => \A b \in Chunk, s \in DOMAIN Sectors :
                            InSector(b, s) => Sectors[s].bank = active

\* Every call comes back: the loops over banks, sectors and chunks end.
CallsReturn == pc # "idle" ~> pc = "idle"

=============================================================================
