---------------------------- MODULE FlashSectors ----------------------------
(***************************************************************************)
(* The flash geometry of bl_source/bl_flash.c: the sector table            *)
(* flash_sector[] of flash_defines.h and the pure arithmetic the flash     *)
(* functions do on it.  Addresses are uint32_t: sums are taken modulo      *)
(* Word.  The table and the limits are parameters, so that TLC runs on a   *)
(* table of a few bytes and the proofs hold for the real one.              *)
(***************************************************************************)
EXTENDS Integers, Sequences

CONSTANTS
    Sectors,    \* flash_sector[]: a sequence of [start, length, bank]
    GoldMin,    \* GOLD_MINIMUM_ADDR
    AppMin,     \* APP_MINIMUM_ADDR, also the literal 0x00200000
    AppLimit,   \* 0x003FFFFF
    Word,       \* 2^32, the modulus of uint32_t
    EepromBank  \* 7, the bank of the emulated EEPROM

EndOf(i) == Sectors[i].start + Sectors[i].length

(***************************************************************************)
(* The table is in ascending order and its sectors do not overlap; the two *)
(* image areas begin on sector boundaries, the application area on a bank  *)
(* boundary.  All of it is read off the table.                             *)
(***************************************************************************)
ASSUME SectorsAssumption ==
    /\ Sectors \in Seq([start : Nat, length : Nat \ {0}, bank : Nat])
    /\ \A i, j \in DOMAIN Sectors : i < j => EndOf(i) <= Sectors[j].start
    /\ \A i \in DOMAIN Sectors : EndOf(i) < Word

ASSUME LimitsAssumption ==
    /\ GoldMin \in Nat /\ AppMin \in Nat /\ AppLimit \in Nat /\ Word \in Nat
    /\ GoldMin < AppMin /\ AppMin <= AppLimit /\ AppLimit < Word
    /\ \A i \in DOMAIN Sectors :
          /\ EndOf(i) <= GoldMin \/ GoldMin <= Sectors[i].start
          /\ EndOf(i) <= AppMin \/ AppMin <= Sectors[i].start
    /\ EepromBank \in Nat

-----------------------------------------------------------------------------
Add32(a, n) == (a + n) % Word

InSector(a, i) == Sectors[i].start <= a /\ a < EndOf(i)

InFlash(a) == \E i \in DOMAIN Sectors : InSector(a, i)

\* Mutated form: the end of a golden image is compared with the end of bank 1.
StartAddrCheckLoose(a, n) ==
    n # 0 /\ InFlash(a) /\ a >= GoldMin /\ Add32(a, n) <= AppLimit

\* Mutated form: no lower bound on the start address.
StartAddrCheckNoFloor(a, n) ==
    /\ n # 0 /\ InFlash(a)
    /\ \/ a < AppMin  /\ Add32(a, n) <= AppMin
       \/ a >= AppMin /\ Add32(a, n) <= AppLimit

\* BLInternalFlashStartAddrCheck: is [a, a+n) a region an image may be put in?
StartAddrCheck(a, n) ==
    /\ n # 0
    /\ InFlash(a)
    /\ a >= GoldMin
    /\ \/ a < AppMin  /\ Add32(a, n) <= AppMin
       \/ a >= AppMin /\ Add32(a, n) <= AppLimit

\* Fapi_BlockErase, first loop: the sector that holds the start address.
StartSector(a) == CHOOSE i \in DOMAIN Sectors : InSector(a, i)

\* Mutated form: the walk stops only at a sector that ends above EndAddr.
WalkedSectorsOneMore(a, n) ==
    {j \in DOMAIN Sectors :
        /\ StartSector(a) <= j
        /\ \A k \in StartSector(a) .. (j - 1) : EndOf(k) <= Add32(a, n)}

\* Fapi_BlockErase, second loop: the sectors it walks over from the first
\* sector on, up to the first one that ends at EndAddr or later.
WalkedSectors(a, n) ==
    {j \in DOMAIN Sectors :
        /\ StartSector(a) <= j
        /\ \A k \in StartSector(a) .. (j - 1) : EndOf(k) < Add32(a, n)}

\* That last sector; the loop finds none if EndAddr is above the whole table.
EndSectors(a, n) == {j \in WalkedSectors(a, n) : Add32(a, n) <= EndOf(j)}

SectorBytes(i) == Sectors[i].start .. (EndOf(i) - 1)

\* What a completed Fapi_BlockErase(a, n) erases.
ErasedBytes(a, n) == UNION {SectorBytes(j) : j \in WalkedSectors(a, n)}

\* The bytes of the two banks that hold code, and of the emulated EEPROM.
MainBytes   == UNION {SectorBytes(i) : i \in {j \in DOMAIN Sectors : Sectors[j].bank # EepromBank}}
EepromBytes == UNION {SectorBytes(i) : i \in {j \in DOMAIN Sectors : Sectors[j].bank = EepromBank}}

\* The bank the updater names for a block at address a.
BankOf(a) == IF a < AppMin THEN 0 ELSE 1
=============================================================================
