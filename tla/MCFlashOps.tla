----------------------------- MODULE MCFlashOps -----------------------------
(***************************************************************************)
(* A flash of 26 bytes: two bootloader sectors, two sectors for the golden *)
(* image, two in bank 1 for the application, two EEPROM sectors.  Sector   *)
(* lengths differ and are no multiples of the chunk widths.                *)
(***************************************************************************)
EXTENDS FlashOps

S(a, n, k) == [start |-> a, length |-> n, bank |-> k]

MCSectors == << S(0, 2, 0), S(2, 2, 0), S(4, 4, 0), S(8, 2, 0),
                S(10, 4, 1), S(14, 4, 1), S(20, 4, 7), S(24, 4, 7) >>

MainAddrs == 0 .. 17
SomeSizes == 0 .. 8
=============================================================================
