----------------------------- MODULE MCUpdater ------------------------------
(***************************************************************************)
(* One bootloader byte, a golden area of two bytes in one sector, an       *)
(* application bank of two sectors of two bytes, an EEPROM sector above.   *)
(* With SaveEvery = 2 an image of three bytes is long enough to be saved   *)
(* half way, to lag behind and to be taken back.                           *)
(***************************************************************************)
EXTENDS Updater

CONSTANTS G, A1, A2, BlockSizes

S(a, n, k) == [start |-> a, length |-> n, bank |-> k]
MCSectors == << S(0, 1, 0), S(1, 2, 0), S(3, 2, 1), S(5, 2, 1), S(8, 2, 7) >>

R(a, n, m) == [addr |-> a, size |-> n, crc |-> m]
MCImages == {G, A1, A2}

\* The blocks a ground that has image r.crc sends for request r, some damaged.
BlocksOf(r) ==
    {[addr |-> a, size |-> n, data |-> d, crc |-> r.crc] :
        a \in r.addr .. (r.addr + r.size), n \in BlockSizes, d \in {r.crc, Garbage}}

GoldR == R(1, 2, G)
AppR  == R(3, 3, A1)
App2R == R(4, 2, A2)  \* another version, linked inside a sector
BadRs == {R(0, 1, G), R(3, 4, A1)}

\* Two versions of the application, requests that are refused, any blocks.
AnyRequests == {AppR, App2R} \cup BadRs
AnyBlocks   == UNION {BlocksOf(r) : r \in {AppR, App2R}}
\* One image for each area, and blocks that are pieces of it.
OneRequests == {GoldR, AppR} \cup BadRs
OneBlocks   == UNION {{b \in BlocksOf(r) : b.addr + b.size <= r.addr + r.size} : r \in {GoldR, AppR}}
ASSUME OneImageAssumption == Requests = OneRequests => OneImageEach([gold |-> G, app |-> A1])
\* The same with a last block that need not be cut to the size of the image.
WholeRequests == {GoldR, AppR}
WholeBlocks   == UNION {{b \in BlocksOf(r) : b.addr < r.addr + r.size} : r \in WholeRequests}
=============================================================================
