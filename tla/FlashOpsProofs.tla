--------------------------- MODULE FlashOpsProofs ----------------------------
(***************************************************************************)
(* For every sector table, region and bank width: an erase that returns    *)
(* has erased the sectors that meet its region and no others, a program    *)
(* that returns has programmed every byte of its destination once and no   *)
(* other byte, and each command went to the bank that was active.          *)
(***************************************************************************)
EXTENDS FlashOps, FiniteSetTheorems, SequenceTheorems, WellFoundedInduction, TLAPS

-----------------------------------------------------------------------------
(* The sector table                                                        *)

LEMMA SectorFacts ==
    /\ DOMAIN Sectors \subseteq Nat
    /\ \A s \in DOMAIN Sectors :
          /\ Sectors[s].start \in Nat /\ EndOf(s) \in Nat /\ Sectors[s].bank \in Nat
          /\ Sectors[s].start < EndOf(s) /\ EndOf(s) < Word
          /\ Sectors[s].length \in Nat /\ EndOf(s) = Sectors[s].start + Sectors[s].length
    /\ \A s, t \in DOMAIN Sectors : s < t => EndOf(s) <= Sectors[t].start
    /\ \A s, t \in DOMAIN Sectors : \A k \in s .. t : k \in DOMAIN Sectors
    /\ Word \in Nat
<1>1. PICK n \in Nat : Sectors \in [1 .. n -> [start : Nat, length : Nat \ {0}, bank : Nat]]
  BY SectorsAssumption, LenProperties
<1>2. DOMAIN Sectors = 1 .. n /\ \A s \in 1 .. n : Sectors[s] \in [start : Nat, length : Nat \ {0}, bank : Nat]
  BY <1>1
<1>3. \A s \in 1 .. n : Sectors[s].start \in Nat /\ Sectors[s].length \in Nat \ {0} /\ Sectors[s].bank \in Nat
  BY <1>2
<1> QED
  BY <1>2, <1>3, SectorsAssumption, LimitsAssumption DEF EndOf

\* No byte is in two sectors.
LEMMA OneSector ==
    ASSUME NEW s \in DOMAIN Sectors, NEW t \in DOMAIN Sectors, NEW b \in Int,
           InSector(b, s), InSector(b, t)
    PROVE  s = t
BY SectorFacts DEF InSector

LEMMA StartFacts ==
    ASSUME NEW a \in Int, InFlash(a)
    PROVE  StartSector(a) \in DOMAIN Sectors /\ InSector(a, StartSector(a))
BY DEF InFlash, StartSector

Touches(s, a, n) == Sectors[s].start < a + n /\ a < EndOf(s)

\* A region without a gap, all of it in bank k.
Covered(a, n, k) ==
    /\ a \in Nat /\ n \in Nat \ {0} /\ a + n < Word
    /\ \A b \in a .. (a + n - 1) : InFlash(b)
    /\ \A s \in DOMAIN Sectors : Touches(s, a, n) => Sectors[s].bank = k

\* What the updater may erase and what eeprom_write writes.
Accepted(a, n) ==
    /\ a \in Nat /\ n \in Nat
    /\ n # 0 => GoldMin <= a
    /\ n # 0 => a + n <= IF a < AppMin THEN AppMin ELSE AppLimit

Record(a, n) ==
    /\ n \in Nat \ {0}
    /\ \E s \in DOMAIN Sectors :
          Sectors[s].bank = EepromBank /\ a = Sectors[s].start /\ n <= Sectors[s].length

LEMMA AcceptedCovered ==
    ASSUME NEW a, NEW n, Accepted(a, n), n # 0
    PROVE  Covered(a, n, BankOf(a))
<1>1. /\ a \in Nat /\ n \in Nat \ {0} /\ GoldMin <= a /\ a + n <= AppLimit
      /\ GoldMin \in Nat /\ AppMin \in Nat /\ AppLimit \in Nat /\ AppLimit < Word /\ Word \in Nat /\ AppMin <= AppLimit
      /\ a < AppMin => a + n <= AppMin
  BY LimitsAssumption DEF Accepted
<1>2. \A b \in a .. (a + n - 1) : InFlash(b)
  BY <1>1, AreasAssumption
<1>3. ASSUME NEW s \in DOMAIN Sectors, Touches(s, a, n)
      PROVE  Sectors[s].bank = BankOf(a)
  <2>1. /\ Sectors[s].start \in Nat /\ EndOf(s) \in Nat
        /\ Sectors[s].start < a + n /\ a < EndOf(s)
    BY <1>3, SectorFacts DEF Touches
  <2>2. /\ EndOf(s) <= GoldMin \/ GoldMin <= Sectors[s].start
        /\ EndOf(s) <= AppMin \/ AppMin <= Sectors[s].start
    BY LimitsAssumption
  <2>3. /\ GoldMin <= Sectors[s].start /\ Sectors[s].start < AppMin => Sectors[s].bank = 0
        /\ AppMin <= Sectors[s].start /\ Sectors[s].start < AppLimit => Sectors[s].bank = 1
    BY AreasAssumption
  <2> QED
    BY <1>1, <2>1, <2>2, <2>3 DEF BankOf
<1> QED
  BY <1>1, <1>2, <1>3 DEF Covered

LEMMA RecordCovered ==
    ASSUME NEW a, NEW n, Record(a, n)
    PROVE  Covered(a, n, EepromBank)
<1>1. PICK s \in DOMAIN Sectors :
         Sectors[s].bank = EepromBank /\ a = Sectors[s].start /\ n <= Sectors[s].length
  BY DEF Record
<1>2. /\ n \in Nat \ {0} /\ a \in Nat /\ Word \in Nat
      /\ EndOf(s) \in Nat /\ EndOf(s) < Word /\ a + n <= EndOf(s)
  BY <1>1, SectorFacts DEF Record
<1>3. \A b \in a .. (a + n - 1) : InSector(b, s)
  BY <1>1, <1>2 DEF InSector
<1>4. ASSUME NEW t \in DOMAIN Sectors, Touches(t, a, n)
      PROVE  t = s
  BY <1>1, <1>2, <1>4, SectorFacts DEF Touches
<1> QED
  BY <1>1, <1>2, <1>3, <1>4 DEF Covered, InFlash

-----------------------------------------------------------------------------
(* The two sector searches                                                 *)

\* From the sector that holds the start to the one the walk ends at: these are
\* the sectors that meet the region.
LEMMA SearchFinds ==
    ASSUME NEW a, NEW n, NEW k, Covered(a, n, k)
    PROVE  /\ StartSector(a) \in DOMAIN Sectors /\ Sectors[StartSector(a)].bank = k
           /\ EndSectors(a, n) # {}
           /\ \A j \in EndSectors(a, n) :
                 /\ j \in DOMAIN Sectors /\ StartSector(a) <= j /\ Sectors[j].bank = k
                 /\ \A s \in DOMAIN Sectors : StartSector(a) <= s /\ s <= j <=> Touches(s, a, n)
<1> DEFINE first == StartSector(a)
           end == a + n
<1>1. /\ a \in Nat /\ n \in Nat \ {0} /\ end < Word /\ Word \in Nat
      /\ \A b \in a .. (end - 1) : InFlash(b)
  BY LimitsAssumption DEF Covered
<1>2. Add32(a, n) = end
  BY <1>1 DEF Add32
<1>3. first \in DOMAIN Sectors /\ Sectors[first].start <= a /\ a < EndOf(first)
  BY <1>1, StartFacts DEF InSector
<1> HIDE DEF first
<1>4. \A j : j \in EndSectors(a, n) <=> /\ j \in DOMAIN Sectors /\ first <= j
                                        /\ \A i0 \in first .. (j - 1) : EndOf(i0) < end
                                        /\ end <= EndOf(j)
  <2> HIDE DEF end
  <2> QED
    BY <1>2 DEF EndSectors, WalkedSectors, first
<1>5. EndSectors(a, n) # {}
  <2> DEFINE T == {j \in DOMAIN Sectors : first <= j /\ end <= EndOf(j)}
             below == {ss \in Nat \X Nat : ss[1] < ss[2]}
  <2>1. PICK m \in DOMAIN Sectors : Sectors[m].start <= end - 1 /\ end - 1 < EndOf(m)
    BY <1>1 DEF InFlash, InSector
  <2>2. m \in T
    BY <1>1, <1>3, <2>1, SectorFacts
  <2>3. T \subseteq Nat
    BY SectorFacts
  <2>4. IsWellFoundedOn(below, Nat)
    BY NatLessThanWellFounded DEF OpToRel
  <2> HIDE DEF below
  <2>5. PICK j \in T : \A i0 \in T : <<i0, j>> \notin below
    <3> HIDE DEF T
    <3> QED
      BY <2>2, <2>3, <2>4, WFMin
  <2>6. \A i0 \in first .. (j - 1) : EndOf(i0) < end
    <3> SUFFICES ASSUME NEW i0 \in first .. (j - 1)
                 PROVE  EndOf(i0) < end
      OBVIOUS
    <3>1. i0 \in DOMAIN Sectors /\ i0 \in Nat /\ j \in Nat /\ first <= i0 /\ i0 < j
      BY <1>3, <2>3, SectorFacts
    <3>2. <<i0, j>> \in below
      BY <3>1 DEF below
    <3>3. i0 \notin T
      BY <2>5, <3>2
    <3> QED
      BY <1>1, <3>1, <3>3, SectorFacts
  <2> QED
    BY <1>4, <2>5, <2>6
<1>6. ASSUME NEW j \in EndSectors(a, n), NEW s \in DOMAIN Sectors
      PROVE  first <= s /\ s <= j <=> Touches(s, a, n)
  <2>1. /\ j \in DOMAIN Sectors /\ first <= j /\ end <= EndOf(j)
        /\ \A i0 \in first .. (j - 1) : EndOf(i0) < end
    BY <1>4
  <2>2. ASSUME Touches(s, a, n)
        PROVE  first <= s /\ s <= j
    BY <1>1, <1>3, <2>1, <2>2, SectorFacts DEF Touches
  <2>3. ASSUME first <= s, s <= j
        PROVE  a < EndOf(s)
    BY <1>1, <1>3, <2>3, SectorFacts
  <2>4. ASSUME first <= s, s <= j
        PROVE  Sectors[s].start < end
    <3>1. CASE s = first
      BY <1>1, <1>3, <3>1, SectorFacts
    <3>2. CASE s # first
      <4>1. s - 1 \in first .. (j - 1) /\ s - 1 \in DOMAIN Sectors /\ first \in Nat /\ s \in Nat
        BY <1>3, <2>1, <2>4, <3>2, SectorFacts
      <4>2. EndOf(s - 1) \in Nat /\ EndOf(s - 1) < end
        BY <2>1, <4>1, SectorFacts
      <4>3. a <= EndOf(s - 1)
        BY <1>1, <1>3, <4>1, SectorFacts
      <4>4. PICK m \in DOMAIN Sectors : Sectors[m].start <= EndOf(s - 1) /\ EndOf(s - 1) < EndOf(m)
        BY <1>1, <4>2, <4>3 DEF InFlash, InSector
      <4>5. s <= m
        <5>1. m \in Nat /\ (m < s => m <= s - 1)
          BY <4>1, SectorFacts
        <5>2. m < s - 1 => EndOf(m) <= EndOf(s - 1)
          BY <4>1, SectorFacts
        <5>3. m = s - 1 => EndOf(m) = EndOf(s - 1)
          OBVIOUS
        <5> QED
          BY <4>1, <4>2, <4>4, <5>1, <5>2, <5>3, SectorFacts
      <4>6. Sectors[s].start <= Sectors[m].start
        BY <4>5, SectorFacts
      <4> QED
        BY <1>1, <4>2, <4>4, <4>6, SectorFacts
    <3> QED
      BY <3>1, <3>2
  <2> QED
    BY <2>2, <2>3, <2>4 DEF Touches
<1>7. Sectors[first].bank = k
  BY <1>1, <1>3, SectorFacts DEF Covered, Touches
<1>8. ASSUME NEW j \in EndSectors(a, n)
      PROVE  j \in DOMAIN Sectors /\ first <= j /\ Sectors[j].bank = k
  <2>1. j \in DOMAIN Sectors /\ first <= j
    BY <1>4
  <2>2. Touches(j, a, n)
    BY <1>6, <2>1, SectorFacts
  <2> QED
    BY <2>1, <2>2 DEF Covered
<1> QED
  BY <1>3, <1>5, <1>6, <1>7, <1>8 DEF first

-----------------------------------------------------------------------------
(* The inductive invariant                                                 *)

States == {"old", "erased", "new", "over"}

Types ==
    /\ flash \in [Bytes -> States] /\ before \in [Bytes -> States]
    /\ pc \in {"idle", "enable", "erase", "program"}
    /\ call \in [kind : {"none", "erase", "program"}, addr : Nat, size : Nat,
                 caller : {"none", "updater", "eeprom"}]
    /\ region \in [addr : Nat, size : Nat]
    /\ i \in Nat /\ last \in Nat /\ dst \in Nat /\ active \in Nat

\* The sectors of the region before sector k are erased, the others untouched.
ErasedUpTo(k) ==
    \A s \in DOMAIN Sectors : \A b \in SectorBytes(s) :
        flash[b] = IF StartSector(call.addr) <= s /\ s < k THEN "erased" ELSE before[b]

\* The bytes of the destination before e are programmed, the others untouched.
ProgrammedUpTo(e) ==
    \A b \in Bytes :
        flash[b] = IF b \in call.addr .. (e - 1)
                   THEN IF before[b] = "erased" THEN "new" ELSE "over"
                   ELSE before[b]

EraseInv ==
    call.kind = "erase" =>
        LET k == Sectors[last].bank IN
        /\ pc # "program"
        /\ Covered(call.addr, call.size, k) /\ last \in EndSectors(call.addr, call.size)
        /\ call.caller = "eeprom" => Record(call.addr, call.size)
        /\ pc = "enable" => flash = before /\ (i = k \/ (i = k + 1 /\ active = k))
        /\ pc = "erase" => /\ StartSector(call.addr) <= i /\ i <= last + 1
                           /\ active = k /\ ErasedUpTo(i)
        /\ pc = "idle" => ErasedUpTo(last + 1)

ProgramInv ==
    call.kind = "program" =>
        /\ pc \in {"program", "idle"}
        /\ Covered(call.addr, call.size, active)
        /\ pc = "program" => /\ call.addr <= dst /\ dst <= call.addr + call.size
                             /\ ProgrammedUpTo(dst)
        /\ pc = "idle" => ProgrammedUpTo(call.addr + call.size)

IInv ==
    /\ Types /\ Accepted(region.addr, region.size)
    /\ call.kind = "none" => pc = "idle"
    /\ EraseInv /\ ProgramInv

-----------------------------------------------------------------------------
(* Helpers of the steps                                                    *)

LEMMA SectorByte ==
    ASSUME NEW s \in DOMAIN Sectors, NEW b \in SectorBytes(s)
    PROVE  b \in Int /\ b \in Bytes /\ \A t \in DOMAIN Sectors : InSector(b, t) <=> t = s
<1>1. b \in Int /\ InSector(b, s)
  BY SectorFacts DEF SectorBytes, InSector
<1>2. b \in Bytes
  BY DEF Bytes, MainBytes, EepromBytes
<1> QED
  BY <1>1, <1>2, OneSector

LEMMA MinFacts ==
    ASSUME NEW x \in Nat, NEW y \in Nat
    PROVE  Min({x, y}) = IF x <= y THEN x ELSE y
BY DEF Min

LEMMA ChunkFacts ==
    ASSUME Types, call.addr <= dst, dst <= call.addr + call.size
    PROVE  \E m \in Nat : /\ Chunk = dst .. (dst + m - 1) /\ Cardinality(Chunk) = m
                          /\ dst + m <= call.addr + call.size
                          /\ dst < call.addr + call.size => m > 0
<1> DEFINE rest == call.addr + call.size - dst
           m == Min({Width(active), rest})
<1>1. dst \in Nat /\ rest \in Nat /\ Width(active) \in Nat \ {0} /\ call.addr + call.size \in Nat
  BY OpsAssumption DEF Types, Width
<1>2. m \in Nat /\ m <= rest /\ (rest > 0 => m > 0)
  <2> HIDE DEF rest
  <2> QED
    BY <1>1, MinFacts
<1>3. Chunk = dst .. (dst + m - 1)
  BY DEF Chunk
<1> HIDE DEF m
<1>4. Cardinality(dst .. (dst + m - 1)) = m
  BY <1>1, <1>2, FS_Interval
<1>5. dst + m <= call.addr + call.size /\ (dst < call.addr + call.size => m > 0)
  <2>1. call.addr + call.size = dst + rest
    BY DEF Types
  <2> HIDE DEF rest
  <2> QED
    BY <1>1, <1>2, <2>1
<1> HIDE DEF rest
<1> QED
  BY <1>2, <1>3, <1>4, <1>5

LEMMA CallableFacts ==
    ASSUME NEW a \in Addrs, NEW n \in Sizes, Callable(a, n, "updater")
    PROVE  Accepted(a, n) /\ n # 0
<1>1. a \in Nat /\ n \in Nat /\ a + n < Word /\ Word \in Nat
  BY OpsAssumption, LimitsAssumption
<1>2. Add32(a, n) = a + n
  BY <1>1 DEF Add32
<1>3. StartAddrCheck(a, n)
  BY DEF Callable
<1> QED
  BY <1>1, <1>2, <1>3, LimitsAssumption DEF StartAddrCheck, Accepted

\* A piece of an accepted region is one.
LEMMA PieceAccepted ==
    ASSUME NEW r \in [addr : Nat, size : Nat], Accepted(r.addr, r.size),
           NEW a \in Nat, NEW n \in Nat \ {0}, r.addr <= a, a + n <= r.addr + r.size
    PROVE  Accepted(a, n)
BY LimitsAssumption DEF Accepted

-----------------------------------------------------------------------------
(* Fapi_BlockErase                                                         *)

LEMMA CallEraseStep ==
    ASSUME IInv, NEW a \in Nat, NEW n \in Nat, NEW c \in {"updater", "eeprom"}, CallErase(a, n, c),
           c = "updater" => Accepted(a, n) /\ n # 0, c = "eeprom" => Record(a, n)
    PROVE  IInv'
<1> DEFINE b == IF c = "updater" THEN BankOf(a) ELSE EepromBank
<1>1. Covered(a, n, b)
  BY AcceptedCovered, RecordCovered
<1>2. last' \in EndSectors(a, n) /\ i' = Sectors[StartSector(a)].bank
  BY <1>1, SearchFinds DEF CallErase
<1> HIDE DEF b
<1>3. last' \in DOMAIN Sectors /\ Sectors[last'].bank = b /\ i' = b
  BY <1>1, <1>2, SearchFinds
<1>4. last' \in Nat /\ b \in Nat
  BY <1>3, SectorFacts
<1>5. /\ call' = [kind |-> "erase", addr |-> a, size |-> n, caller |-> c]
      /\ region' = IF c = "updater" THEN [addr |-> a, size |-> n] ELSE region
      /\ pc' = "enable" /\ before' = flash /\ flash' = flash /\ dst' = dst /\ active' = active
  BY DEF CallErase
<1>6. call'.kind = "erase" /\ call'.addr = a /\ call'.size = n /\ call'.caller = c
  BY <1>5
<1>7. Types'
  <2>1. call' \in [kind : {"none", "erase", "program"}, addr : Nat, size : Nat,
                   caller : {"none", "updater", "eeprom"}]
    BY <1>5
  <2>2. region' \in [addr : Nat, size : Nat]
    BY <1>5 DEF IInv, Types
  <2> QED
    BY <1>3, <1>4, <1>5, <2>1, <2>2 DEF IInv, Types
<1>8. Accepted(region.addr, region.size)'
  BY <1>5 DEF IInv
<1>9. EraseInv'
  <2>1. Covered(call'.addr, call'.size, Sectors[last'].bank) /\ last' \in EndSectors(call'.addr, call'.size)
    BY <1>1, <1>2, <1>3, <1>6
  <2>2. call'.caller = "eeprom" => Record(call'.addr, call'.size)
    BY <1>6
  <2>3. pc' = "enable" /\ flash' = before' /\ i' = Sectors[last'].bank
    BY <1>3, <1>5
  <2> QED
    BY <2>1, <2>2, <2>3 DEF EraseInv
<1> QED
  BY <1>6, <1>7, <1>8, <1>9 DEF IInv, ProgramInv

LEMMA EnableBankStep ==
    ASSUME IInv, EnableBank
    PROVE  IInv'
<1>1. /\ pc = "enable" /\ call.kind = "erase" /\ Types /\ EraseInv
      /\ UNCHANGED <<flash, call, region, last, dst, before>>
  BY DEF EnableBank, IInv, Types, ProgramInv
<1> DEFINE k == Sectors[last].bank
           first == StartSector(call.addr)
<1>2. /\ Covered(call.addr, call.size, k) /\ last \in EndSectors(call.addr, call.size)
      /\ flash = before /\ (i = k \/ (i = k + 1 /\ active = k))
  BY <1>1 DEF EraseInv
<1>3. first \in DOMAIN Sectors /\ last \in DOMAIN Sectors /\ first <= last
  BY <1>2, SearchFinds
<1>4. k \in Nat /\ first \in Nat /\ last \in Nat
  BY <1>3, SectorFacts
<1> HIDE DEF k, first
<1>5. CASE i <= k
  <2>1. active' = i /\ i' = i + 1 /\ pc' = pc /\ i = k
    BY <1>1, <1>2, <1>4, <1>5 DEF EnableBank, k
  <2>2. Types'
    BY <1>1, <1>4, <2>1 DEF Types
  <2>3. EraseInv'
    BY <1>1, <1>2, <1>4, <2>1 DEF EraseInv, k
  <2> QED
    BY <1>1, <2>2, <2>3 DEF IInv, ProgramInv
<1>6. CASE ~(i <= k)
  <2>1. i' = first /\ pc' = "erase" /\ active' = active /\ active = k
    BY <1>1, <1>2, <1>4, <1>6 DEF EnableBank, k, first
  <2>2. Types'
    BY <1>1, <1>4, <2>1 DEF Types
  <2>3. ErasedUpTo(i)'
    <3>1. \A s \in DOMAIN Sectors : ~(first <= s /\ s < first)
      <4>1. \A s \in Nat : ~(first <= s /\ s < first)
        BY <1>4
      <4> QED
        BY <4>1, SectorFacts
    <3> QED
      BY <1>1, <1>2, <2>1, <3>1 DEF ErasedUpTo, first
  <2>4. EraseInv'
    BY <1>1, <1>2, <1>3, <1>4, <2>1, <2>3 DEF EraseInv, k, first
  <2> QED
    BY <1>1, <2>2, <2>4 DEF IInv, ProgramInv
<1> QED
  BY <1>5, <1>6

LEMMA EraseSectorStep ==
    ASSUME IInv, EraseSector
    PROVE  IInv'
<1>1. /\ pc = "erase" /\ i <= last /\ call.kind = "erase" /\ Types /\ EraseInv
      /\ flash' = [b \in Bytes |-> IF InSector(b, i) THEN "erased" ELSE flash[b]] /\ i' = i + 1
      /\ UNCHANGED <<pc, call, region, last, dst, active, before>>
  BY DEF EraseSector, IInv, Types, ProgramInv
<1> DEFINE first == StartSector(call.addr)
<1>2. /\ Covered(call.addr, call.size, Sectors[last].bank) /\ last \in EndSectors(call.addr, call.size)
      /\ first <= i /\ active = Sectors[last].bank /\ ErasedUpTo(i)
  BY <1>1 DEF EraseInv
<1>3. first \in DOMAIN Sectors /\ last \in DOMAIN Sectors
  BY <1>2, SearchFinds
<1>4. i \in DOMAIN Sectors /\ i \in Nat /\ last \in Nat /\ first \in Nat
  BY <1>1, <1>2, <1>3, SectorFacts DEF Types
<1>5. ErasedUpTo(i)'
  <2> SUFFICES ASSUME NEW s \in DOMAIN Sectors, NEW b \in SectorBytes(s)
               PROVE  flash'[b] = IF first <= s /\ s < i + 1 THEN "erased" ELSE before[b]
    BY <1>1 DEF ErasedUpTo
  <2>1. flash'[b] = IF i = s THEN "erased" ELSE flash[b]
    BY <1>1, <1>4, SectorByte
  <2>2. flash[b] = IF first <= s /\ s < i THEN "erased" ELSE before[b]
    BY <1>2 DEF ErasedUpTo
  <2>3. s \in Nat
    BY SectorFacts
  <2> HIDE DEF first
  <2> QED
    BY <1>2, <1>4, <2>1, <2>2, <2>3
<1>6. Types'
  BY <1>1, <1>4 DEF Types, States
<1>7. EraseInv'
  BY <1>1, <1>2, <1>4, <1>5 DEF EraseInv
<1> QED
  BY <1>1, <1>6, <1>7 DEF IInv, ProgramInv

LEMMA EraseReturnStep ==
    ASSUME IInv, EraseReturn
    PROVE  IInv'
<1>1. /\ pc = "erase" /\ i > last /\ call.kind = "erase" /\ Types /\ EraseInv /\ pc' = "idle"
      /\ UNCHANGED <<flash, call, region, i, last, dst, active, before>>
  BY DEF EraseReturn, IInv, Types, ProgramInv
<1>2. i = last + 1 /\ ErasedUpTo(i)
  BY <1>1 DEF EraseInv, Types
<1>3. EraseInv'
  BY <1>1, <1>2 DEF EraseInv, ErasedUpTo
<1> QED
  BY <1>1, <1>3 DEF IInv, Types, ProgramInv

-----------------------------------------------------------------------------
(* Fapi_BlockProgram                                                       *)

LEMMA CallProgramStep ==
    ASSUME IInv, NEW a \in Nat, NEW n \in Nat, NEW c \in {"updater", "eeprom"}, CallProgram(a, n, c)
    PROVE  IInv'
<1>1. /\ call' = [kind |-> "program", addr |-> a, size |-> n, caller |-> c] /\ n # 0
      /\ dst' = a /\ active' = IF c = "eeprom" THEN EepromBank ELSE BankOf(a)
      /\ pc = "idle" /\ pc' = "program" /\ before' = flash
      /\ UNCHANGED <<flash, region, i, last>>
  BY DEF CallProgram
<1>2. call'.kind = "program" /\ call'.addr = a /\ call'.size = n
  BY <1>1
<1>3. Covered(a, n, active')
  <2>1. CASE c = "updater"
    <3>1. region.addr <= a /\ a + n <= region.addr + region.size
      BY <2>1 DEF CallProgram
    <3>2. Accepted(a, n)
      BY <1>1, <3>1, PieceAccepted DEF IInv, Types
    <3> QED
      BY <1>1, <2>1, <3>2, AcceptedCovered
  <2>2. CASE c = "eeprom"
    <3>1. call = [kind |-> "erase", addr |-> a, size |-> n, caller |-> "eeprom"]
      BY <2>2 DEF CallProgram
    <3>2. call.kind = "erase" /\ call.caller = "eeprom" /\ call.addr = a /\ call.size = n
      BY <3>1
    <3>3. Record(a, n)
      BY <3>2 DEF IInv, EraseInv
    <3> QED
      BY <1>1, <2>2, <3>3, RecordCovered
  <2> QED
    BY <2>1, <2>2
<1>4. Types'
  <2>1. call' \in [kind : {"none", "erase", "program"}, addr : Nat, size : Nat,
                   caller : {"none", "updater", "eeprom"}]
    BY <1>1
  <2>2. active' \in Nat
    BY <1>1, LimitsAssumption DEF BankOf
  <2> QED
    BY <1>1, <2>1, <2>2 DEF IInv, Types
<1>5. ProgrammedUpTo(dst)'
  <2>1. \A b : b \notin a .. (a - 1)
    OBVIOUS
  <2> QED
    BY <1>1, <1>2, <2>1 DEF ProgrammedUpTo
<1>6. ProgramInv'
  BY <1>1, <1>2, <1>3, <1>5 DEF ProgramInv
<1> QED
  BY <1>1, <1>2, <1>4, <1>6 DEF IInv, EraseInv

LEMMA ProgramChunkStep ==
    ASSUME IInv, ProgramChunk
    PROVE  IInv'
<1>1. /\ pc = "program" /\ dst < call.addr + call.size /\ call.kind = "program" /\ Types /\ ProgramInv
      /\ flash' = [b \in Bytes |-> IF b \in Chunk THEN IF flash[b] = "erased" THEN "new" ELSE "over"
                                   ELSE flash[b]]
      /\ dst' = dst + Cardinality(Chunk)
      /\ UNCHANGED <<pc, call, region, i, last, active, before>>
  BY DEF ProgramChunk, IInv, Types, EraseInv
<1>2. call.addr <= dst /\ dst <= call.addr + call.size /\ ProgrammedUpTo(dst)
  BY <1>1 DEF ProgramInv
<1>3. PICK m \in Nat : Chunk = dst .. (dst + m - 1) /\ Cardinality(Chunk) = m
                       /\ dst + m <= call.addr + call.size
  BY <1>1, <1>2, ChunkFacts
<1>4. dst' = dst + m /\ dst \in Nat /\ call.addr \in Nat
  BY <1>1, <1>3 DEF Types
<1>5. ProgrammedUpTo(dst)'
  <2> SUFFICES ASSUME NEW b \in Bytes
               PROVE  flash'[b] = IF b \in call.addr .. (dst + m - 1)
                                  THEN IF before[b] = "erased" THEN "new" ELSE "over"
                                  ELSE before[b]
    BY <1>1, <1>4 DEF ProgrammedUpTo
  <2>1. flash'[b] = IF b \in dst .. (dst + m - 1) THEN IF flash[b] = "erased" THEN "new" ELSE "over"
                    ELSE flash[b]
    BY <1>1, <1>3
  <2>2. flash[b] = IF b \in call.addr .. (dst - 1)
                   THEN IF before[b] = "erased" THEN "new" ELSE "over"
                   ELSE before[b]
    BY <1>2 DEF ProgrammedUpTo
  <2>3. /\ b \in dst .. (dst + m - 1) => b \notin call.addr .. (dst - 1)
        /\ b \in call.addr .. (dst + m - 1) <=> b \in call.addr .. (dst - 1) \/ b \in dst .. (dst + m - 1)
    BY <1>2, <1>3, <1>4
  <2> QED
    BY <2>1, <2>2, <2>3
<1>6. Types'
  BY <1>1, <1>4 DEF Types, States
<1>7. ProgramInv'
  BY <1>1, <1>2, <1>3, <1>4, <1>5 DEF ProgramInv
<1> QED
  BY <1>1, <1>6, <1>7 DEF IInv, EraseInv

LEMMA ProgramReturnStep ==
    ASSUME IInv, ProgramReturn
    PROVE  IInv'
<1>1. /\ pc = "program" /\ dst = call.addr + call.size /\ call.kind = "program" /\ Types /\ ProgramInv
      /\ pc' = "idle"
      /\ UNCHANGED <<flash, call, region, i, last, dst, active, before>>
  BY DEF ProgramReturn, IInv, Types, EraseInv
<1>2. ProgramInv'
  BY <1>1 DEF ProgramInv, ProgrammedUpTo
<1> QED
  BY <1>1, <1>2 DEF IInv, Types, EraseInv

-----------------------------------------------------------------------------
LEMMA InitIInv == Init => IInv
BY DEF Init, IInv, Types, States, Accepted, EraseInv, ProgramInv

LEMMA NextIInv == IInv /\ [Next]_vars => IInv'
<1> SUFFICES ASSUME IInv, [Next]_vars
             PROVE  IInv'
  OBVIOUS
<1>1. ASSUME NEW a \in Addrs, NEW n \in Sizes, CallErase(a, n, "updater")
      PROVE  IInv'
  <2>1. Accepted(a, n) /\ n # 0
    BY <1>1, CallableFacts DEF CallErase
  <2> QED
    BY <1>1, <2>1, OpsAssumption, CallEraseStep
<1>2. ASSUME NEW a \in EepromBytes, NEW n \in Sizes, CallErase(a, n, "eeprom")
      PROVE  IInv'
  <2>1. n \in Nat
    BY OpsAssumption
  <2>2. Record(a, n)
    BY <1>2, <2>1 DEF CallErase, Callable, Record
  <2>3. a \in Nat
    BY <2>2, SectorFacts DEF Record
  <2> QED
    BY <1>2, <2>1, <2>2, <2>3, CallEraseStep
<1>3. ASSUME NEW a \in Bytes, NEW n \in Sizes, NEW c \in {"updater", "eeprom"}, CallProgram(a, n, c)
      PROVE  IInv'
  <2>1. a \in Nat
    BY SectorFacts DEF Bytes, MainBytes, EepromBytes, SectorBytes
  <2> QED
    BY <1>3, <2>1, OpsAssumption, CallProgramStep
<1>4. CASE UNCHANGED vars
  BY <1>4 DEF vars, IInv, Types, EraseInv, ProgramInv, ErasedUpTo, ProgrammedUpTo
<1> QED
  BY <1>1, <1>2, <1>3, <1>4, EnableBankStep, EraseSectorStep, EraseReturnStep, ProgramChunkStep,
     ProgramReturnStep DEF Next

-----------------------------------------------------------------------------
\* A Fapi_BlockErase that returns has erased the sectors that meet its region,
\* and no byte of any other (bl_flash.c:107-154).
THEOREM ErasesExactly == Spec => []EraseExact
<1>1. ASSUME IInv
      PROVE  EraseExact
  <2> SUFFICES ASSUME pc = "idle", call.kind = "erase", NEW s \in DOMAIN Sectors, NEW b \in SectorBytes(s)
               PROVE  flash[b] = IF Touches(s, call.addr, call.size) THEN "erased" ELSE before[b]
    BY DEF EraseExact, Touches
  <2>1. /\ Covered(call.addr, call.size, Sectors[last].bank) /\ last \in EndSectors(call.addr, call.size)
        /\ ErasedUpTo(last + 1) /\ last \in Nat
    BY <1>1 DEF IInv, EraseInv, Types
  <2>2. StartSector(call.addr) <= s /\ s <= last <=> Touches(s, call.addr, call.size)
    BY <2>1, SearchFinds
  <2>3. s \in Nat
    BY SectorFacts
  <2>4. flash[b] = IF StartSector(call.addr) <= s /\ s < last + 1 THEN "erased" ELSE before[b]
    BY <2>1 DEF ErasedUpTo
  <2> QED
    BY <2>1, <2>2, <2>3, <2>4
<1> QED
  BY <1>1, InitIInv, NextIInv, PTL DEF Spec

\* A Fapi_BlockProgram that returns has programmed every byte of its
\* destination once and no other byte (bl_flash.c:158-197).
THEOREM ProgramsExactly == Spec => []ProgramExact
<1>1. ASSUME IInv
      PROVE  ProgramExact
  <2> SUFFICES ASSUME pc = "idle", call.kind = "program"
               PROVE  ProgrammedUpTo(call.addr + call.size)
    <3>1. call.addr + call.size - 1 = (call.addr + call.size) - 1
      BY <1>1 DEF IInv, Types
    <3> QED
      BY <3>1 DEF ProgramExact, ProgrammedUpTo
  <2> QED
    BY <1>1 DEF IInv, ProgramInv
<1> QED
  BY <1>1, InitIInv, NextIInv, PTL DEF Spec

\* Every command goes to the bank that was made active for it: no region that
\* is erased or programmed spans two banks (bl_flash.c:132-149, 158-195).
THEOREM BankIsRight == Spec => []CommandInActiveBank
<1>1. ASSUME IInv, pc = "erase", i <= last
      PROVE  Sectors[i].bank = active
  <2>1. /\ Covered(call.addr, call.size, active) /\ last \in EndSectors(call.addr, call.size)
        /\ StartSector(call.addr) <= i /\ i \in Nat
    BY <1>1 DEF IInv, EraseInv, ProgramInv, Types
  <2>2. i \in DOMAIN Sectors
    BY <1>1, <2>1, SearchFinds, SectorFacts
  <2> QED
    BY <1>1, <2>1, <2>2, SearchFinds DEF Covered
<1>2. ASSUME IInv, pc = "program", NEW b \in Chunk, NEW s \in DOMAIN Sectors, InSector(b, s)
      PROVE  Sectors[s].bank = active
  <2>1. /\ Covered(call.addr, call.size, active) /\ Types
        /\ call.addr <= dst /\ dst <= call.addr + call.size
    BY <1>2 DEF IInv, EraseInv, ProgramInv, Types
  <2>2. PICK m \in Nat : Chunk = dst .. (dst + m - 1) /\ dst + m <= call.addr + call.size
    BY <2>1, ChunkFacts
  <2>3. Touches(s, call.addr, call.size)
    BY <1>2, <2>1, <2>2, SectorFacts DEF Touches, InSector, Types
  <2> QED
    BY <2>1, <2>3 DEF Covered
<1> QED
  <2>1. IInv => CommandInActiveBank
    BY <1>1, <1>2 DEF CommandInActiveBank
  <2> QED
    BY <2>1, InitIInv, NextIInv, PTL DEF Spec

=============================================================================
