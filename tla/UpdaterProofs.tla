--------------------------- MODULE UpdaterProofs ----------------------------
(***************************************************************************)
(* For every sector table, image, packet set and save interval: the type   *)
(* invariant, the safety invariants and the action property of Updater,    *)
(* and that it implements ImageTransfer.                                   *)
(***************************************************************************)
EXTENDS Updater, SequenceTheorems, TLAPS

-----------------------------------------------------------------------------
(* The inductive invariant, by what each part is about.                    *)

\* What a handler between two writes has in its frame.
FromRequest(q) ==
    \E r \in Requests :
        /\ StartAddrCheck(r.addr, r.size)
        /\ q = [slot |-> SlotOf(r.addr),
                info |-> [exists |-> TRUE, addr |-> r.addr, size |-> r.size, crc |-> r.crc]]

InfoPcs == {"info_erase", "info_head", "info_tail"}

FrameInv ==
    /\ pc \in {"erase", "begin"} => FromRequest(req)
    /\ pc \in InfoPcs => \/ FromRequest(req) /\ superseded
                         \/ req.slot = "app" /\ ~req.info.exists
    /\ pc = "begin" => superseded /\ eeInfo[req.slot] = req.info
    /\ pc = "info_head" => ~eeInfo[req.slot].exists
    /\ pc = "info_tail" /\ ~req.info.exists => ~eeInfo[req.slot].exists
    /\ pc = "program" => update.initialized /\ blk.addr = update.next /\ blk \in Blocks
    /\ pc \in {"save", "finish"} => update.initialized

\* A progress record is the zero record or one of an accepted request.
GoodRecord(u) ==
    IF u.initialized
    THEN /\ StartAddrCheck(u.start, u.size) /\ u.start + u.size < Word
         /\ u.start <= u.next
    ELSE u = NoUpdate

RecordInv ==
    /\ GoodRecord(update) /\ GoodRecord(eeUpdate)
    /\ update.initialized => (pc = "finish" <=> update.next - update.start = update.size)
    /\ eeUpdate.initialized => eeUpdate.next - eeUpdate.start # eeUpdate.size

\* Blocks that have been programmed since the record was saved.
Unsaved == IF pc = "finish" THEN counter + 1 ELSE counter

LagInv ==
    /\ pc # "save" => counter < SaveEvery
    /\ pc = "save_head" => eeUpdate = NoUpdate
    /\ pc = "save_tail" => eeUpdate = [update EXCEPT !.crc = Torn]
    /\ pc \notin {"save_head", "save_tail"} =>
          /\ eeUpdate.initialized = update.initialized
          /\ update.start = eeUpdate.start /\ update.size = eeUpdate.size
          /\ eeUpdate.next <= update.next
          /\ update.next - eeUpdate.next <= Unsaved * MaxBlock
          /\ eeUpdate.crc \in {update.crc, Torn}

\* The region of a request is erased from its erase to its progress record.
ErasedInv ==
    pc \in InfoPcs \cup {"begin"} /\ req.info.exists =>
        \A b \in MainBytes \cap Range32(req.info.addr, req.info.size) : flash[b] = Erased

IInv ==
    /\ TypeOK /\ FrameInv /\ RecordInv /\ LagInv /\ ErasedInv
    /\ FlashMatchesProgress /\ RecordMatchesProgress
-----------------------------------------------------------------------------
(* Facts about the sector table.                                           *)

LEMMA SectorTypes ==
    ASSUME NEW j \in DOMAIN Sectors
    PROVE  /\ j \in Nat /\ Sectors[j].start \in Nat /\ Sectors[j].length \in Nat
           /\ EndOf(j) \in Nat /\ Sectors[j].start < EndOf(j)
           /\ \A k \in DOMAIN Sectors : j < k => EndOf(j) <= Sectors[k].start
<1>1. DOMAIN Sectors = 1 .. Len(Sectors) /\ Len(Sectors) \in Nat
  BY SectorsAssumption
<1>2. Sectors[j] \in [start : Nat, length : Nat \ {0}, bank : Nat]
  BY <1>1, SectorsAssumption, ElementOfSeq
<1>3. j \in Nat
  BY <1>1
<1>4. Sectors[j].start \in Nat /\ Sectors[j].length \in Nat \ {0}
  BY <1>2
<1>5. EndOf(j) \in Nat /\ Sectors[j].start < EndOf(j)
  BY <1>4 DEF EndOf
<1>6. \A k \in DOMAIN Sectors : j < k => EndOf(j) <= Sectors[k].start
  BY SectorsAssumption
<1> QED BY <1>3, <1>4, <1>5, <1>6

LEMMA StartSectorHolds ==
    ASSUME NEW a, InFlash(a)
    PROVE  StartSector(a) \in DOMAIN Sectors /\ InSector(a, StartSector(a))
BY DEF InFlash, StartSector

\* An accepted region that does not wrap is erased by Fapi_BlockErase.
LEMMA EraseCovers ==
    ASSUME NEW a \in Nat, NEW n \in Nat, StartAddrCheck(a, n), a + n < Word,
           NEW b \in MainBytes, b \in Range32(a, n)
    PROVE  b \in ErasedBytes(a, n)
<1> DEFINE s == StartSector(a)
<1>1. s \in DOMAIN Sectors /\ InSector(a, s)
  BY StartSectorHolds DEF StartAddrCheck
<1>2. PICK j \in DOMAIN Sectors : b \in SectorBytes(j)
  BY DEF MainBytes
<1>3. b \in Nat /\ a <= b /\ b < a + n /\ Sectors[j].start <= b /\ b < EndOf(j)
  BY <1>2, SectorTypes DEF SectorBytes, Range32
<1>4. s <= j
  BY <1>1, <1>3, SectorTypes DEF InSector
<1>5. Add32(a, n) = a + n
  BY LimitsAssumption DEF Add32
<1>6. \A k \in s .. (j - 1) : EndOf(k) < Add32(a, n)
  <2> SUFFICES ASSUME NEW k \in s .. (j - 1) PROVE EndOf(k) < a + n
    BY <1>5
  <2>1. DOMAIN Sectors = 1 .. Len(Sectors) /\ Len(Sectors) \in Nat
    BY SectorsAssumption
  <2>2. k \in DOMAIN Sectors /\ k < j
    BY <1>1, <2>1
  <2>3. EndOf(k) <= Sectors[j].start
    BY <2>2, SectorTypes
  <2> QED BY <2>2, <2>3, <1>3, SectorTypes
<1>7. j \in WalkedSectors(a, n)
  BY <1>4, <1>6 DEF WalkedSectors
<1> QED BY <1>2, <1>7 DEF ErasedBytes

\* An erase stays above GOLD_MINIMUM_ADDR, and in the application area if it
\* begins there.
LEMMA EraseFloor ==
    ASSUME NEW a \in Nat, NEW n \in Nat, StartAddrCheck(a, n),
           NEW k \in WalkedSectors(a, n), NEW b \in Nat, InSector(b, k)
    PROVE  b >= GoldMin /\ (b < AppMin => a < AppMin)
<1> DEFINE s == StartSector(a)
<1>1. s \in DOMAIN Sectors /\ InSector(a, s) /\ a >= GoldMin
  BY StartSectorHolds DEF StartAddrCheck
<1>2. k \in DOMAIN Sectors /\ s <= k
  BY DEF WalkedSectors
<1>3. Sectors[s].start <= Sectors[k].start
  BY <1>1, <1>2, SectorTypes
<1>4. GoldMin <= Sectors[s].start /\ (a >= AppMin => AppMin <= Sectors[s].start)
  BY <1>1, LimitsAssumption, SectorTypes DEF InSector
<1> QED BY <1>1, <1>2, <1>3, <1>4, LimitsAssumption, SectorTypes DEF InSector
-----------------------------------------------------------------------------
(* IInv is inductive: one lemma per action.                                *)

LEMMA ConstantFacts ==
    /\ AllOnes \in Nat /\ NoUpdate \in UpdateInfo /\ NoImage \in ImageInfo
    /\ MaxBlock \in Nat /\ SaveEvery \in Nat /\ SaveEvery > 0
    /\ Erased \notin Images \cup {Garbage} /\ Erased \in Contents /\ Garbage \in Contents
    /\ NoReq \in [slot : Slots, info : ImageInfo]
BY UpdaterAssumption, LimitsAssumption
   DEF AllOnes, NoUpdate, NoImage, NoReq, UpdateInfo, ImageInfo, Contents, Slots

LEMMA InitInv == Init => IInv
<1> SUFFICES ASSUME Init PROVE IInv
  OBVIOUS
<1>1. TypeOK
  <2>1. flash \in [MainBytes -> Contents]
    BY ConstantFacts DEF Init
  <2>2. eeInfo \in [Slots -> ImageInfo]
    BY ConstantFacts DEF Init
  <2>3. counter \in 0 .. SaveEvery
    BY ConstantFacts DEF Init
  <2> QED BY <2>1, <2>2, <2>3, ConstantFacts DEF Init, TypeOK, Pcs, Statuses
<1>2. FrameInv /\ ErasedInv
  BY DEF Init, FrameInv, ErasedInv, InfoPcs
<1>3. RecordInv
  BY DEF Init, RecordInv, GoodRecord, NoUpdate
<1>4. LagInv
  BY ConstantFacts DEF Init, LagInv, Unsaved, NoUpdate
<1>5. FlashMatchesProgress /\ RecordMatchesProgress
  BY DEF Init, FlashMatchesProgress, RecordMatchesProgress, NoUpdate
<1> QED BY <1>1, <1>2, <1>3, <1>4, <1>5 DEF IInv

LEMMA RequestTypes ==
    ASSUME NEW q, FromRequest(q)
    PROVE  /\ q \in [slot : Slots, info : ImageInfo]
           /\ q.info.exists /\ q.info.crc \in Images
           /\ q.slot = SlotOf(q.info.addr)
           /\ StartAddrCheck(q.info.addr, q.info.size)
           /\ q.info.addr + q.info.size < Word
BY UpdaterAssumption, RequestsAssumption DEF FromRequest, SlotOf, Slots, ImageInfo

LEMMA InitializeInv ==
    ASSUME IInv, NEW r \in Requests, InitializeUpdate(r)
    PROVE  IInv'
<1> USE DEF InitializeUpdate, Reply, eeprom, ram, frame, history
<1>1. pc = "idle" /\ pc' \in {"erase", "idle"}
  OBVIOUS
<1>2. FrameInv'
  BY <1>1 DEF IInv, FrameInv, FromRequest, InfoPcs
<1>3. TypeOK'
  <2>1. req' \in [slot : Slots, info : ImageInfo]
    <3>1. CASE StartAddrCheck(r.addr, r.size)
      BY <3>1, RequestTypes DEF FromRequest
    <3>2. CASE ~StartAddrCheck(r.addr, r.size)
      BY <3>2, ConstantFacts
    <3> QED BY <3>1, <3>2
  <2> QED BY <2>1 DEF IInv, TypeOK, Pcs, Statuses
<1>4. RecordInv' /\ LagInv'
  BY <1>1 DEF IInv, RecordInv, GoodRecord, LagInv, Unsaved
<1>5. ErasedInv'
  BY <1>1 DEF ErasedInv, InfoPcs
<1>6. FlashMatchesProgress' /\ RecordMatchesProgress'
  BY DEF IInv, FlashMatchesProgress, RecordMatchesProgress
<1> QED BY <1>2, <1>3, <1>4, <1>5, <1>6 DEF IInv

LEMMA EraseImageInv ==
    ASSUME IInv, EraseImage
    PROVE  IInv'
<1> USE DEF EraseImage, Reply, eeprom, ram, frame, history
<1>1. pc = "erase" /\ pc' \in {"info_erase", "idle"} /\ superseded'
  OBVIOUS
<1>2. FrameInv'
  BY <1>1 DEF IInv, FrameInv, InfoPcs, NoReq, FromRequest
<1>3. TypeOK'
  <2>1. flash' \in [MainBytes -> Contents]
    BY ConstantFacts DEF IInv, TypeOK
  <2> QED BY <2>1, ConstantFacts DEF IInv, TypeOK, Pcs, Statuses
<1>4. RecordInv' /\ LagInv'
  BY <1>1 DEF IInv, RecordInv, GoodRecord, LagInv, Unsaved
<1>5. ErasedInv'
  <2>1. CASE pc' = "idle"
    BY <2>1 DEF ErasedInv, InfoPcs
  <2>2. CASE pc' = "info_erase"
    <3>1. req' = req /\ FromRequest(req)
      BY <2>2, <1>1 DEF IInv, FrameInv
    <3>2. \A b \in MainBytes \cap Range32(req.info.addr, req.info.size) :
            b \in ErasedBytes(req.info.addr, req.info.size)
      BY <3>1, RequestTypes, EraseCovers DEF ImageInfo
    <3> QED BY <3>1, <3>2 DEF ErasedInv
  <2> QED BY <1>1, <2>1, <2>2
<1>6. FlashMatchesProgress' /\ RecordMatchesProgress'
  BY <1>1 DEF FlashMatchesProgress, RecordMatchesProgress
<1> QED BY <1>2, <1>3, <1>4, <1>5, <1>6 DEF IInv

LEMMA InfoEraseInv ==
    ASSUME IInv, InfoErase
    PROVE  IInv'
<1> USE DEF InfoErase, ram, frame, history
<1>1. /\ pc = "info_erase" /\ pc' = "info_head"
      /\ req.slot \in Slots /\ eeInfo' \in [Slots -> ImageInfo]
      /\ eeInfo'[req.slot] = NoImage
  BY ConstantFacts DEF IInv, TypeOK
<1>2. TypeOK'
  BY <1>1 DEF IInv, TypeOK, Pcs
<1>3. FrameInv' /\ ErasedInv'
  BY <1>1 DEF IInv, FrameInv, FromRequest, ErasedInv, InfoPcs, NoImage
<1>4. RecordInv' /\ LagInv'
  BY <1>1 DEF IInv, RecordInv, GoodRecord, LagInv, Unsaved
<1>5. FlashMatchesProgress' /\ RecordMatchesProgress'
  BY <1>1 DEF IInv, TypeOK, FlashMatchesProgress, RecordMatchesProgress, NoImage, SlotOf, Slots
<1> QED BY <1>2, <1>3, <1>4, <1>5 DEF IInv

LEMMA InfoHeadInv ==
    ASSUME IInv, InfoHead
    PROVE  IInv'
<1> USE DEF InfoHead, ram, frame, history
<1> DEFINE new == [req.info EXCEPT !.addr = AllOnes, !.crc = Torn]
<1>1. /\ pc = "info_head" /\ pc' = "info_tail"
      /\ req.slot \in Slots /\ req.info \in ImageInfo
      /\ new \in ImageInfo /\ new.exists = req.info.exists
  BY ConstantFacts DEF IInv, TypeOK, ImageInfo
<1>2. eeInfo' = [eeInfo EXCEPT ![req.slot] = new] /\ eeInfo' \in [Slots -> ImageInfo]
  BY <1>1 DEF IInv, TypeOK
<1>3. TypeOK'
  BY <1>1, <1>2 DEF IInv, TypeOK, Pcs
<1>4. FrameInv' /\ ErasedInv'
  BY <1>1, <1>2 DEF IInv, TypeOK, FrameInv, FromRequest, ErasedInv, InfoPcs
<1>5. RecordInv' /\ LagInv'
  BY <1>1 DEF IInv, RecordInv, GoodRecord, LagInv, Unsaved
<1>6. FlashMatchesProgress'
  BY DEF IInv, FlashMatchesProgress
<1>7. RecordMatchesProgress'
  BY <1>1, <1>2 DEF IInv, TypeOK, FrameInv, InfoPcs, RecordMatchesProgress, SlotOf, Slots
<1> QED BY <1>3, <1>4, <1>5, <1>6, <1>7 DEF IInv

LEMMA InfoTailInv ==
    ASSUME IInv, InfoTail
    PROVE  IInv'
<1> USE DEF InfoTail, Reply, ram, frame, history
<1>1. /\ pc = "info_tail" /\ pc' = IF req.info.exists THEN "begin" ELSE "idle"
      /\ req.slot \in Slots /\ req.info \in ImageInfo
  BY DEF IInv, TypeOK
<1>2. eeInfo' = [eeInfo EXCEPT ![req.slot] = req.info] /\ eeInfo' \in [Slots -> ImageInfo]
  BY <1>1 DEF IInv, TypeOK
<1>3. TypeOK'
  BY <1>1, <1>2, ConstantFacts DEF IInv, TypeOK, Pcs, Statuses
<1>4. FrameInv' /\ ErasedInv'
  BY <1>1, <1>2 DEF IInv, TypeOK, FrameInv, FromRequest, ErasedInv, InfoPcs
<1>5. RecordInv' /\ LagInv'
  BY <1>1 DEF IInv, RecordInv, GoodRecord, LagInv, Unsaved
<1>6. FlashMatchesProgress'
  BY DEF IInv, FlashMatchesProgress
<1>7. RecordMatchesProgress'
  BY <1>1, <1>2 DEF IInv, TypeOK, FrameInv, InfoPcs, RecordMatchesProgress, SlotOf, Slots
<1> QED BY <1>3, <1>4, <1>5, <1>6, <1>7 DEF IInv

LEMMA BeginUpdateInv ==
    ASSUME IInv, BeginUpdate
    PROVE  IInv'
<1> USE DEF BeginUpdate, SaveErase, frame
<1>1. /\ pc = "begin" /\ pc' = "save_head" /\ ~superseded'
      /\ FromRequest(req) /\ req.info \in ImageInfo
      /\ eeInfo[req.slot] = req.info /\ eeInfo' = eeInfo
  BY DEF IInv, FrameInv, TypeOK
<1>2. /\ update' = [initialized |-> TRUE, start |-> req.info.addr, next |-> req.info.addr,
                    size |-> req.info.size, crc |-> req.info.crc]
      /\ eeUpdate' = NoUpdate
  OBVIOUS
<1>3. update' \in UpdateInfo /\ update'.size # 0
  BY <1>1, <1>2, RequestTypes DEF UpdateInfo, ImageInfo, StartAddrCheck
<1>4. TypeOK'
  BY <1>1, <1>3, ConstantFacts DEF IInv, TypeOK, Pcs
<1>5. FrameInv' /\ ErasedInv'
  BY <1>1 DEF FrameInv, ErasedInv, InfoPcs
<1>6. RecordInv'
  BY <1>1, <1>2, <1>3, RequestTypes DEF RecordInv, GoodRecord, NoUpdate, ImageInfo
<1>7. LagInv'
  BY <1>1, <1>2 DEF IInv, LagInv, Unsaved
<1>8. FlashMatchesProgress'
  <2>1. \A b \in MainBytes \cap Range32(req.info.addr, req.info.size) :
          flash[b] = Erased /\ b >= req.info.addr
    BY <1>1, RequestTypes DEF IInv, ErasedInv, ImageInfo, Range32
  <2>2. \A b \in MainBytes \cap Range32(req.info.addr, req.info.size) : ~(b < req.info.addr)
    BY <2>1, <1>1 DEF Range32, ImageInfo
  <2> QED BY <1>2, <2>1, <2>2 DEF FlashMatchesProgress
<1>9. RecordMatchesProgress'
  BY <1>1, <1>2, RequestTypes DEF RecordMatchesProgress, SlotOf
<1> QED BY <1>4, <1>5, <1>6, <1>7, <1>8, <1>9 DEF IInv

LEMMA SaveProgressInv ==
    ASSUME IInv, SaveProgress
    PROVE  IInv'
<1> USE DEF SaveProgress, SaveErase, frame, history
<1>1. /\ pc = "save" /\ pc' = "save_head" /\ update.initialized
      /\ update' = update /\ eeUpdate' = NoUpdate
  BY DEF IInv, FrameInv
<1>2. TypeOK'
  BY <1>1, ConstantFacts DEF IInv, TypeOK, Pcs
<1>3. FrameInv' /\ ErasedInv'
  BY <1>1 DEF FrameInv, ErasedInv, InfoPcs
<1>4. RecordInv' /\ LagInv'
  BY <1>1, ConstantFacts DEF IInv, RecordInv, GoodRecord, NoUpdate, LagInv
<1>5. FlashMatchesProgress' /\ RecordMatchesProgress'
  BY DEF IInv, FlashMatchesProgress, RecordMatchesProgress
<1> QED BY <1>2, <1>3, <1>4, <1>5 DEF IInv

LEMMA FinishUpdateInv ==
    ASSUME IInv, FinishUpdate
    PROVE  IInv'
<1> USE DEF FinishUpdate, SaveErase, frame, history
<1>1. pc = "finish" /\ pc' = "save_head" /\ update' = NoUpdate /\ eeUpdate' = NoUpdate
  OBVIOUS
<1>2. TypeOK'
  BY <1>1, ConstantFacts DEF IInv, TypeOK, Pcs
<1>3. FrameInv' /\ ErasedInv'
  BY <1>1 DEF FrameInv, ErasedInv, InfoPcs
<1>4. RecordInv' /\ LagInv'
  BY <1>1, ConstantFacts DEF RecordInv, GoodRecord, NoUpdate, LagInv
<1>5. FlashMatchesProgress' /\ RecordMatchesProgress'
  BY <1>1 DEF FlashMatchesProgress, RecordMatchesProgress, NoUpdate
<1> QED BY <1>2, <1>3, <1>4, <1>5 DEF IInv

LEMMA SaveHeadInv ==
    ASSUME IInv, SaveHead
    PROVE  IInv'
<1> USE DEF SaveHead, ram, frame, history
<1>1. /\ pc = "save_head" /\ pc' = "save_tail" /\ update' = update
      /\ update \in UpdateInfo /\ eeUpdate' = [update EXCEPT !.crc = Torn]
      /\ eeUpdate' \in UpdateInfo
  BY DEF IInv, TypeOK, UpdateInfo
<1>2. TypeOK'
  BY <1>1 DEF IInv, TypeOK, Pcs
<1>3. FrameInv' /\ ErasedInv'
  BY <1>1 DEF FrameInv, ErasedInv, InfoPcs
<1>4. RecordInv'
  <2>1. /\ eeUpdate'.initialized = update.initialized /\ eeUpdate'.start = update.start
        /\ eeUpdate'.size = update.size /\ eeUpdate'.next = update.next
    BY <1>1 DEF UpdateInfo
  <2>2. update = NoUpdate => eeUpdate' = NoUpdate
    <3>1. eeUpdate' = [initialized |-> update.initialized, start |-> update.start,
                       next |-> update.next, size |-> update.size, crc |-> Torn]
      BY <1>1 DEF UpdateInfo
    <3>2. update = NoUpdate => /\ update.initialized = FALSE /\ update.start = 0
                               /\ update.next = 0 /\ update.size = 0
      BY DEF NoUpdate
    <3> QED BY <3>1, <3>2, Zenon DEF NoUpdate
  <2>3. GoodRecord(update) /\ (update.initialized => update.next - update.start # update.size)
    BY <1>1 DEF IInv, RecordInv
  <2>4. GoodRecord(update') /\ GoodRecord(eeUpdate')
    BY <1>1, <2>1, <2>2, <2>3 DEF GoodRecord
  <2> QED BY <1>1, <2>1, <2>3, <2>4 DEF RecordInv
<1>5. LagInv'
  BY <1>1 DEF IInv, LagInv
<1>6. FlashMatchesProgress' /\ RecordMatchesProgress'
  BY DEF IInv, FlashMatchesProgress, RecordMatchesProgress
<1> QED BY <1>2, <1>3, <1>4, <1>5, <1>6 DEF IInv

LEMMA NatProduct ==
    ASSUME NEW c \in Nat, NEW m \in Nat
    PROVE  c * m \in Nat /\ (c + 1) * m = c * m + m
OBVIOUS

LEMMA SaveTailInv ==
    ASSUME IInv, SaveTail
    PROVE  IInv'
<1> USE DEF SaveTail, Reply, ram, frame, history
<1>1. /\ pc = "save_tail" /\ pc' = "idle" /\ update' = update
      /\ update \in UpdateInfo /\ eeUpdate' = update
  BY DEF IInv, TypeOK
<1>2. TypeOK'
  BY <1>1, ConstantFacts DEF IInv, TypeOK, Pcs, Statuses
<1>3. FrameInv' /\ ErasedInv'
  BY <1>1 DEF FrameInv, ErasedInv, InfoPcs
<1>4. RecordInv'
  <2>1. update.initialized => update.next - update.start # update.size
    BY <1>1 DEF IInv, RecordInv
  <2>2. GoodRecord(update)
    BY DEF IInv, RecordInv
  <2>3. GoodRecord(update') /\ GoodRecord(eeUpdate')
    BY <1>1, <2>2 DEF GoodRecord
  <2> QED BY <1>1, <2>1, <2>3 DEF RecordInv
<1>5. LagInv'
  <2>1. counter * MaxBlock \in Nat
    BY NatProduct, ConstantFacts DEF IInv, TypeOK
  <2> QED BY <2>1, <1>1 DEF IInv, LagInv, Unsaved, UpdateInfo
<1>6. FlashMatchesProgress' /\ RecordMatchesProgress'
  BY DEF IInv, FlashMatchesProgress, RecordMatchesProgress
<1> QED BY <1>2, <1>3, <1>4, <1>5, <1>6 DEF IInv

LEMMA ReceiveBlockInv ==
    ASSUME IInv, NEW b \in Blocks, ReceiveBlock(b)
    PROVE  IInv'
<1> USE DEF ReceiveBlock, Reply, eeprom, ram, frame, history
<1>1. pc = "idle" /\ pc' \in {"idle", "program"}
  OBVIOUS
<1>2. TypeOK'
  BY <1>1, ConstantFacts DEF IInv, TypeOK, Pcs, Statuses
<1>3. FrameInv' /\ ErasedInv'
  BY <1>1 DEF FrameInv, ErasedInv, InfoPcs
<1>4. RecordInv' /\ LagInv'
  BY <1>1 DEF IInv, RecordInv, GoodRecord, LagInv, Unsaved
<1>5. FlashMatchesProgress' /\ RecordMatchesProgress'
  BY DEF IInv, FlashMatchesProgress, RecordMatchesProgress
<1> QED BY <1>2, <1>3, <1>4, <1>5 DEF IInv

\* A region an update may have lies in one bank.
LEMMA OneBank ==
    ASSUME NEW a \in Nat, NEW n \in Nat, StartAddrCheck(a, n), a + n < Word,
           NEW b \in Nat, NEW c \in Nat, a <= b, b < a + n, a <= c, c <= b
    PROVE  BankOf(b) = BankOf(c)
<1>1. Add32(a, n) = a + n
  BY LimitsAssumption DEF Add32
<1> QED BY <1>1, LimitsAssumption DEF StartAddrCheck, BankOf

LEMMA BurnedContents ==
    ASSUME TypeOK, blk \in Blocks, NEW n \in 0 .. blk.size, NEW beyond \in BOOLEAN
    PROVE  /\ Burned(n, beyond) \in [MainBytes -> Contents]
           /\ \A b \in MainBytes : flash[b] # Erased => Burned(n, beyond)[b] # Erased
           /\ \A b \in MainBytes \ Range32(blk.addr, n) : Burned(n, beyond)[b] = flash[b]
           /\ \A b \in MainBytes \cap Range32(blk.addr, n) :
                 BankOf(b) = BankOf(blk.addr) => Burned(n, beyond)[b] # Erased
<1>1. blk.data \in Contents /\ blk.data # Erased
  BY UpdaterAssumption DEF Contents
<1> QED BY <1>1, ConstantFacts DEF Burned, Burn, TypeOK

LEMMA MainBytesNat == MainBytes \subseteq Nat
BY SectorTypes DEF MainBytes, SectorBytes

\* The flash and the progress record after blk has been programmed.
LEMMA ProgramMatches ==
    ASSUME IInv, pc = "program", NEW beyond \in BOOLEAN,
           NEW b \in MainBytes, b \in Range32(update.start, update.size), ~superseded
    PROVE  /\ b < blk.addr + blk.size => Burned(blk.size, beyond)[b] # Erased
           /\ b >= blk.addr + blk.size /\ ~resumed => Burned(blk.size, beyond)[b] = Erased
<1>1. /\ update.initialized /\ blk \in Blocks /\ blk.addr = update.next
      /\ blk.addr \in Nat /\ blk.size \in Nat /\ b \in Nat
      /\ update.start \in Nat /\ update.size \in Nat /\ update.next \in Nat
  BY UpdaterAssumption, MainBytesNat DEF IInv, FrameInv, TypeOK, UpdateInfo
<1>2. /\ StartAddrCheck(update.start, update.size) /\ update.start + update.size < Word
      /\ update.start <= update.next
  BY <1>1 DEF IInv, RecordInv, GoodRecord
<1>3. /\ b < update.next => flash[b] # Erased
      /\ b >= update.next /\ ~resumed => flash[b] = Erased
  BY <1>1 DEF IInv, FlashMatchesProgress
<1>4. /\ flash[b] # Erased => Burned(blk.size, beyond)[b] # Erased
      /\ b \notin Range32(blk.addr, blk.size) => Burned(blk.size, beyond)[b] = flash[b]
      /\ b \in Range32(blk.addr, blk.size) /\ BankOf(b) = BankOf(blk.addr)
            => Burned(blk.size, beyond)[b] # Erased
  BY <1>1, BurnedContents DEF IInv
<1>5. ASSUME b < blk.addr + blk.size PROVE Burned(blk.size, beyond)[b] # Erased
  <2>1. CASE b < update.next
    BY <2>1, <1>3, <1>4
  <2>2. CASE b >= update.next
    <3>1. b \in Range32(blk.addr, blk.size)
      BY <2>2, <1>1, <1>5 DEF Range32
    <3>2. BankOf(b) = BankOf(blk.addr)
      BY <2>2, <1>1, <1>2, OneBank DEF Range32
    <3> QED BY <3>1, <3>2, <1>4
  <2> QED BY <1>1, <2>1, <2>2
<1>6. ASSUME b >= blk.addr + blk.size, ~resumed PROVE Burned(blk.size, beyond)[b] = Erased
  <2>1. b \notin Range32(blk.addr, blk.size) /\ b >= update.next
    BY <1>1, <1>6 DEF Range32
  <2> QED BY <2>1, <1>3, <1>4, <1>6
<1> QED BY <1>5, <1>6

LEMMA ProgramBlockInv ==
    ASSUME IInv, ProgramBlock
    PROVE  IInv'
<1> USE DEF ProgramBlock, Reply, eeprom, history
<1>1. /\ pc = "program" /\ update.initialized /\ blk \in Blocks /\ blk.addr = update.next
      /\ update \in UpdateInfo /\ blk.size \in 0 .. MaxBlock /\ blk.addr \in Nat
      /\ counter \in Nat /\ counter < SaveEvery
  BY UpdaterAssumption DEF IInv, FrameInv, TypeOK, LagInv, UpdateInfo
<1>2. PICK beyond \in BOOLEAN : flash' = Burned(blk.size, beyond)
  OBVIOUS
<1>3. /\ update' = [update EXCEPT !.next = blk.addr + blk.size]
      /\ update' \in UpdateInfo
      /\ update'.next = update.next + blk.size /\ update'.start = update.start
      /\ update'.size = update.size /\ update'.crc = update.crc /\ update'.initialized
  BY <1>1, ConstantFacts DEF UpdateInfo
<1>4. \/ /\ update'.next - update.start = update.size
         /\ pc' = "finish" /\ counter' = counter
         /\ UNCHANGED <<frame, status>>
      \/ /\ update'.next - update.start # update.size
         /\ counter' = counter + 1
         /\ \/ pc' = "save" /\ UNCHANGED <<frame, status>>
            \/ pc' = "idle" /\ counter' % SaveEvery # 0 /\ status' = "NOFAIL"
               /\ req' = NoReq /\ blk' = NoBlock
  OBVIOUS
<1>5. counter' \in 0 .. SaveEvery /\ (pc' # "save" => counter' < SaveEvery)
  <2>1. SaveEvery % SaveEvery = 0
    BY ConstantFacts
  <2> QED BY <1>1, <1>4, <2>1, ConstantFacts
<1>6. TypeOK'
  <2>1. flash' \in [MainBytes -> Contents]
    BY <1>1, <1>2, BurnedContents, ConstantFacts DEF IInv
  <2> QED BY <1>3, <1>4, <1>5, <2>1, ConstantFacts DEF IInv, TypeOK, Pcs, Statuses, frame
<1>7. FrameInv' /\ ErasedInv'
  BY <1>3, <1>4 DEF FrameInv, ErasedInv, InfoPcs
<1>8. RecordInv'
  <2>1. GoodRecord(update) /\ eeUpdate' = eeUpdate
    BY DEF IInv, RecordInv
  <2>2. GoodRecord(update')
    BY <1>1, <1>3, <2>1, ConstantFacts DEF GoodRecord, UpdateInfo
  <2>3. pc' = "finish" <=> update'.next - update'.start = update'.size
    BY <1>3, <1>4
  <2> QED BY <2>1, <2>2, <2>3 DEF IInv, RecordInv
<1>9. LagInv'
  <2>1. /\ eeUpdate.initialized /\ eeUpdate \in UpdateInfo /\ eeUpdate' = eeUpdate
        /\ update.start = eeUpdate.start /\ update.size = eeUpdate.size
        /\ eeUpdate.next <= update.next
        /\ update.next - eeUpdate.next <= counter * MaxBlock
        /\ eeUpdate.crc \in {update.crc, Torn}
    BY <1>1 DEF IInv, LagInv, Unsaved, TypeOK
  <2>2. Unsaved' = counter + 1
    BY <1>4 DEF Unsaved
  <2>3. (counter + 1) * MaxBlock = counter * MaxBlock + MaxBlock /\ counter * MaxBlock \in Nat
    BY <1>1, NatProduct, ConstantFacts
  <2>4. update'.next - eeUpdate.next <= (counter + 1) * MaxBlock /\ eeUpdate.next <= update'.next
    BY <1>1, <1>3, <2>1, <2>3, ConstantFacts DEF UpdateInfo
  <2>5. pc' \notin {"save_head", "save_tail"}
    BY <1>4
  <2> QED BY <1>3, <1>5, <2>1, <2>2, <2>4, <2>5 DEF LagInv
<1>10. FlashMatchesProgress'
  BY <1>1, <1>2, <1>3, ProgramMatches DEF FlashMatchesProgress
<1>11. RecordMatchesProgress'
  BY <1>1, <1>3 DEF IInv, RecordMatchesProgress
<1> QED BY <1>6, <1>7, <1>8, <1>9, <1>10, <1>11 DEF IInv

\* GET_PROGRESS and VERIFY_*: nothing changes but the reply.
LEMMA ReplyInv ==
    ASSUME IInv, pc = "idle", NEW st \in Statuses, Reply(st),
           UNCHANGED <<flash, eeprom, ram, history>>
    PROVE  IInv'
<1> USE DEF Reply, eeprom, ram, history
<1>1. TypeOK'
  BY ConstantFacts DEF IInv, TypeOK, Pcs
<1>2. FrameInv' /\ ErasedInv'
  BY DEF FrameInv, ErasedInv, InfoPcs
<1>3. RecordInv' /\ LagInv'
  BY DEF IInv, RecordInv, GoodRecord, LagInv, Unsaved
<1>4. FlashMatchesProgress' /\ RecordMatchesProgress'
  BY DEF IInv, FlashMatchesProgress, RecordMatchesProgress
<1> QED BY <1>1, <1>2, <1>3, <1>4 DEF IInv

LEMMA EraseAppInv ==
    ASSUME IInv, EraseApp
    PROVE  IInv'
<1> USE DEF EraseApp, eeprom, ram, history
<1>1. /\ pc = "idle" /\ pc' = "info_erase" /\ eeInfo["app"] \in ImageInfo
      /\ req' = [slot |-> "app", info |-> [eeInfo["app"] EXCEPT !.exists = FALSE]]
      /\ req' \in [slot : Slots, info : ImageInfo]
      /\ req'.slot = "app" /\ ~req'.info.exists
  BY DEF IInv, TypeOK, Slots, ImageInfo
<1>2. TypeOK'
  BY <1>1 DEF IInv, TypeOK, Pcs, Statuses
<1>3. FrameInv' /\ ErasedInv'
  BY <1>1 DEF FrameInv, ErasedInv, InfoPcs
<1>4. RecordInv' /\ LagInv'
  BY <1>1 DEF IInv, RecordInv, GoodRecord, LagInv, Unsaved
<1>5. FlashMatchesProgress' /\ RecordMatchesProgress'
  BY DEF IInv, FlashMatchesProgress, RecordMatchesProgress
<1> QED BY <1>2, <1>3, <1>4, <1>5 DEF IInv

LEMMA CutEraseContents ==
    ASSUME TypeOK, NEW k
    PROVE  CutErase(k) \in [MainBytes -> Contents]
BY ConstantFacts DEF TypeOK, CutErase

LEMMA RestartInv ==
    ASSUME IInv, Restart
    PROVE  IInv'
<1> USE DEF Restart, Reply, eeprom
<1>1. /\ pc' = "idle" /\ update' = Reload /\ counter' = 0 /\ resumed'
      /\ superseded' = (superseded \/ pc = "erase") /\ UNCHANGED <<eeInfo, eeUpdate>>
  OBVIOUS
<1>2. \/ pc = "erase" /\ \E k : flash' = CutErase(k)
      \/ pc = "program" /\ \E n \in 0 .. blk.size, beyond \in BOOLEAN : flash' = Burned(n, beyond)
      \/ flash' = flash
  BY DEF Survivors
<1>3. GoodRecord(eeUpdate) /\ eeUpdate \in UpdateInfo
  BY DEF IInv, RecordInv, TypeOK
<1>4. update' = eeUpdate
  BY <1>1, <1>3 DEF Reload, GoodRecord
<1>5. eeUpdate.initialized =>
         /\ update.initialized /\ update.start = eeUpdate.start /\ update.size = eeUpdate.size
         /\ eeUpdate.next <= update.next /\ eeUpdate.crc \in {update.crc, Torn}
  <2>1. CASE pc = "save_head"
    BY <2>1 DEF IInv, LagInv, NoUpdate
  <2>2. CASE pc = "save_tail"
    <3>1. update \in UpdateInfo /\ eeUpdate = [update EXCEPT !.crc = Torn]
      BY <2>2 DEF IInv, LagInv, TypeOK
    <3> QED BY <3>1 DEF UpdateInfo
  <2>3. CASE pc \notin {"save_head", "save_tail"}
    BY <2>3 DEF IInv, LagInv
  <2> QED BY <2>1, <2>2, <2>3
<1>6. blk \in Blocks \/ pc # "program"
  BY DEF IInv, FrameInv
<1>7. TypeOK'
  <2>1. flash' \in [MainBytes -> Contents]
    BY <1>2, <1>6, BurnedContents, CutEraseContents DEF IInv, TypeOK
  <2> QED BY <1>1, <1>3, <1>4, <2>1, ConstantFacts DEF IInv, TypeOK, Pcs, Statuses
<1>8. FrameInv' /\ ErasedInv'
  BY <1>1 DEF FrameInv, ErasedInv, InfoPcs
<1>9. RecordInv'
  BY <1>1, <1>3, <1>4 DEF IInv, RecordInv, GoodRecord
<1>10. LagInv'
  <2>1. 0 * MaxBlock = 0 /\ eeUpdate.next - eeUpdate.next = 0 /\ eeUpdate.next <= eeUpdate.next
    BY <1>3, ConstantFacts DEF UpdateInfo
  <2>2. Unsaved' = 0
    BY <1>1 DEF Unsaved
  <2> QED BY <1>1, <1>4, <2>1, <2>2, ConstantFacts DEF LagInv
<1>11. FlashMatchesProgress'
  <2> SUFFICES ASSUME eeUpdate.initialized, ~superseded, pc # "erase",
                      NEW b \in MainBytes, b \in Range32(update.start, update.size),
                      b < update.next
               PROVE  flash'[b] # Erased
    BY <1>1, <1>3, <1>4, <1>5, MainBytesNat DEF FlashMatchesProgress, UpdateInfo, IInv, TypeOK
  <2>1. flash[b] # Erased
    BY <1>5 DEF IInv, FlashMatchesProgress
  <2> QED BY <1>2, <1>6, <2>1, BurnedContents DEF IInv
<1>12. RecordMatchesProgress'
  BY <1>1, <1>4, <1>5 DEF IInv, RecordMatchesProgress
<1> QED BY <1>7, <1>8, <1>9, <1>10, <1>11, <1>12 DEF IInv

LEMMA StepInv == IInv /\ [Next]_vars => IInv'
<1> SUFFICES ASSUME IInv, [Next]_vars PROVE IInv'
  OBVIOUS
<1>1. ASSUME NEW r \in Requests, InitializeUpdate(r) PROVE IInv'
  BY <1>1, InitializeInv
<1>2. CASE EraseImage
  BY <1>2, EraseImageInv
<1>3. CASE InfoErase \/ InfoHead \/ InfoTail
  BY <1>3, InfoEraseInv, InfoHeadInv, InfoTailInv
<1>4. CASE BeginUpdate \/ SaveProgress \/ FinishUpdate
  BY <1>4, BeginUpdateInv, SaveProgressInv, FinishUpdateInv
<1>5. CASE SaveHead \/ SaveTail
  BY <1>5, SaveHeadInv, SaveTailInv
<1>6. ASSUME NEW b \in Blocks, ReceiveBlock(b) PROVE IInv'
  BY <1>6, ReceiveBlockInv
<1>7. CASE ProgramBlock
  BY <1>7, ProgramBlockInv
<1>8. CASE GetProgress
  <2>1. (IF update.initialized THEN "NOFAIL" ELSE "NOINIT") \in Statuses
    BY DEF Statuses
  <2> QED BY <1>8, <2>1, ReplyInv DEF GetProgress
<1>9. CASE EraseApp
  BY <1>9, EraseAppInv
<1>10. ASSUME NEW s \in Slots, VerifyImage(s) PROVE IInv'
  <2>1. (IF Verify(eeInfo[s]) THEN "NOFAIL" ELSE "VERIFYFAILED") \in Statuses
    BY DEF Statuses
  <2> QED BY <1>10, <2>1, ReplyInv DEF VerifyImage
<1>11. ASSUME NEW s \in Slots, AbortInVerify(s) PROVE IInv'
  BY <1>11, RestartInv DEF AbortInVerify
<1>12. CASE Restart
  BY <1>12, RestartInv
<1>13. CASE UNCHANGED vars
  BY <1>13 DEF vars, eeprom, ram, frame, history, IInv, TypeOK, FrameInv, RecordInv, GoodRecord,
     LagInv, Unsaved, ErasedInv, FlashMatchesProgress, RecordMatchesProgress
<1> QED BY <1>1, <1>2, <1>3, <1>4, <1>5, <1>6, <1>7, <1>8, <1>9, <1>10, <1>11, <1>12, <1>13 DEF Next

THEOREM InvHolds == Spec => []IInv
BY InitInv, StepInv, PTL DEF Spec

-----------------------------------------------------------------------------
(* What follows from it.                                                   *)

\* Every variable keeps its type; in particular the block counter of
\* updater.c:279 stays within 0 .. SaveEvery.
THEOREM TypeCorrect == Spec => []TypeOK
<1>1. IInv => TypeOK
  BY DEF IInv
<1> QED BY <1>1, InvHolds, PTL

LEMMA LagBound ==
    ASSUME IInv, eeUpdate.initialized
    PROVE  /\ update.initialized
           /\ update.start = eeUpdate.start /\ update.size = eeUpdate.size
           /\ eeUpdate.next <= update.next
           /\ update.next - eeUpdate.next <= SaveEvery * MaxBlock
<1>1. update \in UpdateInfo /\ eeUpdate \in UpdateInfo /\ counter \in 0 .. SaveEvery
  BY DEF IInv, TypeOK
<1>2. CASE pc = "save_head"
  BY <1>2 DEF IInv, LagInv, NoUpdate
<1>3. CASE pc = "save_tail"
  <2>1. /\ eeUpdate.initialized = update.initialized /\ eeUpdate.start = update.start
        /\ eeUpdate.size = update.size /\ eeUpdate.next = update.next
    BY <1>1, <1>3 DEF IInv, LagInv, UpdateInfo
  <2>2. SaveEvery * MaxBlock \in Nat
    BY NatProduct, ConstantFacts
  <2> QED BY <1>1, <2>1, <2>2 DEF UpdateInfo
<1>4. CASE pc \notin {"save_head", "save_tail"}
  <2>1. /\ update.initialized
        /\ update.start = eeUpdate.start /\ update.size = eeUpdate.size
        /\ eeUpdate.next <= update.next
        /\ update.next - eeUpdate.next <= Unsaved * MaxBlock
    BY <1>4 DEF IInv, LagInv
  <2>2. Unsaved \in Nat /\ Unsaved <= SaveEvery
    BY <1>1, ConstantFacts DEF IInv, LagInv, Unsaved
  <2>3. Unsaved * MaxBlock <= SaveEvery * MaxBlock
    BY <2>2, ConstantFacts
  <2> QED BY <1>1, <2>1, <2>2, <2>3, NatProduct, ConstantFacts DEF UpdateInfo
<1> QED BY <1>2, <1>3, <1>4

\* The EEPROM's record is of the same update as the RAM's, never ahead of it
\* and at most SaveEvery blocks behind, through every crash and every save.
THEOREM LagHolds == Spec => []ProgressLag
<1>1. IInv => ProgressLag
  BY LagBound DEF ProgressLag, IInv, LagInv
<1> QED BY <1>1, InvHolds, PTL

\* What the record reports as done is programmed, what it does not is erased.
THEOREM FlashMatches == Spec => []FlashMatchesProgress
<1>1. IInv => FlashMatchesProgress
  BY DEF IInv
<1> QED BY <1>1, InvHolds, PTL

\* The progress record and the image record are of the same image.
THEOREM RecordMatches == Spec => []RecordMatchesProgress
<1>1. IInv => RecordMatchesProgress
  BY DEF IInv
<1> QED BY <1>1, InvHolds, PTL

-----------------------------------------------------------------------------
(* A finished image verifies, if there is one for each area.               *)

\* No byte of the image in progress is of anything else.
DoneInv(Sent) ==
    LET slot == SlotOf(update.start) IN
    /\ pc = "program" => blk.data = blk.crc
    /\ update.initialized /\ ~superseded =>
          /\ eeInfo[slot].exists => eeInfo[slot].crc = Sent[slot]
          /\ \A b \in MainBytes \cap Range32(update.start, update.size) : flash[b] \in {Erased, Sent[slot]}

\* The region of a record lies in one area.
LEMMA OneArea ==
    ASSUME NEW a \in Nat, NEW n \in Nat, StartAddrCheck(a, n), a + n < Word
    PROVE  /\ \A b \in Range32(a, n) : SlotOf(b) = SlotOf(a) /\ BankOf(b) = BankOf(a)
           /\ Range32(a, n) \subseteq GoldMin .. (AppLimit - 1)
<1>1. Add32(a, n) = a + n
  BY LimitsAssumption DEF Add32
<1>2. GoldMin <= a /\ ((a < AppMin /\ a + n <= AppMin) \/ (a >= AppMin /\ a + n <= AppLimit))
  BY <1>1 DEF StartAddrCheck
<1> QED BY <1>2, LimitsAssumption DEF SlotOf, BankOf, Range32

LEMMA BurnedSent ==
    ASSUME NEW Sent, OneImageEach(Sent), IInv, DoneInv(Sent), pc = "program", ~superseded,
           NEW n \in 0 .. blk.size, NEW beyond,
           NEW b \in MainBytes, b \in Range32(update.start, update.size)
    PROVE  Burned(n, beyond)[b] \in {Erased, Sent[SlotOf(update.start)]}
<1>1. /\ update.initialized /\ blk \in Blocks /\ blk.addr = update.next /\ blk.data = blk.crc
      /\ update \in UpdateInfo /\ GoodRecord(update)
  BY DEF IInv, FrameInv, TypeOK, RecordInv, DoneInv
<1>2. /\ update.start \in Nat /\ update.size \in Nat /\ update.next \in Nat /\ update.start <= update.next
      /\ StartAddrCheck(update.start, update.size) /\ update.start + update.size < Word
      /\ blk.size \in Nat
  BY <1>1, UpdaterAssumption DEF UpdateInfo, GoodRecord
<1>3. flash[b] \in {Erased, Sent[SlotOf(update.start)]}
  BY <1>1 DEF DoneInv
<1>4. b \in Range32(blk.addr, n) => blk.data = Sent[SlotOf(update.start)]
  <2> SUFFICES ASSUME b \in Range32(blk.addr, n) PROVE SlotOf(blk.addr) = SlotOf(update.start) /\ blk.size > 0
    BY <1>1 DEF OneImageEach
  <2>1. blk.addr \in Range32(update.start, update.size) /\ blk.size > 0
    BY <1>1, <1>2 DEF Range32
  <2> QED BY <1>2, <2>1, OneArea
<1> QED BY <1>3, <1>4 DEF Burned, Burn

LEMMA DoneUndisturbed ==
    ASSUME NEW Sent, DoneInv(Sent), pc' # "program", UNCHANGED <<flash, eeInfo, update, superseded>>
    PROVE  DoneInv(Sent)'
BY DEF DoneInv

LEMMA DoneStep ==
    ASSUME NEW Sent, OneImageEach(Sent), IInv, DoneInv(Sent), [Next]_vars
    PROVE  DoneInv(Sent)'
<1> USE DEF eeprom, ram, frame, history, Reply
<1>1. CASE \/ \E r \in Requests : InitializeUpdate(r)
           \/ SaveProgress \/ SaveHead \/ SaveTail
           \/ GetProgress \/ EraseApp \/ \E s \in Slots : VerifyImage(s)
  <2>1. pc' # "program" /\ UNCHANGED <<flash, eeInfo, update, superseded>>
    BY <1>1 DEF InitializeUpdate, SaveProgress, SaveHead, SaveTail, GetProgress, EraseApp, VerifyImage, SaveErase
  <2> QED BY <2>1, DoneUndisturbed
<1>2. CASE EraseImage
  BY <1>2 DEF EraseImage, DoneInv
<1>3. CASE InfoErase \/ InfoHead \/ InfoTail
  <2>1. /\ pc' # "program" /\ UNCHANGED <<flash, update, superseded>>
        /\ \A s \in Slots \ {req.slot} : eeInfo'[s] = eeInfo[s]
    BY <1>3 DEF InfoErase, InfoHead, InfoTail, IInv, TypeOK
  <2>2. superseded \/ ~eeInfo'[req.slot].exists
    <3>1. /\ superseded \/ ~req.info.exists
          /\ req.info \in ImageInfo /\ req.slot \in Slots /\ eeInfo \in [Slots -> ImageInfo]
      BY <1>3 DEF InfoErase, InfoHead, InfoTail, IInv, TypeOK, FrameInv, InfoPcs
    <3>2. CASE InfoErase
      BY <3>1, <3>2 DEF InfoErase, NoImage
    <3>3. CASE InfoHead
      <4>1. eeInfo'[req.slot] = [req.info EXCEPT !.addr = AllOnes, !.crc = Torn]
        BY <3>1, <3>3 DEF InfoHead
      <4>2. [req.info EXCEPT !.addr = AllOnes, !.crc = Torn].exists = req.info.exists
        BY <3>1 DEF ImageInfo
      <4> QED BY <3>1, <4>1, <4>2
    <3>4. CASE InfoTail
      BY <3>1, <3>4 DEF InfoTail
    <3> QED BY <1>3, <3>2, <3>3, <3>4
  <2>3. SlotOf(update.start) \in Slots
    BY DEF SlotOf, Slots
  <2> QED BY <2>1, <2>2, <2>3 DEF DoneInv
<1>4. CASE BeginUpdate
  <2>1. /\ FromRequest(req) /\ eeInfo[req.slot] = req.info /\ UNCHANGED <<flash, eeInfo>>
        /\ pc' = "save_head" /\ update'.start = req.info.addr /\ update'.size = req.info.size
    BY <1>4 DEF BeginUpdate, SaveErase, IInv, FrameInv
  <2>2. req.info.exists /\ req.slot = SlotOf(req.info.addr) /\ req.info.crc = Sent[req.slot]
    BY <2>1, RequestTypes DEF FromRequest, OneImageEach
  <2>3. \A b \in MainBytes \cap Range32(req.info.addr, req.info.size) : flash[b] = Erased
    BY <1>4, <2>2 DEF BeginUpdate, IInv, ErasedInv
  <2> QED BY <2>1, <2>2, <2>3 DEF DoneInv
<1>5. CASE FinishUpdate
  BY <1>5 DEF FinishUpdate, SaveErase, NoUpdate, DoneInv
<1>6. ASSUME NEW b \in Blocks, ReceiveBlock(b) PROVE DoneInv(Sent)'
  <2>1. pc' = "program" => blk'.data = blk'.crc
    BY <1>6 DEF ReceiveBlock
  <2> QED BY <1>6, <2>1 DEF ReceiveBlock, DoneInv
<1>7. CASE ProgramBlock
  <2>1. PICK beyond \in BOOLEAN : flash' = Burned(blk.size, beyond)
    BY <1>7 DEF ProgramBlock
  <2>2. /\ pc = "program" /\ pc' # "program" /\ UNCHANGED <<eeInfo, superseded>>
        /\ update'.start = update.start /\ update'.size = update.size /\ update.initialized
    BY <1>7 DEF ProgramBlock, IInv, TypeOK, FrameInv, UpdateInfo
  <2>3. blk.size \in 0 .. blk.size
    BY <2>2, UpdaterAssumption DEF IInv, FrameInv
  <2>4. ~superseded => \A b \in MainBytes \cap Range32(update.start, update.size) :
                          flash'[b] \in {Erased, Sent[SlotOf(update.start)]}
    BY <2>1, <2>2, <2>3, BurnedSent
  <2> QED BY <2>2, <2>4 DEF DoneInv
<1>8. CASE Restart \/ \E s \in Slots : AbortInVerify(s)
  <2>1. /\ Restart /\ pc' = "idle" /\ eeInfo' = eeInfo
        /\ superseded' = (superseded \/ pc = "erase")
    BY <1>8 DEF AbortInVerify, Restart
  <2>2. \/ pc = "erase"
        \/ pc = "program" /\ \E n \in 0 .. blk.size, beyond \in BOOLEAN : flash' = Burned(n, beyond)
        \/ flash' = flash
    BY <2>1 DEF Restart, Survivors
  <2>3. update'.initialized =>
           update.initialized /\ update'.start = update.start /\ update'.size = update.size
    BY <2>1, LagBound DEF Restart, Reload, NoUpdate
  <2>4. ~superseded' /\ update.initialized =>
           \A b \in MainBytes \cap Range32(update.start, update.size) :
              flash'[b] \in {Erased, Sent[SlotOf(update.start)]}
    <3> SUFFICES ASSUME ~superseded, pc # "erase", update.initialized,
                        NEW b \in MainBytes, b \in Range32(update.start, update.size)
                 PROVE  flash'[b] \in {Erased, Sent[SlotOf(update.start)]}
      BY <2>1
    <3>1. CASE flash' = flash
      BY <3>1 DEF DoneInv
    <3>2. CASE pc = "program" /\ \E n \in 0 .. blk.size, beyond \in BOOLEAN : flash' = Burned(n, beyond)
      BY <3>2, BurnedSent
    <3> QED BY <2>2, <3>1, <3>2
  <2> QED BY <2>1, <2>3, <2>4 DEF DoneInv
<1>9. CASE UNCHANGED vars
  BY <1>9 DEF vars, DoneInv
<1> QED BY <1>1, <1>2, <1>3, <1>4, <1>5, <1>6, <1>7, <1>8, <1>9 DEF Next

\* When the last block is in, what VERIFY reads is the image that was announced,
\* through every loss, repetition and restart, if the ground has one image for
\* each area (updater.c:246-300).
THEOREM FinishedIsWhole ==
    ASSUME NEW CONSTANT Sent, OneImageEach(Sent)
    PROVE  Spec => []FinishedVerifies
<1> DEFINE DInv == IInv /\ DoneInv(Sent)
<1>1. Init => DInv
  <2>1. Init => DoneInv(Sent)
    BY DEF Init, DoneInv, NoUpdate
  <2> QED BY <2>1, InitInv
<1>2. DInv /\ [Next]_vars => DInv'
  BY StepInv, DoneStep
<1>3. DInv => FinishedVerifies
  <2> DEFINE slot == SlotOf(update.start)
  <2> SUFFICES ASSUME DInv, pc = "finish", ~superseded, eeInfo[slot].exists PROVE Verify(eeInfo[slot])
    BY DEF FinishedVerifies
  <2>1. /\ update.initialized /\ update \in UpdateInfo /\ GoodRecord(update)
        /\ update.next - update.start = update.size
    BY DEF IInv, TypeOK, FrameInv, RecordInv
  <2>2. eeInfo[slot].addr = update.start /\ eeInfo[slot].size = update.size /\ eeInfo[slot].crc = Sent[slot]
    BY <2>1 DEF IInv, RecordMatchesProgress, DoneInv
  <2>3. Range32(update.start, update.size) \subseteq MainBytes
    BY <2>1, OneArea DEF GoodRecord, UpdateInfo, OneImageEach
  <2>4. ASSUME NEW b \in Range32(update.start, update.size) PROVE flash[b] = Sent[slot]
    <3>1. b < update.next
      BY <2>1, <2>4 DEF UpdateInfo, Range32
    <3>2. flash[b] # Erased /\ flash[b] \in {Erased, Sent[slot]}
      BY <2>1, <2>3, <2>4, <3>1 DEF IInv, FlashMatchesProgress, DoneInv
    <3> QED BY <3>2
  <2> QED BY <2>2, <2>3, <2>4 DEF Verify, Readable
<1> HIDE DEF DInv
<1> QED BY <1>1, <1>2, <1>3, PTL DEF Spec

-----------------------------------------------------------------------------
(* No packet, and no power loss within one, changes the bootloader or, if  *)
(* it is about the application, the golden image.                          *)

LEMMA EraseKeeps ==
    ASSUME IInv, pc = "erase", NEW k \in WalkedSectors(req.info.addr, req.info.size),
           NEW b \in MainBytes, InSector(b, k)
    PROVE  b >= GoldMin /\ (b < AppMin => req.slot = "gold")
<1>1. /\ StartAddrCheck(req.info.addr, req.info.size) /\ req.slot = SlotOf(req.info.addr)
      /\ req.info.addr \in Nat /\ req.info.size \in Nat /\ b \in Nat
  BY RequestTypes, MainBytesNat DEF IInv, FrameInv, ImageInfo
<1> QED BY <1>1, EraseFloor DEF SlotOf

LEMMA ProgramKeeps ==
    ASSUME IInv, pc = "program", NEW n \in 0 .. blk.size,
           NEW b \in MainBytes, b \in Range32(blk.addr, n)
    PROVE  b >= GoldMin /\ (b < AppMin => SlotOf(update.start) = "gold")
<1>1. /\ blk.addr = update.next /\ update.initialized /\ update \in UpdateInfo /\ b \in Nat
  BY MainBytesNat DEF IInv, FrameInv, TypeOK
<1>2. update.start >= GoldMin /\ update.start <= update.next
  BY <1>1 DEF IInv, RecordInv, GoodRecord, StartAddrCheck
<1>3. b >= update.next
  BY <1>1 DEF Range32, UpdateInfo
<1> QED BY <1>1, <1>2, <1>3, LimitsAssumption DEF SlotOf, UpdateInfo

LEMMA AreasStep == IInv /\ [Next]_vars => [KeepsAreas]_vars
<1> SUFFICES ASSUME IInv, Next, NEW b \in MainBytes, flash'[b] # flash[b]
             PROVE  /\ b >= GoldMin
                    /\ b < AppMin => \/ pc = "erase" /\ req.slot = "gold"
                                     \/ pc = "program" /\ SlotOf(update.start) = "gold"
  BY DEF KeepsAreas
<1>1. CASE EraseImage
  <2>1. b \in ErasedBytes(req.info.addr, req.info.size) /\ pc = "erase"
    BY <1>1 DEF EraseImage
  <2>2. PICK k \in WalkedSectors(req.info.addr, req.info.size) : b \in SectorBytes(k)
    BY <2>1 DEF ErasedBytes
  <2>3. InSector(b, k)
    BY <2>2, SectorTypes DEF SectorBytes, InSector, WalkedSectors
  <2> QED BY <2>1, <2>3, EraseKeeps
<1>2. CASE ProgramBlock
  <2>1. pc = "program" /\ blk \in Blocks
    BY <1>2 DEF ProgramBlock, IInv, FrameInv
  <2>2. blk.size \in 0 .. blk.size
    BY <2>1, UpdaterAssumption
  <2>3. b \in Range32(blk.addr, blk.size)
    BY <1>2 DEF ProgramBlock, Burned
  <2> QED BY <2>1, <2>2, <2>3, ProgramKeeps
<1>3. ASSUME Restart
      PROVE  /\ b >= GoldMin
             /\ b < AppMin => \/ pc = "erase" /\ req.slot = "gold"
                              \/ pc = "program" /\ SlotOf(update.start) = "gold"
  <2>1. CASE pc = "erase"
    <3>1. PICK k \in WalkedSectors(req.info.addr, req.info.size) : flash' = CutErase(k)
      BY <1>3, <2>1 DEF Restart, Survivors
    <3>2. \E j \in WalkedSectors(req.info.addr, req.info.size) : InSector(b, j)
      BY <3>1 DEF CutErase
    <3> QED BY <2>1, <3>2, EraseKeeps
  <2>2. CASE pc = "program"
    <3>1. PICK n \in 0 .. blk.size, beyond \in BOOLEAN : flash' = Burned(n, beyond)
      BY <1>3, <2>2 DEF Restart, Survivors
    <3>2. b \in Range32(blk.addr, n)
      BY <3>1 DEF Burned
    <3> QED BY <2>2, <3>2, ProgramKeeps
  <2>3. CASE pc \notin {"erase", "program"}
    BY <1>3, <2>3 DEF Restart, Survivors
  <2> QED BY <2>1, <2>2, <2>3
<1> QED
  BY <1>1, <1>2, <1>3 DEF Next, InitializeUpdate, InfoErase, InfoHead, InfoTail, BeginUpdate,
     SaveProgress, FinishUpdate, SaveErase, SaveHead, SaveTail, ReceiveBlock, GetProgress,
     EraseApp, VerifyImage, AbortInVerify

THEOREM KeepsAreasAlways == Spec => AreasKept
BY InvHolds, AreasStep, PTL DEF Spec, AreasKept

-----------------------------------------------------------------------------
(* The updater implements ImageTransfer.                                   *)

LEMMA TransferStep ==
    IInv /\ [Next]_vars => [Transfer!TransferNext]_<<ProgressAsTransfer, epoch>>
<1> SUFFICES ASSUME IInv, [Next]_vars
             PROVE  [Transfer!TransferNext]_<<ProgressAsTransfer, epoch>>
  OBVIOUS
<1> DEFINE tr == ProgressAsTransfer
<1>1. update \in UpdateInfo /\ eeUpdate \in UpdateInfo
  BY DEF IInv, TypeOK
<1>2. CASE BeginUpdate
  <2>1. /\ update' = [initialized |-> TRUE, start |-> req.info.addr, next |-> req.info.addr,
                      size |-> req.info.size, crc |-> req.info.crc]
        /\ epoch' = epoch
    BY <1>2 DEF BeginUpdate, SaveErase
  <2>2. req.info.addr \in Nat /\ req.info.size \in Nat \ {0}
    BY <1>2, RequestTypes DEF BeginUpdate, IInv, FrameInv, ImageInfo, StartAddrCheck
  <2>3. tr' = [active |-> TRUE, base |-> req.info.addr, size |-> req.info.size, done |-> 0]
    <3>1. /\ update'.initialized = TRUE /\ update'.start = req.info.addr
          /\ update'.size = req.info.size /\ update'.next = req.info.addr
      BY <2>1
    <3>2. update'.next - update'.start = 0
      BY <2>2, <3>1
    <3> QED BY <3>1, <3>2, Zenon DEF ProgressAsTransfer
  <2> QED BY <2>1, <2>2, <2>3 DEF Transfer!TransferNext, Transfer!Begin
<1>3. CASE ProgramBlock
  <2>1. /\ pc = "program" /\ update.initialized /\ blk.addr = update.next /\ blk \in Blocks
        /\ update' = [update EXCEPT !.next = blk.addr + blk.size] /\ epoch' = epoch
    BY <1>3 DEF ProgramBlock, IInv, FrameInv, history
  <2>2. blk.size \in 0 .. MaxBlock
    BY <2>1, UpdaterAssumption
  <2>3. update.next - update.start # update.size
    BY <2>1 DEF IInv, RecordInv
  <2>4. tr' = [tr EXCEPT !.done = tr.done + blk.size]
    <3>1. /\ update'.initialized = update.initialized /\ update'.start = update.start
          /\ update'.size = update.size /\ update'.next = update.next + blk.size
      BY <1>1, <2>1 DEF UpdateInfo
    <3>2. update'.next - update'.start = (update.next - update.start) + blk.size
      BY <1>1, <2>2, <3>1, ConstantFacts DEF UpdateInfo
    <3>3. tr' = [active |-> update.initialized, base |-> update.start, size |-> update.size,
                 done |-> (update.next - update.start) + blk.size]
      BY <3>1, <3>2, Zenon DEF ProgressAsTransfer
    <3> QED BY <3>3 DEF ProgressAsTransfer
  <2>5. tr.active /\ tr.done # tr.size
    BY <2>1, <2>3 DEF ProgressAsTransfer
  <2> QED BY <2>1, <2>2, <2>4, <2>5 DEF Transfer!TransferNext, Transfer!Append
<1>4. CASE FinishUpdate
  <2>1. /\ pc = "finish" /\ update.initialized /\ update' = NoUpdate /\ epoch' = epoch
    BY <1>4 DEF FinishUpdate, SaveErase, IInv, FrameInv, history
  <2>2. tr.active /\ tr.done = tr.size
    BY <2>1 DEF IInv, RecordInv, ProgressAsTransfer
  <2>3. tr' = Transfer!NoTransfer
    BY <2>1 DEF ProgressAsTransfer, NoUpdate, Transfer!NoTransfer
  <2> QED BY <2>1, <2>2, <2>3 DEF Transfer!TransferNext, Transfer!Finish
<1>5. ASSUME Restart PROVE Transfer!TransferNext
  <2>1. update' = eeUpdate /\ epoch' = ~epoch
    BY <1>5 DEF Restart, Reload, IInv, RecordInv, GoodRecord
  <2>2. CASE ~eeUpdate.initialized
    <3>1. update' = NoUpdate
      BY <2>1, <2>2 DEF IInv, RecordInv, GoodRecord
    <3>2. tr' = Transfer!NoTransfer
      BY <3>1 DEF ProgressAsTransfer, NoUpdate, Transfer!NoTransfer
    <3> QED BY <2>1, <3>2 DEF Transfer!TransferNext, Transfer!Restarted
  <2>3. CASE eeUpdate.initialized
    <3> DEFINE d == eeUpdate.next - eeUpdate.start
    <3>1. /\ update.initialized
          /\ update.start = eeUpdate.start /\ update.size = eeUpdate.size
          /\ eeUpdate.next <= update.next
          /\ update.next - eeUpdate.next <= SaveEvery * MaxBlock
          /\ eeUpdate.start <= eeUpdate.next
      BY <2>3, LagBound DEF IInv, RecordInv, GoodRecord
    <3>2. SaveEvery * MaxBlock \in Nat
      BY NatProduct, ConstantFacts
    <3>3. tr.done \in Int /\ d \in (tr.done - SaveEvery * MaxBlock) .. tr.done /\ d >= 0
      BY <1>1, <3>1, <3>2 DEF ProgressAsTransfer, UpdateInfo
    <3>4. tr' = [tr EXCEPT !.done = d] /\ tr'.done = d /\ tr.active
      <4>1. update'.initialized = update.initialized
        BY <1>1, <2>1, <2>3, <3>1 DEF UpdateInfo
      <4>2. tr' = [active |-> update.initialized, base |-> update.start, size |-> update.size,
                   done |-> d]
        BY <2>1, <3>1, <4>1, Zenon DEF ProgressAsTransfer
      <4> HIDE DEF d
      <4>3. tr.active /\ tr'.done = d
        BY <3>1, <4>2 DEF ProgressAsTransfer
      <4>4. tr' = [tr EXCEPT !.done = d]
        BY <4>2 DEF ProgressAsTransfer
      <4> QED BY <4>3, <4>4
    <3>5. tr' \in Transfer!TakenBack
      BY <3>3, <3>4 DEF Transfer!TakenBack
    <3> QED BY <2>1, <3>3, <3>4, <3>5 DEF Transfer!TransferNext, Transfer!Restarted
  <2> QED BY <2>2, <2>3
<1>6. ASSUME UNCHANGED <<update, epoch>> PROVE UNCHANGED <<tr, epoch>>
  BY <1>6 DEF ProgressAsTransfer
<1> QED
  BY <1>2, <1>3, <1>4, <1>5, <1>6
  DEF Next, vars, ram, history, InitializeUpdate, EraseImage, InfoErase, InfoHead, InfoTail,
      SaveProgress, SaveErase, SaveHead, SaveTail, ReceiveBlock, GetProgress,
      EraseApp, VerifyImage, AbortInVerify

\* Blocks in order, an end at exactly the size of the image, and a restart
\* that costs at most SaveEvery blocks or the whole transfer, for every ground.
THEOREM ImplementsTransfer == Spec => TransferSpec
<1>1. Init => Transfer!TransferInit
  BY DEF Init, NoUpdate, ProgressAsTransfer, Transfer!TransferInit, Transfer!NoTransfer
<1> QED BY <1>1, InvHolds, TransferStep, PTL DEF Spec, TransferSpec, Transfer!TransferSpec
=============================================================================
