----------------------------- MODULE BootProofs -----------------------------
(***************************************************************************)
(* For every limit of attempts, set of reset sources and sector table: the *)
(* type invariant and the safety invariants of Boot.                       *)
(***************************************************************************)
EXTENDS Boot, TLAPS

-----------------------------------------------------------------------------
(* The inductive invariant, by what each part is about.                    *)

\* An application is about to be launched because of an automatic reset.
LaunchDue == Automatic /\ (pc = "launch" \/ (writer = "boot" /\ bootType = "A"))

\* The record, and the record being written, never hold less than the tries.
BudgetInv ==
    /\ tries <= MaxAttempts
    /\ tries <= boot.attempts
    /\ pc \in Writing => tries <= info.attempts
    /\ LaunchDue => tries < MaxAttempts
    /\ LaunchDue /\ pc = "launch" => tries < boot.attempts
    /\ LaunchDue /\ pc \in Writing => tries < info.attempts

AskedInv ==
    /\ StoredTypeAsked
    /\ pc \in Writing => info.type \in asked \cup {Blank}

CountInv ==
    /\ CountExact
    /\ lost = "no" /\ pc \in Writing => info.count = boots

IInv == TypeOK /\ BudgetInv /\ AskedInv /\ CountInv

-----------------------------------------------------------------------------
(* Facts about the constants and about the operators of Boot.              *)

LEMMA ConstantFacts ==
    /\ MaxAttempts \in Nat /\ Word \in Nat /\ MaxAttempts + 1 <= AllOnes + 1
    /\ MaxAttempts <= AllOnes /\ AllOnes \in Nat
    /\ CountMod - 1 \in Counts /\ 0 \in Counts
    /\ \A n \in Counts : (n + 1) % CountMod \in Counts
BY BootAssumption, LimitsAssumption DEF AllOnes, Counts

\* What the first part of a write leaves of the attempts is not less.
LEMMA UpperBytesFacts ==
    ASSUME NEW n \in 0 .. AllOnes
    PROVE  UpperBytes(n) \in 0 .. AllOnes /\ n <= UpperBytes(n)
<1>1. Byte \in Nat /\ Byte > 0 /\ Word \in Nat
  BY BootAssumption, LimitsAssumption
<1>2. n % Byte \in 0 .. Byte - 1
  BY <1>1 DEF AllOnes
<1>3. (n - (n % Byte)) + (Byte - 1) < Word
  BY BootAssumption DEF AllOnes
<1> QED
  BY <1>1, <1>2, <1>3 DEF UpperBytes, AllOnes

LEMMA ErasedFacts ==
    ErasedInfo \in Infos /\ NoInfo \in Infos /\ ErasedInfo.attempts = AllOnes /\ ErasedInfo.type = Blank
BY ConstantFacts DEF ErasedInfo, NoInfo, Infos

\* The record get_boot_type leaves is a record.
LEMMA AttemptsFacts ==
    ASSUME TypeOK
    PROVE  /\ Attempts \in 0 .. AllOnes
           /\ GetBootType \in Types \cup {Blank}
           /\ Escalates => GetBootType # "A" /\ Attempts = 0
           /\ Automatic /\ ~Escalates => Attempts = boot.attempts + 1 /\ boot.attempts < MaxAttempts
           /\ ~Automatic => Attempts = boot.attempts /\ ~Escalates
<1>1. boot.attempts \in 0 .. AllOnes /\ boot.type \in Types \cup {Blank}
  BY DEF TypeOK, Infos
<1>2. CASE Escalates
  BY <1>1, <1>2, ConstantFacts DEF Attempts, GetBootType, Escalates, Types
<1>3. CASE Automatic /\ ~Escalates
  BY <1>1, <1>3, ConstantFacts DEF Attempts, GetBootType, Escalates
<1>4. CASE ~Automatic
  BY <1>1, <1>4 DEF Attempts, GetBootType, Escalates, Types
<1> QED
  BY <1>2, <1>3, <1>4

\* The record sw_reset writes.
LEMMA SwResetFacts ==
    ASSUME TypeOK, NEW who \in Writers, NEW t, NEW reason, SwReset(who, t, reason)
    PROVE  /\ info' \in Infos /\ info'.count = boot.count
           /\ info'.attempts = IF reason = "REQUESTED" THEN 0 ELSE boot.attempts
           /\ info'.type = IF t \in Types THEN t ELSE boot.type
           /\ writer' = who /\ pc' = "erase"
           /\ asked' = IF t \in Types THEN asked \cup {t} ELSE asked
           /\ tries' = IF reason = "REQUESTED" THEN 0 ELSE tries
           /\ lost' = IF CountGone /\ lost # "cut" THEN "preempted" ELSE lost
<1> DEFINE n == IF reason = "REQUESTED" THEN 0 ELSE boot.attempts
           k == IF t \in Types THEN t ELSE boot.type
<1>1. boot \in Infos /\ n \in 0 .. AllOnes /\ k \in Types \cup {Blank}
  BY ConstantFacts DEF TypeOK, Infos
<1>2. info' = [boot EXCEPT !.attempts = n, !.type = k]
  BY DEF SwReset, Write
<1>3. info' \in Infos /\ info'.count = boot.count /\ info'.attempts = n /\ info'.type = k
  <2> HIDE DEF n, k
  <2> QED  BY <1>1, <1>2 DEF Infos
<1>4. /\ writer' = who /\ pc' = "erase"
      /\ asked' = IF t \in Types THEN asked \cup {t} ELSE asked
      /\ tries' = IF reason = "REQUESTED" THEN 0 ELSE tries
      /\ lost' = IF CountGone /\ lost # "cut" THEN "preempted" ELSE lost
  BY DEF SwReset, Write, Lose
<1> QED
  BY <1>3, <1>4

-----------------------------------------------------------------------------
(* Each part is true initially.                                            *)

LEMMA InitIInv == Init => IInv
<1> SUFFICES ASSUME Init PROVE IInv
  OBVIOUS
<1>1. boot \in Infos /\ boot.attempts \in Nat /\ boot.type \in asked \cup {Blank}
  BY ConstantFacts, ErasedFacts DEF Init, NoInfo, Infos
<1>2. TypeOK
  BY <1>1, ErasedFacts, ConstantFacts, BootAssumption
     DEF Init, TypeOK, Writing, ResetSources, Types, Writers
<1>3. BudgetInv
  BY <1>1, ConstantFacts DEF Init, BudgetInv, LaunchDue, Automatic, Writing
<1>4. AskedInv
  BY <1>1 DEF Init, AskedInv, StoredTypeAsked, Writing
<1>5. CountInv
  BY DEF Init, CountInv, CountExact, CountGone, Writing, NoInfo
<1> QED
  BY <1>2, <1>3, <1>4, <1>5 DEF IInv

-----------------------------------------------------------------------------
(* Each part is kept by every step, one step of the proof per action.      *)

LEMMA TypeStep == TypeOK /\ [Next]_vars => TypeOK'
<1> SUFFICES ASSUME TypeOK, [Next]_vars PROVE TypeOK'
  OBVIOUS
<1> USE DEF Writing, Writers
<1>1. CASE BlMain
  <2>1. /\ GetBootType \in Types \cup {Blank} /\ Attempts \in 0 .. AllOnes
        /\ (boot.count + 1) % CountMod \in Counts /\ (boots + 1) % CountMod \in Counts
    BY AttemptsFacts, ConstantFacts DEF TypeOK, Infos
  <2>2. info' \in Infos
    BY <1>1, <2>1 DEF BlMain, Write, TypeOK, Infos
  <2> QED
    BY <1>1, <2>1, <2>2, ConstantFacts DEF BlMain, Write, TypeOK, images
<1>2. CASE EraseInfo
  BY <1>2, ErasedFacts DEF EraseInfo, TypeOK, images, write, history
<1>3. CASE WriteHead
  <2>1. info.attempts \in 0 .. AllOnes
    BY DEF TypeOK, Infos
  <2>2. boot' \in Infos
    BY <1>3, <2>1, UpperBytesFacts DEF WriteHead, TypeOK, Infos
  <2> QED
    BY <1>3, <2>2 DEF WriteHead, TypeOK, images, write, history
<1>4. CASE WriteTail
  BY <1>4, ErasedFacts DEF WriteTail, Restart, TypeOK, images, ResetSources, Types
<1>5. CASE StartApplication
  BY <1>5 DEF StartApplication, TypeOK, images, write
<1>6. CASE StartGolden
  <2>1. CASE SwReset("reset", "A", "REQUESTED") /\ app' = "valid" /\ UNCHANGED boots
    BY <1>6, <2>1, SwResetFacts DEF StartGolden, TypeOK, ImageStates
  <2>2. CASE pc' = "loader" /\ UNCHANGED <<app, write, history>>
    BY <1>6, <2>2 DEF StartGolden, TypeOK, write, history
  <2> QED
    BY <1>6, <2>1, <2>2 DEF StartGolden
<1>7. CASE VerifyAborts
  BY <1>7, ErasedFacts DEF VerifyAborts, Restart, TypeOK, images, history, ResetSources, Types
<1>8. CASE AppReturns
  BY <1>8 DEF AppReturns, TypeOK, images, write, history
<1>9. CASE SchedulerEnds
  BY <1>9, SwResetFacts DEF SchedulerEnds, TypeOK, images
<1>10. CASE StackOverflow
  BY <1>10, SwResetFacts DEF StackOverflow, TypeOK, images
<1>11. CASE UpdateImage
  BY <1>11, BootAssumption DEF UpdateImage, TypeOK, write, history, InLoader
<1>12. ASSUME NEW t \in Types, SetCommand(t) PROVE TypeOK'
  <2>1. info' \in Infos
    BY <1>12 DEF SetCommand, Write, TypeOK, Infos
  <2> QED
    BY <1>12, <2>1 DEF SetCommand, Write, TypeOK, images
<1>13. ASSUME NEW t \in Types, RebootCommand(t) PROVE TypeOK'
  BY <1>13 DEF RebootCommand, TypeOK, images, write, history
<1>14. ASSUME NEW t \in Types, RebootDue(t) PROVE TypeOK'
  BY <1>14, SwResetFacts DEF RebootDue, TypeOK, images
<1>15. ASSUME NEW src \in Sources, Reset(src) PROVE TypeOK'
  BY <1>15, ErasedFacts, BootAssumption DEF Reset, Restart, Lose, TypeOK, images, Types
<1>16. CASE UNCHANGED vars
  BY <1>16 DEF vars, TypeOK, images, write, history
<1> QED
  BY <1>1, <1>2, <1>3, <1>4, <1>5, <1>6, <1>7, <1>8, <1>9, <1>10, <1>11, <1>12, <1>13, <1>14,
     <1>15, <1>16 DEF Next, BootStep

\* What sw_reset writes holds at least the tries, which it may reset.
LEMMA SwResetBudget ==
    ASSUME TypeOK, BudgetInv, NEW who \in {"task", "reset"}, NEW t, NEW reason,
           SwReset(who, t, reason), UNCHANGED <<boot, rst, bootType>>
    PROVE  BudgetInv'
<1>1. boot.attempts \in Nat /\ tries \in Nat /\ MaxAttempts \in Nat
  BY BootAssumption DEF TypeOK, Infos
<1>2. tries' <= tries /\ tries' <= info'.attempts /\ ~LaunchDue'
  BY <1>1, SwResetFacts DEF LaunchDue, BudgetInv, Writers
<1> QED
  BY <1>1, <1>2, SwResetFacts DEF BudgetInv, TypeOK, Writers

LEMMA BudgetStep == TypeOK /\ BudgetInv /\ [Next]_vars => BudgetInv'
<1> SUFFICES ASSUME TypeOK, BudgetInv, [Next]_vars PROVE BudgetInv'
  OBVIOUS
<1>0. /\ boot.attempts \in 0 .. AllOnes /\ info.attempts \in 0 .. AllOnes
      /\ boot \in Infos /\ info \in Infos
      /\ tries \in Nat /\ MaxAttempts \in Nat /\ (writer # "none" <=> pc \in Writing)
  BY BootAssumption DEF TypeOK, Infos
<1> USE DEF Writing, LaunchDue, Automatic
<1>1. CASE BlMain
  <2>1. /\ info'.attempts = Attempts /\ tries' = IF Escalates THEN 0 ELSE tries
        /\ bootType' = GetBootType /\ pc' = "erase" /\ UNCHANGED <<boot, rst>>
    BY <1>0, <1>1 DEF BlMain, Write, Infos
  <2>2. CASE Escalates
    BY <1>0, <2>1, <2>2, AttemptsFacts, ConstantFacts DEF BudgetInv
  <2>3. CASE ~Escalates
    BY <1>0, <2>1, <2>3, AttemptsFacts, ConstantFacts DEF BudgetInv
  <2> QED
    BY <2>2, <2>3
<1>2. CASE EraseInfo
  BY <1>0, <1>2, ErasedFacts, ConstantFacts DEF EraseInfo, BudgetInv, write, history
<1>3. CASE WriteHead
  <2>1. boot'.attempts = UpperBytes(info.attempts)
    BY <1>0, <1>3 DEF WriteHead, Infos
  <2>2. info.attempts <= boot'.attempts /\ boot'.attempts \in Nat
    BY <1>0, <2>1, UpperBytesFacts
  <2> QED
    BY <1>0, <1>3, <2>2 DEF WriteHead, BudgetInv, write, history
<1>4. CASE WriteTail
  BY <1>0, <1>4 DEF WriteTail, Restart, BudgetInv
<1>5. CASE StartApplication
  BY <1>0, <1>5 DEF StartApplication, BudgetInv, write
<1>6. CASE StartGolden
  <2>1. CASE SwReset("reset", "A", "REQUESTED")
    BY <1>6, <2>1, SwResetBudget DEF StartGolden
  <2>2. CASE pc' = "loader" /\ UNCHANGED <<app, write, history>>
    BY <1>0, <1>6, <2>2 DEF StartGolden, BudgetInv, write, history
  <2> QED
    BY <1>6, <2>1, <2>2 DEF StartGolden
<1>7. CASE VerifyAborts
  BY <1>0, <1>7 DEF VerifyAborts, Restart, BudgetInv, history
<1>8. CASE AppReturns
  BY <1>0, <1>8 DEF AppReturns, BudgetInv, write, history
<1>9. CASE SchedulerEnds
  BY <1>9, SwResetBudget DEF SchedulerEnds
<1>10. CASE StackOverflow
  BY <1>10, SwResetBudget DEF StackOverflow
<1>11. CASE UpdateImage
  BY <1>0, <1>11 DEF UpdateImage, BudgetInv, write, history
<1>12. ASSUME NEW t \in Types, SetCommand(t) PROVE BudgetInv'
  <2>1. info'.attempts = boot.attempts /\ writer' = "set" /\ pc' = "erase"
    BY <1>0, <1>12 DEF SetCommand, Write, Infos
  <2> QED
    BY <1>0, <1>12, <2>1 DEF SetCommand, BudgetInv
<1>13. ASSUME NEW t \in Types, RebootCommand(t) PROVE BudgetInv'
  BY <1>0, <1>13 DEF RebootCommand, BudgetInv, write, history
<1>14. ASSUME NEW t \in Types, RebootDue(t) PROVE BudgetInv'
  BY <1>14, SwResetBudget DEF RebootDue
<1>15. ASSUME NEW src \in Sources, Reset(src) PROVE BudgetInv'
  BY <1>0, <1>15 DEF Reset, Restart, BudgetInv
<1>16. CASE UNCHANGED vars
  BY <1>16 DEF vars, BudgetInv, images, write, history
<1> QED
  BY <1>1, <1>2, <1>3, <1>4, <1>5, <1>6, <1>7, <1>8, <1>9, <1>10, <1>11, <1>12, <1>13, <1>14,
     <1>15, <1>16 DEF Next, BootStep

LEMMA AskedStep == TypeOK /\ AskedInv /\ [Next]_vars => AskedInv'
<1> SUFFICES ASSUME TypeOK, AskedInv, [Next]_vars PROVE AskedInv'
  OBVIOUS
<1>0. boot \in Infos /\ info \in Infos
  BY DEF TypeOK
<1> USE DEF AskedInv, StoredTypeAsked, Writing
<1>1. CASE BlMain
  <2>1. info'.type = boot.type
    BY <1>0, <1>1 DEF BlMain, Write, Infos
  <2> QED
    BY <1>1, <2>1 DEF BlMain
<1>2. CASE EraseInfo
  BY <1>2, ErasedFacts DEF EraseInfo, write, history
<1>3. CASE WriteHead
  <2>1. boot'.type = info.type
    BY <1>0, <1>3 DEF WriteHead, Infos
  <2> QED
    BY <1>3, <2>1 DEF WriteHead, write, history
<1>4. CASE WriteTail
  BY <1>4 DEF WriteTail, Restart
<1>5. CASE StartApplication
  BY <1>5 DEF StartApplication, write
<1>6. CASE StartGolden
  <2>1. CASE SwReset("reset", "A", "REQUESTED")
    BY <1>6, <2>1, SwResetFacts DEF StartGolden, Writers
  <2>2. CASE pc' = "loader" /\ UNCHANGED <<app, write, history>>
    BY <1>6, <2>2 DEF StartGolden, write, history
  <2> QED
    BY <1>6, <2>1, <2>2 DEF StartGolden
<1>7. CASE VerifyAborts
  BY <1>7 DEF VerifyAborts, Restart, history
<1>8. CASE AppReturns
  BY <1>8 DEF AppReturns, write, history
<1>9. CASE SchedulerEnds
  BY <1>9, SwResetFacts DEF SchedulerEnds, Writers
<1>10. CASE StackOverflow
  BY <1>10, SwResetFacts DEF StackOverflow, Writers
<1>11. CASE UpdateImage
  BY <1>11 DEF UpdateImage, write, history
<1>12. ASSUME NEW t \in Types, SetCommand(t) PROVE AskedInv'
  <2>1. info'.type = t
    BY <1>0, <1>12 DEF SetCommand, Write, Infos
  <2> QED
    BY <1>12, <2>1 DEF SetCommand
<1>13. ASSUME NEW t \in Types, RebootCommand(t) PROVE AskedInv'
  BY <1>13 DEF RebootCommand, write, history
<1>14. ASSUME NEW t \in Types, RebootDue(t) PROVE AskedInv'
  BY <1>14, SwResetFacts DEF RebootDue, Writers
<1>15. ASSUME NEW src \in Sources, Reset(src) PROVE AskedInv'
  BY <1>15 DEF Reset, Restart
<1>16. CASE UNCHANGED vars
  BY <1>16 DEF vars, write, history
<1> QED
  BY <1>1, <1>2, <1>3, <1>4, <1>5, <1>6, <1>7, <1>8, <1>9, <1>10, <1>11, <1>12, <1>13, <1>14,
     <1>15, <1>16 DEF Next, BootStep

\* sw_reset keeps the count, unless it reads a record that is not there.
LEMMA SwResetCount ==
    ASSUME TypeOK, CountInv, NEW who \in {"task", "reset"}, NEW t, NEW reason,
           SwReset(who, t, reason), UNCHANGED <<boot, boots>>
    PROVE  CountInv'
<1>1. CASE CountGone
  BY <1>1, SwResetFacts DEF CountInv, CountExact, Writers, TypeOK
<1>2. CASE ~CountGone
  BY <1>2, SwResetFacts DEF CountInv, CountExact, CountGone, Writers
<1> QED
  BY <1>1, <1>2

LEMMA CountStep == TypeOK /\ CountInv /\ [Next]_vars => CountInv'
<1> SUFFICES ASSUME TypeOK, CountInv, [Next]_vars PROVE CountInv'
  OBVIOUS
<1>0. boot \in Infos /\ info \in Infos /\ (writer # "none" <=> pc \in Writing)
  BY DEF TypeOK
<1> USE DEF CountInv, CountExact, CountGone, Writing
<1>1. CASE BlMain
  <2>1. info'.count = (boot.count + 1) % CountMod
    BY <1>0, <1>1 DEF BlMain, Write, Infos
  <2> QED
    BY <1>0, <1>1, <2>1 DEF BlMain, Write
<1>2. CASE EraseInfo
  BY <1>2 DEF EraseInfo, write, history
<1>3. CASE WriteHead
  <2>1. boot'.count = info.count
    BY <1>0, <1>3 DEF WriteHead, Infos
  <2> QED
    BY <1>3, <2>1 DEF WriteHead, write, history
<1>4. CASE WriteTail
  BY <1>4 DEF WriteTail, Restart
<1>5. CASE StartApplication
  BY <1>0, <1>5 DEF StartApplication, write
<1>6. CASE StartGolden
  <2>1. CASE SwReset("reset", "A", "REQUESTED") /\ UNCHANGED boots
    BY <1>6, <2>1, SwResetCount DEF StartGolden
  <2>2. CASE pc' = "loader" /\ UNCHANGED <<app, write, history>>
    BY <1>0, <1>6, <2>2 DEF StartGolden, write, history
  <2> QED
    BY <1>6, <2>1, <2>2 DEF StartGolden
<1>7. CASE VerifyAborts
  BY <1>0, <1>7 DEF VerifyAborts, Restart, history
<1>8. CASE AppReturns
  BY <1>0, <1>8 DEF AppReturns, write, history
<1>9. CASE SchedulerEnds
  BY <1>9, SwResetCount DEF SchedulerEnds
<1>10. CASE StackOverflow
  BY <1>10, SwResetCount DEF StackOverflow
<1>11. CASE UpdateImage
  BY <1>11 DEF UpdateImage, write, history
<1>12. ASSUME NEW t \in Types, SetCommand(t) PROVE CountInv'
  <2>1. info'.count = boot.count
    BY <1>0, <1>12 DEF SetCommand, Write, Infos
  <2> QED
    BY <1>0, <1>12, <2>1 DEF SetCommand, Write
<1>13. ASSUME NEW t \in Types, RebootCommand(t) PROVE CountInv'
  BY <1>13 DEF RebootCommand, write, history
<1>14. ASSUME NEW t \in Types, RebootDue(t) PROVE CountInv'
  BY <1>14, SwResetCount DEF RebootDue
<1>15. ASSUME NEW src \in Sources, Reset(src) PROVE CountInv'
  BY <1>0, <1>15 DEF Reset, Restart, Lose, TypeOK
<1>16. CASE UNCHANGED vars
  BY <1>16 DEF vars, write, history
<1> QED
  BY <1>1, <1>2, <1>3, <1>4, <1>5, <1>6, <1>7, <1>8, <1>9, <1>10, <1>11, <1>12, <1>13, <1>14,
     <1>15, <1>16 DEF Next, BootStep

-----------------------------------------------------------------------------
(* The invariant of the specification, and the properties it implies.      *)

\* The inductive invariant holds in every state.
THEOREM InvHolds == Spec => []IInv
<1>1. IInv /\ [Next]_vars => IInv'
  BY TypeStep, BudgetStep, AskedStep, CountStep DEF IInv
<1> QED
  BY InitIInv, <1>1, PTL DEF Spec

\* Every variable keeps its type, whatever resets cut short: attempts does
\* not overflow and a record is always a record.
THEOREM TypeCorrect == Spec => []TypeOK
<1>1. IInv => TypeOK
  BY DEF IInv
<1> QED
  BY <1>1, InvHolds, PTL

\* bl_main launches the application at most MaxAttempts times by software
\* and watchdog resets before get_boot_type gives up on it.
THEOREM LaunchesStayBounded == Spec => []LaunchesBounded
<1>1. IInv => LaunchesBounded
  BY DEF IInv, BudgetInv, LaunchesBounded
<1> QED
  BY <1>1, InvHolds, PTL

\* boot_info never holds a boot type nobody asked for.
THEOREM StoredTypeWasAsked == Spec => []StoredTypeAsked
<1>1. IInv => StoredTypeAsked
  BY DEF IInv, AskedInv
<1> QED
  BY <1>1, InvHolds, PTL

\* boot_info counts every boot as long as no write of it was cut or preempted
\* between its erase and its first part.
THEOREM CountStaysExact == Spec => []CountExact
<1>1. IInv => CountExact
  BY DEF IInv, CountInv
<1> QED
  BY <1>1, InvHolds, PTL
=============================================================================
