--------------------------- MODULE ServicesProofs ----------------------------
(***************************************************************************)
(* For every list of commands, every command line and every pool: the      *)
(* static variables of the interpreter are in their initial state between  *)
(* two commands, each packet buffer has one owner, the replies to a line   *)
(* are its answer, and only a long answer is hurt by an empty pool.        *)
(***************************************************************************)
EXTENDS Services, FiniteSetTheorems, SequenceTheorems, WellFoundedInduction, TLAPS

-----------------------------------------------------------------------------
(* The inductive invariant                                                 *)

States == [pxCommand : Nat, help : Nat, parameter_num : Nat]

\* The position that help and echo keep is theirs while they are in work.
TheirsAlone(s) ==
    /\ s \in States
    /\ s.pxCommand = 0 => s = AtRest
    /\ s.pxCommand # 0 => /\ Registered[s.pxCommand].name # "help" => s.help = 0
                          /\ Registered[s.pxCommand].name # "echo" => s.parameter_num = 0

\* Where the command line service goes by what the interpreter said last.
CliInv ==
    /\ pc["cli"] # "answer"
    /\ pc["cli"] \in {"read", "clone", "done", "failed", "again"} => state = AtRest
    /\ pc["cli"] \in {"send"} => (~result.more => state = AtRest)

IInv == DOMAIN pc = Tasks /\ TheirsAlone(state) /\ CliInv

-----------------------------------------------------------------------------
(* One call of the interpreter                                             *)

\* A callback keeps to its own static variable, and it has put it back when it
\* has nothing more to say.
CleanCallback(name, s, l) ==
    \E o : \E more \in BOOLEAN, after \in States :
        /\ Callback(name, s, l) = [out |-> o, more |-> more, state |-> after]
        /\ name # "help" => after.help = 0
        /\ name # "echo" => after.parameter_num = 0
        /\ more = FALSE => after.help = 0 /\ after.parameter_num = 0

LEMMA CallbackFacts ==
    ASSUME NEW s \in States, NEW name, NEW l,
           name # "help" => s.help = 0, name # "echo" => s.parameter_num = 0
    PROVE  CleanCallback(name, s, l)
<1>1. CASE name = "help"
  <2> DEFINE k == IF s.help = 0 THEN 1 ELSE s.help
             next == IF k = Len(Registered) THEN 0 ELSE k + 1
             after == [s EXCEPT !.help = next]
  <2>1. next \in Nat
    BY DEF States
  <2>2. Callback(name, s, l) = [out |-> Registered[k].name, more |-> next # 0, state |-> after]
    BY <1>1 DEF Callback, Help
  <2> HIDE DEF next, k
  <2>3. after \in States /\ after.help = next /\ after.parameter_num = s.parameter_num
    BY <2>1 DEF States
  <2> HIDE DEF after
  <2>4. (next # 0) \in BOOLEAN /\ ((next # 0) = FALSE => after.help = 0 /\ after.parameter_num = 0)
    BY <1>1, <2>3
  <2> QED
    BY <1>1, <2>2, <2>3, <2>4 DEF CleanCallback
<1>2. CASE name = "echo"
  <2> DEFINE n == s.parameter_num
             p == IF n = 0 THEN Null ELSE GetParameter(l, n)
             more == n = 0 \/ p # Null
             after == [s EXCEPT !.parameter_num = IF more THEN n + 1 ELSE 0]
  <2>1. more \in BOOLEAN
    OBVIOUS
  <2>2. Callback(name, s, l) =
           [out |-> IF n = 0 THEN Empty ELSE IF p = Null THEN Crlf ELSE p, more |-> more, state |-> after]
    BY <1>2 DEF Callback, Echo
  <2> HIDE DEF p, more
  <2>3. after \in States /\ after.help = s.help /\ (more = FALSE => after.parameter_num = 0)
    BY DEF States
  <2> HIDE DEF after
  <2>4. more = FALSE => after.help = 0 /\ after.parameter_num = 0
    BY <1>2, <2>3
  <2>5. name # "help" => after.help = 0
    BY <2>3
  <2> QED
    BY <1>2, <2>1, <2>2, <2>3, <2>4, <2>5 DEF CleanCallback
<1>3. CASE name # "help" /\ name # "echo"
  <2>1. Callback(name, s, l) = [out |-> name, more |-> FALSE, state |-> s]
    BY <1>3 DEF Callback
  <2> QED
    BY <1>3, <2>1 DEF CleanCallback
<1> QED
  BY <1>1, <1>2, <1>3

\* A call that says no more follows has put every static variable back.
CleanCall(s, l) ==
    \E o : \E more \in BOOLEAN, after \in States :
        /\ ProcessCommand(s, l) = [out |-> o, more |-> more, state |-> after]
        /\ TheirsAlone(after)
        /\ more = FALSE => after = AtRest

LEMMA CallFacts ==
    ASSUME NEW s, TheirsAlone(s), NEW l
    PROVE  CleanCall(s, l)
<1> DEFINE k == IF s.pxCommand # 0 THEN s.pxCommand ELSE Search(l)
           e == Registered[k].expected
           r == Callback(Registered[k].name, s, l)
           mismatch == s.pxCommand = 0 /\ e >= 0 /\ GetNumberOfParameters(l) # e
<1>0. s \in States
  BY DEF TheirsAlone
<1>1. ProcessCommand(s, l) =
         IF k = 0 THEN [out |-> NotRecognised, more |-> FALSE, state |-> s]
         ELSE IF mismatch THEN [out |-> Incorrect, more |-> FALSE, state |-> s]
         ELSE [r EXCEPT !.state.pxCommand = IF r.more THEN k ELSE 0]
  BY DEF ProcessCommand
<1>2. Search(l) \in Nat
  <2> DEFINE hits == {i \in DOMAIN Registered : l # <<>> /\ l[1] = Registered[i].name}
  <2>1. Search(l) = IF hits = {} THEN 0 ELSE CHOOSE i \in hits : \A j \in hits : i <= j
    BY DEF Search
  <2>2. hits \subseteq Nat
    BY RegisteredAssumption
  <2> HIDE DEF hits
  <2>3. ASSUME hits # {}
        PROVE  \E i \in hits : \A j \in hits : i <= j
    <3> DEFINE below == {ss \in Nat \X Nat : ss[1] < ss[2]}
    <3>1. IsWellFoundedOn(below, Nat)
      BY NatLessThanWellFounded DEF OpToRel
    <3> HIDE DEF below
    <3>2. \E i \in hits : \A j \in hits : <<j, i>> \notin below
      BY <2>2, <2>3, <3>1, WFMin
    <3>3. ASSUME NEW i \in Nat, NEW j \in Nat, <<j, i>> \notin below
          PROVE  i <= j
      BY <3>3 DEF below
    <3> HIDE DEF k
    <3> QED
      BY <2>2, <3>2, <3>3
  <2>4. CASE hits = {}
    BY <2>1, <2>4
  <2>5. CASE hits # {}
    <3>1. (CHOOSE i \in hits : \A j \in hits : i <= j) \in hits
      BY <2>3, <2>5
    <3> QED
      BY <2>1, <2>2, <2>5, <3>1
  <2> QED
    BY <2>4, <2>5
<1>3. CASE k = 0
  <2>1. ProcessCommand(s, l) = [out |-> NotRecognised, more |-> FALSE, state |-> s]
    BY <1>1, <1>3
  <2>2. s = AtRest
    BY <1>3 DEF TheirsAlone
  <2> QED
    BY <1>0, <2>1, <2>2 DEF CleanCall
<1>4. CASE k # 0 /\ mismatch
  <2>1. ProcessCommand(s, l) = [out |-> Incorrect, more |-> FALSE, state |-> s]
    BY <1>1, <1>4
  <2>2. s = AtRest
    BY <1>4 DEF TheirsAlone
  <2> QED
    BY <1>0, <2>1, <2>2 DEF CleanCall
<1>5. CASE k # 0 /\ ~mismatch
  <2>1. /\ Registered[k].name # "help" => s.help = 0
        /\ Registered[k].name # "echo" => s.parameter_num = 0
    BY DEF TheirsAlone, AtRest
  <2>2. PICK o : \E more \in BOOLEAN, after \in States :
              /\ r = [out |-> o, more |-> more, state |-> after]
              /\ Registered[k].name # "help" => after.help = 0
              /\ Registered[k].name # "echo" => after.parameter_num = 0
              /\ more = FALSE => after.help = 0 /\ after.parameter_num = 0
    <3> HIDE DEF k, mismatch
    <3>1. CleanCallback(Registered[k].name, s, l)
      BY <1>0, <2>1, CallbackFacts
    <3> QED
      BY <3>1 DEF CleanCallback
  <2>3. PICK more \in BOOLEAN, after \in States :
              /\ r = [out |-> o, more |-> more, state |-> after]
              /\ Registered[k].name # "help" => after.help = 0
              /\ Registered[k].name # "echo" => after.parameter_num = 0
              /\ more = FALSE => after.help = 0 /\ after.parameter_num = 0
    BY <2>2
  <2>4. k \in Nat
    BY <1>0, <1>2 DEF States
  <2>5. ProcessCommand(s, l) = [r EXCEPT !.state.pxCommand = IF r.more THEN k ELSE 0]
    BY <1>1, <1>5
  <2> HIDE DEF k, r, mismatch
  <2> DEFINE now == [after EXCEPT !.pxCommand = IF more THEN k ELSE 0]
  <2>6. ProcessCommand(s, l) = [out |-> o, more |-> more, state |-> now]
    BY <2>3, <2>5
  <2>7. /\ now \in States /\ now.help = after.help /\ now.parameter_num = after.parameter_num
        /\ now.pxCommand = IF more THEN k ELSE 0
    BY <2>4 DEF States
  <2> HIDE DEF now
  <2>8. more = FALSE => now = AtRest
    BY <2>3, <2>7 DEF States, AtRest
  <2>9. TheirsAlone(now)
    BY <1>5, <2>3, <2>7, <2>8 DEF TheirsAlone
  <2> QED
    BY <2>6, <2>7, <2>8, <2>9 DEF CleanCall
<1> QED
  BY <1>3, <1>4, <1>5

LEMMA CallStep ==
    ASSUME TheirsAlone(state), Call
    PROVE  TheirsAlone(state') /\ (~result'.more => state' = AtRest)
<1> DEFINE r == ProcessCommand(state, line)
<1>1. CleanCall(state, line)
  BY CallFacts
<1>2. PICK o : \E more \in BOOLEAN, after \in States :
         r = [out |-> o, more |-> more, state |-> after] /\ TheirsAlone(after) /\ (more = FALSE => after = AtRest)
  BY <1>1 DEF CleanCall
<1>3. PICK more \in BOOLEAN, after \in States :
         r = [out |-> o, more |-> more, state |-> after] /\ TheirsAlone(after) /\ (more = FALSE => after = AtRest)
  BY <1>2
<1>4. state' = r.state /\ result' = [out |-> r.out, more |-> r.more]
  BY DEF Call
<1> HIDE DEF r
<1>5. state' = after /\ result'.more = more
  BY <1>3, <1>4
<1> QED
  BY <1>3, <1>5

-----------------------------------------------------------------------------
(* Every step keeps the invariant                                          *)

\* A step of another task, or of CSP, touches nothing of the command line's.
LEMMA ElsewhereStep ==
    ASSUME IInv, UNCHANGED <<state, result>>, DOMAIN pc' = Tasks, pc'["cli"] = pc["cli"]
    PROVE  IInv'
BY DEF IInv, CliInv, TheirsAlone, AtRest, States

LEMMA InitIInv == Init => IInv
BY DEF Init, IInv, CliInv, TheirsAlone, AtRest, States, Tasks

LEMMA NextIInv == IInv /\ [Next]_vars => IInv'
<1> SUFFICES ASSUME IInv, [Next]_vars
             PROVE  IInv'
  OBVIOUS
<1> "cli" \in Tasks
  BY DEF Tasks
<1>0. DOMAIN pc = Tasks /\ TheirsAlone(state) /\ CliInv
  BY DEF IInv
<1>1. ASSUME NEW t \in Tasks, Arrive(t) \/ Close(t)
      PROVE  IInv'
  BY <1>0, <1>1, ElsewhereStep DEF Arrive, Close, cli
<1>2. ASSUME NEW t \in Tasks, Take(t)
      PROVE  IInv'
  BY <1>0, <1>2, ElsewhereStep DEF Take, Goto, cli
<1>3. ASSUME NEW t \in Tasks, AnswerPacket(t)
      PROVE  IInv'
  <2>1. CASE t # "cli"
    BY <1>0, <1>3, <2>1, ElsewhereStep DEF AnswerPacket, Finish, Goto, cli
  <2>2. CASE t = "cli"
    BY <1>0, <1>3, <2>2 DEF AnswerPacket, CliInv
  <2> QED
    BY <2>1, <2>2
<1>4. ASSUME NEW b \in Buffers, Sent(b)
      PROVE  IInv'
  BY <1>0, <1>4, ElsewhereStep DEF Sent, cli
<1>5. ASSUME CliStep
      PROVE  IInv'
  <2>1. CASE CliRead
    BY <1>0, <2>1 DEF CliRead, Read, Goto, IInv, CliInv, TheirsAlone
  <2>2. CASE CliClone
    BY <1>0, <2>2 DEF CliClone, Goto, IInv, CliInv, TheirsAlone
  <2>3. CASE CliProcess
    <3>1. TheirsAlone(state') /\ (~result'.more => state' = AtRest)
      BY <1>0, <2>3, CallStep DEF CliProcess
    <3> QED
      BY <1>0, <2>3, <3>1 DEF CliProcess, Goto, IInv, CliInv, TheirsAlone
  <2>4. CASE CliSend
    BY <1>0, <2>4 DEF CliSend, Goto, IInv, CliInv, TheirsAlone, cli
  <2>5. CASE CliNext
    BY <1>0, <2>5 DEF CliNext, Goto, IInv, CliInv, TheirsAlone, cli
  <2>6. CASE CliDone
    BY <1>0, <2>6 DEF CliDone, Goto, IInv, CliInv, TheirsAlone
  <2>7. CASE CliDrain
    <3>1. TheirsAlone(state') /\ (~result'.more => state' = AtRest)
      BY <1>0, <2>7, CallStep DEF CliDrain
    <3> QED
      BY <1>0, <2>7, <3>1 DEF CliDrain, Goto, IInv, CliInv, TheirsAlone
  <2>8. CASE CliFailed
    BY <1>0, <2>8 DEF CliFailed, Goto, IInv, CliInv, TheirsAlone
  <2>9. CASE CliFreeAgain
    BY <1>0, <2>9 DEF CliFreeAgain, Finish, Goto, IInv, CliInv, TheirsAlone, cli
  <2>10. CASE DataAbort
    BY <1>0, <2>10 DEF DataAbort, IInv, CliInv, TheirsAlone, AtRest, States
  <2> QED
    BY <1>5, <2>1, <2>2, <2>3, <2>4, <2>5, <2>6, <2>7, <2>8, <2>9, <2>10 DEF CliStep
<1>6. ASSUME UNCHANGED vars
      PROVE  IInv'
  BY <1>0, <1>6, ElsewhereStep DEF vars, cli
<1> QED
  BY <1>1, <1>2, <1>3, <1>4, <1>5, <1>6 DEF Next

-----------------------------------------------------------------------------
\* No command, however it ended, leaves anything of itself in the static
\* variables for the next command line to meet (bl_cli.c:359-360).
THEOREM CleanBetweenCommands == Spec => []InterpreterAtRest
<1>1. IInv => InterpreterAtRest
  BY DEF IInv, CliInv, InterpreterAtRest
<1> QED
  BY <1>1, InitIInv, NextIInv, PTL DEF Spec

-----------------------------------------------------------------------------
(* Where each buffer is                                                    *)

\* The places: the pool, CSP's list, the clone, what a task works on, and the
\* connection of a task.
Spots == ({"free", "out", "original"} \X {"cli"}) \cup ({"packet", "queue"} \X Tasks)

\* At "again" the service only remembers a packet that is no longer its own.
Held(t) == IF t = "cli" /\ pc[t] = "again" THEN {} ELSE {packet[t]} \ {NoBuffer}
Queued(t) == {queue[t][i] : i \in DOMAIN queue[t]}

Map(pool0, csp, clone, held, queued) ==
    [p \in Spots |-> CASE p[1] = "free" -> pool0
                       [] p[1] = "out" -> csp
                       [] p[1] = "original" -> clone
                       [] p[1] = "packet" -> held[p[2]]
                       [] p[1] = "queue" -> queued[p[2]]]

At == Map(free, out, {original} \ {NoBuffer},
          [t \in Tasks |-> Held(t)], [t \in Tasks |-> Queued(t)])

OneSpot(at) == \A b \in Buffers : \E p \in Spots : \A q \in Spots : b \in at[q] <=> q = p

QueuedOnce ==
    \A t \in Tasks : \A i, j \in DOMAIN queue[t] : queue[t][i] = queue[t][j] => i = j

Labels == {"read", "answer", "clone", "process", "send", "next", "done", "drain", "failed", "again"}

PoolTypes ==
    /\ free \subseteq Buffers /\ out \subseteq Buffers
    /\ original \in Buffers \cup {NoBuffer}
    /\ packet \in [Tasks -> Buffers \cup {NoBuffer}]
    /\ queue \in [Tasks -> Seq(Buffers)]
    /\ pc \in [Tasks -> Labels]
    /\ pc["cli"] # "answer"
    /\ stolen \in BOOLEAN

\* Which of the two buffers of a command there is, by where the service is.
PacketInv ==
    /\ \A t \in Tasks :
          /\ pc[t] \in {"read", "next", "done"} => packet[t] = NoBuffer
          /\ pc[t] \in {"answer", "clone", "send", "drain", "failed"} => packet[t] \in Buffers
    /\ pc["cli"] \in {"read", "clone", "again"} => original = NoBuffer

\* A queue is not longer than what has arrived.
QueueBound ==
    /\ arrived \in 0 .. MaxPackets
    /\ \A t \in Tasks : Len(queue[t]) <= arrived

Owned == stolen \/ (OneSpot(At) /\ QueuedOnce)

Free == <<"free", "cli">>
Out == <<"out", "cli">>
Original == <<"original", "cli">>
PacketOf(t) == <<"packet", t>>
QueueOf(t) == <<"queue", t>>

\* Every place is one of these, and they differ.
LEMMA SpotCases ==
    /\ Free \in Spots /\ Out \in Spots /\ Original \in Spots
    /\ \A t \in Tasks : PacketOf(t) \in Spots /\ QueueOf(t) \in Spots
    /\ \A p \in Spots : \/ p = Free \/ p = Out \/ p = Original
                        \/ \E t \in Tasks : p = PacketOf(t) \/ p = QueueOf(t)
<1> "cli" \in Tasks
  BY DEF Tasks
<1> HIDE DEF Tasks
<1> QED
  BY DEF Spots, Free, Out, Original, PacketOf, QueueOf

LEMMA SpotsDiffer ==
    /\ Free # Out /\ Free # Original /\ Out # Original
    /\ \A t \in Tasks : /\ PacketOf(t) \notin {Free, Out, Original}
                        /\ QueueOf(t) \notin {Free, Out, Original}
    /\ \A t, u \in Tasks : /\ PacketOf(t) # QueueOf(u)
                           /\ PacketOf(t) = PacketOf(u) => t = u
                           /\ QueueOf(t) = QueueOf(u) => t = u
BY DEF Free, Out, Original, PacketOf, QueueOf

LEMMA MapFacts ==
    ASSUME NEW f, NEW o, NEW k, NEW h, NEW q, NEW m, m = Map(f, o, k, h, q)
    PROVE  /\ m[Free] = f /\ m[Out] = o /\ m[Original] = k
           /\ \A t \in Tasks : m[PacketOf(t)] = h[t] /\ m[QueueOf(t)] = q[t]
<1>1. /\ m[Free] = f /\ m[Out] = o /\ m[Original] = k
  BY SpotCases DEF Map, Free, Out, Original
<1>2. ASSUME NEW t \in Tasks
      PROVE  m[PacketOf(t)] = h[t] /\ m[QueueOf(t)] = q[t]
  BY SpotCases DEF Map, PacketOf, QueueOf
<1> QED
  BY <1>1, <1>2

\* What is at a place, before a step and after it.
LEMMA AtFacts ==
    /\ At[Free] = free /\ At[Out] = out /\ At[Original] = {original} \ {NoBuffer}
    /\ \A t \in Tasks : At[PacketOf(t)] = Held(t) /\ At[QueueOf(t)] = Queued(t)
<1> DEFINE h == [t \in Tasks |-> Held(t)]
           q == [t \in Tasks |-> Queued(t)]
<1>1. At = Map(free, out, {original} \ {NoBuffer}, h, q)
  BY DEF At
<1>2. \A t \in Tasks : h[t] = Held(t) /\ q[t] = Queued(t)
  OBVIOUS
<1> HIDE DEF h, q
<1> QED
  BY <1>1, <1>2, MapFacts

LEMMA AtFactsNext ==
    /\ At'[Free] = free' /\ At'[Out] = out' /\ At'[Original] = {original'} \ {NoBuffer}
    /\ \A t \in Tasks : At'[PacketOf(t)] = Held(t)' /\ At'[QueueOf(t)] = Queued(t)'
<1> DEFINE h == [t \in Tasks |-> Held(t)']
           q == [t \in Tasks |-> Queued(t)']
<1>1. At' = Map(free', out', {original'} \ {NoBuffer}, h, q)
  BY DEF At
<1>2. \A t \in Tasks : h[t] = Held(t)' /\ q[t] = Queued(t)'
  OBVIOUS
<1> HIDE DEF h, q
<1> QED
  BY <1>1, <1>2, MapFacts

\* Buffers that go from one place to another are in one place before and after.
LEMMA Moves ==
    ASSUME NEW at, NEW after, OneSpot(at), NEW p \in Spots, NEW q \in Spots, p # q,
           NEW S, S \subseteq at[p], after[p] = at[p] \ S, after[q] = at[q] \cup S,
           \A r \in Spots \ {p, q} : after[r] = at[r]
    PROVE  OneSpot(after)
<1> SUFFICES ASSUME NEW b \in Buffers
             PROVE  \E s \in Spots : \A r \in Spots : b \in after[r] <=> r = s
  BY DEF OneSpot
<1>1. PICK s \in Spots : \A r \in Spots : b \in at[r] <=> r = s
  BY DEF OneSpot
<1>2. CASE b \in S
  <2>1. s = p
    BY <1>1, <1>2
  <2>2. \A r \in Spots : b \in after[r] <=> r = q
    BY <1>1, <1>2, <2>1
  <2> QED
    BY <2>2
<1>3. CASE b \notin S
  <2>1. \A r \in Spots : b \in after[r] <=> r = s
    BY <1>1, <1>3
  <2> QED
    BY <2>1
<1> QED
  BY <1>2, <1>3

LEMMA Stays ==
    ASSUME NEW at, NEW after, OneSpot(at), \A r \in Spots : after[r] = at[r]
    PROVE  OneSpot(after)
BY DEF OneSpot

-----------------------------------------------------------------------------
(* The types and the bounds                                                *)

TypesInv == PoolTypes /\ PacketInv /\ QueueBound

LEMMA AtStart ==
    ASSUME free = Buffers, out = {}, queue = [t \in Tasks |-> <<>>],
           pc = [t \in Tasks |-> "read"], packet = [t \in Tasks |-> NoBuffer],
           original = NoBuffer, stolen = FALSE, arrived \in 0 .. MaxPackets
    PROVE  TypesInv
<1> "cli" \in Tasks
  BY DEF Tasks
<1>1. PoolTypes
  <2>1. <<>> \in Seq(Buffers)
    OBVIOUS
  <2>2. queue \in [Tasks -> Seq(Buffers)]
    BY <2>1
  <2>3. packet \in [Tasks -> Buffers \cup {NoBuffer}]
    OBVIOUS
  <2>4. /\ pc["cli"] # "answer"
        /\ pc \in [Tasks -> Labels]
    BY DEF Labels
  <2> QED
    BY <2>2, <2>3, <2>4 DEF PoolTypes, Labels
<1>2. PacketInv
  BY DEF PacketInv
<1>3. QueueBound
  BY DEF QueueBound
<1> QED
  BY <1>1, <1>2, <1>3 DEF TypesInv

LEMMA InitTypes == Init => TypesInv
<1> SUFFICES ASSUME Init
             PROVE  TypesInv
  OBVIOUS
<1>1. 0 \in 0 .. MaxPackets
  BY ServicesAssumption
<1> QED
  BY <1>1, AtStart DEF Init

LEMMA NextTypes == TypesInv /\ [Next]_vars => TypesInv'
<1> SUFFICES ASSUME TypesInv, [Next]_vars
             PROVE  TypesInv'
  OBVIOUS
<1> USE ServicesAssumption
<1>0. PoolTypes /\ PacketInv /\ QueueBound
  BY DEF TypesInv
<1>c. "cli" \in Tasks
  BY DEF Tasks
<1>1. ASSUME NEW t \in Tasks, Arrive(t)
      PROVE  TypesInv'
  <2>1. PICK b \in free : free' = free \ {b} /\ queue' = [queue EXCEPT ![t] = Append(@, b)]
    BY <1>1 DEF Arrive
  <2>2. queue' \in [Tasks -> Seq(Buffers)]
    BY <1>0, <2>1 DEF PoolTypes, Labels
  <2>3. \A u \in Tasks : Len(queue'[u]) <= Len(queue[u]) + 1
    BY <1>0, <2>1 DEF PoolTypes, Labels
  <2>4. arrived' = arrived + 1 /\ arrived' \in 0 .. MaxPackets
    BY <1>0, <1>1 DEF Arrive, QueueBound
  <2>5. QueueBound'
    BY <1>0, <2>2, <2>3, <2>4 DEF QueueBound, PoolTypes, Labels
  <2>6. PoolTypes' /\ PacketInv'
    BY <1>0, <1>1, <2>1, <2>2 DEF Arrive, PoolTypes, Labels, PacketInv, cli
  <2> QED
    BY <2>5, <2>6 DEF TypesInv
<1>2. ASSUME NEW t \in Tasks, Close(t)
      PROVE  TypesInv'
  <2>1. queue' \in [Tasks -> Seq(Buffers)] /\ \A u \in Tasks : Len(queue'[u]) <= Len(queue[u])
    BY <1>0, <1>2 DEF Close, PoolTypes, Labels
  <2>2. {queue[t][i] : i \in DOMAIN queue[t]} \subseteq Buffers
    BY <1>0 DEF PoolTypes, Labels
  <2>3. free' \subseteq Buffers
    BY <1>0, <1>2, <2>2 DEF Close, Freed, PoolTypes, Labels
  <2>4. QueueBound'
    BY <1>0, <1>2, <2>1 DEF QueueBound, PoolTypes, Labels, Close, history
  <2> QED
    BY <1>0, <1>2, <2>1, <2>3, <2>4 DEF Close, PoolTypes, Labels, PacketInv, TypesInv, cli, history
<1>3. ASSUME NEW t \in Tasks, Read(t)
      PROVE  /\ free' \subseteq Buffers /\ out' \subseteq Buffers /\ stolen' \in BOOLEAN
             /\ queue' \in [Tasks -> Seq(Buffers)] /\ QueueBound'
             /\ packet' = [packet EXCEPT ![t] = Head(queue[t])] /\ Head(queue[t]) \in Buffers
  <2>1. queue' \in [Tasks -> Seq(Buffers)] /\ \A u \in Tasks : Len(queue'[u]) <= Len(queue[u])
    BY <1>0, <1>3 DEF Read, PoolTypes, Labels
  <2>2. Head(queue[t]) \in Buffers
    BY <1>0, <1>3 DEF Read, PoolTypes, Labels
  <2>3. QueueBound'
    BY <1>0, <1>3, <2>1 DEF QueueBound, PoolTypes, Labels, Read, history
  <2> QED
    BY <1>0, <1>3, <2>1, <2>2, <2>3 DEF Read, PoolTypes, Labels, history
<1>4. ASSUME NEW t \in Tasks, Take(t)
      PROVE  TypesInv'
  <2>1. Read(t) /\ t # "cli" /\ pc' = [pc EXCEPT ![t] = "answer"] /\ UNCHANGED original
    BY <1>4 DEF Take, Goto, cli
  <2>2. PoolTypes'
    <3>1. packet' \in [Tasks -> Buffers \cup {NoBuffer}]
      BY <1>0, <1>3, <2>1 DEF PoolTypes, Labels
    <3>2. /\ pc'["cli"] # "answer"
          /\ pc' \in [Tasks -> Labels]
      BY <1>0, <1>c, <2>1 DEF PoolTypes, Labels
    <3> QED
      BY <1>0, <1>3, <2>1, <3>1, <3>2 DEF PoolTypes, Labels
  <2>3. PacketInv'
    BY <1>0, <1>3, <2>1 DEF PoolTypes, Labels, PacketInv
  <2> QED
    BY <1>3, <2>1, <2>2, <2>3 DEF TypesInv
<1>5. ASSUME NEW t \in Tasks, AnswerPacket(t)
      PROVE  TypesInv'
  BY <1>0, <1>5 DEF AnswerPacket, Finish, Goto, Freed, PoolTypes, Labels, PacketInv, QueueBound, TypesInv, cli, history
<1>6. ASSUME NEW b \in Buffers, Sent(b)
      PROVE  TypesInv'
  BY <1>0, <1>6 DEF Sent, Freed, PoolTypes, Labels, PacketInv, QueueBound, TypesInv, cli, history
<1>7. ASSUME CliStep
      PROVE  TypesInv'
  <2>1. CASE CliRead
    <3>1. Read("cli") /\ pc["cli"] = "read" /\ pc' = [pc EXCEPT !["cli"] = "clone"] /\ UNCHANGED original
      BY <2>1 DEF CliRead, Goto, Read
    <3>2. PoolTypes'
      BY <1>0, <1>c, <1>3, <3>1 DEF PoolTypes, Labels
    <3>3. PacketInv'
      BY <1>0, <1>c, <1>3, <3>1 DEF PoolTypes, Labels, PacketInv
    <3> QED
      BY <1>c, <1>3, <3>1, <3>2, <3>3 DEF TypesInv
  <2>2. CASE CliClone
    BY <1>0, <1>c, <2>2 DEF CliClone, Goto, PoolTypes, Labels, PacketInv, QueueBound, TypesInv, history
  <2>3. CASE CliProcess
    BY <1>0, <1>c, <2>3 DEF CliProcess, Goto, PoolTypes, Labels, PacketInv, QueueBound, TypesInv, pool, history
  <2>4. CASE CliSend
    BY <1>0, <1>c, <2>4 DEF CliSend, Goto, PoolTypes, Labels, PacketInv, QueueBound, TypesInv, cli, history
  <2>5. CASE CliNext
    BY <1>0, <1>c, <2>5 DEF CliNext, Goto, PoolTypes, Labels, PacketInv, QueueBound, TypesInv, cli, history
  <2>6. CASE CliDone
    BY <1>0, <1>c, <2>6 DEF CliDone, Goto, Freed, PoolTypes, Labels, PacketInv, QueueBound, TypesInv, history
  <2>7. CASE CliDrain
    BY <1>0, <1>c, <2>7 DEF CliDrain, Goto, PoolTypes, Labels, PacketInv, QueueBound, TypesInv, pool, history
  <2>8. CASE CliFailed
    BY <1>0, <1>c, <2>8 DEF CliFailed, Goto, Freed, PoolTypes, Labels, PacketInv, QueueBound, TypesInv, history
  <2>9. CASE CliFreeAgain
    BY <1>0, <1>c, <2>9 DEF CliFreeAgain, Finish, Goto, Freed, PoolTypes, Labels, PacketInv, QueueBound, TypesInv, cli
  <2>10. CASE DataAbort
    <3>1. <<>> \in Seq(Buffers)
      OBVIOUS
    <3>2. queue' \in [Tasks -> Seq(Buffers)] /\ packet' \in [Tasks -> Buffers \cup {NoBuffer}]
      BY <2>10, <3>1 DEF DataAbort
    <3>3. /\ pc'["cli"] # "answer"
          /\ pc' \in [Tasks -> Labels]
      BY <1>c, <2>10 DEF DataAbort, Labels
    <3>4. PoolTypes'
      BY <2>10, <3>2, <3>3 DEF DataAbort, PoolTypes, Labels
    <3>5. PacketInv'
      BY <1>c, <2>10 DEF DataAbort, PacketInv
    <3>6. QueueBound'
      BY <1>0, <2>10 DEF DataAbort, QueueBound
    <3> QED
      BY <3>4, <3>5, <3>6 DEF TypesInv
  <2> QED
    BY <1>7, <2>1, <2>2, <2>3, <2>4, <2>5, <2>6, <2>7, <2>8, <2>9, <2>10 DEF CliStep
<1>8. ASSUME UNCHANGED vars
      PROVE  TypesInv'
  BY <1>0, <1>8 DEF vars, PoolTypes, Labels, PacketInv, QueueBound, TypesInv, pool, cli, history
<1> QED
  BY <1>1, <1>2, <1>4, <1>5, <1>6, <1>7, <1>8 DEF Next

-----------------------------------------------------------------------------
(* One place for each buffer                                               *)

\* All in the pool: what the start leaves.
LEMMA AllFree ==
    ASSUME free = Buffers, out = {}, queue = [t \in Tasks |-> <<>>],
           packet = [t \in Tasks |-> NoBuffer], original = NoBuffer
    PROVE  OneSpot(At) /\ QueuedOnce
<1>1. \A t \in Tasks : Held(t) = {} /\ Queued(t) = {}
  BY DEF Held, Queued
<1>2. At[Out] = {} /\ At[Original] = {} /\ At[Free] = Buffers
  BY AtFacts
<1>3. ASSUME NEW p \in Spots, p # Free
      PROVE  At[p] = {}
  BY <1>1, <1>2, <1>3, AtFacts, SpotCases
<1>4. OneSpot(At)
  BY <1>2, <1>3, SpotCases DEF OneSpot
<1>5. QueuedOnce
  BY DEF QueuedOnce
<1> QED
  BY <1>4, <1>5

\* What one step of the tasks or of CSP moves: from one place to another.
Moved(p, q, S) ==
    /\ p # q /\ S \subseteq At[p]
    /\ At'[p] = At[p] \ S /\ At'[q] = At[q] \cup S
    /\ \A r \in Spots \ {p, q} : At'[r] = At[r]

LEMMA MovedOne ==
    ASSUME OneSpot(At), NEW p \in Spots, NEW q \in Spots, NEW S, Moved(p, q, S)
    PROVE  OneSpot(At')
BY Moves DEF Moved

LEMMA SameQueues ==
    ASSUME QueuedOnce, UNCHANGED queue
    PROVE  QueuedOnce' /\ \A t \in Tasks : Queued(t)' = Queued(t)
BY DEF QueuedOnce, Queued

\* A step of one task, by what it works on after it and where it is then.
LEMMA HeldAfter ==
    ASSUME PoolTypes, NEW t \in Tasks, NEW l, NEW b, pc' = [pc EXCEPT ![t] = l],
           packet' = [packet EXCEPT ![t] = b] \/ (UNCHANGED packet /\ b = packet[t])
    PROVE  /\ \A u \in Tasks \ {t} : Held(u)' = Held(u)
           /\ Held(t)' = IF t = "cli" /\ l = "again" THEN {} ELSE {b} \ {NoBuffer}
<1>1. packet'[t] = b /\ pc'[t] = l /\ \A u \in Tasks \ {t} : packet'[u] = packet[u] /\ pc'[u] = pc[u]
  BY DEF PoolTypes, Labels
<1> QED
  BY <1>1 DEF Held

\* A step that leaves the connections alone and moves what it moves.
LEMMA QuietStep ==
    ASSUME OneSpot(At), QueuedOnce, UNCHANGED queue, NEW p \in Spots, NEW q \in Spots, NEW S,
           p # q, S \subseteq At[p], At'[p] = At[p] \ S, At'[q] = At[q] \cup S,
           {Free, Out, Original} \subseteq {p, q} \cup {r \in Spots : At'[r] = At[r]},
           \A t \in Tasks : PacketOf(t) \in {p, q} \/ Held(t)' = Held(t)
    PROVE  OneSpot(At') /\ QueuedOnce'
<1>1. QueuedOnce' /\ \A t \in Tasks : Queued(t)' = Queued(t)
  BY SameQueues
<1>2. ASSUME NEW r \in Spots \ {p, q}
      PROVE  At'[r] = At[r]
  <2>1. CASE r \in {Free, Out, Original}
    BY <2>1
  <2>2. CASE \E t \in Tasks : r = PacketOf(t) \/ r = QueueOf(t)
    BY <1>1, <2>2, AtFacts, AtFactsNext
  <2> QED
    BY <2>1, <2>2, SpotCases
<1> QED
  BY <1>1, <1>2, MovedOne DEF Moved

LEMMA QuietNothing ==
    ASSUME OneSpot(At), QueuedOnce, UNCHANGED <<queue, free, out, original>>,
           \A t \in Tasks : Held(t)' = Held(t)
    PROVE  OneSpot(At') /\ QueuedOnce'
<1>1. QueuedOnce' /\ \A t \in Tasks : Queued(t)' = Queued(t)
  BY SameQueues
<1>2. \A r \in Spots : At'[r] = At[r]
  BY <1>1, AtFacts, AtFactsNext, SpotCases
<1> QED
  BY <1>1, <1>2, Stays

LEMMA NextOwned == TypesInv /\ Owned /\ [Next]_vars => Owned'
<1> SUFFICES ASSUME TypesInv, Owned, [Next]_vars, ~stolen'
             PROVE  OneSpot(At') /\ QueuedOnce'
  BY DEF Owned
<1> USE ServicesAssumption
<1>0. PoolTypes /\ PacketInv
  BY DEF TypesInv
<1>c. "cli" \in Tasks
  BY DEF Tasks
<1>s. /\ Free \in Spots /\ Out \in Spots /\ Original \in Spots
      /\ \A t \in Tasks : PacketOf(t) \in Spots /\ QueueOf(t) \in Spots
  BY SpotCases
<1> HIDE DEF Free, Out, Original, PacketOf, QueueOf
<1>a. (OneSpot(At) /\ QueuedOnce) \/ DataAbort
  <2>1. CASE DataAbort
    BY <2>1
  <2>2. CASE ~DataAbort
    <3>1. ~stolen
      BY <2>2, <1>0 DEF Next, CliStep, CliRead, CliClone, CliProcess, CliSend, CliNext, CliDone, CliDrain,
                        CliFailed, CliFreeAgain, Arrive, Close, Take, Read, AnswerPacket, Sent, vars, history, PoolTypes
    <3> QED
      BY <3>1 DEF Owned
  <2> QED
    BY <2>1, <2>2
<1>1. ASSUME NEW t \in Tasks, Arrive(t), OneSpot(At), QueuedOnce
      PROVE  OneSpot(At') /\ QueuedOnce'
  <2>1. PICK b \in free : free' = free \ {b} /\ queue' = [queue EXCEPT ![t] = Append(@, b)]
    BY <1>1 DEF Arrive
  <2>2. UNCHANGED <<out, pc, packet, original>>
    BY <1>1 DEF Arrive, cli
  <2>3. queue[t] \in Seq(Buffers) /\ b \in Buffers
    BY <1>0, <2>1 DEF PoolTypes, Labels
  <2>4. /\ DOMAIN queue'[t] = DOMAIN queue[t] \cup {Len(queue[t]) + 1} /\ Len(queue[t]) + 1 \notin DOMAIN queue[t]
        /\ \A i \in DOMAIN queue[t] : queue'[t][i] = queue[t][i]
        /\ queue'[t][Len(queue[t]) + 1] = b
    BY <1>0, <2>1, <2>3 DEF PoolTypes, Labels
  <2>5. \A u \in Tasks \ {t} : queue'[u] = queue[u]
    BY <1>0, <2>1 DEF PoolTypes, Labels
  <2>6. Queued(t)' = Queued(t) \cup {b} /\ \A u \in Tasks \ {t} : Queued(u)' = Queued(u)
    BY <2>4, <2>5 DEF Queued
  <2>7. \A u \in Tasks : Held(u)' = Held(u)
    BY <2>2 DEF Held
  <2>8. Moved(Free, QueueOf(t), {b})
    <3>1. At'[Free] = At[Free] \ {b} /\ {b} \subseteq At[Free] /\ At'[QueueOf(t)] = At[QueueOf(t)] \cup {b}
      BY <2>1, <2>6, AtFacts, AtFactsNext
    <3>2. ASSUME NEW r \in Spots \ {Free, QueueOf(t)}
          PROVE  At'[r] = At[r]
      BY <2>2, <2>6, <2>7, AtFacts, AtFactsNext, SpotCases
    <3> QED
      BY <3>1, <3>2, SpotsDiffer DEF Moved
  <2>9. b \notin Queued(t)
    <3>1. b \in At[Free]
      BY <2>1, AtFacts
    <3>2. PICK p \in Spots : \A q \in Spots : b \in At[q] <=> q = p
      BY <1>1, <2>3 DEF OneSpot
    <3>3. b \notin At[QueueOf(t)]
      BY <1>s, <3>1, <3>2, SpotsDiffer
    <3> QED
      BY <3>3, AtFacts
  <2>10. QueuedOnce'
    BY <1>1, <2>4, <2>5, <2>9 DEF QueuedOnce, Queued
  <2> QED
    BY <1>1, <1>s, <2>8, <2>10, MovedOne
<1>2. ASSUME NEW t \in Tasks, Close(t), OneSpot(At), QueuedOnce
      PROVE  OneSpot(At') /\ QueuedOnce'
  <2>1. queue' = [queue EXCEPT ![t] = <<>>] /\ free' = free \cup (Queued(t) \ {NoBuffer})
    BY <1>2 DEF Close, Freed, Queued
  <2>2. UNCHANGED <<out, pc, packet, original>>
    BY <1>2 DEF Close, cli
  <2>3. Queued(t) \subseteq Buffers
    BY <1>0 DEF PoolTypes, Labels, Queued
  <2>4. Queued(t)' = {} /\ \A u \in Tasks \ {t} : Queued(u)' = Queued(u)
    BY <1>0, <2>1 DEF Queued, PoolTypes, Labels
  <2>5. \A u \in Tasks : Held(u)' = Held(u)
    BY <2>2 DEF Held
  <2>6. free' = free \cup Queued(t)
    BY <2>1, <2>3
  <2>7. Moved(QueueOf(t), Free, Queued(t))
    <3>1. At'[Free] = At[Free] \cup Queued(t) /\ At'[QueueOf(t)] = At[QueueOf(t)] \ Queued(t)
      BY <2>4, <2>6, AtFacts, AtFactsNext
    <3>2. ASSUME NEW r \in Spots \ {Free, QueueOf(t)}
          PROVE  At'[r] = At[r]
      BY <2>2, <2>4, <2>5, AtFacts, AtFactsNext, SpotCases
    <3>3. Queued(t) \subseteq At[QueueOf(t)]
      BY AtFacts
    <3> QED
      BY <3>1, <3>2, <3>3, SpotsDiffer DEF Moved
  <2>8. QueuedOnce'
    BY <1>0, <1>2, <2>1 DEF QueuedOnce, PoolTypes, Labels
  <2> QED
    BY <1>2, <1>s, <2>7, <2>8, MovedOne
<1>3. ASSUME NEW t \in Tasks, Read(t), NEW l, l # "again", pc' = [pc EXCEPT ![t] = l], UNCHANGED original,
             OneSpot(At), QueuedOnce
      PROVE  OneSpot(At') /\ QueuedOnce'
  <2> DEFINE b == Head(queue[t])
  <2>1. /\ packet' = [packet EXCEPT ![t] = b] /\ queue' = [queue EXCEPT ![t] = Tail(@)]
        /\ queue[t] # <<>> /\ pc[t] = "read"
    BY <1>3 DEF Read
  <2>2. UNCHANGED <<free, out>>
    BY <1>3 DEF Read
  <2>3. queue[t] \in Seq(Buffers) /\ b \in Buffers
    BY <1>0, <2>1 DEF PoolTypes, Labels
  <2>4. /\ DOMAIN queue[t] = 1 .. Len(queue[t]) /\ b = queue[t][1] /\ 1 \in DOMAIN queue[t] /\ Len(queue[t]) \in Nat
        /\ DOMAIN queue'[t] = 1 .. Len(queue[t]) - 1
        /\ \A i \in DOMAIN queue'[t] : queue'[t][i] = queue[t][i + 1]
    BY <1>0, <2>1, <2>3 DEF PoolTypes, Labels
  <2>5. \A u \in Tasks \ {t} : queue'[u] = queue[u]
    BY <1>0, <2>1 DEF PoolTypes, Labels
  <2> HIDE DEF b
  <2>6. Queued(t)' = Queued(t) \ {b} /\ b \in Queued(t)
    <3>1. ASSUME NEW i \in DOMAIN queue'[t]
          PROVE  queue'[t][i] \in Queued(t) \ {b}
      <4>1. i + 1 \in DOMAIN queue[t] /\ i + 1 # 1
        BY <2>4
      <4> QED
        BY <1>3, <2>4, <4>1 DEF QueuedOnce, Queued
    <3>2. ASSUME NEW i \in DOMAIN queue[t], queue[t][i] # b
          PROVE  queue[t][i] \in Queued(t)'
      <4>1. i - 1 \in DOMAIN queue'[t] /\ queue'[t][i - 1] = queue[t][i]
        BY <2>4, <3>2
      <4> QED
        BY <4>1 DEF Queued
    <3>3. Queued(t)' = {queue'[t][i] : i \in DOMAIN queue'[t]} /\ Queued(t) = {queue[t][i] : i \in DOMAIN queue[t]}
      BY DEF Queued
    <3>4. \A x : x \in Queued(t)' <=> x \in Queued(t) \ {b}
      BY <3>1, <3>2, <3>3
    <3>5. b \in Queued(t)
      BY <2>4, <3>3
    <3> QED
      BY <3>4, <3>5
  <2>7. \A u \in Tasks \ {t} : Queued(u)' = Queued(u)
    BY <2>5 DEF Queued
  <2>8. packet[t] = NoBuffer
    BY <1>0, <2>1 DEF PacketInv
  <2>9. packet'[t] = b /\ pc'[t] = l /\ \A u \in Tasks \ {t} : packet'[u] = packet[u] /\ pc'[u] = pc[u]
    BY <1>0, <1>3, <2>1 DEF PoolTypes, Labels
  <2>10. Held(t) = {} /\ Held(t)' = {b} /\ \A u \in Tasks \ {t} : Held(u)' = Held(u)
    BY <1>3, <2>1, <2>3, <2>8, <2>9 DEF Held
  <2>11. Moved(QueueOf(t), PacketOf(t), {b})
    <3>1. /\ At'[QueueOf(t)] = At[QueueOf(t)] \ {b} /\ {b} \subseteq At[QueueOf(t)]
          /\ At'[PacketOf(t)] = At[PacketOf(t)] \cup {b}
      BY <2>6, <2>10, AtFacts, AtFactsNext
    <3>2. ASSUME NEW r \in Spots \ {QueueOf(t), PacketOf(t)}
          PROVE  At'[r] = At[r]
      <4>1. CASE r \in {Free, Out, Original}
        BY <1>3, <2>2, <4>1, AtFacts, AtFactsNext
      <4>2. ASSUME NEW u \in Tasks, r = PacketOf(u) \/ r = QueueOf(u)
            PROVE  At'[r] = At[r]
        <5>1. u # t
          BY <3>2, <4>2
        <5> QED
          BY <2>7, <2>10, <4>2, <5>1, AtFacts, AtFactsNext
      <4> QED
        BY <4>1, <4>2, SpotCases
    <3> QED
      BY <3>1, <3>2, SpotsDiffer DEF Moved
  <2>12. QueuedOnce'
    <3>1. ASSUME NEW i \in DOMAIN queue'[t], NEW j \in DOMAIN queue'[t], queue'[t][i] = queue'[t][j]
          PROVE  i = j
      <4>1. i + 1 \in DOMAIN queue[t] /\ j + 1 \in DOMAIN queue[t] /\ queue[t][i + 1] = queue[t][j + 1]
        BY <2>4, <3>1
      <4>2. i + 1 = j + 1
        BY <1>3, <4>1 DEF QueuedOnce
      <4> QED
        BY <2>4, <4>2
    <3> QED
      BY <1>3, <2>5, <3>1 DEF QueuedOnce
  <2> QED
    BY <1>3, <1>s, <2>11, <2>12, MovedOne
<1>4. ASSUME NEW t \in Tasks, Take(t), OneSpot(At), QueuedOnce
      PROVE  OneSpot(At') /\ QueuedOnce'
  BY <1>3, <1>4 DEF Take, Goto, cli
<1>5. ASSUME NEW t \in Tasks, AnswerPacket(t), OneSpot(At), QueuedOnce
      PROVE  OneSpot(At') /\ QueuedOnce'
  <2>1. /\ packet' = [packet EXCEPT ![t] = NoBuffer] /\ pc' = [pc EXCEPT ![t] = "read"]
        /\ UNCHANGED <<queue, original>>
    BY <1>5 DEF AnswerPacket, Finish, Goto, cli
  <2>2. (\A u \in Tasks \ {t} : Held(u)' = Held(u)) /\ Held(t)' = {}
    <3>1. /\ \A u \in Tasks \ {t} : Held(u)' = Held(u)
          /\ Held(t)' = IF t = "cli" /\ "read" = "again" THEN {} ELSE {NoBuffer} \ {NoBuffer}
      BY <1>0, <2>1, HeldAfter
    <3> QED
      BY <3>1
  <2>3. packet[t] \in Buffers /\ pc[t] = "answer"
    BY <1>0, <1>5 DEF AnswerPacket, PacketInv
  <2>4. Held(t) = {packet[t]}
    BY <2>3 DEF Held
  <2>5. CASE out' = out \cup {packet[t]} /\ UNCHANGED free
    <3>1. At'[Out] = At[Out] \cup Held(t) /\ At'[Free] = At[Free] /\ At'[Original] = At[Original]
      BY <2>1, <2>4, <2>5, AtFacts, AtFactsNext
    <3>2. At[PacketOf(t)] = Held(t) /\ At'[PacketOf(t)] = {}
      BY <2>2, AtFacts, AtFactsNext
    <3> QED
      BY <1>5, <1>s, <2>1, <2>2, <3>1, <3>2, QuietStep, SpotsDiffer
  <2>6. CASE free' = Freed({packet[t]}) /\ UNCHANGED out
    <3>1. At'[Free] = At[Free] \cup Held(t) /\ At'[Out] = At[Out] /\ At'[Original] = At[Original]
      BY <2>1, <2>3, <2>4, <2>6, AtFacts, AtFactsNext DEF Freed
    <3>2. At[PacketOf(t)] = Held(t) /\ At'[PacketOf(t)] = {}
      BY <2>2, AtFacts, AtFactsNext
    <3> QED
      BY <1>5, <1>s, <2>1, <2>2, <3>1, <3>2, QuietStep, SpotsDiffer
  <2> QED
    BY <1>5, <2>5, <2>6 DEF AnswerPacket
<1>6. ASSUME NEW b \in Buffers, Sent(b), OneSpot(At), QueuedOnce
      PROVE  OneSpot(At') /\ QueuedOnce'
  <2>1. \A u \in Tasks : Held(u)' = Held(u)
    BY <1>6 DEF Sent, Held
  <2>2. /\ At'[Free] = At[Free] \cup {b} /\ At'[Out] = At[Out] \ {b} /\ {b} \subseteq At[Out]
        /\ At'[Original] = At[Original] /\ UNCHANGED queue
    BY <1>6, AtFacts, AtFactsNext DEF Sent, Freed, cli
  <2>3. {Free, Out, Original} \subseteq {Out, Free} \cup {r \in Spots : At'[r] = At[r]}
    BY <1>s, <2>2
  <2> DEFINE sent == {b}
  <2>4. /\ sent \subseteq At[Out] /\ At'[Out] = At[Out] \ sent /\ At'[Free] = At[Free] \cup sent
        /\ Out # Free
    BY <2>2, SpotsDiffer
  <2> HIDE DEF sent
  <2>5. \A t \in Tasks : PacketOf(t) \in {Out, Free} \/ Held(t)' = Held(t)
    BY <2>1
  <2> QED
    BY <1>6, <1>s, <2>2, <2>3, <2>4, <2>5, QuietStep
<1>7. ASSUME CliStep, ~DataAbort, OneSpot(At), QueuedOnce
      PROVE  OneSpot(At') /\ QueuedOnce'
  <2>1. CASE CliRead
    BY <1>3, <1>c, <1>7, <2>1 DEF CliRead, Goto
  <2>2. CASE CliClone
    <3>1. pc' = [pc EXCEPT !["cli"] = "process"] /\ UNCHANGED <<packet, queue, out>> /\ pc["cli"] = "clone"
      BY <2>2 DEF CliClone, Goto
    <3>2. \A u \in Tasks \ {"cli"} : Held(u)' = Held(u)
      BY <1>0, <1>c, <3>1, HeldAfter
    <3>3. \A u \in Tasks : Held(u)' = Held(u)
      BY <1>0, <1>c, <3>1, <3>2 DEF Held, PoolTypes, Labels
    <3>4. original = NoBuffer
      BY <1>0, <3>1 DEF PacketInv
    <3>5. CASE \E b \in free : original' = b /\ free' = free \ {b}
      <4>1. PICK b \in free : original' = b /\ free' = free \ {b}
        BY <3>5
      <4>2. b \in Buffers
        BY <1>0, <4>1 DEF PoolTypes, Labels
      <4>3. /\ At'[Free] = At[Free] \ {b} /\ At'[Original] = At[Original] \cup {b} /\ {b} \subseteq At[Free]
            /\ At'[Out] = At[Out]
        BY <3>1, <3>4, <4>1, <4>2, AtFacts, AtFactsNext
      <4>4. {Free, Out, Original} \subseteq {Free, Original} \cup {r \in Spots : At'[r] = At[r]}
        BY <1>s, <4>3
      <4> DEFINE cloned == {b}
      <4>5. /\ cloned \subseteq At[Free] /\ At'[Free] = At[Free] \ cloned
            /\ At'[Original] = At[Original] \cup cloned /\ Free # Original
        BY <4>3, SpotsDiffer
      <4> HIDE DEF cloned
      <4>6. \A t \in Tasks : PacketOf(t) \in {Free, Original} \/ Held(t)' = Held(t)
        BY <3>3
      <4> QED
        BY <1>7, <1>s, <3>1, <4>4, <4>5, <4>6, QuietStep
    <3>6. CASE original' = NoBuffer /\ UNCHANGED free
      BY <1>7, <3>1, <3>3, <3>4, <3>6, QuietNothing
    <3> QED
      BY <2>2, <3>5, <3>6 DEF CliClone
  <2>3. CASE CliProcess \/ CliDrain
    <3>1. pc' = [pc EXCEPT !["cli"] = "send"] \/ pc' = [pc EXCEPT !["cli"] = "failed"] \/ UNCHANGED pc
      BY <2>3 DEF CliProcess, CliDrain, Goto
    <3>2. pc["cli"] # "again" /\ UNCHANGED <<free, out, queue, original, packet>>
      BY <2>3 DEF CliProcess, CliDrain, pool
    <3>3. \A u \in Tasks : Held(u)' = Held(u)
      BY <1>0, <1>c, <3>1, <3>2 DEF Held, PoolTypes, Labels
    <3> QED
      BY <1>7, <3>2, <3>3, QuietNothing
  <2>4. CASE CliSend
    <3>1. packet["cli"] \in Buffers /\ pc["cli"] = "send" /\ UNCHANGED <<queue, free, original>>
      BY <1>0, <1>c, <2>4 DEF CliSend, PacketInv, cli
    <3>2. Held("cli") = {packet["cli"]}
      BY <3>1 DEF Held
    <3>3. CASE out' = out \cup {packet["cli"]} /\ packet' = [packet EXCEPT !["cli"] = NoBuffer]
               /\ Goto("cli", IF result.more THEN "next" ELSE "done")
      <4>1. (\A u \in Tasks \ {"cli"} : Held(u)' = Held(u)) /\ Held("cli")' = {}
        BY <1>0, <1>c, <3>3, HeldAfter DEF Goto
      <4>2. /\ At'[Out] = At[Out] \cup Held("cli") /\ At'[Free] = At[Free] /\ At'[Original] = At[Original]
            /\ At[PacketOf("cli")] = Held("cli") /\ At'[PacketOf("cli")] = {}
        BY <1>c, <3>1, <3>2, <3>3, <4>1, AtFacts, AtFactsNext
      <4> QED
        BY <1>7, <1>s, <1>c, <3>1, <4>1, <4>2, QuietStep, SpotsDiffer
    <3>4. CASE UNCHANGED <<out, packet>> /\ Goto("cli", IF result.more THEN "drain" ELSE "failed")
      <4>1. \A u \in Tasks : Held(u)' = Held(u)
        BY <1>0, <1>c, <3>1, <3>4 DEF Held, Goto, PoolTypes, Labels
      <4> QED
        BY <1>7, <3>1, <3>4, <4>1, QuietNothing
    <3> QED
      BY <2>4, <3>3, <3>4 DEF CliSend
  <2>5. CASE CliNext
    <3>1. /\ pc["cli"] = "next" /\ pc' = [pc EXCEPT !["cli"] = "process"]
          /\ UNCHANGED <<queue, out, original>> /\ packet["cli"] = NoBuffer
      BY <1>0, <1>c, <2>5 DEF CliNext, Goto, PacketInv, cli
    <3>2. Held("cli") = {}
      BY <3>1 DEF Held
    <3>3. CASE \E b \in free : packet' = [packet EXCEPT !["cli"] = b] /\ free' = free \ {b}
      <4>1. PICK b \in free : packet' = [packet EXCEPT !["cli"] = b] /\ free' = free \ {b}
        BY <3>3
      <4>2. b \in Buffers
        BY <1>0, <4>1 DEF PoolTypes, Labels
      <4>3. (\A u \in Tasks \ {"cli"} : Held(u)' = Held(u)) /\ Held("cli")' = {b}
        BY <1>0, <1>c, <3>1, <4>1, <4>2, HeldAfter
      <4>4. /\ At'[Free] = At[Free] \ {b} /\ {b} \subseteq At[Free] /\ At'[Out] = At[Out]
            /\ At'[Original] = At[Original] /\ At'[PacketOf("cli")] = At[PacketOf("cli")] \cup {b}
        BY <1>c, <3>1, <3>2, <4>1, <4>3, AtFacts, AtFactsNext
      <4> QED
        BY <1>7, <1>s, <1>c, <3>1, <4>3, <4>4, QuietStep, SpotsDiffer
    <3>4. CASE UNCHANGED <<packet, free>>
      <4>1. \A u \in Tasks : Held(u)' = Held(u)
        BY <1>0, <1>c, <3>1, <3>4 DEF Held, PoolTypes, Labels
      <4> QED
        BY <1>7, <3>1, <3>4, <4>1, QuietNothing
    <3> QED
      BY <2>5, <3>3, <3>4 DEF CliNext
  <2>6. CASE CliDone
    <3>1. /\ pc' = [pc EXCEPT !["cli"] = "read"] /\ pc["cli"] = "done" /\ original' = NoBuffer
          /\ free' = free \cup ({original} \ {NoBuffer}) /\ UNCHANGED <<packet, queue, out>>
      BY <2>6 DEF CliDone, Goto, Freed
    <3>2. \A u \in Tasks : Held(u)' = Held(u)
      BY <1>0, <1>c, <3>1 DEF Held, PoolTypes, Labels
    <3>3. /\ At'[Free] = At[Free] \cup At[Original] /\ At'[Original] = {} /\ At'[Out] = At[Out]
      BY <3>1, AtFacts, AtFactsNext
    <3> QED
      BY <1>7, <1>s, <3>1, <3>2, <3>3, QuietStep, SpotsDiffer
  <2>9. CASE CliFreeAgain
    <3>1. /\ pc' = [pc EXCEPT !["cli"] = "read"] /\ packet' = [packet EXCEPT !["cli"] = NoBuffer]
          /\ pc["cli"] = "again" /\ UNCHANGED <<queue, out, original>> /\ packet["cli"] \in free
          /\ free' = free \cup ({packet["cli"]} \ {NoBuffer})
      BY <2>9 DEF CliFreeAgain, Finish, Goto, Freed, cli
    <3>2. (\A u \in Tasks \ {"cli"} : Held(u)' = Held(u)) /\ Held("cli")' = {}
      BY <1>0, <1>c, <3>1, HeldAfter
    <3>3. Held("cli") = {}
      BY <3>1 DEF Held
    <3>4. free' = free /\ \A u \in Tasks : Held(u)' = Held(u)
      BY <3>1, <3>2, <3>3
    <3> QED
      BY <1>7, <3>1, <3>4, QuietNothing
  <2>8. CASE CliFailed
    <3>1. /\ pc' = [pc EXCEPT !["cli"] = "again"] /\ pc["cli"] = "failed" /\ original' = NoBuffer
          /\ free' = Freed({original, packet["cli"]}) /\ UNCHANGED <<packet, queue, out>>
      BY <2>8 DEF CliFailed, Goto
    <3>2. packet["cli"] \in Buffers
      BY <1>0, <1>c, <3>1 DEF PacketInv
    <3>3. (\A u \in Tasks \ {"cli"} : Held(u)' = Held(u)) /\ Held("cli")' = {}
      BY <1>0, <1>c, <3>1, HeldAfter
    <3>4. Held("cli") = {packet["cli"]}
      BY <3>1, <3>2 DEF Held
    \* The clone first, ...
    <3> DEFINE half == [r \in Spots |-> IF r = Free THEN At[Free] \cup At[Original]
                                         ELSE IF r = Original THEN {} ELSE At[r]]
    <3>5. /\ half[Free] = At[Free] \cup At[Original] /\ half[Original] = {}
          /\ \A r \in Spots \ {Original, Free} : half[r] = At[r]
      BY <1>s, SpotsDiffer
    <3> HIDE DEF half
    <3>6. OneSpot(half)
      BY <1>7, <1>s, <3>5, Moves, SpotsDiffer
    \* ... then the packet.
    <3>7. /\ At'[Free] = half[Free] \cup Held("cli") /\ At'[Original] = half[Original] /\ At'[Out] = half[Out]
          /\ half[PacketOf("cli")] = Held("cli") /\ At'[PacketOf("cli")] = {}
      BY <1>c, <1>s, <3>1, <3>2, <3>3, <3>4, <3>5, AtFacts, AtFactsNext, SpotsDiffer DEF Freed
    <3>8. QueuedOnce' /\ \A t \in Tasks : Queued(t)' = Queued(t)
      BY <1>7, <3>1, SameQueues
    <3>9. ASSUME NEW r \in Spots \ {PacketOf("cli"), Free}
          PROVE  At'[r] = half[r]
      <4>1. CASE r \in {Original, Out}
        BY <3>7, <4>1
      <4>2. CASE \E t \in Tasks : r = PacketOf(t) \/ r = QueueOf(t)
        <5>1. half[r] = At[r]
          BY <3>5, <4>2, SpotsDiffer
        <5> QED
          BY <3>3, <3>8, <3>9, <4>2, <5>1, AtFacts, AtFactsNext
      <4> QED
        BY <3>9, <4>1, <4>2, SpotCases
    <3>10. OneSpot(At')
      BY <1>c, <1>s, <3>6, <3>7, <3>9, Moves, SpotsDiffer
    <3> QED
      BY <3>8, <3>10
  <2> QED
    BY <1>7, <2>1, <2>2, <2>3, <2>4, <2>5, <2>6, <2>8, <2>9 DEF CliStep
<1>8. ASSUME DataAbort
      PROVE  OneSpot(At') /\ QueuedOnce'
  <2>1. \A t \in Tasks : Held(t)' = {} /\ Queued(t)' = {}
    BY <1>8 DEF DataAbort, Held, Queued
  <2>2. At'[Out] = {} /\ At'[Original] = {} /\ At'[Free] = Buffers
    BY <1>8, AtFactsNext DEF DataAbort
  <2>3. ASSUME NEW p \in Spots, p # Free
        PROVE  At'[p] = {}
    BY <2>1, <2>2, <2>3, AtFactsNext, SpotCases
  <2>4. OneSpot(At')
    BY <1>s, <2>2, <2>3 DEF OneSpot
  <2>5. QueuedOnce'
    BY <1>8 DEF DataAbort, QueuedOnce
  <2> QED
    BY <2>4, <2>5
<1>9. ASSUME UNCHANGED vars, OneSpot(At), QueuedOnce
      PROVE  OneSpot(At') /\ QueuedOnce'
  <2>1. \A u \in Tasks : Held(u)' = Held(u)
    BY <1>9 DEF Held, vars
  <2> QED
    BY <1>9, <2>1, QuietNothing DEF vars, pool, cli
<1> QED
  BY <1>a, <1>1, <1>2, <1>4, <1>5, <1>6, <1>7, <1>8, <1>9 DEF Next

-----------------------------------------------------------------------------
(* The number of places                                                    *)

LEMMA OnePlace ==
    ASSUME TypesInv, OneSpot(At), QueuedOnce, NEW b \in Buffers
    PROVE  Places(b) = 1
<1> DEFINE held == {t \in Tasks : packet[t] = b /\ ~(t = "cli" /\ pc[t] = "again")}
           waiting == {w \in Waiting : queue[w[1]][w[2]] = b}
<1> USE ServicesAssumption
<1>0. PoolTypes /\ QueueBound
  BY DEF TypesInv
<1>1. PICK p \in Spots : \A q \in Spots : b \in At[q] <=> q = p
  BY DEF OneSpot
<1>s. /\ Free \in Spots /\ Out \in Spots /\ Original \in Spots
      /\ \A t \in Tasks : PacketOf(t) \in Spots /\ QueueOf(t) \in Spots
  BY SpotCases
<1>2. /\ b \in free <=> p = Free
      /\ b \in out <=> p = Out
      /\ b = original <=> p = Original
  BY <1>1, <1>s, AtFacts
<1>3. held = {t \in Tasks : p = PacketOf(t)}
  <2>1. \A t \in Tasks : t \in held <=> b \in Held(t)
    BY DEF Held
  <2>2. \A t \in Tasks : b \in Held(t) <=> p = PacketOf(t)
    BY <1>1, <1>s, AtFacts
  <2> QED
    BY <2>1, <2>2
<1>4. ASSUME NEW t \in Tasks
      PROVE  (\E i \in DOMAIN queue[t] : queue[t][i] = b) <=> p = QueueOf(t)
  <2>1. (\E i \in DOMAIN queue[t] : queue[t][i] = b) <=> b \in Queued(t)
    BY DEF Queued
  <2> QED
    BY <1>1, <1>s, <2>1, AtFacts
<1>5. ASSUME NEW t \in Tasks, NEW i \in DOMAIN queue[t]
      PROVE  <<t, i>> \in Waiting
  <2>1. i \in 1 .. Len(queue[t]) /\ Len(queue[t]) \in Nat /\ Len(queue[t]) <= MaxPackets
    BY <1>0 DEF PoolTypes, Labels, QueueBound
  <2> QED
    BY <2>1 DEF Waiting
<1>6. ASSUME NEW t \in Tasks, p = QueueOf(t)
      PROVE  \E w : waiting = {w}
  <2>1. PICK i \in DOMAIN queue[t] : queue[t][i] = b
    BY <1>4, <1>6
  <2>2. <<t, i>> \in waiting
    BY <1>5, <2>1
  <2>3. ASSUME NEW w \in waiting
        PROVE  w = <<t, i>>
    <3>1. w = <<w[1], w[2]>> /\ w[1] \in Tasks /\ w[2] \in DOMAIN queue[w[1]] /\ queue[w[1]][w[2]] = b
      BY <2>3 DEF Waiting
    <3>2. p = QueueOf(w[1])
      BY <1>4, <3>1
    <3>3. w[1] = t
      BY <1>6, <3>1, <3>2, SpotsDiffer
    <3>4. w[2] = i
      BY <2>1, <3>1, <3>3 DEF QueuedOnce
    <3> QED
      BY <3>1, <3>3, <3>4
  <2> QED
    BY <2>2, <2>3
<1>7. ASSUME \A t \in Tasks : p # QueueOf(t)
      PROVE  waiting = {}
  BY <1>4, <1>7 DEF Waiting
<1>8. Places(b) = (IF p = Free THEN 1 ELSE 0) + (IF p = Out THEN 1 ELSE 0)
                  + (IF p = Original THEN 1 ELSE 0) + Cardinality(held) + Cardinality(waiting)
  BY <1>2 DEF Places
<1> HIDE DEF held, waiting
<1>9. CASE p \in {Free, Out, Original}
  <2>1. held = {} /\ waiting = {}
    BY <1>3, <1>7, <1>9, SpotsDiffer
  <2>2. Cardinality(held) = 0 /\ Cardinality(waiting) = 0
    BY <2>1, FS_EmptySet
  <2> QED
    BY <1>8, <1>9, <2>2, SpotsDiffer
<1>10. ASSUME NEW t \in Tasks, p = PacketOf(t)
       PROVE  Places(b) = 1
  <2>1. held = {t} /\ waiting = {}
    BY <1>3, <1>7, <1>10, SpotsDiffer
  <2>2. Cardinality(held) = 1 /\ Cardinality(waiting) = 0
    BY <2>1, FS_EmptySet, FS_Singleton
  <2>3. p \notin {Free, Out, Original}
    BY <1>10, SpotsDiffer
  <2> QED
    BY <1>8, <2>2, <2>3
<1>11. ASSUME NEW t \in Tasks, p = QueueOf(t)
       PROVE  Places(b) = 1
  <2>1. held = {}
    BY <1>3, <1>11, SpotsDiffer
  <2>2. Cardinality(held) = 0 /\ Cardinality(waiting) = 1
    BY <1>6, <1>11, <2>1, FS_EmptySet, FS_Singleton
  <2>3. p \notin {Free, Out, Original}
    BY <1>11, SpotsDiffer
  <2> QED
    BY <1>8, <2>2, <2>3
<1> QED
  BY <1>9, <1>10, <1>11, SpotCases

\* The inductive invariant of the pool.
PoolInv == TypesInv /\ Owned

\* Whichever sends, clones and reads fail, and in whatever order the tasks and
\* CSP run, each buffer of the pool has one place: none is lost and none has two
\* owners, until cli_service has freed a buffer that somebody took since
\* cli_app freed it.
THEOREM NoBufferLost == Spec => []OneOwner
<1>1. Init => PoolInv
  BY InitTypes, AllFree DEF Init, PoolInv, Owned
<1>2. PoolInv /\ [Next]_vars => PoolInv'
  BY NextTypes, NextOwned DEF PoolInv
<1>3. PoolInv => OneOwner
  BY OnePlace DEF PoolInv, Owned, OneOwner
<1> QED
  BY <1>1, <1>2, <1>3, PTL DEF Spec

-----------------------------------------------------------------------------
(* The parameters of a line                                                *)

\* The natural numbers are the least set that has 0 and is closed under + 1.
LEMMA Induction ==
    ASSUME NEW S, 0 \in S, \A n \in Nat : n \in S => n + 1 \in S
    PROVE  Nat \subseteq S
<1> SUFFICES ASSUME Nat \ S # {}
             PROVE  FALSE
  OBVIOUS
<1> DEFINE below == {ss \in Nat \X Nat : ss[1] < ss[2]}
           rest == Nat \ S
<1>1. IsWellFoundedOn(below, Nat)
  BY NatLessThanWellFounded DEF OpToRel
<1> HIDE DEF below
<1>2. PICK n \in rest : \A m \in rest : <<m, n>> \notin below
  <2>1. rest \subseteq Nat /\ rest # {}
    OBVIOUS
  <2> HIDE DEF rest
  <2> QED
    BY <1>1, <2>1, WFMin
<1>3. n - 1 \in Nat /\ n - 1 < n /\ (n - 1) + 1 = n
  OBVIOUS
<1>4. n - 1 \in S
  <2>1. <<n - 1, n>> \in below
    BY <1>3 DEF below
  <2> QED
    BY <1>2, <1>3, <2>1
<1> QED
  BY <1>2, <1>3, <1>4

\* The words of a line after the first, up to the i-th place, and their number.
Rest(l, i) == {j \in 2 .. i : l[j] # Space}
Count(l, i) == Cardinality(Rest(l, i))

\* Where runs of spaces begin.
Runs(l, i) == {j \in 1 .. i : l[j] = Space /\ (j = 1 \/ l[j - 1] # Space)}

LEMMA RestFacts ==
    ASSUME NEW l, NEW i \in Nat
    PROVE  /\ IsFiniteSet(Rest(l, i)) /\ Count(l, i) \in Nat
           /\ IsFiniteSet(Runs(l, i)) /\ Cardinality(Runs(l, i)) \in Nat
<1>1. IsFiniteSet(1 .. i)
  BY FS_Interval
<1>2. Rest(l, i) \subseteq 1 .. i /\ Runs(l, i) \subseteq 1 .. i
  BY DEF Rest, Runs
<1> QED
  BY <1>1, <1>2, FS_Subset, FS_CardinalityType DEF Count

\* One place more.
LEMMA RestNext ==
    ASSUME NEW l, NEW i \in Nat \ {0}
    PROVE  /\ l[i + 1] = Space => Rest(l, i + 1) = Rest(l, i) /\ Count(l, i + 1) = Count(l, i)
           /\ l[i + 1] # Space => /\ Rest(l, i + 1) = Rest(l, i) \cup {i + 1}
                                  /\ Count(l, i + 1) = Count(l, i) + 1
<1>1. CASE l[i + 1] = Space
  <2>1. Rest(l, i + 1) = Rest(l, i)
    BY <1>1 DEF Rest
  <2> QED
    BY <1>1, <2>1 DEF Count
<1>2. CASE l[i + 1] # Space
  <2>1. Rest(l, i + 1) = Rest(l, i) \cup {i + 1} /\ i + 1 \notin Rest(l, i)
    BY <1>2 DEF Rest
  <2>2. Cardinality(Rest(l, i) \cup {i + 1}) = Cardinality(Rest(l, i)) + 1
    BY <2>1, RestFacts, FS_AddElement
  <2> QED
    BY <1>2, <2>1, <2>2 DEF Count
<1> QED
  BY <1>1, <1>2

LEMMA RunsNext ==
    ASSUME NEW l, NEW i \in Nat \ {0}
    PROVE  LET begins == l[i + 1] = Space /\ l[i] # Space IN
           Cardinality(Runs(l, i + 1)) = Cardinality(Runs(l, i)) + IF begins THEN 1 ELSE 0
<1>1. CASE l[i + 1] = Space /\ l[i] # Space
  <2>1. Runs(l, i + 1) = Runs(l, i) \cup {i + 1} /\ i + 1 \notin Runs(l, i)
    BY <1>1 DEF Runs
  <2>2. Cardinality(Runs(l, i) \cup {i + 1}) = Cardinality(Runs(l, i)) + 1
    BY <2>1, RestFacts, FS_AddElement
  <2> QED
    BY <1>1, <2>1, <2>2
<1>2. CASE ~(l[i + 1] = Space /\ l[i] # Space)
  <2>1. Runs(l, i + 1) = Runs(l, i)
    BY <1>2 DEF Runs
  <2> QED
    BY <1>2, <2>1, RestFacts
<1> QED
  BY <1>1, <1>2

\* A line whose first word is not a space has as many words after it as runs of
\* spaces, less the run at its end.
LEMMA RunsCount ==
    ASSUME NEW l, IsLine(l), l # <<>>, l[1] # Space
    PROVE  \A i \in 1 .. Len(l) :
               Cardinality(Runs(l, i)) = Count(l, i) + IF l[i] = Space THEN 1 ELSE 0
<1> DEFINE S == {n \in Nat : n + 1 <= Len(l) =>
                     Cardinality(Runs(l, n + 1)) = Count(l, n + 1) + IF l[n + 1] = Space THEN 1 ELSE 0}
<1>0. Len(l) \in Nat
  BY DEF IsLine
<1>1. 0 \in S
  <2>1. Runs(l, 1) = {} /\ Rest(l, 1) = {}
    BY DEF Runs, Rest
  <2> QED
    BY <2>1, FS_EmptySet DEF Count
<1>2. ASSUME NEW n \in Nat, n \in S
      PROVE  n + 1 \in S
  <2> SUFFICES ASSUME n + 2 <= Len(l)
               PROVE  Cardinality(Runs(l, n + 2)) = Count(l, n + 2) + IF l[n + 2] = Space THEN 1 ELSE 0
    OBVIOUS
  <2> DEFINE i == n + 1
  <2>0. i \in Nat \ {0} /\ i + 1 = n + 2
    OBVIOUS
  <2>1. Cardinality(Runs(l, i)) = Count(l, i) + IF l[i] = Space THEN 1 ELSE 0
    BY <1>0, <1>2
  <2>2. l[i + 1] = Space \/ l[i] = Space
    <3>1. i + 1 \in 2 .. Len(l) /\ (i + 1) - 1 = i
      BY <1>0
    <3> HIDE DEF i
    <3> QED
      BY <3>1 DEF IsLine
  <2> HIDE DEF i
  <2>3. Cardinality(Runs(l, i + 1)) =
            Cardinality(Runs(l, i)) + IF l[i + 1] = Space /\ l[i] # Space THEN 1 ELSE 0
    BY <2>0, RunsNext
  <2>4. /\ l[i + 1] = Space => Count(l, i + 1) = Count(l, i)
        /\ l[i + 1] # Space => Count(l, i + 1) = Count(l, i) + 1
    BY <2>0, RestNext
  <2>5. Count(l, i) \in Nat
    BY <2>0, RestFacts
  <2>6. Cardinality(Runs(l, i + 1)) = Count(l, i + 1) + IF l[i + 1] = Space THEN 1 ELSE 0
    BY <2>1, <2>2, <2>3, <2>4, <2>5
  <2> QED
    BY <2>0, <2>6
<1> HIDE DEF S
<1>3. Nat \subseteq S
  BY <1>1, <1>2, Induction
<1>4. ASSUME NEW i \in 1 .. Len(l)
      PROVE  Cardinality(Runs(l, i)) = Count(l, i) + IF l[i] = Space THEN 1 ELSE 0
  <2>1. i - 1 \in S /\ (i - 1) + 1 = i /\ i <= Len(l)
    BY <1>0, <1>3
  <2> QED
    BY <2>1 DEF S
<1> QED
  BY <1>4

\* There are not more words up to one place than up to a later one.
LEMMA CountGrows ==
    ASSUME NEW l, NEW i \in Nat, NEW j \in 0 .. i
    PROVE  Count(l, j) <= Count(l, i)
<1>1. Rest(l, j) \subseteq Rest(l, i)
  BY DEF Rest
<1> QED
  BY <1>1, RestFacts, FS_Subset DEF Count

\* p is the sequence of the words after the first, up to the i-th place.
Lists(p, l, i) ==
    /\ p \in Seq(STRING \ {Null}) /\ Len(p) = Count(l, i)
    /\ \A j \in Rest(l, i) : Count(l, j) \in 1 .. Len(p) /\ p[Count(l, j)] = l[j]
    /\ \A n \in 1 .. Len(p) : \E j \in Rest(l, i) : Count(l, j) = n

LEMMA ListsNext ==
    ASSUME NEW l, IsLine(l), NEW i \in Nat \ {0}, i + 1 <= Len(l), NEW p, Lists(p, l, i)
    PROVE  Lists(IF l[i + 1] = Space THEN p ELSE Append(p, l[i + 1]), l, i + 1)
<1>1. CASE l[i + 1] = Space
  <2>1. Rest(l, i + 1) = Rest(l, i) /\ Count(l, i + 1) = Count(l, i)
    BY <1>1, RestNext
  <2> QED
    BY <1>1, <2>1 DEF Lists
<1>2. CASE l[i + 1] # Space
  <2> DEFINE q == Append(p, l[i + 1])
  <2>1. Rest(l, i + 1) = Rest(l, i) \cup {i + 1} /\ Count(l, i + 1) = Count(l, i) + 1
    BY <1>2, RestNext
  <2>2. p \in Seq(STRING \ {Null}) /\ Len(p) = Count(l, i) /\ Len(p) \in Nat
    BY DEF Lists
  <2>3. l[i + 1] \in STRING \ {Null}
    BY DEF IsLine
  <2>4. /\ q \in Seq(STRING \ {Null}) /\ Len(q) = Len(p) + 1 /\ q[Len(p) + 1] = l[i + 1]
        /\ \A n \in 1 .. Len(p) : q[n] = p[n]
    BY <2>2, <2>3
  <2> HIDE DEF q
  <2>5. ASSUME NEW j \in Rest(l, i + 1)
        PROVE  Count(l, j) \in 1 .. Len(q) /\ q[Count(l, j)] = l[j]
    <3>1. CASE j = i + 1
      BY <2>1, <2>2, <2>4, <3>1
    <3>2. CASE j \in Rest(l, i)
      <4>1. Count(l, j) \in 1 .. Len(p) /\ p[Count(l, j)] = l[j]
        BY <3>2 DEF Lists
      <4> QED
        BY <2>2, <2>4, <4>1
    <3> QED
      BY <2>1, <3>1, <3>2
  <2>6. ASSUME NEW n \in 1 .. Len(q)
        PROVE  \E j \in Rest(l, i + 1) : Count(l, j) = n
    <3>1. CASE n = Len(p) + 1
      BY <2>1, <2>2, <3>1
    <3>2. CASE n \in 1 .. Len(p)
      BY <2>1, <3>2 DEF Lists
    <3> QED
      BY <2>2, <2>4, <3>1, <3>2
  <2>7. Lists(q, l, i + 1)
    BY <2>1, <2>2, <2>4, <2>5, <2>6 DEF Lists
  <2> QED
    BY <1>2, <2>7 DEF q
<1> QED
  BY <1>1, <1>2

\* A function that lists the words up to each place exists.
UpTo(l, f, m) ==
    f = [i \in 0 .. m |-> IF i <= 1 THEN <<>> ELSE IF l[i] = Space THEN f[i - 1] ELSE Append(f[i - 1], l[i])]

LEMMA UpToExists ==
    ASSUME NEW l, NEW n \in Nat
    PROVE  \E f : UpTo(l, f, n)
<1> DEFINE S == {m \in Nat : \E f : UpTo(l, f, m)}
<1>1. 0 \in S
  <2>1. UpTo(l, [i \in 0 .. 0 |-> <<>>], 0)
    BY DEF UpTo
  <2> QED
    BY <2>1
<1>2. ASSUME NEW m \in Nat, m \in S
      PROVE  m + 1 \in S
  <2>1. PICK f : UpTo(l, f, m)
    BY <1>2
  <2> DEFINE last == IF m = 0 THEN <<>> ELSE IF l[m + 1] = Space THEN f[m] ELSE Append(f[m], l[m + 1])
             g == [i \in 0 .. m + 1 |-> IF i = m + 1 THEN last ELSE f[i]]
             h == [i \in 0 .. m + 1 |-> IF i <= 1 THEN <<>> ELSE IF l[i] = Space THEN g[i - 1] ELSE Append(g[i - 1], l[i])]
  <2>2. ASSUME NEW i \in 0 .. m
        PROVE  f[i] = IF i <= 1 THEN <<>> ELSE IF l[i] = Space THEN f[i - 1] ELSE Append(f[i - 1], l[i])
    BY <2>1 DEF UpTo
  <2> HIDE DEF last
  <2>3. ASSUME NEW i \in 0 .. m + 1
        PROVE  g[i] = h[i]
    <3>1. CASE i = m + 1
      <4>1. g[i] = last
        BY <3>1
      <4>2. CASE m = 0
        BY <3>1, <4>1, <4>2 DEF last
      <4>3. CASE m # 0
        <5>1. ~(i <= 1) /\ i - 1 = m /\ g[m] = f[m]
          BY <3>1, <4>3
        <5> QED
          BY <3>1, <4>1, <4>3, <5>1 DEF last
      <4> QED
        BY <4>2, <4>3
    <3>2. CASE i # m + 1
      <4>1. i \in 0 .. m /\ g[i] = f[i]
        BY <3>2
      <4>2. CASE i <= 1
        BY <2>2, <4>1, <4>2
      <4>3. CASE ~(i <= 1)
        <5>1. g[i - 1] = f[i - 1]
          BY <4>1, <4>3
        <5> QED
          BY <2>2, <4>1, <4>3, <5>1
      <4> QED
        BY <4>2, <4>3
    <3> QED
      BY <3>1, <3>2
  <2>4. g = h
    BY <2>3
  <2>5. UpTo(l, g, m + 1)
    BY <2>4 DEF UpTo
  <2> HIDE DEF g, h
  <2> QED
    BY <2>5
<1> HIDE DEF S
<1>3. Nat \subseteq S
  BY <1>1, <1>2, Induction
<1> QED
  BY <1>3 DEF S

LEMMA ParametersListed ==
    ASSUME NEW l, IsLine(l), l # <<>>
    PROVE  Lists(Parameters(l), l, Len(l))
<1>0. Len(l) \in Nat /\ Len(l) >= 1
  BY DEF IsLine
<1> DEFINE f == CHOOSE g : UpTo(l, g, Len(l))
<1>1. UpTo(l, f, Len(l))
  BY <1>0, UpToExists
<1>2. Parameters(l) = f[Len(l)]
  BY DEF Parameters, UpTo
<1> HIDE DEF f
<1>3. \A i \in 0 .. Len(l) :
         f[i] = IF i <= 1 THEN <<>> ELSE IF l[i] = Space THEN f[i - 1] ELSE Append(f[i - 1], l[i])
  BY <1>1 DEF UpTo
<1> DEFINE S == {n \in Nat : n + 1 <= Len(l) => Lists(f[n + 1], l, n + 1)}
<1>4. 0 \in S
  <2>1. f[1] = <<>> /\ Rest(l, 1) = {}
    BY <1>0, <1>3 DEF Rest
  <2>2. Count(l, 1) = 0
    BY <2>1, FS_EmptySet DEF Count
  <2>3. Lists(f[1], l, 1)
    BY <2>1, <2>2 DEF Lists
  <2> QED
    BY <2>3
<1>5. ASSUME NEW n \in Nat, n \in S
      PROVE  n + 1 \in S
  <2> SUFFICES ASSUME n + 2 <= Len(l)
               PROVE  Lists(f[n + 2], l, n + 2)
    OBVIOUS
  <2> DEFINE i == n + 1
  <2>1. i \in Nat \ {0} /\ i + 1 = n + 2 /\ i + 1 <= Len(l) /\ i + 1 \in 0 .. Len(l) /\ ~(i + 1 <= 1) /\ (i + 1) - 1 = i
    BY <1>0
  <2>2. Lists(f[i], l, i)
    BY <1>0, <1>5
  <2> HIDE DEF i
  <2>3. f[i + 1] = IF l[i + 1] = Space THEN f[i] ELSE Append(f[i], l[i + 1])
    BY <1>3, <2>1
  <2>4. Lists(f[i + 1], l, i + 1)
    BY <2>1, <2>2, <2>3, ListsNext
  <2> QED
    BY <2>1, <2>4
<1> HIDE DEF S
<1>6. Nat \subseteq S
  BY <1>4, <1>5, Induction
<1>7. Len(l) - 1 \in S /\ (Len(l) - 1) + 1 = Len(l)
  BY <1>0, <1>6
<1>8. Lists(f[Len(l)], l, Len(l))
  BY <1>0, <1>7 DEF S
<1> QED
  BY <1>2, <1>8

\* What the interpreter counts and takes out of a line are its parameters, ...
LEMMA ParameterFacts ==
    ASSUME NEW l, IsLine(l), l # <<>>, l[1] # Space
    PROVE  /\ Parameters(l) \in Seq(STRING \ {Null})
           /\ GetNumberOfParameters(l) = Len(Parameters(l))
           /\ \A n \in 1 .. Len(Parameters(l)) : GetParameter(l, n) = Parameters(l)[n]
           /\ GetParameter(l, Len(Parameters(l)) + 1) = Null
<1> DEFINE p == Parameters(l)
           N == Len(l)
<1>0. N \in Nat /\ N >= 1 /\ DOMAIN l = 1 .. N
  BY DEF IsLine
<1>1. Lists(p, l, N)
  BY ParametersListed
<1> HIDE DEF p
<1>2. p \in Seq(STRING \ {Null}) /\ Len(p) = Count(l, N) /\ Len(p) \in Nat
  BY <1>1 DEF Lists
<1>3. GetNumberOfParameters(l) = Len(p)
  <2>1. Runs(l, N) = {i \in DOMAIN l : l[i] = Space /\ (i = 1 \/ l[i - 1] # Space)}
    BY <1>0 DEF Runs
  <2>2. GetNumberOfParameters(l) = Cardinality(Runs(l, N)) - IF l[N] = Space THEN 1 ELSE 0
    BY <2>1 DEF GetNumberOfParameters
  <2>3. Cardinality(Runs(l, N)) = Count(l, N) + IF l[N] = Space THEN 1 ELSE 0
    BY <1>0, RunsCount
  <2>4. Count(l, N) \in Nat
    BY <1>0, RestFacts
  <2> HIDE DEF N
  <2> QED
    BY <1>2, <2>2, <2>3, <2>4
<1> DEFINE starts == {i \in Words(l) : i > 1 /\ l[i - 1] = Space}
           found(n) == {i \in starts : Cardinality({j \in starts : j <= i}) = n}
<1>4. starts = Rest(l, N)
  <2>1. \A i \in 2 .. N : l[i] = Space \/ l[i - 1] = Space
    BY DEF IsLine
  <2> QED
    BY <1>0, <2>1 DEF Words, Rest
<1>5. ASSUME NEW i \in starts
      PROVE  {j \in starts : j <= i} = Rest(l, i)
  BY <1>0, <1>4 DEF Rest
<1>6. \A n : GetParameter(l, n) = IF found(n) = {} THEN Null ELSE l[CHOOSE i \in found(n) : TRUE]
  BY DEF GetParameter
<1> HIDE DEF starts
<1>7. \A n : found(n) = {i \in Rest(l, N) : Count(l, i) = n}
  BY <1>4, <1>5 DEF Count
<1> HIDE DEF found
<1>8. ASSUME NEW n \in 1 .. Len(p)
      PROVE  GetParameter(l, n) = p[n]
  <2>1. PICK j \in Rest(l, N) : Count(l, j) = n
    BY <1>1, <1>8 DEF Lists
  <2>2. found(n) # {}
    BY <1>7, <2>1
  <2>3. (CHOOSE i \in found(n) : TRUE) \in found(n)
    BY <2>2
  <2>4. ASSUME NEW i \in found(n)
        PROVE  l[i] = p[n]
    BY <1>1, <1>7, <2>4 DEF Lists
  <2> QED
    BY <1>6, <2>2, <2>3, <2>4
<1>9. GetParameter(l, Len(p) + 1) = Null
  <2>1. ASSUME NEW i \in Rest(l, N)
        PROVE  Count(l, i) # Len(p) + 1
    <3>1. i \in Nat /\ i \in 0 .. N
      BY <1>0 DEF Rest
    <3>2. Count(l, i) <= Count(l, N) /\ Count(l, i) \in Nat
      BY <1>0, <3>1, CountGrows, RestFacts
    <3> QED
      BY <1>2, <3>2
  <2>2. found(Len(p) + 1) = {}
    BY <1>7, <2>1
  <2> QED
    BY <1>6, <2>2
<1> QED
  BY <1>2, <1>3, <1>8, <1>9 DEF p

-----------------------------------------------------------------------------
(* The answer to a line                                                    *)

LEMMA RegisteredFacts ==
    /\ Len(Registered) \in Nat /\ DOMAIN Registered = 1 .. Len(Registered)
    /\ \A k \in DOMAIN Registered :
          /\ Registered[k].name \in STRING /\ Registered[k].name # Space
          /\ Registered[k].expected \in Int /\ Registered[k].expected >= -1
<1> DEFINE T == [name : STRING \ {Space}, expected : Int]
<1>1. Registered \in Seq(T)
  BY RegisteredAssumption
<1>2. \A c \in T : c.name \in STRING /\ c.name # Space /\ c.expected \in Int
  OBVIOUS
<1>3. \A k \in DOMAIN Registered : Registered[k].expected >= -1
  BY RegisteredAssumption
<1> HIDE DEF T
<1>4. /\ Len(Registered) \in Nat /\ DOMAIN Registered = 1 .. Len(Registered)
      /\ \A k \in DOMAIN Registered : Registered[k] \in T
  BY <1>1
<1> QED
  BY <1>2, <1>3, <1>4

\* The search finds the one command of that name.
LEMMA SearchFacts ==
    ASSUME NEW l, IsLine(l)
    PROVE  /\ Search(l) = 0 => l = <<>> \/ \A k \in DOMAIN Registered : Registered[k].name # l[1]
           /\ Search(l) # 0 => /\ l # <<>> /\ Search(l) \in DOMAIN Registered
                               /\ Registered[Search(l)].name = l[1]
                               /\ \A k \in DOMAIN Registered : Registered[k].name = l[1] => k = Search(l)
<1> DEFINE hits == {k \in DOMAIN Registered : l # <<>> /\ l[1] = Registered[k].name}
<1>0. DOMAIN Registered \subseteq Nat \ {0}
  BY RegisteredAssumption
<1>1. Search(l) = IF hits = {} THEN 0 ELSE CHOOSE i \in hits : \A j \in hits : i <= j
  BY DEF Search
<1>2. CASE hits = {}
  BY <1>1, <1>2
<1>3. CASE hits # {}
  <2>1. PICK k \in hits : TRUE
    BY <1>3
  <2>2. \A j \in hits : j = k
    BY RegisteredAssumption
  <2>3. hits = {k}
    BY <2>1, <2>2
  <2>4. k <= k
    BY <1>0, <2>1
  <2> HIDE DEF hits
  <2>5. Search(l) = k
    BY <1>1, <2>3, <2>4
  <2> USE DEF hits
  <2> QED
    BY <1>0, <2>1, <2>2, <2>5
<1> QED
  BY <1>2, <1>3

LEMMA AnswerFacts ==
    ASSUME NEW l, IsLine(l), NEW k, k = Search(l)
    PROVE  /\ k = 0 => Answer(l) = <<NotRecognised>>
           /\ k # 0 =>
                 LET c == Registered[k] IN
                 Answer(l) = IF c.expected \notin {-1, Len(Parameters(l))} THEN <<Incorrect>>
                             ELSE CASE c.name = "help" -> [j \in DOMAIN Registered |-> Registered[j].name]
                                    [] c.name = "echo" -> <<Empty>> \o Parameters(l) \o <<Crlf>>
                                    [] OTHER -> <<c.name>>
<1>1. CASE k = 0
  BY <1>1, SearchFacts DEF Answer
<1>2. CASE k # 0
  <2>1. /\ l # <<>> /\ k \in DOMAIN Registered /\ Registered[k].name = l[1]
        /\ \A j \in DOMAIN Registered : Registered[j].name = l[1] => j = k
    BY <1>2, SearchFacts
  <2> DEFINE commands == {Registered[j] : j \in DOMAIN Registered}
             c == CHOOSE c \in commands : c.name = l[1]
  <2>2. c = Registered[k]
    <3>1. Registered[k] \in commands /\ Registered[k].name = l[1]
      BY <2>1
    <3>2. \A d \in commands : d.name = l[1] => d = Registered[k]
      BY <2>1
    <3> HIDE DEF commands
    <3> QED
      BY <3>1, <3>2
  <2>3. Answer(l) = IF c.expected \notin {-1, Len(Parameters(l))} THEN <<Incorrect>>
                    ELSE CASE c.name = "help" -> [j \in DOMAIN Registered |-> Registered[j].name]
                           [] c.name = "echo" -> <<Empty>> \o Parameters(l) \o <<Crlf>>
                           [] OTHER -> <<c.name>>
    BY <2>1 DEF Answer
  <2> HIDE DEF c
  <2> QED
    BY <1>2, <2>2, <2>3
<1> QED
  BY <1>1, <1>2

\* What is written out.
Texts == STRING \cup {NotRecognised, Incorrect, Empty, Crlf}

\* n strings of the answer to line l have been written, and more are to come.
Position(l, s, n) ==
    /\ n \in 0 .. Len(Answer(l)) - 1
    /\ IF n = 0 THEN s = AtRest
       ELSE /\ Search(l) # 0 /\ s \in States /\ s.pxCommand = Search(l)
            /\ \/ Registered[Search(l)].name = "help" /\ s.help = n + 1 /\ s.parameter_num = 0
               \/ Registered[Search(l)].name = "echo" /\ s.help = 0 /\ s.parameter_num = n

\* A call writes the next string of the answer, and says whether it is the last.
Writes(r, l, n) ==
    /\ r.out = Answer(l)[n + 1] /\ r.out \in Texts
    /\ r.more \in BOOLEAN /\ (r.more <=> n + 1 < Len(Answer(l)))
    /\ r.more => Position(l, r.state, n + 1)

LEMMA OneString ==
    ASSUME NEW l, NEW o \in Texts, Answer(l) = <<o>>, NEW s,
           NEW r, r = [out |-> o, more |-> FALSE, state |-> s]
    PROVE  Writes(r, l, 0)
<1>1. Answer(l)[0 + 1] = o /\ Len(Answer(l)) = 1
  OBVIOUS
<1>2. r.out = o /\ r.more = FALSE
  OBVIOUS
<1> QED
  BY <1>1, <1>2 DEF Writes

\* What a callback writes is what the call writes.
LEMMA CallAnswers ==
    ASSUME NEW l, IsLine(l), NEW s, NEW n, Position(l, s, n)
    PROVE  Writes(ProcessCommand(s, l), l, n)
<1> DEFINE k == Search(l)
           c == Registered[k]
           P == Parameters(l)
           A == Answer(l)
           r == Callback(c.name, s, l)
<1>0. n \in 0 .. Len(A) - 1 /\ s \in States
  BY DEF Position, AtRest, States
<1>1. /\ k = 0 => A = <<NotRecognised>>
      /\ k # 0 => A = IF c.expected \notin {-1, Len(P)} THEN <<Incorrect>>
                      ELSE CASE c.name = "help" -> [j \in DOMAIN Registered |-> Registered[j].name]
                             [] c.name = "echo" -> <<Empty>> \o P \o <<Crlf>>
                             [] OTHER -> <<c.name>>
  BY AnswerFacts
<1>2. n = 0 => s = AtRest
  BY DEF Position
<1>3. n # 0 => /\ k # 0 /\ s.pxCommand = k
               /\ \/ c.name = "help" /\ s.help = n + 1 /\ s.parameter_num = 0
                  \/ c.name = "echo" /\ s.help = 0 /\ s.parameter_num = n
  BY DEF Position
<1>4. k # 0 => /\ k \in DOMAIN Registered /\ l # <<>> /\ c.name = l[1] /\ l[1] # Space
               /\ c.name \in STRING /\ c.expected \in Int /\ c.expected >= -1
  <2>1. k # 0 => k \in DOMAIN Registered /\ l # <<>> /\ c.name = l[1]
    BY SearchFacts
  <2> HIDE DEF k
  <2> QED
    BY <2>1, RegisteredFacts
<1>5. k # 0 => /\ P \in Seq(STRING \ {Null}) /\ Len(P) \in Nat /\ GetNumberOfParameters(l) = Len(P)
               /\ \A i \in 1 .. Len(P) : GetParameter(l, i) = P[i]
               /\ GetParameter(l, Len(P) + 1) = Null
  BY <1>4, ParameterFacts
<1>6. (IF s.pxCommand # 0 THEN s.pxCommand ELSE k) = k /\ (s.pxCommand = 0 <=> n = 0 \/ k = 0)
  BY <1>2, <1>3 DEF AtRest
<1>7. ProcessCommand(s, l) =
         IF k = 0 THEN [out |-> NotRecognised, more |-> FALSE, state |-> s]
         ELSE IF s.pxCommand = 0 /\ c.expected >= 0 /\ GetNumberOfParameters(l) # c.expected
         THEN [out |-> Incorrect, more |-> FALSE, state |-> s]
         ELSE [r EXCEPT !.state.pxCommand = IF r.more THEN k ELSE 0]
  BY <1>6 DEF ProcessCommand
<1> HIDE DEF k, c, P, A, r
<1>8. CASE k = 0
  <2>1. A = <<NotRecognised>> /\ Len(<<NotRecognised>>) = 1 /\ NotRecognised \in Texts
    BY <1>1, <1>8 DEF Texts
  <2>2. ProcessCommand(s, l) = [out |-> NotRecognised, more |-> FALSE, state |-> s]
    BY <1>7, <1>8
  <2> QED
    BY <1>0, <2>1, <2>2, OneString DEF A
<1>9. CASE k # 0 /\ c.expected \notin {-1, Len(P)}
  <2>1. A = <<Incorrect>> /\ Len(<<Incorrect>>) = 1 /\ Incorrect \in Texts
    BY <1>1, <1>9 DEF Texts
  <2>0. n = 0
    BY <1>0, <2>1
  <2>2. ProcessCommand(s, l) = [out |-> Incorrect, more |-> FALSE, state |-> s]
    BY <1>4, <1>5, <1>6, <1>7, <1>9, <2>0
  <2> QED
    BY <2>0, <2>1, <2>2, OneString DEF A
<1>10. CASE k # 0 /\ c.expected \in {-1, Len(P)}
  <2>1. ProcessCommand(s, l) = [r EXCEPT !.state.pxCommand = IF r.more THEN k ELSE 0]
    BY <1>4, <1>5, <1>6, <1>7, <1>10
  <2>2. A = CASE c.name = "help" -> [j \in DOMAIN Registered |-> Registered[j].name]
              [] c.name = "echo" -> <<Empty>> \o P \o <<Crlf>>
              [] OTHER -> <<c.name>>
    BY <1>1, <1>10
  \* What a callback writes is what the call writes.
  <2>3. ASSUME NEW o \in Texts, NEW more \in BOOLEAN, NEW after \in States,
               r = [out |-> o, more |-> more, state |-> after],
               o = A[n + 1], more <=> n + 1 < Len(A), Len(A) \in Nat,
               more => \/ c.name = "help" /\ after.help = n + 2 /\ after.parameter_num = 0
                       \/ c.name = "echo" /\ after.help = 0 /\ after.parameter_num = n + 1
        PROVE  Writes(ProcessCommand(s, l), l, n)
    <3> DEFINE now == [after EXCEPT !.pxCommand = IF more THEN k ELSE 0]
    <3>1. ProcessCommand(s, l) = [out |-> o, more |-> more, state |-> now]
      BY <2>1, <2>3
    <3>2. k \in Nat
      BY <1>4, <1>10, RegisteredAssumption
    <3>3. /\ now \in States /\ now.help = after.help /\ now.parameter_num = after.parameter_num
          /\ now.pxCommand = IF more THEN k ELSE 0
      BY <3>2 DEF States
    <3> HIDE DEF now
    <3>4. ASSUME more
          PROVE  Position(l, now, n + 1)
      <4>1. n + 1 \in 0 .. Len(A) - 1 /\ n + 1 # 0 /\ (n + 1) + 1 = n + 2
        BY <1>0, <2>3, <3>4
      <4>2. Search(l) # 0 /\ now.pxCommand = Search(l)
        BY <1>10, <3>3, <3>4 DEF k
      <4>3. \/ Registered[Search(l)].name = "help" /\ now.help = (n + 1) + 1 /\ now.parameter_num = 0
            \/ Registered[Search(l)].name = "echo" /\ now.help = 0 /\ now.parameter_num = n + 1
        BY <2>3, <3>3, <3>4, <4>1 DEF c, k
      <4> QED
        BY <3>3, <4>1, <4>2, <4>3 DEF Position, A
    <3> QED
      BY <2>3, <3>1, <3>4 DEF Writes, A
  <2>4. CASE c.name = "help"
    <3> DEFINE last == Len(Registered)
               next == IF n + 1 = last THEN 0 ELSE (n + 1) + 1
               after == [s EXCEPT !.help = next]
    <3>1. A = [j \in DOMAIN Registered |-> Registered[j].name]
      BY <2>2, <2>4
    <3>2. last \in Nat /\ DOMAIN Registered = 1 .. last
      BY RegisteredFacts
    <3>3. Len(A) = last
      BY <3>1, <3>2
    <3>4. n \in Nat /\ n + 1 <= last
      BY <1>0, <3>2, <3>3
    <3>5. A[n + 1] = Registered[n + 1].name /\ Registered[n + 1].name \in Texts
      <4>1. n + 1 \in DOMAIN Registered
        BY <3>2, <3>4
      <4> QED
        BY <3>1, <4>1, RegisteredFacts DEF Texts
    <3>6. (IF s.help = 0 THEN 1 ELSE s.help) = n + 1
      BY <1>2, <1>3, <2>4, <3>4 DEF AtRest
    <3>7. r = [out |-> Registered[n + 1].name, more |-> next # 0, state |-> after]
      <4> DEFINE now == IF s.help = 0 THEN 1 ELSE s.help
                 then == IF now = Len(Registered) THEN 0 ELSE now + 1
      <4>1. r = [out |-> Registered[now].name, more |-> then # 0, state |-> [s EXCEPT !.help = then]]
        BY <2>4 DEF r, Callback, Help
      <4>2. now = n + 1 /\ then = next
        BY <3>6
      <4> HIDE DEF now, then, next
      <4> QED
        BY <4>1, <4>2
    <3>8. next \in Nat /\ (next # 0 <=> n + 1 < last) /\ (next # 0 => next = n + 2)
      <4> HIDE DEF last
      <4>1. CASE n + 1 = last
        BY <3>2, <3>4, <4>1
      <4>2. CASE n + 1 # last
        <5>1. next = (n + 1) + 1 /\ n + 1 < last
          BY <3>2, <3>4, <4>2
        <5> HIDE DEF next
        <5> QED
          BY <3>4, <5>1
      <4> QED
        BY <4>1, <4>2
    <3>9. s.parameter_num = 0
      BY <1>2, <1>3, <2>4 DEF AtRest
    <3> HIDE DEF next, last
    <3>10. after \in States /\ after.help = next /\ after.parameter_num = 0
      BY <1>0, <3>8, <3>9 DEF States
    <3> HIDE DEF after
    <3> DEFINE more == next # 0
    <3>11. more \in BOOLEAN /\ r = [out |-> Registered[n + 1].name, more |-> more, state |-> after]
           /\ (more <=> n + 1 < Len(A)) /\ (more => c.name = "help" /\ after.help = n + 2 /\ after.parameter_num = 0)
      BY <2>4, <3>3, <3>7, <3>8, <3>10
    <3> HIDE DEF more
    <3> QED
      BY <2>3, <3>2, <3>3, <3>5, <3>10, <3>11
  <2>5. CASE c.name = "echo"
    <3> DEFINE p == IF n = 0 THEN Null ELSE GetParameter(l, n)
               more == n = 0 \/ p # Null
               o == IF n = 0 THEN Empty ELSE IF p = Null THEN Crlf ELSE p
               after == [s EXCEPT !.parameter_num = IF more THEN n + 1 ELSE 0]
    <3>1. A = <<Empty>> \o P \o <<Crlf>>
      BY <2>2, <2>5
    <3>2. P \in Seq(STRING) /\ Len(P) \in Nat
      BY <1>5, <1>10
    <3> DEFINE front == <<Empty>> \o P
    <3>a. <<Empty>> \in Seq(Texts) /\ <<Crlf>> \in Seq(Texts) /\ P \in Seq(Texts)
      BY <3>2 DEF Texts
    <3>b. Len(<<Empty>>) = 1 /\ <<Empty>>[1] = Empty /\ Len(<<Crlf>>) = 1 /\ <<Crlf>>[1] = Crlf
      OBVIOUS
    <3>c. /\ front \in Seq(Texts) /\ Len(front) = Len(P) + 1
          /\ front[1] = Empty /\ \A i \in 1 .. Len(P) : front[i + 1] = P[i]
      <4>1. /\ front \in Seq(Texts) /\ Len(front) = 1 + Len(P)
            /\ \A i \in 1 .. 1 + Len(P) : front[i] = IF i <= 1 THEN <<Empty>>[i] ELSE P[i - 1]
        BY <3>a, <3>b, ConcatProperties
      <4> HIDE DEF front
      <4>2. ASSUME NEW i \in 1 .. Len(P)
            PROVE  front[i + 1] = P[i]
        <5>1. i + 1 \in 1 .. 1 + Len(P) /\ ~(i + 1 <= 1) /\ (i + 1) - 1 = i
          BY <3>2
        <5> QED
          BY <4>1, <5>1
      <4> QED
        BY <3>2, <3>b, <4>1, <4>2
    <3> HIDE DEF front
    <3>d. /\ Len(A) = (Len(P) + 1) + 1
          /\ \A i \in 1 .. (Len(P) + 1) + 1 :
                A[i] = IF i <= Len(P) + 1 THEN front[i] ELSE <<Crlf>>[i - (Len(P) + 1)]
      <4>1. A = front \o <<Crlf>>
        BY <3>1 DEF front
      <4> QED
        BY <3>a, <3>b, <3>c, <4>1, ConcatProperties
    <3>3. Len(A) = Len(P) + 2 /\ A[1] = Empty /\ A[Len(P) + 2] = Crlf
      <4>1. Len(P) + 2 = (Len(P) + 1) + 1 /\ (Len(P) + 2) - (Len(P) + 1) = 1 /\ ~(Len(P) + 2 <= Len(P) + 1)
            /\ Len(P) + 2 \in 1 .. (Len(P) + 1) + 1 /\ 1 \in 1 .. (Len(P) + 1) + 1 /\ 1 <= Len(P) + 1
        BY <3>2
      <4> QED
        BY <3>b, <3>c, <3>d, <4>1
    <3>4. \A i \in 1 .. Len(P) : A[i + 1] = P[i]
      <4> TAKE i \in 1 .. Len(P)
      <4>1. i + 1 \in 1 .. (Len(P) + 1) + 1 /\ i + 1 <= Len(P) + 1
        BY <3>2
      <4> QED
        BY <3>c, <3>d, <4>1
    <3>5. n \in Nat /\ n <= Len(P) + 1
      BY <1>0, <3>2, <3>3
    <3>6. s.parameter_num = n /\ s.help = 0
      BY <1>2, <1>3, <2>5 DEF AtRest
    <3>7. r = [out |-> o, more |-> more, state |-> after]
      BY <2>5, <3>6 DEF r, Callback, Echo
    <3>8. o = A[n + 1] /\ o \in Texts /\ (more <=> n + 1 < Len(A))
      <4>1. CASE n = 0
        BY <3>2, <3>3, <4>1 DEF Texts
      <4>2. CASE n \in 1 .. Len(P)
        <5>1. p = P[n] /\ P[n] # Null /\ P[n] \in STRING
          BY <1>5, <1>10, <4>2
        <5> HIDE DEF p
        <5>2. o = P[n] /\ more
          BY <4>2, <5>1
        <5> QED
          BY <3>2, <3>3, <3>4, <4>2, <5>1, <5>2 DEF Texts
      <4>3. CASE n = Len(P) + 1
        <5>1. p = Null /\ n # 0
          BY <1>5, <1>10, <3>2, <4>3
        <5> HIDE DEF p
        <5>2. o = Crlf /\ ~more
          BY <5>1
        <5> QED
          BY <3>2, <3>3, <4>3, <5>2 DEF Texts
      <4> QED
        BY <3>2, <3>5, <4>1, <4>2, <4>3
    <3>9. more \in BOOLEAN
      OBVIOUS
    <3> HIDE DEF more, o
    <3>10. after \in States /\ after.help = 0 /\ (more => after.parameter_num = n + 1)
      BY <1>0, <3>5, <3>6 DEF States
    <3> HIDE DEF after
    <3>11. more => c.name = "echo" /\ after.help = 0 /\ after.parameter_num = n + 1
      BY <2>5, <3>10
    <3>12. Len(A) \in Nat
      BY <3>2, <3>3
    <3> QED
      BY <2>3, <3>7, <3>8, <3>9, <3>10, <3>11, <3>12
  <2>6. CASE c.name # "help" /\ c.name # "echo"
    <3>1. A = <<c.name>>
      BY <2>2, <2>6
    <3>2. Len(A) = 1 /\ A[1] = c.name
      BY <3>1
    <3>5. n = 0
      BY <1>0, <3>2
    <3>3. r = [out |-> c.name, more |-> FALSE, state |-> s]
      BY <2>6 DEF r, Callback
    <3>4. c.name \in Texts
      BY <1>4, <1>10 DEF Texts
    <3>6. ProcessCommand(s, l) = [out |-> c.name, more |-> FALSE, state |-> [s EXCEPT !.pxCommand = 0]]
      BY <2>1, <3>3
    <3> QED
      BY <3>1, <3>4, <3>5, <3>6, OneString DEF A
  <2> QED
    BY <2>4, <2>5, <2>6
<1> QED
  BY <1>8, <1>9, <1>10

-----------------------------------------------------------------------------
(* The replies                                                             *)

LEMMA AnswerLength ==
    ASSUME NEW l, IsLine(l)
    PROVE  Len(Answer(l)) \in Nat \ {0} /\ DOMAIN Answer(l) = 1 .. Len(Answer(l)) /\ Answer(l) \in Seq(Texts)
<1> DEFINE k == Search(l)
           c == Registered[k]
           P == Parameters(l)
           A == Answer(l)
<1>1. /\ k = 0 => A = <<NotRecognised>>
      /\ k # 0 => A = IF c.expected \notin {-1, Len(P)} THEN <<Incorrect>>
                      ELSE CASE c.name = "help" -> [j \in DOMAIN Registered |-> Registered[j].name]
                             [] c.name = "echo" -> <<Empty>> \o P \o <<Crlf>>
                             [] OTHER -> <<c.name>>
  BY AnswerFacts
<1>2. k # 0 => k \in DOMAIN Registered /\ l # <<>> /\ c.name = l[1]
  BY SearchFacts
<1> HIDE DEF k
<1>3. k # 0 => c.name \in STRING /\ c.name # Space
  BY <1>2, RegisteredFacts
<1>4. k # 0 => P \in Seq(Texts)
  <2>1. k # 0 => P \in Seq(STRING \ {Null})
    BY <1>2, <1>3, ParameterFacts
  <2> HIDE DEF P
  <2> QED
    BY <2>1 DEF Texts
<1> HIDE DEF c, P, A
<1>5. ASSUME NEW o \in Texts, A = <<o>>
      PROVE  Len(A) \in Nat \ {0} /\ DOMAIN A = 1 .. Len(A) /\ A \in Seq(Texts)
  BY <1>5
<1>6. CASE k = 0
  <2>1. NotRecognised \in Texts
    BY DEF Texts
  <2> QED
    BY <1>1, <1>5, <1>6, <2>1 DEF A
<1>7. CASE k # 0 /\ c.expected \notin {-1, Len(P)}
  <2>1. Incorrect \in Texts
    BY DEF Texts
  <2>2. A = <<Incorrect>>
    BY <1>1, <1>7
  <2> QED
    BY <1>5, <2>1, <2>2 DEF A
<1>8. CASE k # 0 /\ c.expected \in {-1, Len(P)}
  <2>1. A = CASE c.name = "help" -> [j \in DOMAIN Registered |-> Registered[j].name]
              [] c.name = "echo" -> <<Empty>> \o P \o <<Crlf>>
              [] OTHER -> <<c.name>>
    BY <1>1, <1>8
  <2>2. CASE c.name = "help"
    <3>1. A = [j \in 1 .. Len(Registered) |-> Registered[j].name]
      BY <2>1, <2>2, RegisteredFacts
    <3>2. \A j \in 1 .. Len(Registered) : Registered[j].name \in Texts
      BY RegisteredFacts DEF Texts
    <3>3. Len(Registered) \in Nat \ {0}
      BY <1>2, <1>8, RegisteredFacts
    <3> DEFINE m == Len(Registered)
               g(j) == Registered[j].name
    <3>4. A = [j \in 1 .. m |-> g(j)] /\ (\A j \in 1 .. m : g(j) \in Texts) /\ m \in Nat \ {0}
      BY <3>1, <3>2, <3>3
    <3> HIDE DEF m, g
    <3>5. A \in [1 .. m -> Texts]
      BY <3>4
    <3>6. A \in Seq(Texts) /\ Len(A) = m /\ DOMAIN A = 1 .. m
      BY <3>4, <3>5
    <3> QED
      BY <3>4, <3>6 DEF A
  <2>3. CASE c.name = "echo"
    <3>1. A = <<Empty>> \o P \o <<Crlf>>
      BY <2>1, <2>3
    <3>2. <<Empty>> \in Seq(Texts) /\ <<Crlf>> \in Seq(Texts)
      BY DEF Texts
    <3>3. Len(<<Empty>>) = 1 /\ Len(<<Crlf>>) = 1 /\ P \in Seq(Texts)
      BY <1>4, <1>8
    <3> DEFINE front == <<Empty>> \o P
    <3>4. front \in Seq(Texts) /\ Len(front) = 1 + Len(P)
      BY <3>2, <3>3, ConcatProperties
    <3> HIDE DEF front
    <3>5. A = front \o <<Crlf>>
      BY <3>1 DEF front
    <3>6. A \in Seq(Texts) /\ Len(A) = (1 + Len(P)) + 1
      BY <3>2, <3>3, <3>4, <3>5, ConcatProperties
    <3> QED
      BY <3>3, <3>6 DEF A
  <2>4. CASE c.name # "help" /\ c.name # "echo"
    <3>1. A = <<c.name>> /\ c.name \in Texts
      BY <1>3, <1>8, <2>1, <2>4 DEF Texts
    <3> QED
      BY <1>5, <3>1 DEF A
  <2> QED
    BY <2>2, <2>3, <2>4
<1> QED
  BY <1>6, <1>7, <1>8

\* The replies to the line so far are the beginning of its answer.
Begun ==
    /\ Len(replies) <= Len(Answer(line))
    /\ \A i \in 1 .. Len(replies) : replies[i] = Answer(line)[i]

\* Where the service is in the answer.  Only a command that has answered before
\* can come to write without a packet.
ReplyInv ==
    /\ IsLine(line) /\ replies \in Seq(Texts) /\ result.more \in BOOLEAN
    /\ pc["cli"] = "clone" => replies = <<>>
    /\ pc["cli"] = "process" =>
          /\ Begun /\ Position(line, state, Len(replies))
          /\ packet["cli"] = NoBuffer => Len(replies) > 0
    /\ pc["cli"] \in {"send", "next", "done"} =>
          /\ Begun /\ Len(replies) > 0
          /\ result.more <=> Len(replies) < Len(Answer(line))
          /\ result.more => Position(line, state, Len(replies))
    /\ pc["cli"] = "next" => result.more

LEMMA InitReplies == Init => ReplyInv
<1> SUFFICES ASSUME Init
             PROVE  ReplyInv
  OBVIOUS
<1>1. "cli" \in Tasks
  BY DEF Tasks
<1>2. pc["cli"] = "read" /\ line = <<>> /\ replies = <<>> /\ result.more = FALSE
  BY <1>1 DEF Init, NoResult
<1>3. IsLine(line) /\ replies \in Seq(Texts)
  BY <1>2 DEF IsLine
<1>4. result.more \in BOOLEAN
  BY <1>2
<1> QED
  BY <1>2, <1>3, <1>4 DEF ReplyInv

\* A step of another task, or of CSP, leaves the answer alone.
LEMMA RepliesElsewhere ==
    ASSUME ReplyInv, UNCHANGED <<line, state, result, replies>>, pc'["cli"] = pc["cli"], packet'["cli"] = packet["cli"]
    PROVE  ReplyInv'
BY DEF ReplyInv, Begun

\* Where the answer is of no more interest.
LEMMA RepliesAway ==
    ASSUME IsLine(line'), replies' \in Seq(Texts), result'.more \in BOOLEAN,
           pc'["cli"] \notin {"clone", "process", "send", "next", "done"}
    PROVE  ReplyInv'
BY DEF ReplyInv

LEMMA NextReplies == IInv /\ TypesInv /\ ReplyInv /\ [Next]_vars => ReplyInv'
<1> SUFFICES ASSUME IInv, TypesInv, ReplyInv, [Next]_vars
             PROVE  ReplyInv'
  OBVIOUS
<1>0. PoolTypes /\ PacketInv /\ TheirsAlone(state) /\ CliInv
  BY DEF TypesInv, IInv
<1>c. "cli" \in Tasks
  BY DEF Tasks
<1>p. pc \in [Tasks -> Labels]
  BY <1>0 DEF PoolTypes, Labels
<1>1. ASSUME NEW t \in Tasks, Arrive(t) \/ Close(t)
      PROVE  ReplyInv'
  BY <1>1, RepliesElsewhere DEF Arrive, Close, cli
<1>2. ASSUME NEW t \in Tasks, Take(t)
      PROVE  ReplyInv'
  <2>1. /\ t # "cli" /\ pc' = [pc EXCEPT ![t] = "answer"] /\ UNCHANGED cli
        /\ packet' = [packet EXCEPT ![t] = Head(queue[t])]
    BY <1>2 DEF Take, Goto, Read
  <2>2. pc'["cli"] = pc["cli"] /\ packet'["cli"] = packet["cli"]
    BY <1>0, <1>c, <2>1 DEF PoolTypes, Labels
  <2> QED
    BY <2>1, <2>2, RepliesElsewhere DEF cli
<1>3. ASSUME NEW t \in Tasks, AnswerPacket(t)
      PROVE  ReplyInv'
  <2>1. /\ pc[t] = "answer" /\ pc' = [pc EXCEPT ![t] = "read"] /\ UNCHANGED cli
        /\ packet' = [packet EXCEPT ![t] = NoBuffer]
    BY <1>3 DEF AnswerPacket, Finish, Goto
  <2>2. t # "cli"
    BY <1>0, <2>1 DEF PoolTypes, Labels
  <2>3. pc'["cli"] = pc["cli"] /\ packet'["cli"] = packet["cli"]
    BY <1>0, <1>c, <2>1, <2>2 DEF PoolTypes, Labels
  <2> QED
    BY <2>1, <2>3, RepliesElsewhere DEF cli
<1>4. ASSUME NEW b \in Buffers, Sent(b)
      PROVE  ReplyInv'
  BY <1>4, RepliesElsewhere DEF Sent, cli
<1>5. ASSUME CliStep
      PROVE  ReplyInv'
  <2>1. CASE CliRead
    <3>1. line' \in Lines /\ replies' = <<>> /\ UNCHANGED result /\ pc'["cli"] = "clone"
      BY <1>c, <1>p, <2>1 DEF CliRead, Goto
    <3>2. IsLine(line')
      BY <3>1, ServicesAssumption
    <3> QED
      BY <3>1, <3>2 DEF ReplyInv
  <2>2. CASE CliClone
    <3>1. /\ pc["cli"] = "clone" /\ pc'["cli"] = "process"
          /\ UNCHANGED <<line, state, result, replies, packet>>
      BY <1>c, <1>p, <2>2 DEF CliClone, Goto
    <3>2. state = AtRest /\ replies = <<>> /\ packet["cli"] # NoBuffer
      BY <1>0, <1>c, <3>1, ServicesAssumption DEF CliInv, ReplyInv, PacketInv
    <3>3. Len(Answer(line)) \in Nat \ {0}
      BY AnswerLength DEF ReplyInv
    <3>4. Position(line, state, Len(replies)) /\ Begun
      BY <3>2, <3>3 DEF Position, Begun
    <3> QED
      BY <3>1, <3>2, <3>4 DEF ReplyInv, Begun
  <2>3. CASE CliProcess
    <3> DEFINE n == Len(replies)
               r == ProcessCommand(state, line)
    <3>1. /\ pc["cli"] = "process" /\ pc'["cli"] = "send" /\ UNCHANGED line
          /\ replies' = Append(replies, result'.out)
      BY <1>c, <1>p, <2>3 DEF CliProcess, Goto
    <3>2. state' = r.state /\ result'.out = r.out /\ result'.more = r.more
      BY <2>3 DEF CliProcess, Call
    <3>3. IsLine(line) /\ Begun /\ Position(line, state, n) /\ replies \in Seq(Texts)
      BY <3>1 DEF ReplyInv
    <3>4. Writes(r, line, n)
      BY <3>3, CallAnswers
    <3> HIDE DEF r
    <3>5. n \in Nat /\ n + 1 <= Len(Answer(line))
      <4>1. n \in 0 .. Len(Answer(line)) - 1 /\ Len(Answer(line)) \in Nat
        BY <3>3, AnswerLength DEF Position
      <4> HIDE DEF n
      <4> QED
        BY <4>1
    <3>6. /\ r.out = Answer(line)[n + 1] /\ r.out \in Texts /\ r.more \in BOOLEAN
          /\ r.more <=> n + 1 < Len(Answer(line))
          /\ r.more => Position(line, r.state, n + 1)
      BY <3>4 DEF Writes
    <3>7. /\ replies' \in Seq(Texts) /\ Len(replies') = n + 1 /\ replies'[n + 1] = Answer(line)[n + 1]
          /\ \A i \in 1 .. n : replies'[i] = replies[i]
      BY <3>1, <3>2, <3>3, <3>6, AppendProperties
    <3>8. \A i \in 1 .. n : replies[i] = Answer(line)[i]
      BY <3>3 DEF Begun
    <3> HIDE DEF n
    <3>9. \A i \in 1 .. n + 1 : replies'[i] = Answer(line)[i]
      BY <3>5, <3>7, <3>8
    <3>10. Begun'
      BY <3>1, <3>5, <3>7, <3>9 DEF Begun
    <3>11. Len(replies') > 0
      BY <3>5, <3>7
    <3> QED
      BY <3>1, <3>2, <3>3, <3>6, <3>7, <3>10, <3>11 DEF ReplyInv
  <2>4. CASE CliSend
    <3>1. /\ pc["cli"] = "send" /\ UNCHANGED <<line, state, result, replies>>
          /\ \/ pc'["cli"] = IF result.more THEN "next" ELSE "done"
             \/ pc'["cli"] = IF result.more THEN "drain" ELSE "failed"
      BY <1>c, <1>p, <2>4 DEF CliSend, Goto, cli
    <3>2. pc'["cli"] \in {"next", "done", "drain", "failed"} /\ (pc'["cli"] = "next" => result.more)
      BY <3>1
    <3> QED
      BY <3>1, <3>2 DEF ReplyInv, Begun
  <2>5. CASE CliNext
    <3>1. /\ pc["cli"] = "next" /\ pc'["cli"] = "process" /\ UNCHANGED <<line, state, result, replies>>
      BY <1>c, <1>p, <2>5 DEF CliNext, Goto, cli
    <3> QED
      BY <3>1 DEF ReplyInv, Begun
  <2>6. CASE CliDone
    <3>1. pc'["cli"] = "read" /\ UNCHANGED <<line, result, replies>>
      BY <1>c, <1>p, <2>6 DEF CliDone, Goto
    <3> QED
      BY <3>1, RepliesAway DEF ReplyInv
  <2>7. CASE CliDrain
    <3>1. pc'["cli"] \in {"drain", "failed"} /\ UNCHANGED <<line, replies>> /\ Call
      BY <1>c, <1>p, <2>7 DEF CliDrain, Goto
    <3>2. result'.more \in BOOLEAN
      <4> DEFINE r == ProcessCommand(state, line)
      <4>1. CleanCall(state, line)
        BY <1>0, CallFacts
      <4>2. PICK o : \E more \in BOOLEAN, after \in States : r = [out |-> o, more |-> more, state |-> after]
        BY <4>1 DEF CleanCall
      <4>3. PICK more \in BOOLEAN, after \in States : r = [out |-> o, more |-> more, state |-> after]
        BY <4>2
      <4>4. result' = [out |-> r.out, more |-> r.more]
        BY <3>1 DEF Call
      <4> HIDE DEF r
      <4> QED
        BY <4>3, <4>4
    <3> QED
      BY <3>1, <3>2, RepliesAway DEF ReplyInv
  <2>8. CASE CliFailed
    <3>1. pc'["cli"] = "again" /\ UNCHANGED <<line, result, replies>>
      BY <1>c, <1>p, <2>8 DEF CliFailed, Goto
    <3> QED
      BY <3>1, RepliesAway DEF ReplyInv
  <2>9. CASE CliFreeAgain
    <3>1. pc'["cli"] = "read" /\ UNCHANGED <<line, result, replies>>
      BY <1>c, <1>p, <2>9 DEF CliFreeAgain, Finish, Goto, cli
    <3> QED
      BY <3>1, RepliesAway DEF ReplyInv
  <2>10. CASE DataAbort
    <3>1. pc'["cli"] = "read" /\ line' = <<>> /\ replies' = <<>> /\ result'.more = FALSE
      BY <1>c, <2>10 DEF DataAbort, NoResult
    <3>2. IsLine(line') /\ replies' \in Seq(Texts)
      BY <3>1 DEF IsLine
    <3> QED
      BY <3>1, <3>2, RepliesAway
  <2> QED
    BY <1>5, <2>1, <2>2, <2>3, <2>4, <2>5, <2>6, <2>7, <2>8, <2>9, <2>10 DEF CliStep
<1>6. ASSUME UNCHANGED vars
      PROVE  ReplyInv'
  BY <1>6, RepliesElsewhere DEF vars, cli
<1> QED
  BY <1>1, <1>2, <1>3, <1>4, <1>5, <1>6 DEF Next

\* The three parts of the invariant, together.
Served == IInv /\ TypesInv /\ ReplyInv

LEMMA InitServed == Init => Served
BY InitIInv, InitTypes, InitReplies DEF Served

LEMMA NextServed == Served /\ [Next]_vars => Served'
BY NextIInv, NextTypes, NextReplies DEF Served

\* The replies to a command line are the answer to that line, in order and from
\* the start, and cli_app takes the last one for the last: whatever list of
\* commands is registered, whatever sends and clones fail.
THEOREM AnswersTheLine == Spec => []RepliesRight
<1>1. ASSUME Served
      PROVE  RepliesRight
  <2> DEFINE n == Len(replies)
             A == Answer(line)
  <2> SUFFICES ASSUME pc["cli"] \in {"send", "next", "done"}
               PROVE  replies = SubSeq(A, 1, n) /\ (result.more <=> n < Len(A))
    BY DEF RepliesRight
  <2>1. Begun /\ (result.more <=> n < Len(A)) /\ replies \in Seq(Texts) /\ IsLine(line)
    BY <1>1 DEF Served, ReplyInv
  <2>2. A \in Seq(Texts) /\ Len(A) \in Nat
    BY <2>1, AnswerLength
  <2>3. n \in Nat /\ n <= Len(A) /\ \A i \in 1 .. n : replies[i] = A[i]
    BY <2>1 DEF Begun
  <2> HIDE DEF A
  <2>4. replies = SubSeq(A, 1, n)
    <3>1. SubSeq(A, 1, n) = [i \in 1 .. n |-> A[i]]
      BY <2>2, <2>3
    <3>2. replies = [i \in 1 .. n |-> replies[i]]
      BY <2>1
    <3> QED
      BY <2>3, <3>1, <3>2
  <2> QED
    BY <2>1, <2>4
<1> QED
  BY <1>1, InitServed, NextServed, PTL DEF Spec

\* The reply is written through NULL only to a command that is answered with
\* more than one packet and has sent the first: an empty pool harms no other.
THEOREM ShortAnswersAreSafe == Spec => []ExhaustionHitsLongAnswers
<1>1. ASSUME Served
      PROVE  ExhaustionHitsLongAnswers
  <2> SUFFICES ASSUME pc["cli"] = "process", packet["cli"] = NoBuffer
               PROVE  Len(Answer(line)) > 1 /\ Len(replies) > 0
    BY DEF ExhaustionHitsLongAnswers
  <2>1. Position(line, state, Len(replies)) /\ Len(replies) > 0 /\ IsLine(line)
    BY <1>1 DEF Served, ReplyInv
  <2>2. Len(replies) \in 0 .. Len(Answer(line)) - 1 /\ Len(Answer(line)) \in Nat
    BY <2>1, AnswerLength DEF Position
  <2> QED
    BY <2>1, <2>2
<1> QED
  BY <1>1, InitServed, NextServed, PTL DEF Spec

=============================================================================
