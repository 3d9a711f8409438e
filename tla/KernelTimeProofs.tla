---------------------------- MODULE KernelTimeProofs ---------------------------
(***************************************************************************)
(* For every set of tasks, every width of the tick counter, every period   *)
(* and every wait: no tick is lost, nobody is woken late or early.         *)
(***************************************************************************)
EXTENDS KernelTime, WellFoundedInduction, SequenceTheorems, TLAPS

-----------------------------------------------------------------------------
(* Numbers and the induction over them                                     *)

\* The natural numbers are the least set that has 0 and is closed under + 1.
LEMMA Induction ==
    ASSUME NEW S, 0 \in S, \A n \in Nat : n \in S => n + 1 \in S
    PROVE  Nat \subseteq S
<1> SUFFICES ASSUME Nat \ S # {}
             PROVE  FALSE
  OBVIOUS
<1> DEFINE below == {ss \in Nat \X Nat : ss[1] < ss[2]}
           rest == Nat \ S
<1>1. IsWellFoundedOn(below, Nat)
  BY NatLessThanWellFounded DEF OpToRel
<1> HIDE DEF below
<1>2. PICK n \in rest : \A m \in rest : <<m, n>> \notin below
  <2>1. rest \subseteq Nat /\ rest # {}
    OBVIOUS
  <2> HIDE DEF rest
  <2> QED
    BY <1>1, <2>1, WFMin
<1>3. n \in Nat /\ n # 0
  OBVIOUS
<1>4. n - 1 \in Nat /\ n - 1 < n /\ (n - 1) + 1 = n
  BY <1>3
<1>5. <<n - 1, n>> \in below
  BY <1>3, <1>4 DEF below
<1>6. n - 1 \in S
  BY <1>2, <1>4, <1>5
<1> QED
  BY <1>2, <1>4, <1>6

\* A set of natural numbers that is not empty has a least member.
LEMMA Least ==
    ASSUME NEW S, S \subseteq Nat, S # {}
    PROVE  \E n \in S : \A m \in S : n <= m
<1> DEFINE below == {ss \in Nat \X Nat : ss[1] < ss[2]}
<1>1. IsWellFoundedOn(below, Nat)
  BY NatLessThanWellFounded DEF OpToRel
<1> HIDE DEF below
<1>2. PICK n \in S : \A m \in S : <<m, n>> \notin below
  BY <1>1, WFMin
<1>3. ASSUME NEW m \in S
      PROVE  n <= m
  <2>1. m \in Nat /\ n \in Nat /\ <<m, n>> \notin below
    BY <1>2
  <2> QED
    BY <2>1 DEF below
<1> QED
  BY <1>3

LEMMA ModFacts ==
    ASSUME NEW w \in Nat, w > 0, NEW x \in Int
    PROVE  /\ x % w \in 0 .. w - 1
           /\ 0 <= x /\ x < w => x % w = x
           /\ w <= x /\ x < 2 * w => x % w = x - w
           /\ x < 0 /\ -w <= x => x % w = x + w
<1>1. x % w \in 0 .. w - 1
  OBVIOUS
<1>2. 0 <= x /\ x < w => x % w = x
  OBVIOUS
<1>3. w <= x /\ x < 2 * w => x % w = x - w
  OBVIOUS
<1>4. x < 0 /\ -w <= x => x % w = x + w
  OBVIOUS
<1> QED
  BY <1>1, <1>2, <1>3, <1>4

LEMMA ConstantFacts ==
    /\ Wrap \in Nat /\ Wrap > 1 /\ portMAX_DELAY \in Nat /\ portMAX_DELAY = Wrap - 1 /\ portMAX_DELAY >= 1
    /\ Nobody \notin Tasks
    /\ \A n \in Nat : n * Wrap \in Nat /\ (n + 1) * Wrap = n * Wrap + Wrap
BY KernelTimeAssumption DEF portMAX_DELAY

\* Whole rounds of the counter are in the order of their numbers.
LEMMA Rounds ==
    ASSUME NEW m \in Nat, NEW n \in Nat, m < n
    PROVE  m * Wrap + Wrap <= n * Wrap
<1>1. PICK j \in Nat : n = m + 1 + j
  <2>1. n - m - 1 \in Nat /\ n = m + 1 + (n - m - 1)
    OBVIOUS
  <2> QED
    BY <2>1
<1>2. n * Wrap = m * Wrap + Wrap + j * Wrap
  BY <1>1, ConstantFacts
<1> QED
  BY <1>2, ConstantFacts

-----------------------------------------------------------------------------
(* The lists                                                               *)

Items == [Tasks -> [list : Lists, value : 0 .. portMAX_DELAY]]

LEMMA ReadyFacts ==
    Ready \in [list : Lists, value : 0 .. portMAX_DELAY] /\ Ready.list = "ready"
BY ConstantFacts DEF Ready, Lists

\* The head of the list of delayed tasks is the first to be woken.
LEMMA HeadFacts ==
    ASSUME NEW items \in Items
    PROVE  /\ HeadValue(items) \in 0 .. portMAX_DELAY
           /\ \A u \in Tasks : items[u].list = "delayed" => HeadValue(items) <= items[u].value
<1>1. CASE In(items, "delayed") = {}
  BY <1>1, ConstantFacts DEF HeadValue, In
<1>2. CASE In(items, "delayed") # {}
  <2> DEFINE Values == {items[u].value : u \in In(items, "delayed")}
  <2>1. Values \subseteq 0 .. portMAX_DELAY /\ Values # {}
    BY <1>2 DEF In, Items
  <2>2. \E n \in Values : \A m \in Values : n <= m
    <3>1. Values \subseteq Nat
      BY <2>1, ConstantFacts
    <3> HIDE DEF Values
    <3> QED
      BY <2>1, <3>1, Least
  <2>3. \E v \in 0 .. portMAX_DELAY :
            /\ \E u \in In(items, "delayed") : items[u].value = v
            /\ \A u \in In(items, "delayed") : v <= items[u].value
    BY <2>1, <2>2
  <2>4. /\ HeadValue(items) \in 0 .. portMAX_DELAY
        /\ \A u \in In(items, "delayed") : HeadValue(items) <= items[u].value
    BY <1>2, <2>3 DEF HeadValue
  <2> QED
    BY <2>4 DEF In
<1> QED
  BY <1>1, <1>2

\* The queue of a semaphore: each task once.
Once(w) == \A i, j \in DOMAIN w : w[i] = w[j] => i = j
Among(u, w) == \E i \in DOMAIN w : w[i] = u

\* What is left of a queue when some tasks leave it.
LEMMA WithoutFacts ==
    ASSUME NEW w \in Seq(Takers), Once(w), NEW ts
    PROVE  /\ Without(w, ts) \in Seq(Takers) /\ Once(Without(w, ts))
           /\ \A u : Among(u, Without(w, ts)) => Among(u, w) /\ u \notin ts
<1> DEFINE left[n \in 0 .. Len(w)] ==
               IF n = 0 THEN <<>>
               ELSE IF w[n] \in ts THEN left[n - 1] ELSE Append(left[n - 1], w[n])
           Step(f, n) == IF w[n] \in ts THEN f ELSE Append(f, w[n])
           Good(s, n) == /\ s \in Seq(Takers) /\ Once(s)
                         /\ \A i \in DOMAIN s : s[i] \notin ts /\ \E j \in 1 .. n : w[j] = s[i]
<1>1. Len(w) \in Nat /\ \A n \in 1 .. Len(w) : w[n] \in Takers
  OBVIOUS
<1>2. \E f : f = [n \in 0 .. Len(w) |->
                    IF n = 0 THEN <<>> ELSE IF w[n] \in ts THEN f[n - 1] ELSE Append(f[n - 1], w[n])]
  <2> DEFINE Has(m) == \E f : f = [n \in 0 .. m |->
                    IF n = 0 THEN <<>> ELSE IF w[n] \in ts THEN f[n - 1] ELSE Append(f[n - 1], w[n])]
             S == {m \in Nat : Has(m)}
  <2>1. 0 \in S
    <3>1. [n \in 0 .. 0 |-> <<>>] = [n \in 0 .. 0 |-> IF n = 0 THEN <<>>
             ELSE IF w[n] \in ts THEN [i \in 0 .. 0 |-> <<>>][n - 1] ELSE Append([i \in 0 .. 0 |-> <<>>][n - 1], w[n])]
      OBVIOUS
    <3> QED
      BY <3>1
  <2>2. ASSUME NEW m \in Nat, m \in S
        PROVE  m + 1 \in S
    <3>1. PICK f : f = [n \in 0 .. m |->
                    IF n = 0 THEN <<>> ELSE IF w[n] \in ts THEN f[n - 1] ELSE Append(f[n - 1], w[n])]
      BY <2>2
    <3> DEFINE last == IF w[m + 1] \in ts THEN f[m] ELSE Append(f[m], w[m + 1])
               g == [n \in 0 .. m + 1 |-> IF n = m + 1 THEN last ELSE f[n]]
               h == [n \in 0 .. m + 1 |->
                      IF n = 0 THEN <<>> ELSE IF w[n] \in ts THEN g[n - 1] ELSE Append(g[n - 1], w[n])]
    <3>2. ASSUME NEW n \in 0 .. m + 1
          PROVE  g[n] = h[n]
      <4>1. CASE n = m + 1
        <5>1. n # 0 /\ n - 1 = m /\ m \in 0 .. m + 1 /\ m # m + 1
          BY <4>1
        <5>2. g[n - 1] = f[m] /\ g[n] = last
          BY <4>1, <5>1
        <5> QED
          BY <4>1, <5>1, <5>2
      <4>2. CASE n = 0
        BY <3>1, <4>2
      <4>3. CASE n # 0 /\ n # m + 1
        <5>1. n \in 0 .. m /\ n - 1 \in 0 .. m + 1 /\ n - 1 # m + 1
          BY <4>3
        <5>2. g[n] = f[n] /\ g[n - 1] = f[n - 1]
          BY <5>1, <4>3
        <5>3. f[n] = IF w[n] \in ts THEN f[n - 1] ELSE Append(f[n - 1], w[n])
          BY <3>1, <5>1, <4>3
        <5> QED
          BY <4>3, <5>2, <5>3
      <4> QED
        BY <4>1, <4>2, <4>3
    <3>3. g = h
      <4>1. g = [n \in 0 .. m + 1 |-> g[n]] /\ h = [n \in 0 .. m + 1 |-> h[n]]
        OBVIOUS
      <4> HIDE DEF g, h
      <4> QED
        BY <3>2, <4>1
    <3> HIDE DEF g
    <3>4. Has(m + 1)
      BY <3>3
    <3> HIDE DEF Has
    <3> QED
      BY <3>4
  <2> HIDE DEF S
  <2>3. Nat \subseteq S
    BY <2>1, <2>2, Induction
  <2> QED
    BY <1>1, <2>3 DEF S
<1>3. left = [n \in 0 .. Len(w) |->
                IF n = 0 THEN <<>> ELSE IF w[n] \in ts THEN left[n - 1] ELSE Append(left[n - 1], w[n])]
  BY <1>2
<1>4. Without(w, ts) = left[Len(w)]
  BY DEF Without
<1> HIDE DEF left
<1>5. ASSUME NEW n \in Nat, n + 1 <= Len(w), NEW s, Good(s, n)
      PROVE  Good(Step(s, n + 1), n + 1)
  <2>1. w[n + 1] \in Takers
    BY <1>1, <1>5
  <2>2. CASE w[n + 1] \in ts
    BY <1>5, <2>2
  <2>3. CASE w[n + 1] \notin ts
    <3> DEFINE r == Append(s, w[n + 1])
    <3>1. /\ r \in Seq(Takers) /\ DOMAIN r = 1 .. Len(s) + 1 /\ Len(s) \in Nat /\ DOMAIN s = 1 .. Len(s)
          /\ r[Len(s) + 1] = w[n + 1] /\ \A i \in 1 .. Len(s) : r[i] = s[i]
      BY <1>5, <2>1, AppendProperties
    <3> HIDE DEF r
    <3>2. \A i \in DOMAIN r : r[i] \notin ts /\ \E j \in 1 .. n + 1 : w[j] = r[i]
      <4> TAKE i \in DOMAIN r
      <4>1. CASE i = Len(s) + 1
        BY <2>3, <3>1, <4>1
      <4>2. CASE i # Len(s) + 1
        <5>1. i \in DOMAIN s /\ r[i] = s[i]
          BY <3>1, <4>2
        <5>2. PICK j \in 1 .. n : w[j] = s[i]
          BY <1>5, <5>1
        <5>3. j \in 1 .. n + 1
          OBVIOUS
        <5> QED
          BY <1>5, <5>1, <5>2, <5>3
      <4> QED
        BY <4>1, <4>2
    <3>3. \A i \in 1 .. Len(s) : r[i] # w[n + 1]
      <4> TAKE i \in 1 .. Len(s)
      <4>1. PICK j \in 1 .. n : w[j] = s[i]
        BY <1>5, <3>1
      <4>2. j \in DOMAIN w /\ n + 1 \in DOMAIN w /\ j # n + 1
        BY <1>1, <1>5
      <4> QED
        BY <3>1, <4>1, <4>2 DEF Once
    <3>4. Once(r)
      <4> SUFFICES ASSUME NEW i \in DOMAIN r, NEW j \in DOMAIN r, r[i] = r[j]
                   PROVE  i = j
        BY DEF Once
      <4>1. CASE i = Len(s) + 1 \/ j = Len(s) + 1
        BY <3>1, <3>3, <4>1
      <4>2. CASE i # Len(s) + 1 /\ j # Len(s) + 1
        <5>1. i \in DOMAIN s /\ j \in DOMAIN s /\ r[i] = s[i] /\ r[j] = s[j]
          BY <3>1, <4>2
        <5> QED
          BY <1>5, <5>1 DEF Once
      <4> QED
        BY <4>1, <4>2
    <3>5. Step(s, n + 1) = r
      BY <2>3 DEF r
    <3> QED
      BY <3>1, <3>2, <3>4, <3>5
  <2> QED
    BY <2>2, <2>3
<1>6. Good(left[Len(w)], Len(w))
  <2> DEFINE S == {n \in Nat : n <= Len(w) => Good(left[n], n)}
  <2>1. 0 \in S
    <3>1. left[0] = <<>>
      BY <1>1, <1>3
    <3>2. Good(<<>>, 0)
      BY DEF Once
    <3> HIDE DEF Good
    <3> QED
      BY <3>1, <3>2
  <2>2. ASSUME NEW n \in Nat, n \in S
        PROVE  n + 1 \in S
    <3> SUFFICES ASSUME n + 1 <= Len(w)
                 PROVE  Good(left[n + 1], n + 1)
      OBVIOUS
    <3>1. Good(left[n], n)
      BY <1>1, <2>2
    <3>2. left[n + 1] = Step(left[n], n + 1)
      <4>1. n + 1 \in 0 .. Len(w) /\ n + 1 # 0 /\ (n + 1) - 1 = n
        BY <1>1
      <4> QED
        BY <1>3, <4>1
    <3> HIDE DEF Good, Step
    <3> QED
      BY <1>5, <3>1, <3>2
  <2> HIDE DEF S
  <2>3. Nat \subseteq S
    BY <2>1, <2>2, Induction
  <2> HIDE DEF Good
  <2> QED
    BY <1>1, <2>3 DEF S
<1>7. \A u : Among(u, left[Len(w)]) => Among(u, w) /\ u \notin ts
  BY <1>1, <1>6 DEF Among
<1> QED
  BY <1>4, <1>6, <1>7

-----------------------------------------------------------------------------
(* The tick                                                                *)

Kernels == [tick : 0 .. portMAX_DELAY, overflows : Nat, item : Items, next : 0 .. portMAX_DELAY,
            waiting : Seq(Takers)]

Base(k) == k.overflows * Wrap
Total(k) == Base(k) + k.tick

\* Each task that sleeps for a time is in the list, and has the value, that
\* stand for the time d[u], which is still to come; the kernel looks at the
\* lists in time for it.
Timely(k, d) ==
    \A u \in Tasks :
        /\ k.item[u].list = "delayed" =>
              k.tick < k.item[u].value /\ k.next <= k.item[u].value /\ d[u] = Base(k) + k.item[u].value
        /\ k.item[u].list = "overflow" => d[u] = Base(k) + Wrap + k.item[u].value

\* Who waits in the queue waits once, and sleeps.
Queued(k) ==
    Once(k.waiting) /\ \A u \in Tasks : Among(u, k.waiting) => k.item[u].list # "ready"

\* What is so n ticks after the kernel k0, if nothing but ticks came.
Later(k0, k, d, n) ==
    /\ k \in Kernels /\ Timely(k, d) /\ Queued(k)
    /\ Total(k) = Total(k0) + n
    /\ \A u \in Tasks :
        /\ k0.item[u].list = "ready" => k.item[u].list = "ready"
        /\ k.item[u].list = "ready" => k0.item[u].list = "ready" \/ d[u] <= Total(k)
        /\ Among(u, k.waiting) => Among(u, k0.waiting)

\* The lists after the exchange, if there is one: who sleeps sleeps until the
\* same time, which is now or later.
LEMMA SwitchFacts ==
    ASSUME NEW k \in Kernels, NEW d, Timely(k, d),
           NEW tick, tick = (k.tick + 1) % Wrap,
           NEW items, items = IF tick = 0 THEN Switched(k.item) ELSE k.item,
           NEW next, next = IF tick = 0 THEN HeadValue(items) ELSE k.next,
           NEW base, base = (k.overflows + IF tick = 0 THEN 1 ELSE 0) * Wrap
    PROVE  /\ tick \in 0 .. portMAX_DELAY /\ base \in Nat /\ base + tick = Total(k) + 1
           /\ items \in Items /\ next \in 0 .. portMAX_DELAY
           /\ \A u \in Tasks :
                /\ items[u].list = "ready" <=> k.item[u].list = "ready"
                /\ items[u].list = "delayed" =>
                      tick <= items[u].value /\ next <= items[u].value /\ d[u] = base + items[u].value
                /\ items[u].list = "overflow" => d[u] = base + Wrap + items[u].value
<1>1. k.tick \in 0 .. portMAX_DELAY /\ k.overflows \in Nat /\ k.item \in Items /\ k.next \in 0 .. portMAX_DELAY
  BY DEF Kernels
<1>2. /\ tick = 0 => k.tick = portMAX_DELAY
      /\ tick # 0 => tick = k.tick + 1
      /\ tick \in 0 .. portMAX_DELAY
  <2>1. CASE k.tick = portMAX_DELAY
    <3>1. Wrap \in Nat /\ Wrap > 0 /\ k.tick + 1 = Wrap /\ Wrap <= k.tick + 1 /\ k.tick + 1 < 2 * Wrap
      BY <2>1, ConstantFacts
    <3>2. tick = 0
      BY <3>1, ModFacts
    <3> QED
      BY <2>1, <3>2, ConstantFacts
  <2>2. CASE k.tick # portMAX_DELAY
    <3>1. Wrap \in Nat /\ Wrap > 0 /\ k.tick + 1 < Wrap /\ k.tick + 1 \in Nat /\ k.tick + 1 # 0
      BY <1>1, <2>2, ConstantFacts
    <3>2. tick = k.tick + 1
      BY <3>1, ModFacts
    <3> QED
      BY <3>1, <3>2, ConstantFacts
  <2> QED
    BY <2>1, <2>2
<1>3. base \in Nat /\ base = Base(k) + IF tick = 0 THEN Wrap ELSE 0
  BY <1>1, ConstantFacts DEF Base
<1>4. Base(k) \in Nat
  BY <1>1, ConstantFacts DEF Base
<1>5. base + tick = Total(k) + 1
  BY <1>1, <1>2, <1>3, <1>4, ConstantFacts DEF Total
<1>6. CASE tick # 0
  <2>1. items = k.item /\ next = k.next
    BY <1>6
  <2>2. \A u \in Tasks : k.item[u].value \in 0 .. portMAX_DELAY
    BY <1>1 DEF Items
  <2> QED
    BY <1>1, <1>2, <1>3, <1>4, <1>5, <1>6, <2>1, <2>2, ConstantFacts DEF Timely
<1>7. CASE tick = 0
  <2>1. \A u \in Tasks : k.item[u].list # "delayed"
    BY <1>1, <1>2, <1>7, ConstantFacts DEF Timely, Items
  <2>2. ASSUME NEW u \in Tasks
        PROVE  /\ items[u] \in [list : Lists, value : 0 .. portMAX_DELAY]
               /\ items[u].list = "ready" <=> k.item[u].list = "ready"
               /\ items[u].list # "overflow"
               /\ items[u].list = "delayed" => k.item[u].list = "overflow" /\ items[u].value = k.item[u].value
    <3>1. k.item[u] \in [list : Lists, value : 0 .. portMAX_DELAY]
      BY <1>1 DEF Items
    <3>2. CASE k.item[u].list = "overflow"
      <4>1. items[u] = [k.item[u] EXCEPT !.list = "delayed"]
        BY <1>7, <3>2 DEF Switched
      <4> QED
        BY <3>1, <3>2, <4>1 DEF Lists
    <3>3. CASE k.item[u].list # "overflow"
      <4>1. items[u] = k.item[u]
        BY <1>7, <2>1, <3>3 DEF Switched
      <4> QED
        BY <2>1, <3>1, <3>3, <4>1
    <3> QED
      BY <3>2, <3>3
  <2>3. items \in Items
    <3>1. items = [u \in Tasks |-> items[u]]
      BY <1>7 DEF Switched
    <3> QED
      BY <2>2, <3>1 DEF Items
  <2>4. next = HeadValue(items)
    BY <1>7
  <2>5. \A u \in Tasks : items[u].value \in 0 .. portMAX_DELAY
    BY <2>3 DEF Items
  <2> QED
    BY <1>2, <1>3, <1>4, <1>5, <1>7, <2>2, <2>3, <2>4, <2>5, HeadFacts, ConstantFacts DEF Timely
<1> QED
  BY <1>6, <1>7

LEMMA WokenFacts ==
    ASSUME NEW items \in Items, NEW ts
    PROVE  /\ Woken(items, ts) \in Items
           /\ \A u \in Tasks : Woken(items, ts)[u] = IF u \in ts THEN Ready ELSE items[u]
BY ReadyFacts DEF Woken, Items

\* A tick is counted, and wakes those whose time it is.
LEMMA TickFacts ==
    ASSUME NEW k0, NEW k, NEW d \in [Tasks -> Nat], NEW n \in Nat, Later(k0, k, d, n), Total(k0) \in Nat
    PROVE  Later(k0, IncrementTick(k), d, n + 1)
<1> DEFINE tick == (k.tick + 1) % Wrap
           items == IF tick = 0 THEN Switched(k.item) ELSE k.item
           next == IF tick = 0 THEN HeadValue(items) ELSE k.next
           over == {u \in In(items, "delayed") : items[u].value <= tick}
           left == Woken(items, over)
           overflows == k.overflows + IF tick = 0 THEN 1 ELSE 0
           base == overflows * Wrap
           after == IncrementTick(k)
<1>1. after = [tick |-> tick, overflows |-> overflows,
               item |-> IF tick >= next THEN left ELSE items,
               next |-> IF tick >= next THEN HeadValue(left) ELSE next,
               waiting |-> IF tick >= next THEN Without(k.waiting, over) ELSE k.waiting]
  BY DEF IncrementTick
<1>2. k \in Kernels /\ Timely(k, d) /\ Queued(k)
  BY DEF Later
<1>3. /\ tick \in 0 .. portMAX_DELAY /\ base \in Nat /\ base + tick = Total(k) + 1
      /\ items \in Items /\ next \in 0 .. portMAX_DELAY
      /\ \A u \in Tasks :
            /\ items[u].list = "ready" <=> k.item[u].list = "ready"
            /\ items[u].list = "delayed" =>
                  tick <= items[u].value /\ next <= items[u].value /\ d[u] = base + items[u].value
            /\ items[u].list = "overflow" => d[u] = base + Wrap + items[u].value
  <2> HIDE DEF tick
  <2>1. tick = (k.tick + 1) % Wrap
    BY DEF tick
  <2> HIDE DEF items
  <2>2. items = IF tick = 0 THEN Switched(k.item) ELSE k.item
    BY DEF items
  <2> HIDE DEF next
  <2>3. next = IF tick = 0 THEN HeadValue(items) ELSE k.next
    BY DEF next
  <2> QED
    BY <1>2, <2>1, <2>2, <2>3, SwitchFacts
<1>4. overflows \in Nat /\ k.waiting \in Seq(Takers) /\ k.overflows \in Nat /\ k.tick \in Nat
  BY <1>2, ConstantFacts DEF Kernels
<1>5. \A u \in Tasks : u \in over <=> items[u].list = "delayed" /\ items[u].value <= tick
  BY DEF In
<1>6. Once(k.waiting) /\ \A u \in Tasks : Among(u, k.waiting) => k.item[u].list # "ready"
  BY <1>2 DEF Queued
<1>7. /\ \A u \in Tasks : k0.item[u].list = "ready" => k.item[u].list = "ready"
      /\ \A u \in Tasks : k.item[u].list = "ready" => k0.item[u].list = "ready" \/ d[u] <= Total(k)
      /\ \A u \in Tasks : Among(u, k.waiting) => Among(u, k0.waiting)
      /\ Total(k) = Total(k0) + n /\ Total(k) \in Nat
  BY DEF Later
<1>8. Base(after) = base /\ after.tick = tick /\ after.overflows = overflows
  BY <1>1 DEF Base
<1>9. Total(after) = base + tick /\ Total(after) = Total(k) + 1 /\ Total(after) = Total(k0) + (n + 1)
  BY <1>3, <1>7, <1>8 DEF Total
<1> HIDE DEF tick, items, next, base, overflows
<1>10. ASSUME tick >= next
       PROVE  Later(k0, after, d, n + 1)
  <2>1. /\ after.item = left /\ after.next = HeadValue(left) /\ after.waiting = Without(k.waiting, over)
        /\ after = [tick |-> tick, overflows |-> overflows, item |-> left, next |-> HeadValue(left),
                    waiting |-> Without(k.waiting, over)]
    BY <1>1, <1>10
  <2> HIDE DEF over, after
  <2>2. left \in Items /\ \A u \in Tasks : left[u] = IF u \in over THEN Ready ELSE items[u]
    BY <1>3, WokenFacts
  <2> HIDE DEF left
  <2>3. /\ Without(k.waiting, over) \in Seq(Takers) /\ Once(Without(k.waiting, over))
        /\ \A u : Among(u, Without(k.waiting, over)) => Among(u, k.waiting) /\ u \notin over
    BY <1>4, <1>6, WithoutFacts
  <2>4. HeadValue(left) \in 0 .. portMAX_DELAY
        /\ \A u \in Tasks : left[u].list = "delayed" => HeadValue(left) <= left[u].value
    BY <2>2, HeadFacts
  <2>5. after \in Kernels
    BY <1>3, <1>4, <2>1, <2>2, <2>3, <2>4 DEF Kernels
  <2>6. \A u \in Tasks : items[u].value \in 0 .. portMAX_DELAY /\ left[u].value \in 0 .. portMAX_DELAY
    BY <1>3, <2>2 DEF Items
  <2>7. \A u \in Tasks : left[u].list = "ready" <=> u \in over \/ items[u].list = "ready"
    BY <2>2, ReadyFacts
  <2>8. \A u \in Tasks : left[u].list # "ready" => left[u] = items[u] /\ u \notin over
    BY <2>2, ReadyFacts
  <2>9. Timely(after, d)
    <3>1. ASSUME NEW u \in Tasks, left[u].list = "delayed"
          PROVE  tick < left[u].value /\ HeadValue(left) <= left[u].value /\ d[u] = base + left[u].value
      <4>1. left[u] = items[u] /\ u \notin over
        BY <2>8, <3>1
      <4>2. tick <= items[u].value /\ d[u] = base + items[u].value
        BY <1>3, <3>1, <4>1
      <4>3. tick < items[u].value
        <5>1. items[u].list = "delayed"
          BY <3>1, <4>1
        <5>2. ~(items[u].value <= tick)
          BY <1>5, <4>1, <5>1
        <5>3. tick \in Int /\ items[u].value \in Int
          BY <1>3, <2>6
        <5> QED
          BY <5>2, <5>3
      <4>4. left[u].value = items[u].value
        BY <4>1
      <4>5. HeadValue(left) <= left[u].value
        BY <2>4, <3>1
      <4>6. tick < left[u].value /\ d[u] = base + left[u].value
        BY <4>2, <4>3, <4>4
      <4> QED
        BY <4>5, <4>6
    <3>2. ASSUME NEW u \in Tasks, left[u].list = "overflow"
          PROVE  d[u] = base + Wrap + left[u].value
      BY <1>3, <2>8, <3>2
    <3> QED
      BY <1>8, <2>1, <3>1, <3>2 DEF Timely
  <2>10. Queued(after)
    BY <1>3, <1>6, <2>1, <2>3, <2>7 DEF Queued
  <2>11. \A u \in Tasks : left[u].list = "ready" => k0.item[u].list = "ready" \/ d[u] <= Total(after)
    <3> TAKE u \in Tasks
    <3>1. CASE u \in over
      <4>1. d[u] = base + items[u].value /\ items[u].value <= tick
        BY <1>3, <1>5, <3>1
      <4> QED
        BY <1>3, <1>9, <2>6, <4>1, ConstantFacts
    <3>2. CASE u \notin over
      BY <1>3, <1>7, <1>9, <2>7, <3>2
    <3> QED
      BY <3>1, <3>2
  <2> QED
    BY <1>3, <1>7, <1>9, <2>1, <2>3, <2>5, <2>7, <2>9, <2>10, <2>11 DEF Later
<1>11. ASSUME ~(tick >= next)
       PROVE  Later(k0, after, d, n + 1)
  <2>1. /\ after.item = items /\ after.next = next /\ after.waiting = k.waiting
        /\ after = [tick |-> tick, overflows |-> overflows, item |-> items, next |-> next, waiting |-> k.waiting]
    BY <1>1, <1>11
  <2> HIDE DEF over, after, left
  <2>2. after \in Kernels
    BY <1>3, <1>4, <2>1 DEF Kernels
  <2>3. \A u \in Tasks : items[u].value \in 0 .. portMAX_DELAY
    BY <1>3 DEF Items
  <2>4. Timely(after, d)
    BY <1>3, <1>8, <1>11, <2>1, <2>3, ConstantFacts DEF Timely
  <2>5. Queued(after)
    BY <1>3, <1>6, <2>1 DEF Queued
  <2>6. \A u \in Tasks : items[u].list = "ready" => k0.item[u].list = "ready" \/ d[u] <= Total(after)
    BY <1>3, <1>7, <1>9
  <2> QED
    BY <1>3, <1>7, <1>9, <2>1, <2>2, <2>4, <2>5, <2>6 DEF Later
<1> QED
  BY <1>10, <1>11

\* The ticks of xTaskResumeAll, one after the other.
LEMMA TicksFacts ==
    ASSUME NEW k, NEW d \in [Tasks -> Nat], NEW n \in Nat, Total(k) \in Nat,
           k \in Kernels, Timely(k, d), Queued(k),
           NEW f, f = [i \in 0 .. n |-> IF i = 0 THEN k ELSE IncrementTick(f[i - 1])]
    PROVE  Later(k, f[n], d, n)
<1> DEFINE S == {m \in Nat : m <= n => Later(k, f[m], d, m)}
<1>1. 0 \in S
  <2>1. f[0] = k
    OBVIOUS
  <2>2. Later(k, k, d, 0)
    BY DEF Later
  <2> QED
    BY <2>1, <2>2
<1>2. ASSUME NEW m \in Nat, m \in S
      PROVE  m + 1 \in S
  <2> SUFFICES ASSUME m + 1 <= n
               PROVE  Later(k, f[m + 1], d, m + 1)
    OBVIOUS
  <2>1. Later(k, f[m], d, m)
    BY <1>2
  <2>2. f[m + 1] = IncrementTick(f[m])
    <3>1. m + 1 \in 0 .. n /\ m + 1 # 0 /\ (m + 1) - 1 = m
      OBVIOUS
    <3> QED
      BY <3>1
  <2> QED
    BY <2>1, <2>2, TickFacts
<1> HIDE DEF S
<1>3. Nat \subseteq S
  BY <1>1, <1>2, Induction
<1> QED
  BY <1>3 DEF S

\* There is a function that lists the kernels after each of n ticks.
LEMMA TicksExist ==
    ASSUME NEW k, NEW n \in Nat
    PROVE  \E f : f = [i \in 0 .. n |-> IF i = 0 THEN k ELSE IncrementTick(f[i - 1])]
<1> DEFINE Has(m) == \E f : f = [i \in 0 .. m |-> IF i = 0 THEN k ELSE IncrementTick(f[i - 1])]
           S == {m \in Nat : Has(m)}
<1>1. 0 \in S
  <2>1. [i \in 0 .. 0 |-> k] = [i \in 0 .. 0 |-> IF i = 0 THEN k ELSE IncrementTick([j \in 0 .. 0 |-> k][i - 1])]
    OBVIOUS
  <2> QED
    BY <2>1
<1>2. ASSUME NEW m \in Nat, m \in S
      PROVE  m + 1 \in S
  <2>1. PICK f : f = [i \in 0 .. m |-> IF i = 0 THEN k ELSE IncrementTick(f[i - 1])]
    BY <1>2
  <2> DEFINE last == IncrementTick(f[m])
             g == [i \in 0 .. m + 1 |-> IF i = m + 1 THEN last ELSE f[i]]
             h == [i \in 0 .. m + 1 |-> IF i = 0 THEN k ELSE IncrementTick(g[i - 1])]
  <2>2. ASSUME NEW i \in 0 .. m + 1
        PROVE  g[i] = h[i]
    <3>1. CASE i = m + 1
      <4>1. i # 0 /\ i - 1 = m /\ m \in 0 .. m + 1 /\ m # m + 1
        BY <3>1
      <4>2. g[i - 1] = f[m] /\ g[i] = last
        BY <3>1, <4>1
      <4> QED
        BY <4>1, <4>2
    <3>2. CASE i = 0
      BY <2>1, <3>2
    <3>3. CASE i # 0 /\ i # m + 1
      <4>1. i \in 0 .. m /\ i - 1 \in 0 .. m + 1 /\ i - 1 # m + 1
        BY <3>3
      <4>2. g[i] = f[i] /\ g[i - 1] = f[i - 1]
        BY <4>1, <3>3
      <4>3. f[i] = IncrementTick(f[i - 1])
        BY <2>1, <4>1, <3>3
      <4> QED
        BY <3>3, <4>2, <4>3
    <3> QED
      BY <3>1, <3>2, <3>3
  <2>3. g = h
    <3>1. g = [i \in 0 .. m + 1 |-> g[i]] /\ h = [i \in 0 .. m + 1 |-> h[i]]
      OBVIOUS
    <3> HIDE DEF g, h
    <3> QED
      BY <2>2, <3>1
  <2> HIDE DEF g
  <2>4. Has(m + 1)
    BY <2>3
  <2> HIDE DEF Has
  <2> QED
    BY <2>4
<1> HIDE DEF S
<1>3. Nat \subseteq S
  BY <1>1, <1>2, Induction
<1> QED
  BY <1>3 DEF S

-----------------------------------------------------------------------------
(* The inductive invariant                                                 *)

Suspending == {"delay", "resume_delay", "lock", "check", "empty", "place", "unlock", "unlock_expired", "resume",
               "resume_expired"}
Locking == {"check", "empty", "place", "unlock", "unlock_expired"}
DelayPlaces == {"idle", "delay", "resume_delay", "delayed"}
TakePlaces == Places \ {"delay", "resume_delay", "delayed"}
AsleepPlaces == {"unlock", "resume", "retry"}
TimedPlaces == TakePlaces \ {"idle", "try"}

Times == [count : Nat, entering : 0 .. portMAX_DELAY]
Semaphores == [messages : 0 .. 1, lock : -1 .. 1, waiting : Seq(Takers)]

HistoryOK == timeOut \in [Tasks -> Times] /\ due \in [Tasks -> Nat] /\ semaphore \in Semaphores

\* What a task does when it is where it is.  It has suspended the scheduler in
\* certain places, and it sleeps in certain places.
PlaceInv(u) ==
    /\ u \notin Takers => pc[u] \in DelayPlaces
    /\ u \notin Periodic \cup Delayers => pc[u] \in TakePlaces
    /\ item[u].list # "ready" => pc[u] \in AsleepPlaces \cup {"resume_delay", "delayed"}
    /\ suspended = u <=> pc[u] \in Suspending
    /\ pc[u] \in Locking => semaphore.lock # UNLOCKED

\* The lists hold the time when the wait of each task is over.
ItemInv(u) ==
    /\ item[u].list = "delayed" =>
          /\ xTickCount < item[u].value /\ xNextTaskUnblockTime <= item[u].value
          /\ due[u] = xNumOfOverflows * Wrap + item[u].value
    /\ item[u].list = "overflow" => due[u] = xNumOfOverflows * Wrap + Wrap + item[u].value

\* A periodic task knows when it was to be woken last, and was not woken before.
DelayInv(u) ==
    /\ pc[u] = "delay" /\ u \in Delayers => ticks[u] >= 1
    /\ u \in Periodic =>
          due[u] % Wrap = timeOut[u].entering /\ now <= due[u] + MaxLag
    /\ (u \in Periodic \/ pc[u] \in {"resume_delay", "delayed"}) /\ item[u].list = "ready" => Count >= due[u]

\* When the take noted the time, and what was left to wait.
Start(u) == timeOut[u].count * Wrap + timeOut[u].entering

TakeInv(u) ==
    /\ pc[u] = "try" => ticks[u] \in Waits
    /\ pc[u] \in TimedPlaces => ticks[u] # 0
    /\ pc[u] \in TimedPlaces /\ ticks[u] # portMAX_DELAY =>
          /\ now <= due[u] + MaxLag
          /\ due[u] = Start(u) + ticks[u] /\ Start(u) <= Count /\ ticks[u] + MaxLag <= Wrap
    /\ pc[u] \in {"empty", "place"} /\ ticks[u] # portMAX_DELAY => Start(u) = Count
    /\ pc[u] \in {"unlock_expired", "resume_expired", "expired"} => Count >= due[u]

Sound(u) == PlaceInv(u) /\ ItemInv(u) /\ DelayInv(u) /\ TakeInv(u)

\* Who waits in the queue, or is to be woken, sleeps; the queue is locked by
\* the task that has suspended the scheduler.
QueueInv ==
    /\ Once(semaphore.waiting)
    /\ \A u \in Tasks : u \in xPendingReadyList \/ Among(u, semaphore.waiting) =>
          pc[u] \in AsleepPlaces /\ item[u].list # "ready"
    /\ \A u \in Tasks : u \in xPendingReadyList => ~Among(u, semaphore.waiting)
    /\ semaphore.lock # UNLOCKED => \E u \in Tasks : pc[u] \in Locking
    /\ semaphore.lock = 1 => semaphore.messages = 1

IInv == TypeOK /\ HistoryOK /\ TicksKept /\ QueueInv /\ \A u \in Tasks : Sound(u)

-----------------------------------------------------------------------------
(* What a step leaves alone                                                *)

LEMMA UpdateFacts ==
    ASSUME NEW D, NEW R, NEW f \in [D -> R], NEW t \in D, NEW v \in R, NEW g, g = [f EXCEPT ![t] = v]
    PROVE  g \in [D -> R] /\ g[t] = v /\ \A u \in D \ {t} : g[u] = f[u]
OBVIOUS

LEMMA ClockFacts ==
    ASSUME TypeOK
    PROVE  /\ xTickCount \in Nat /\ xTickCount < Wrap /\ xNumOfOverflows * Wrap \in Nat /\ Count \in Nat
           /\ Count = xNumOfOverflows * Wrap + xTickCount
<1>1. xTickCount \in 0 .. portMAX_DELAY /\ xNumOfOverflows \in Nat
  BY DEF TypeOK
<1>2. xTickCount \in Nat /\ xTickCount < Wrap
  BY <1>1, ConstantFacts
<1>3. xNumOfOverflows * Wrap \in Nat
  BY <1>1, ConstantFacts
<1> QED
  BY <1>2, <1>3 DEF Count

\* A task that nothing was done to is as sound as before.
LEMMA SoundStays ==
    ASSUME NEW u \in Tasks, Sound(u), TypeOK,
           pc'[u] = pc[u], item'[u] = item[u], ticks'[u] = ticks[u], timeOut'[u] = timeOut[u], due'[u] = due[u],
           xTickCount' = xTickCount, xNumOfOverflows' = xNumOfOverflows, now' = now,
           xNextTaskUnblockTime' \in Int, xNextTaskUnblockTime' <= xNextTaskUnblockTime,
           suspended' = u <=> suspended = u,
           pc[u] \in Locking => semaphore'.lock # UNLOCKED
    PROVE  Sound(u)'
<1>1. PlaceInv(u)'
  BY DEF Sound, PlaceInv
<1>2. ItemInv(u)'
  <2>1. item[u].value \in Int /\ xNextTaskUnblockTime \in Int
    BY ConstantFacts DEF TypeOK
  <2> QED
    BY <2>1 DEF Sound, ItemInv
<1>3. DelayInv(u)'
  BY DEF Sound, DelayInv, Count
<1>4. TakeInv(u)'
  BY DEF Sound, TakeInv, Count, Start
<1> QED
  BY <1>1, <1>2, <1>3, <1>4 DEF Sound

\* A step of one task that touches neither the clock nor the lists.
LEMMA LocalStep ==
    ASSUME IInv, NEW t \in Tasks,
           UNCHANGED <<clock, item, uxPendedTicks, xPendingReadyList, now>>,
           pc' \in [Tasks -> Places], ticks' \in [Tasks -> 0 .. portMAX_DELAY],
           timeOut' \in [Tasks -> Times], due' \in [Tasks -> Nat],
           \A u \in Tasks \ {t} : /\ pc'[u] = pc[u] /\ ticks'[u] = ticks[u]
                                  /\ timeOut'[u] = timeOut[u] /\ due'[u] = due[u],
           semaphore' \in Semaphores, semaphore'.waiting = semaphore.waiting,
           semaphore'.lock = 1 => semaphore'.messages = 1,
           \/ semaphore'.lock # UNLOCKED /\ pc'[t] \in Locking
           \/ semaphore'.lock = semaphore.lock /\ (pc'[t] \in Locking <=> pc[t] \in Locking),
           suspended' = suspended \/ (suspended = Nobody /\ suspended' = t),
           item[t].list = "ready" \/ pc'[t] \in AsleepPlaces,
           Sound(t)'
    PROVE  IInv'
<1>1. TypeOK /\ HistoryOK /\ TicksKept /\ QueueInv /\ \A u \in Tasks : Sound(u)
  BY DEF IInv
<1>2. \A u \in Tasks : Sound(u)'
  <2> TAKE u \in Tasks
  <2>1. CASE u = t
    BY <2>1
  <2>2. CASE u # t
    <3>1. pc[u] \in Locking => semaphore'.lock # UNLOCKED
      BY <1>1 DEF Sound, PlaceInv
    <3>2. suspended' = u <=> suspended = u
      BY <2>2, ConstantFacts
    <3>3. xNextTaskUnblockTime' \in Int /\ xNextTaskUnblockTime' <= xNextTaskUnblockTime
      BY <1>1, ConstantFacts DEF clock, TypeOK
    <3>4. /\ pc'[u] = pc[u] /\ item'[u] = item[u] /\ ticks'[u] = ticks[u]
          /\ timeOut'[u] = timeOut[u] /\ due'[u] = due[u]
          /\ xTickCount' = xTickCount /\ xNumOfOverflows' = xNumOfOverflows /\ now' = now
      BY <2>2 DEF clock
    <3> QED
      BY <1>1, <3>1, <3>2, <3>3, <3>4, SoundStays
  <2> QED
    BY <2>1, <2>2
<1>3. semaphore'.lock # UNLOCKED => \E u \in Tasks : pc'[u] \in Locking
  BY <1>1 DEF QueueInv
<1>4. QueueInv'
  <2>1. \A u \in Tasks : u \in xPendingReadyList' \/ Among(u, semaphore'.waiting) =>
            pc'[u] \in AsleepPlaces /\ item'[u].list # "ready"
    BY <1>1 DEF QueueInv, Among
  <2>2. Once(semaphore'.waiting) /\ \A u \in Tasks : u \in xPendingReadyList' => ~Among(u, semaphore'.waiting)
    BY <1>1 DEF QueueInv, Among, Once
  <2> QED
    BY <1>3, <2>1, <2>2 DEF QueueInv
<1>5. TicksKept'
  BY <1>1 DEF TicksKept, Count, clock
<1>6. HistoryOK'
  BY DEF HistoryOK
<1>7. suspended' = Nobody => semaphore'.lock = UNLOCKED
  <2> SUFFICES ASSUME suspended' = Nobody, semaphore'.lock # UNLOCKED
               PROVE  FALSE
    OBVIOUS
  <2>1. PICK u \in Tasks : pc'[u] \in Locking
    BY <1>3
  <2>2. suspended' = u
    BY <1>2, <2>1 DEF Sound, PlaceInv, Locking, Suspending
  <2> QED
    BY <2>2, ConstantFacts
<1>8. TypeOK'
  <2>1. semaphore'.messages \in 0 .. 1 /\ semaphore'.lock \in -1 .. 1 /\ semaphore'.waiting \in Seq(Takers)
    BY DEF Semaphores
  <2>2. suspended' \in Tasks \cup {Nobody}
    BY <1>1 DEF TypeOK
  <2>3. suspended' = Nobody => uxPendedTicks' = 0 /\ xPendingReadyList' = {}
    BY <1>1, ConstantFacts DEF TypeOK
  <2> QED
    BY <1>1, <1>7, <2>1, <2>2, <2>3 DEF TypeOK, clock
<1> QED
  BY <1>2, <1>4, <1>5, <1>6, <1>8 DEF IInv

-----------------------------------------------------------------------------
(* The steps of one task that leave the lists and the clock alone          *)

\* What the step lemmas use of the invariant for the task that takes a step.
LEMMA TaskFacts ==
    ASSUME IInv, NEW t \in Tasks
    PROVE  /\ pc \in [Tasks -> Places] /\ ticks \in [Tasks -> 0 .. portMAX_DELAY]
           /\ timeOut \in [Tasks -> Times] /\ due \in [Tasks -> Nat] /\ item \in Items /\ semaphore \in Semaphores
           /\ TypeOK /\ Sound(t) /\ (semaphore.lock = 1 => semaphore.messages = 1)
           /\ now \in Nat /\ Count \in Nat /\ uxPendedTicks \in Nat /\ Count + uxPendedTicks = now
           /\ Runs(t) /\ pc[t] \notin Suspending =>
                 suspended = Nobody /\ item[t].list = "ready" /\ Count = now
           /\ pc[t] \notin AsleepPlaces \cup {"resume_delay", "delayed"} => item[t].list = "ready"
<1>1. TypeOK /\ HistoryOK /\ TicksKept /\ QueueInv /\ Sound(t)
  BY DEF IInv
<1>2. now \in Nat
  BY <1>1, KernelTimeAssumption DEF TypeOK
<1>3. Count \in Nat
  BY <1>1, ClockFacts
<1>4. suspended = Nobody => uxPendedTicks = 0
  BY <1>1 DEF TypeOK
<1>5. uxPendedTicks \in Nat /\ Count + uxPendedTicks = now
  BY <1>1 DEF TypeOK, TicksKept
<1>6. Runs(t) /\ pc[t] \notin Suspending => suspended = Nobody /\ item[t].list = "ready"
  BY <1>1 DEF Runs, Sound, PlaceInv
<1>7. pc[t] \notin AsleepPlaces \cup {"resume_delay", "delayed"} => item[t].list = "ready"
  BY <1>1 DEF Sound, PlaceInv
<1>8. suspended = Nobody => Count = now
  BY <1>3, <1>4, <1>5
<1>9. item \in Items
  BY <1>1 DEF TypeOK, Items
<1>10. semaphore.lock = 1 => semaphore.messages = 1
  BY <1>1 DEF QueueInv
<1> QED
  BY <1>1, <1>2, <1>3, <1>5, <1>6, <1>7, <1>8, <1>9, <1>10 DEF TypeOK, HistoryOK, Runs

LEMMA NoTimeFacts ==
    NoTime \in Times
BY ConstantFacts DEF NoTime, Times

LEMMA EnteringFacts ==
    ASSUME TypeOK
    PROVE  Entering \in Times /\ Entering.count * Wrap + Entering.entering = Count
BY DEF Entering, Times, TypeOK, Count

\* The task that is idle has nothing to keep.
LEMMA ReturnFacts ==
    ASSUME IInv, NEW t \in Tasks, t \notin Periodic, Return(t), UNCHANGED <<clock, item, now>>,
           suspended' # t, item[t].list = "ready"
    PROVE  /\ pc' \in [Tasks -> Places] /\ ticks' \in [Tasks -> 0 .. portMAX_DELAY]
           /\ timeOut' \in [Tasks -> Times] /\ due' \in [Tasks -> Nat] /\ pc'[t] = "idle"
           /\ \A u \in Tasks \ {t} : /\ pc'[u] = pc[u] /\ ticks'[u] = ticks[u]
                                     /\ timeOut'[u] = timeOut[u] /\ due'[u] = due[u]
           /\ Sound(t)'
<1>1. /\ pc \in [Tasks -> Places] /\ ticks \in [Tasks -> 0 .. portMAX_DELAY]
      /\ timeOut \in [Tasks -> Times] /\ due \in [Tasks -> Nat] /\ TypeOK
  BY TaskFacts
<1>2. /\ pc' = [pc EXCEPT ![t] = "idle"] /\ ticks' = [ticks EXCEPT ![t] = 0]
      /\ timeOut' = [timeOut EXCEPT ![t] = NoTime] /\ due' = [due EXCEPT ![t] = 0]
  BY DEF Return, Goto
<1>3. "idle" \in Places /\ 0 \in 0 .. portMAX_DELAY
  BY ConstantFacts DEF Places
<1>4. pc' \in [Tasks -> Places] /\ pc'[t] = "idle" /\ \A u \in Tasks \ {t} : pc'[u] = pc[u]
  BY <1>1, <1>2, <1>3, UpdateFacts
<1>5. ticks' \in [Tasks -> 0 .. portMAX_DELAY] /\ \A u \in Tasks \ {t} : ticks'[u] = ticks[u]
  BY <1>1, <1>2, <1>3, UpdateFacts
<1>6. timeOut' \in [Tasks -> Times] /\ \A u \in Tasks \ {t} : timeOut'[u] = timeOut[u]
  BY <1>1, <1>2, NoTimeFacts, UpdateFacts
<1>7. due' \in [Tasks -> Nat] /\ due'[t] = 0 /\ \A u \in Tasks \ {t} : due'[u] = due[u]
  BY <1>1, <1>2, UpdateFacts
<1>8. item'[t].list = "ready"
  OBVIOUS
<1>9. PlaceInv(t)'
  BY <1>4, <1>8 DEF PlaceInv, DelayPlaces, TakePlaces, Places, Suspending, Locking
<1>10. ItemInv(t)' /\ DelayInv(t)' /\ TakeInv(t)'
  BY <1>4, <1>8 DEF ItemInv, DelayInv, TakeInv, TimedPlaces, TakePlaces
<1> QED
  BY <1>4, <1>5, <1>6, <1>7, <1>9, <1>10 DEF Sound

\* A task goes on, and its variables stay.
LEMMA GotoFacts ==
    ASSUME IInv, NEW t \in Tasks, NEW l \in Places, Goto(t, l)
    PROVE  pc' \in [Tasks -> Places] /\ pc'[t] = l /\ \A u \in Tasks \ {t} : pc'[u] = pc[u]
BY TaskFacts, UpdateFacts DEF Goto

\* A step that does nothing but go on, or also changes the semaphore.
LEMMA GoStep ==
    ASSUME IInv, NEW t \in Tasks, NEW l \in Places, Goto(t, l),
           UNCHANGED <<clock, item, uxPendedTicks, xPendingReadyList, local, history>>,
           semaphore' \in Semaphores, semaphore'.waiting = semaphore.waiting,
           semaphore'.lock = 1 => semaphore'.messages = 1,
           \/ semaphore'.lock # UNLOCKED /\ l \in Locking
           \/ semaphore'.lock = semaphore.lock /\ (l \in Locking <=> pc[t] \in Locking),
           suspended' = suspended \/ (suspended = Nobody /\ suspended' = t),
           item[t].list = "ready" \/ l \in AsleepPlaces,
           suspended' = t <=> l \in Suspending,
           t \notin Takers => l \in DelayPlaces, t \notin Periodic \cup Delayers => l \in TakePlaces,
           DelayInv(t)', TakeInv(t)'
    PROVE  IInv'
<1>1. /\ pc \in [Tasks -> Places] /\ ticks \in [Tasks -> 0 .. portMAX_DELAY]
      /\ timeOut \in [Tasks -> Times] /\ due \in [Tasks -> Nat] /\ TypeOK /\ Sound(t)
  BY TaskFacts
<1>2. pc' \in [Tasks -> Places] /\ pc'[t] = l /\ \A u \in Tasks \ {t} : pc'[u] = pc[u]
  BY GotoFacts
<1>3. ticks' = ticks /\ timeOut' = timeOut /\ due' = due /\ now' = now
  BY DEF local, history
<1>4. PlaceInv(t)'
  BY <1>1, <1>2 DEF Sound, PlaceInv
<1>5. ItemInv(t)'
  BY <1>1, <1>3 DEF Sound, ItemInv, clock
<1>6. Sound(t)'
  BY <1>4, <1>5 DEF Sound
<1> QED
  BY <1>1, <1>2, <1>3, <1>6, LocalStep

\* Where a task can be, by its kind.
LEMMA KindFacts ==
    ASSUME IInv, NEW t \in Tasks
    PROVE  /\ pc[t] \notin DelayPlaces => t \in Takers /\ t \notin Periodic
           /\ pc[t] \notin TakePlaces => t \in Periodic \cup Delayers
           /\ t \in Delayers \/ t \in Takers => t \notin Periodic
           /\ suspended = t <=> pc[t] \in Suspending
BY TaskFacts, KernelTimeAssumption DEF Sound, PlaceInv

LEMMA TakeStarts ==
    ASSUME IInv, NEW t \in Tasks, Take(t)
    PROVE  IInv'
<1>1. PICK w \in Waits : ticks' = [ticks EXCEPT ![t] = w]
  BY DEF Take
<1>2. w \in 0 .. portMAX_DELAY
  BY KernelTimeAssumption
<1>3. pc[t] = "idle" /\ Runs(t) /\ Goto(t, "try") /\ t \in Takers
      /\ UNCHANGED <<clock, scheduler, semaphore, timeOut, history>>
  BY DEF Take, At
<1>4. ticks' \in [Tasks -> 0 .. portMAX_DELAY] /\ ticks'[t] = w /\ \A u \in Tasks \ {t} : ticks'[u] = ticks[u]
  BY <1>1, <1>2, TaskFacts, UpdateFacts
<1>5. pc' \in [Tasks -> Places] /\ pc'[t] = "try" /\ \A u \in Tasks \ {t} : pc'[u] = pc[u]
  BY <1>3, GotoFacts DEF Places
<1>6. item[t].list = "ready" /\ suspended # t /\ t \notin Periodic
  BY <1>3, TaskFacts, KindFacts, ConstantFacts DEF Suspending
<1>7. PlaceInv(t)'
  BY <1>3, <1>5, <1>6 DEF PlaceInv, scheduler, TakePlaces, Places, Suspending, Locking
<1>8. ItemInv(t)'
  BY <1>3, <1>6 DEF ItemInv, scheduler
<1>9. DelayInv(t)' /\ TakeInv(t)'
  BY <1>4, <1>5, <1>6 DEF DelayInv, TakeInv, TimedPlaces
<1>10. Sound(t)'
  BY <1>7, <1>8, <1>9 DEF Sound
<1>11. /\ timeOut' \in [Tasks -> Times] /\ due' \in [Tasks -> Nat] /\ semaphore' \in Semaphores
       /\ timeOut' = timeOut /\ due' = due /\ (semaphore'.lock = 1 => semaphore'.messages = 1)
  BY <1>3, TaskFacts DEF history
<1>12. semaphore'.lock = semaphore.lock /\ (pc'[t] \in Locking <=> pc[t] \in Locking)
  BY <1>3, <1>5 DEF Locking
<1>13. UNCHANGED <<clock, item, uxPendedTicks, xPendingReadyList, now>> /\ suspended' = suspended
       /\ semaphore'.waiting = semaphore.waiting
  BY <1>3 DEF scheduler, history
<1> QED
  BY <1>4, <1>5, <1>6, <1>10, <1>11, <1>12, <1>13, LocalStep

LEMMA GotKeeps ==
    ASSUME IInv, NEW t \in Tasks, Got(t)
    PROVE  IInv'
<1>1. /\ pc[t] \in {"try", "retry"} /\ Runs(t) /\ Return(t)
      /\ semaphore' = [semaphore EXCEPT !.messages = 0] /\ semaphore.messages = 1
      /\ UNCHANGED <<clock, scheduler, now>>
  BY DEF Got
<1>2. item[t].list = "ready" /\ suspended = Nobody /\ t \notin Periodic /\ suspended # t
  BY <1>1, TaskFacts, KindFacts DEF Suspending, DelayPlaces
<1>3. UNCHANGED <<clock, item, uxPendedTicks, xPendingReadyList, now>> /\ suspended' = suspended
  BY <1>1 DEF scheduler
<1>4. semaphore.lock = UNLOCKED
  BY <1>2 DEF IInv, TypeOK
<1>5. semaphore' \in Semaphores /\ semaphore'.waiting = semaphore.waiting /\ semaphore'.lock = UNLOCKED
  <2>1. semaphore \in Semaphores
    BY TaskFacts
  <2>2. semaphore' \in Semaphores /\ semaphore'.waiting = semaphore.waiting /\ semaphore'.lock = semaphore.lock
    BY <1>1, <2>1 DEF Semaphores
  <2> QED
    BY <1>4, <2>2
<1>6. /\ pc' \in [Tasks -> Places] /\ ticks' \in [Tasks -> 0 .. portMAX_DELAY]
      /\ timeOut' \in [Tasks -> Times] /\ due' \in [Tasks -> Nat] /\ pc'[t] = "idle"
      /\ \A u \in Tasks \ {t} : /\ pc'[u] = pc[u] /\ ticks'[u] = ticks[u]
                                /\ timeOut'[u] = timeOut[u] /\ due'[u] = due[u]
      /\ Sound(t)'
  BY <1>1, <1>2, <1>3, ReturnFacts
<1>7. semaphore'.lock = semaphore.lock /\ (pc'[t] \in Locking <=> pc[t] \in Locking)
  BY <1>1, <1>4, <1>5, <1>6 DEF Locking
<1>8. semaphore'.lock # 1
  BY <1>5 DEF UNLOCKED
<1> QED
  BY <1>2, <1>3, <1>5, <1>6, <1>7, <1>8, LocalStep

\* A call that returns with nothing done to the semaphore.
LEMMA ReturnStep ==
    ASSUME IInv, NEW t \in Tasks, t \notin Periodic, Return(t), pc[t] \notin Suspending, Runs(t),
           UNCHANGED <<clock, scheduler, semaphore, now>>
    PROVE  IInv'
<1>1. item[t].list = "ready" /\ suspended = Nobody /\ suspended # t
  BY TaskFacts, ConstantFacts
<1>2. UNCHANGED <<clock, item, uxPendedTicks, xPendingReadyList, now>> /\ suspended' = suspended
  BY DEF scheduler
<1>3. /\ pc' \in [Tasks -> Places] /\ ticks' \in [Tasks -> 0 .. portMAX_DELAY]
      /\ timeOut' \in [Tasks -> Times] /\ due' \in [Tasks -> Nat] /\ pc'[t] = "idle"
      /\ \A u \in Tasks \ {t} : /\ pc'[u] = pc[u] /\ ticks'[u] = ticks[u]
                                /\ timeOut'[u] = timeOut[u] /\ due'[u] = due[u]
      /\ Sound(t)'
  BY <1>1, <1>2, ReturnFacts
<1>4. semaphore'.lock = semaphore.lock /\ (pc'[t] \in Locking <=> pc[t] \in Locking)
  BY <1>3 DEF Locking, Suspending
<1>5. semaphore' \in Semaphores /\ semaphore'.waiting = semaphore.waiting
      /\ (semaphore'.lock = 1 => semaphore'.messages = 1)
  BY TaskFacts
<1> QED
  BY <1>1, <1>2, <1>3, <1>4, <1>5, LocalStep

LEMMA NotGotKeeps ==
    ASSUME IInv, NEW t \in Tasks, NotGot(t)
    PROVE  IInv'
<1>1. pc[t] \in {"try", "retry"} /\ Runs(t) /\ UNCHANGED <<clock, scheduler, semaphore, now>>
  BY DEF NotGot
<1>2. /\ item[t].list = "ready" /\ suspended = Nobody /\ t \notin Periodic /\ t \in Takers /\ suspended # t
      /\ Count = now /\ pc[t] \notin Suspending /\ TypeOK /\ Sound(t) /\ now \in Nat
  BY <1>1, TaskFacts, KindFacts DEF Suspending, DelayPlaces
<1>3. UNCHANGED <<clock, item, uxPendedTicks, xPendingReadyList, now>> /\ suspended' = suspended
  BY <1>1 DEF scheduler
<1>4. CASE ticks[t] = 0 /\ Return(t)
  BY <1>1, <1>2, <1>4, ReturnStep
<1>5. CASE /\ ticks[t] # 0 /\ pc[t] = "try"
           /\ timeOut' = [timeOut EXCEPT ![t] = Entering] /\ due' = [due EXCEPT ![t] = Count + ticks[t]]
           /\ Goto(t, "suspend") /\ UNCHANGED ticks
  <2>1. ticks[t] \in Waits /\ ticks[t] \in 0 .. portMAX_DELAY
    BY <1>2, <1>5 DEF Sound, TakeInv, TypeOK
  <2>2. ticks[t] # portMAX_DELAY => ticks[t] + MaxLag <= Wrap
    BY <2>1, KernelTimeAssumption
  <2>3. pc' \in [Tasks -> Places] /\ pc'[t] = "suspend" /\ \A u \in Tasks \ {t} : pc'[u] = pc[u]
    BY <1>5, GotoFacts DEF Places
  <2>4. timeOut' \in [Tasks -> Times] /\ timeOut'[t] = Entering /\ \A u \in Tasks \ {t} : timeOut'[u] = timeOut[u]
    BY <1>2, <1>5, TaskFacts, EnteringFacts, UpdateFacts
  <2>5. Count + ticks[t] \in Nat
    BY <1>2, <2>1, ConstantFacts
  <2>6. due' \in [Tasks -> Nat] /\ due'[t] = Count + ticks[t] /\ \A u \in Tasks \ {t} : due'[u] = due[u]
    BY <1>5, <2>5, TaskFacts, UpdateFacts
  <2>7. PlaceInv(t)'
    BY <1>2, <1>3, <2>3 DEF PlaceInv, TakePlaces, Places, Suspending, Locking
  <2>8. ItemInv(t)'
    BY <1>2, <1>3 DEF ItemInv
  <2>9. DelayInv(t)'
    BY <1>2, <2>3 DEF DelayInv
  <2>10. Count' = Count /\ Start(t)' = Count
    BY <1>2, <1>3, <2>4, EnteringFacts DEF Count, Start, clock
  <2>11. TakeInv(t)'
    <3>1. ticks'[t] = ticks[t] /\ now' = Count
      BY <1>2, <1>3, <1>5
    <3>2. MaxLag \in Nat /\ Count \in Nat /\ ticks[t] \in Nat
      BY <1>2, <2>1, KernelTimeAssumption, ConstantFacts
    <3> QED
      BY <1>5, <2>2, <2>3, <2>6, <2>10, <3>1, <3>2 DEF TakeInv
  <2>12. Sound(t)'
    BY <2>7, <2>8, <2>9, <2>11 DEF Sound
  <2>13. /\ ticks' \in [Tasks -> 0 .. portMAX_DELAY] /\ ticks' = ticks /\ semaphore' \in Semaphores
         /\ semaphore'.waiting = semaphore.waiting /\ (semaphore'.lock = 1 => semaphore'.messages = 1)
    BY <1>1, <1>5, TaskFacts
  <2>14. semaphore'.lock = semaphore.lock /\ (pc'[t] \in Locking <=> pc[t] \in Locking)
    BY <1>1, <2>3 DEF Locking
  <2> QED
    BY <1>2, <1>3, <2>3, <2>4, <2>6, <2>12, <2>13, <2>14, LocalStep
<1>6. CASE ticks[t] # 0 /\ pc[t] = "retry" /\ Goto(t, "suspend") /\ UNCHANGED <<local, due>>
  <2>1. pc'[t] = "suspend"
    BY <1>6, GotoFacts DEF Places
  <2>2. UNCHANGED <<local, history>>
    BY <1>1, <1>6 DEF history
  <2>3. ticks' = ticks /\ timeOut' = timeOut /\ due' = due /\ now' = now /\ Count' = Count /\ Start(t)' = Start(t)
    BY <1>1, <1>6 DEF local, clock, Count, Start
  <2>4. DelayInv(t)'
    BY <1>2, <2>1 DEF DelayInv
  <2>5. TakeInv(t)'
    BY <1>2, <1>6, <2>1, <2>3 DEF Sound, TakeInv, TimedPlaces, TakePlaces, Places
  <2>6. /\ semaphore' \in Semaphores /\ semaphore'.waiting = semaphore.waiting
        /\ (semaphore'.lock = 1 => semaphore'.messages = 1)
        /\ semaphore'.lock = semaphore.lock /\ ("suspend" \in Locking <=> pc[t] \in Locking)
    BY <1>1, <1>6, TaskFacts DEF Locking
  <2>7. "suspend" \in Places /\ "suspend" \in TakePlaces /\ "suspend" \notin Suspending
    BY DEF Places, TakePlaces, Suspending
  <2> QED
    BY <1>2, <1>3, <1>6, <2>2, <2>4, <2>5, <2>6, <2>7, GoStep
<1> QED
  BY <1>4, <1>5, <1>6 DEF NotGot

LEMMA SuspendAllKeeps ==
    ASSUME IInv, NEW t \in Tasks, SuspendAll(t)
    PROVE  IInv'
<1>1. /\ t \in Takers /\ pc[t] = "suspend" /\ Runs(t) /\ suspended = Nobody /\ suspended' = t /\ Goto(t, "lock")
      /\ UNCHANGED <<clock, item, uxPendedTicks, xPendingReadyList, semaphore, local, history>>
  BY DEF SuspendAll, Suspend, At
<1>2. item[t].list = "ready" /\ Sound(t) /\ t \notin Periodic
  BY <1>1, TaskFacts, KindFacts DEF Suspending
<1>3. pc'[t] = "lock"
  BY <1>1, GotoFacts DEF Places
<1>4. ticks' = ticks /\ timeOut' = timeOut /\ due' = due /\ now' = now /\ Count' = Count /\ Start(t)' = Start(t)
  BY <1>1 DEF local, history, clock, Count, Start
<1>5. DelayInv(t)'
  BY <1>2, <1>3 DEF DelayInv
<1>6. TakeInv(t)'
  BY <1>1, <1>2, <1>3, <1>4 DEF Sound, TakeInv, TimedPlaces, TakePlaces, Places
<1>7. /\ semaphore' \in Semaphores /\ semaphore'.waiting = semaphore.waiting
      /\ (semaphore'.lock = 1 => semaphore'.messages = 1)
      /\ semaphore'.lock = semaphore.lock /\ ("lock" \in Locking <=> pc[t] \in Locking)
  BY <1>1, TaskFacts DEF Locking
<1>8. "lock" \in Places /\ "lock" \in TakePlaces /\ "lock" \in Suspending
  BY DEF Places, TakePlaces, Suspending
<1> QED
  BY <1>1, <1>2, <1>5, <1>6, <1>7, <1>8, GoStep

LEMMA LockQueueKeeps ==
    ASSUME IInv, NEW t \in Tasks, LockQueue(t)
    PROVE  IInv'
<1>1. /\ pc[t] = "lock" /\ Goto(t, "check")
      /\ semaphore' = [semaphore EXCEPT !.lock = IF @ = UNLOCKED THEN LOCKED_UNMODIFIED ELSE @]
      /\ UNCHANGED <<clock, scheduler, local, history>>
  BY DEF LockQueue, At
<1>2. /\ item[t].list = "ready" /\ Sound(t) /\ t \notin Periodic /\ t \in Takers /\ suspended = t
      /\ semaphore \in Semaphores /\ (semaphore.lock = 1 => semaphore.messages = 1)
  BY <1>1, TaskFacts, KindFacts DEF Suspending, DelayPlaces, AsleepPlaces
<1>3. pc'[t] = "check"
  BY <1>1, GotoFacts DEF Places
<1>4. ticks' = ticks /\ timeOut' = timeOut /\ due' = due /\ now' = now /\ Count' = Count /\ Start(t)' = Start(t)
  BY <1>1 DEF local, history, clock, Count, Start
<1>5. DelayInv(t)'
  BY <1>2, <1>3 DEF DelayInv
<1>6. TakeInv(t)'
  BY <1>1, <1>2, <1>3, <1>4 DEF Sound, TakeInv, TimedPlaces, TakePlaces, Places
<1>7. /\ semaphore' \in Semaphores /\ semaphore'.waiting = semaphore.waiting
      /\ (semaphore'.lock = 1 => semaphore'.messages = 1) /\ semaphore'.lock # UNLOCKED
  <2>1. UNLOCKED = -1 /\ LOCKED_UNMODIFIED = 0
    BY DEF UNLOCKED, LOCKED_UNMODIFIED
  <2>2. semaphore'.messages = semaphore.messages /\ semaphore'.waiting = semaphore.waiting
        /\ semaphore'.lock = IF semaphore.lock = -1 THEN 0 ELSE semaphore.lock
    BY <1>1, <1>2, <2>1 DEF Semaphores
  <2>3. semaphore' \in Semaphores
    BY <1>1, <1>2, <2>1 DEF Semaphores
  <2> QED
    BY <1>2, <2>1, <2>2, <2>3
<1>8. "check" \in Places /\ "check" \in TakePlaces /\ "check" \in Suspending /\ "check" \in Locking
  BY DEF Places, TakePlaces, Suspending, Locking
<1>9. UNCHANGED <<clock, item, uxPendedTicks, xPendingReadyList, local, history>> /\ suspended' = suspended
  BY <1>1 DEF scheduler
<1> QED
  BY <1>1, <1>2, <1>5, <1>6, <1>7, <1>8, <1>9, GoStep

LEMMA IsQueueEmptyKeeps ==
    ASSUME IInv, NEW t \in Tasks, IsQueueEmpty(t)
    PROVE  IInv'
<1> DEFINE l == IF semaphore.messages = 0 THEN "place" ELSE "unlock"
<1>1. pc[t] = "empty" /\ Goto(t, l) /\ UNCHANGED <<clock, scheduler, semaphore, local, history>>
  BY DEF IsQueueEmpty, At
<1>2. /\ item[t].list = "ready" /\ Sound(t) /\ t \notin Periodic /\ t \in Takers /\ suspended = t
  BY <1>1, TaskFacts, KindFacts DEF Suspending, DelayPlaces, AsleepPlaces
<1>3. l \in Places /\ l \in TakePlaces /\ l \in Suspending /\ l \in Locking /\ l \in {"place", "unlock"}
  BY DEF Places, TakePlaces, Suspending, Locking
<1> HIDE DEF l
<1>4. pc'[t] = l
  BY <1>1, <1>3, GotoFacts
<1>5. ticks' = ticks /\ timeOut' = timeOut /\ due' = due /\ now' = now /\ Count' = Count /\ Start(t)' = Start(t)
  BY <1>1 DEF local, history, clock, Count, Start
<1>6. DelayInv(t)'
  BY <1>2, <1>3, <1>4 DEF DelayInv
<1>7. TakeInv(t)'
  BY <1>1, <1>2, <1>3, <1>4, <1>5 DEF Sound, TakeInv, TimedPlaces, TakePlaces, Places
<1>8. /\ semaphore' \in Semaphores /\ semaphore'.waiting = semaphore.waiting
      /\ (semaphore'.lock = 1 => semaphore'.messages = 1)
      /\ semaphore'.lock = semaphore.lock /\ (l \in Locking <=> pc[t] \in Locking)
  BY <1>1, <1>3, TaskFacts DEF Locking
<1>9. UNCHANGED <<clock, item, uxPendedTicks, xPendingReadyList, local, history>> /\ suspended' = suspended
  BY <1>1 DEF scheduler
<1> QED
  BY <1>1, <1>2, <1>3, <1>6, <1>7, <1>8, <1>9, GoStep

\* The time that passed since the take noted it: no more than a round of the
\* counter, so that the counter tells it.
LEMMA PassedFacts ==
    ASSUME IInv, NEW t \in Tasks, pc[t] = "check", ticks[t] # portMAX_DELAY,
           NEW passed, passed = (xTickCount - timeOut[t].entering) % Wrap,
           NEW expired, expired = (\/ xNumOfOverflows # timeOut[t].count /\ xTickCount >= timeOut[t].entering
                                   \/ passed >= ticks[t])
    PROVE  /\ expired => Count >= due[t]
           /\ ~expired => /\ passed \in Nat /\ passed < ticks[t] /\ Count = Start(t) + passed
<1>1. /\ Sound(t) /\ TypeOK /\ timeOut \in [Tasks -> Times] /\ due \in [Tasks -> Nat] /\ t \notin Periodic
      /\ ticks \in [Tasks -> 0 .. portMAX_DELAY] /\ now \in Nat /\ Count \in Nat /\ Count <= now
  BY TaskFacts, KindFacts DEF DelayPlaces
<1> DEFINE count == timeOut[t].count
           entering == timeOut[t].entering
<1>2. count \in Nat /\ entering \in 0 .. portMAX_DELAY
  BY <1>1 DEF Times
<1>3. count * Wrap \in Nat /\ Start(t) = count * Wrap + entering
  BY <1>2, ConstantFacts DEF Start
<1>4. /\ now <= due[t] + MaxLag /\ due[t] = Start(t) + ticks[t] /\ Start(t) <= Count /\ ticks[t] + MaxLag <= Wrap
  BY <1>1 DEF Sound, TakeInv, TimedPlaces, TakePlaces, Places
<1>5. /\ xTickCount \in Nat /\ xTickCount < Wrap /\ xNumOfOverflows \in Nat
      /\ xNumOfOverflows * Wrap \in Nat /\ Count = xNumOfOverflows * Wrap + xTickCount
  BY <1>1, ClockFacts DEF TypeOK
<1>6. MaxLag \in Nat /\ Wrap \in Nat /\ Wrap > 0 /\ entering \in Nat /\ entering < Wrap /\ ticks[t] \in Nat
      /\ due[t] \in Nat
  BY <1>1, <1>2, ConstantFacts, KernelTimeAssumption
<1>7. Count <= Start(t) + Wrap
  BY <1>1, <1>3, <1>4, <1>6
<1> HIDE DEF count, entering
<1>8. CASE xNumOfOverflows = count
  <2>1. xTickCount - entering \in Int /\ 0 <= xTickCount - entering /\ xTickCount - entering < Wrap
    BY <1>3, <1>4, <1>5, <1>6, <1>8
  <2>2. passed = xTickCount - entering
    BY <1>6, <2>1, ModFacts DEF entering
  <2>3. Count = Start(t) + passed
    BY <1>3, <1>5, <1>6, <1>8, <2>2
  <2>4. expired => passed >= ticks[t]
    BY <1>8 DEF count
  <2>5. passed \in Nat
    BY <2>1, <2>2
  <2> QED
    BY <1>3, <1>4, <1>6, <2>3, <2>4, <2>5
<1>9. CASE xNumOfOverflows = count + 1
  <2>1. xNumOfOverflows * Wrap = count * Wrap + Wrap
    BY <1>2, <1>9, ConstantFacts DEF count
  <2>2. xTickCount <= entering
    BY <1>3, <1>5, <1>6, <1>7, <2>1
  <2>3. CASE xTickCount = entering
    <3>1. Count = Start(t) + Wrap
      BY <1>3, <1>5, <1>6, <2>1, <2>3
    <3>2. xNumOfOverflows # count
      BY <1>2, <1>9 DEF count
    <3>3. expired
      BY <1>6, <2>3, <3>2 DEF count, entering
    <3>4. Count >= due[t]
      BY <1>3, <1>4, <1>6, <3>1
    <3> QED
      BY <3>3, <3>4
  <2>4. CASE xTickCount # entering
    <3>1. xTickCount - entering \in Int /\ xTickCount - entering < 0 /\ -Wrap <= xTickCount - entering
      BY <1>5, <1>6, <2>2, <2>4
    <3>2. passed = xTickCount - entering + Wrap
      BY <1>6, <3>1, ModFacts DEF entering
    <3>3. Count = Start(t) + passed /\ passed \in Nat
      BY <1>3, <1>5, <1>6, <2>1, <3>1, <3>2
    <3>4. ~(xTickCount >= entering)
      BY <1>5, <1>6, <2>2, <2>4
    <3>5. expired => passed >= ticks[t]
      BY <3>4 DEF entering
    <3> QED
      BY <1>3, <1>4, <1>6, <3>3, <3>5
  <2> QED
    BY <2>3, <2>4
<1>10. CASE xNumOfOverflows < count
  <2>1. xNumOfOverflows * Wrap + Wrap <= count * Wrap
    BY <1>2, <1>5, <1>10, Rounds DEF count
  <2> QED
    BY <1>3, <1>4, <1>5, <1>6, <2>1
<1>11. CASE count + 1 < xNumOfOverflows
  <2>1. (count + 1) * Wrap + Wrap <= xNumOfOverflows * Wrap /\ (count + 1) * Wrap = count * Wrap + Wrap
    BY <1>2, <1>5, <1>11, Rounds, ConstantFacts DEF count
  <2> QED
    BY <1>3, <1>5, <1>6, <1>7, <2>1
<1> QED
  BY <1>2, <1>5, <1>8, <1>9, <1>10, <1>11 DEF count

LEMMA CheckForTimeOutKeeps ==
    ASSUME IInv, NEW t \in Tasks, CheckForTimeOut(t)
    PROVE  IInv'
<1> DEFINE passed == (xTickCount - timeOut[t].entering) % Wrap
           expired == \/ xNumOfOverflows # timeOut[t].count /\ xTickCount >= timeOut[t].entering
                      \/ passed >= ticks[t]
<1>1. pc[t] = "check" /\ UNCHANGED <<clock, scheduler, semaphore, history>>
  BY DEF CheckForTimeOut, At
<1>2. \/ ticks[t] = portMAX_DELAY /\ Goto(t, "empty") /\ UNCHANGED local
      \/ ticks[t] # portMAX_DELAY /\ expired /\ Goto(t, "unlock_expired") /\ UNCHANGED local
      \/ /\ ticks[t] # portMAX_DELAY /\ ~expired
         /\ ticks' = [ticks EXCEPT ![t] = @ - passed] /\ timeOut' = [timeOut EXCEPT ![t] = Entering]
         /\ Goto(t, "empty")
  BY DEF CheckForTimeOut
<1>3. /\ item[t].list = "ready" /\ Sound(t) /\ TypeOK /\ t \notin Periodic /\ t \in Takers /\ suspended = t
      /\ ticks \in [Tasks -> 0 .. portMAX_DELAY]
  BY <1>1, TaskFacts, KindFacts DEF Suspending, DelayPlaces, AsleepPlaces
<1>4. ticks[t] # portMAX_DELAY =>
         /\ expired => Count >= due[t]
         /\ ~expired => /\ passed \in Nat /\ passed < ticks[t] /\ Count = Start(t) + passed
  <2> HIDE DEF passed
  <2>1. passed = (xTickCount - timeOut[t].entering) % Wrap
    BY DEF passed
  <2> HIDE DEF expired
  <2>2. expired = (\/ xNumOfOverflows # timeOut[t].count /\ xTickCount >= timeOut[t].entering
                   \/ passed >= ticks[t])
    BY DEF expired
  <2> QED
    BY <1>1, <2>1, <2>2, PassedFacts
<1>5. \A l \in {"empty", "unlock_expired"} :
         l \in Places /\ l \in TakePlaces /\ l \in Suspending /\ l \in Locking /\ l \in TimedPlaces
  BY DEF Places, TakePlaces, Suspending, Locking, TimedPlaces
<1>6. /\ semaphore' \in Semaphores /\ semaphore'.waiting = semaphore.waiting
      /\ (semaphore'.lock = 1 => semaphore'.messages = 1)
      /\ semaphore'.lock = semaphore.lock /\ pc[t] \in Locking
  BY <1>1, TaskFacts DEF Locking
<1>7. UNCHANGED <<clock, item, uxPendedTicks, xPendingReadyList, history>> /\ suspended' = suspended
  BY <1>1 DEF scheduler
<1>8. due' = due /\ now' = now /\ Count' = Count
  BY <1>1 DEF history, clock, Count
<1>9. /\ ticks[t] # 0
      /\ ticks[t] # portMAX_DELAY =>
            /\ now <= due[t] + MaxLag
            /\ due[t] = Start(t) + ticks[t] /\ Start(t) <= Count /\ ticks[t] + MaxLag <= Wrap
  BY <1>1, <1>3 DEF Sound, TakeInv, TimedPlaces, TakePlaces, Places
<1> HIDE DEF passed, expired
<1>10. CASE ticks[t] = portMAX_DELAY /\ Goto(t, "empty") /\ UNCHANGED local
  <2>1. pc'[t] = "empty" /\ UNCHANGED <<local, history>>
    BY <1>1, <1>5, <1>10, GotoFacts
  <2>2. ticks' = ticks
    BY <1>10 DEF local
  <2>3. DelayInv(t)' /\ TakeInv(t)'
    BY <1>3, <1>9, <1>10, <2>1, <2>2 DEF DelayInv, TakeInv
  <2> QED
    BY <1>3, <1>5, <1>6, <1>7, <1>10, <2>1, <2>3, GoStep
<1>11. CASE ticks[t] # portMAX_DELAY /\ expired /\ Goto(t, "unlock_expired") /\ UNCHANGED local
  <2>1. pc'[t] = "unlock_expired" /\ UNCHANGED <<local, history>>
    BY <1>1, <1>5, <1>11, GotoFacts
  <2>2. ticks' = ticks /\ Start(t)' = Start(t)
    BY <1>11 DEF local, Start
  <2>3. DelayInv(t)' /\ TakeInv(t)'
    BY <1>3, <1>4, <1>8, <1>9, <1>11, <2>1, <2>2 DEF DelayInv, TakeInv
  <2> QED
    BY <1>3, <1>5, <1>6, <1>7, <1>11, <2>1, <2>3, GoStep
<1>12. CASE /\ ticks[t] # portMAX_DELAY /\ ~expired
            /\ ticks' = [ticks EXCEPT ![t] = @ - passed] /\ timeOut' = [timeOut EXCEPT ![t] = Entering]
            /\ Goto(t, "empty")
  <2>1. pc' \in [Tasks -> Places] /\ pc'[t] = "empty" /\ \A u \in Tasks \ {t} : pc'[u] = pc[u]
    BY <1>5, <1>12, GotoFacts
  <2>2. timeOut' \in [Tasks -> Times] /\ timeOut'[t] = Entering /\ \A u \in Tasks \ {t} : timeOut'[u] = timeOut[u]
    BY <1>3, <1>12, TaskFacts, EnteringFacts, UpdateFacts
  <2>3. passed \in Nat /\ passed < ticks[t] /\ Count = Start(t) + passed
    BY <1>4, <1>12
  <2>4. ticks[t] \in 0 .. portMAX_DELAY /\ portMAX_DELAY \in Nat
    BY <1>3, ConstantFacts
  <2>5. ticks[t] - passed \in 0 .. portMAX_DELAY /\ ticks[t] - passed # 0
        /\ (ticks[t] # portMAX_DELAY => ticks[t] - passed # portMAX_DELAY)
    BY <2>3, <2>4
  <2>6. ticks' \in [Tasks -> 0 .. portMAX_DELAY] /\ ticks'[t] = ticks[t] - passed
        /\ \A u \in Tasks \ {t} : ticks'[u] = ticks[u]
    BY <1>3, <1>12, <2>5, UpdateFacts
  <2>7. Start(t)' = Count
    BY <1>3, <2>2, EnteringFacts DEF Start
  <2>8. PlaceInv(t)'
    BY <1>3, <1>5, <1>6, <1>7, <2>1 DEF PlaceInv, Sound
  <2>9. ItemInv(t)'
    BY <1>3, <1>7 DEF ItemInv
  <2>10. DelayInv(t)'
    BY <1>3, <2>1 DEF DelayInv
  <2>11. TakeInv(t)'
    <3>1. MaxLag \in Nat /\ Wrap \in Nat /\ Count \in Nat /\ Start(t) \in Int
      <4>1. Count \in Nat
        BY TaskFacts
      <4>2. Start(t) = Count - passed
        <5>1. Start(t) \in Int
          <6>1. timeOut[t].count \in Nat /\ timeOut[t].entering \in Nat
            BY TaskFacts, ConstantFacts DEF Times
          <6> QED
            BY <6>1, ConstantFacts DEF Start
        <5> QED
          BY <2>3, <4>1, <5>1
      <4> QED
        BY <2>3, <4>1, <4>2, KernelTimeAssumption
    <3>2. now' <= due'[t] + MaxLag
      BY <1>8, <1>9, <1>12
    <3>3. due'[t] = Count + (ticks[t] - passed)
      BY <1>8, <1>9, <1>12, <2>3, <2>4, <3>1
    <3>4. (ticks[t] - passed) + MaxLag <= Wrap
      BY <1>9, <1>12, <2>3, <2>4, <3>1
    <3> QED
      BY <1>8, <2>1, <2>5, <2>6, <2>7, <3>1, <3>2, <3>3, <3>4 DEF TakeInv
  <2>12. Sound(t)'
    BY <2>8, <2>9, <2>10, <2>11 DEF Sound
  <2>13. due' \in [Tasks -> Nat] /\ \A u \in Tasks \ {t} : due'[u] = due[u]
    BY <1>8, TaskFacts
  <2>14. semaphore'.lock = semaphore.lock /\ (pc'[t] \in Locking <=> pc[t] \in Locking)
    BY <1>5, <1>6, <2>1
  <2>15. UNCHANGED <<clock, item, uxPendedTicks, xPendingReadyList, now>>
    BY <1>7 DEF history
  <2> QED
    BY <1>3, <1>6, <1>7, <2>1, <2>2, <2>6, <2>12, <2>13, <2>14, <2>15, LocalStep
<1> QED
  BY <1>2, <1>10, <1>11, <1>12

LEMMA ExpiredKeeps ==
    ASSUME IInv, NEW t \in Tasks, Expired(t)
    PROVE  IInv'
<1>1. pc[t] = "expired" /\ Runs(t) /\ UNCHANGED <<clock, scheduler, semaphore, now>>
  BY DEF Expired, At
<1>2. /\ item[t].list = "ready" /\ suspended = Nobody /\ t \notin Periodic /\ t \in Takers /\ suspended # t
      /\ Sound(t) /\ pc[t] \notin Suspending
  BY <1>1, TaskFacts, KindFacts DEF Suspending, DelayPlaces
<1>3. CASE Return(t)
  BY <1>1, <1>2, <1>3, ReturnStep
<1>4. CASE Goto(t, "retry") /\ UNCHANGED <<local, due>>
  <2>1. pc'[t] = "retry"
    BY <1>4, GotoFacts DEF Places
  <2>2. UNCHANGED <<local, history>>
    BY <1>1, <1>4 DEF history
  <2>3. ticks' = ticks /\ timeOut' = timeOut /\ due' = due /\ now' = now /\ Count' = Count /\ Start(t)' = Start(t)
    BY <1>1, <1>4 DEF local, clock, Count, Start
  <2>4. DelayInv(t)'
    BY <1>2, <2>1 DEF DelayInv
  <2>5. TakeInv(t)'
    BY <1>1, <1>2, <2>1, <2>3 DEF Sound, TakeInv, TimedPlaces, TakePlaces, Places
  <2>6. /\ semaphore' \in Semaphores /\ semaphore'.waiting = semaphore.waiting
        /\ (semaphore'.lock = 1 => semaphore'.messages = 1)
        /\ semaphore'.lock = semaphore.lock /\ ("retry" \in Locking <=> pc[t] \in Locking)
    BY <1>1, TaskFacts DEF Locking
  <2>7. "retry" \in Places /\ "retry" \in TakePlaces /\ "retry" \notin Suspending
    BY DEF Places, TakePlaces, Suspending
  <2>8. UNCHANGED <<clock, item, uxPendedTicks, xPendingReadyList>> /\ suspended' = suspended
    BY <1>1 DEF scheduler
  <2> QED
    BY <1>2, <1>4, <2>2, <2>4, <2>5, <2>6, <2>7, <2>8, GoStep
<1> QED
  BY <1>3, <1>4 DEF Expired

LEMMA BeginDelayKeeps ==
    ASSUME IInv, NEW t \in Tasks, BeginDelay(t)
    PROVE  IInv'
<1>1. /\ t \notin Takers \ Delayers /\ pc[t] = "idle" /\ Runs(t) /\ suspended = Nobody
      /\ suspended' = t /\ Goto(t, "delay")
      /\ UNCHANGED <<clock, item, uxPendedTicks, xPendingReadyList, semaphore, timeOut, history>>
  BY DEF BeginDelay, Suspend, At
<1>2. PICK d \in Delays : ticks' = IF t \in Delayers THEN [ticks EXCEPT ![t] = d] ELSE ticks
  BY DEF BeginDelay
<1>3. item[t].list = "ready" /\ Sound(t) /\ t \in Periodic \cup Delayers /\ (t \in Delayers => t \notin Periodic)
  BY <1>1, TaskFacts, KindFacts DEF Suspending, Tasks
<1>4. d \in 1 .. portMAX_DELAY /\ d \in 0 .. portMAX_DELAY
  BY KernelTimeAssumption, ConstantFacts
<1>5. /\ ticks' \in [Tasks -> 0 .. portMAX_DELAY] /\ (t \in Delayers => ticks'[t] = d)
      /\ \A u \in Tasks \ {t} : ticks'[u] = ticks[u]
  BY <1>2, <1>4, TaskFacts, UpdateFacts
<1>6. pc' \in [Tasks -> Places] /\ pc'[t] = "delay" /\ \A u \in Tasks \ {t} : pc'[u] = pc[u]
  BY <1>1, GotoFacts DEF Places
<1>7. Count' = Count /\ due' = due /\ now' = now /\ timeOut' = timeOut
  BY <1>1 DEF Count, clock, history
<1>8. PlaceInv(t)'
  BY <1>1, <1>3, <1>6 DEF PlaceInv, DelayPlaces, Suspending, Locking
<1>9. ItemInv(t)'
  BY <1>1, <1>3 DEF ItemInv
<1>10. DelayInv(t)'
  BY <1>1, <1>3, <1>4, <1>5, <1>6, <1>7 DEF Sound, DelayInv
<1>11. TakeInv(t)'
  BY <1>6 DEF TakeInv, TimedPlaces, TakePlaces
<1>12. Sound(t)'
  BY <1>8, <1>9, <1>10, <1>11 DEF Sound
<1>13. /\ timeOut' \in [Tasks -> Times] /\ due' \in [Tasks -> Nat] /\ semaphore' \in Semaphores
       /\ (semaphore'.lock = 1 => semaphore'.messages = 1)
  BY <1>1, <1>7, TaskFacts
<1>14. semaphore'.lock = semaphore.lock /\ (pc'[t] \in Locking <=> pc[t] \in Locking)
  BY <1>1, <1>6 DEF Locking
<1>15. UNCHANGED <<clock, item, uxPendedTicks, xPendingReadyList, now>> /\ semaphore'.waiting = semaphore.waiting
  BY <1>1 DEF history
<1> QED
  BY <1>1, <1>3, <1>5, <1>6, <1>7, <1>12, <1>13, <1>14, <1>15, LocalStep

LEMMA AfterDelayKeeps ==
    ASSUME IInv, NEW t \in Tasks, AfterDelay(t)
    PROVE  IInv'
<1>1. pc[t] = "delayed" /\ Runs(t) /\ UNCHANGED <<clock, scheduler, semaphore, now>>
  BY DEF AfterDelay, At
<1>2. /\ item[t].list = "ready" /\ suspended = Nobody /\ suspended # t
      /\ Sound(t) /\ pc[t] \notin Suspending /\ (t \in Delayers => t \notin Periodic) /\ t \in Periodic \cup Delayers
  BY <1>1, TaskFacts, KindFacts DEF Suspending, TakePlaces
<1>3. CASE Return(t) /\ t \in Delayers
  BY <1>1, <1>2, <1>3, ReturnStep
<1>4. CASE Goto(t, "idle") /\ UNCHANGED <<local, due>>
  <2>1. pc'[t] = "idle"
    BY <1>4, GotoFacts DEF Places
  <2>2. UNCHANGED <<local, history>>
    BY <1>1, <1>4 DEF history
  <2>3. ticks' = ticks /\ timeOut' = timeOut /\ due' = due /\ now' = now /\ Count' = Count /\ item' = item
    BY <1>1, <1>4 DEF local, clock, Count, scheduler
  <2>4. DelayInv(t)'
    BY <1>1, <1>2, <2>1, <2>3 DEF Sound, DelayInv
  <2>5. TakeInv(t)'
    BY <2>1 DEF TakeInv, TimedPlaces
  <2>6. /\ semaphore' \in Semaphores /\ semaphore'.waiting = semaphore.waiting
        /\ (semaphore'.lock = 1 => semaphore'.messages = 1)
        /\ semaphore'.lock = semaphore.lock /\ ("idle" \in Locking <=> pc[t] \in Locking)
    BY <1>1, TaskFacts DEF Locking
  <2>7. "idle" \in Places /\ "idle" \in TakePlaces /\ "idle" \notin Suspending /\ "idle" \in DelayPlaces
    BY DEF Places, TakePlaces, Suspending, DelayPlaces
  <2>8. UNCHANGED <<clock, item, uxPendedTicks, xPendingReadyList>> /\ suspended' = suspended
    BY <1>1 DEF scheduler
  <2> QED
    BY <1>2, <1>4, <2>2, <2>4, <2>5, <2>6, <2>7, <2>8, GoStep
<1> QED
  BY <1>3, <1>4 DEF AfterDelay

-----------------------------------------------------------------------------
(* The steps that put a task to sleep                                      *)

\* The invariant from its parts, after any step.
LEMMA Assembled ==
    ASSUME xTickCount' \in 0 .. portMAX_DELAY, xNumOfOverflows' \in Nat, xNextTaskUnblockTime' \in 0 .. portMAX_DELAY,
           item' \in Items, suspended' \in Tasks \cup {Nobody}, uxPendedTicks' \in Nat,
           xPendingReadyList' \subseteq Takers, semaphore' \in Semaphores,
           suspended' = Nobody => uxPendedTicks' = 0 /\ xPendingReadyList' = {},
           pc' \in [Tasks -> Places], ticks' \in [Tasks -> 0 .. portMAX_DELAY], now' \in 0 .. MaxTime,
           timeOut' \in [Tasks -> Times], due' \in [Tasks -> Nat],
           TicksKept', QueueInv', \A u \in Tasks : Sound(u)'
    PROVE  IInv'
<1>1. suspended' = Nobody => semaphore'.lock = UNLOCKED
  <2> SUFFICES ASSUME suspended' = Nobody, semaphore'.lock # UNLOCKED
               PROVE  FALSE
    OBVIOUS
  <2>1. PICK u \in Tasks : pc'[u] \in Locking
    BY DEF QueueInv
  <2>2. suspended' = u
    BY <2>1 DEF Sound, PlaceInv, Locking, Suspending
  <2> QED
    BY <2>2, ConstantFacts
<1>2. semaphore'.messages \in 0 .. 1 /\ semaphore'.lock \in -1 .. 1 /\ semaphore'.waiting \in Seq(Takers)
  BY DEF Semaphores
<1>3. TypeOK'
  BY <1>1, <1>2 DEF TypeOK, Items
<1>4. HistoryOK'
  BY DEF HistoryOK
<1> QED
  BY <1>3, <1>4 DEF IInv

\* The item holds the time, on the side of the wrap where it is.
LEMMA AddFacts ==
    ASSUME TypeOK, item \in Items, NEW t \in Tasks, NEW wait \in 1 .. portMAX_DELAY, NEW forever \in BOOLEAN,
           AddToDelayedList(t, wait, forever)
    PROVE  /\ item' \in Items /\ \A u \in Tasks \ {t} : item'[u] = item[u]
           /\ xTickCount' = xTickCount /\ xNumOfOverflows' = xNumOfOverflows
           /\ xNextTaskUnblockTime' \in 0 .. portMAX_DELAY /\ xNextTaskUnblockTime' <= xNextTaskUnblockTime
           /\ \/ item'[t].list = "suspended" /\ forever /\ wait = portMAX_DELAY
              \/ /\ item'[t].list = "delayed" /\ ~(forever /\ wait = portMAX_DELAY)
                 /\ xTickCount < item'[t].value /\ xNextTaskUnblockTime' <= item'[t].value
                 /\ Count + wait = xNumOfOverflows * Wrap + item'[t].value
              \/ /\ item'[t].list = "overflow" /\ ~(forever /\ wait = portMAX_DELAY)
                 /\ Count + wait = xNumOfOverflows * Wrap + Wrap + item'[t].value
<1> DEFINE v == (xTickCount + wait) % Wrap
           base == xNumOfOverflows * Wrap
<1>1. /\ xTickCount \in 0 .. portMAX_DELAY /\ base \in Nat /\ Count = base + xTickCount
      /\ xNextTaskUnblockTime \in 0 .. portMAX_DELAY
  BY ClockFacts DEF TypeOK
<1>2. /\ \/ v = xTickCount + wait /\ xTickCount < v
         \/ v = xTickCount + wait - Wrap /\ v < xTickCount
      /\ v \in 0 .. portMAX_DELAY
  <2>1. xTickCount \in Nat /\ xTickCount < Wrap /\ wait \in Nat /\ wait > 0 /\ wait < Wrap
        /\ Wrap \in Nat /\ Wrap > 0
    BY <1>1, ConstantFacts
  <2>2. CASE xTickCount + wait < Wrap
    <3>1. v = xTickCount + wait
      BY <2>1, <2>2, ModFacts
    <3> QED
      BY <2>1, <2>2, <3>1, ConstantFacts
  <2>3. CASE Wrap <= xTickCount + wait
    <3>1. v = xTickCount + wait - Wrap
      BY <2>1, <2>3, ModFacts
    <3> QED
      BY <2>1, <2>3, <3>1, ConstantFacts
  <2> QED
    BY <2>1, <2>2, <2>3
<1> HIDE DEF base
<1>3. CASE forever /\ wait = portMAX_DELAY
  <2>1. item' = [item EXCEPT ![t] = [list |-> "suspended", value |-> 0]] /\ UNCHANGED clock
    BY <1>3 DEF AddToDelayedList
  <2>2. [list |-> "suspended", value |-> 0] \in [list : Lists, value : 0 .. portMAX_DELAY]
    BY ConstantFacts DEF Lists
  <2>3. item' \in Items /\ item'[t].list = "suspended" /\ \A u \in Tasks \ {t} : item'[u] = item[u]
    BY <2>1, <2>2, UpdateFacts DEF Items
  <2> QED
    BY <1>1, <1>3, <2>1, <2>3, ConstantFacts DEF clock
<1>4. CASE ~(forever /\ wait = portMAX_DELAY)
  <2> DEFINE new == [list |-> IF v < xTickCount THEN "overflow" ELSE "delayed", value |-> v]
  <2>1. /\ item' = [item EXCEPT ![t] = new]
        /\ xNextTaskUnblockTime' =
              IF v >= xTickCount /\ v < xNextTaskUnblockTime THEN v ELSE xNextTaskUnblockTime
        /\ xTickCount' = xTickCount /\ xNumOfOverflows' = xNumOfOverflows
    BY <1>4 DEF AddToDelayedList
  <2> HIDE DEF v
  <2>2. new \in [list : Lists, value : 0 .. portMAX_DELAY]
    BY <1>2 DEF Lists
  <2>3. item' \in Items /\ item'[t] = new /\ \A u \in Tasks \ {t} : item'[u] = item[u]
    <3> HIDE DEF new
    <3> QED
      BY <2>1, <2>2, UpdateFacts DEF Items
  <2>4. item'[t].value = v /\ item'[t].list = IF v < xTickCount THEN "overflow" ELSE "delayed"
    BY <2>3
  <2>5. xNextTaskUnblockTime' \in 0 .. portMAX_DELAY /\ xNextTaskUnblockTime' <= xNextTaskUnblockTime
        /\ (v >= xTickCount => xNextTaskUnblockTime' <= v)
    BY <1>1, <1>2, <2>1, ConstantFacts
  <2>6. CASE v = xTickCount + wait /\ xTickCount < v
    <3>1. item'[t].list = "delayed" /\ xNextTaskUnblockTime' <= v
      BY <1>1, <1>2, <2>4, <2>5, <2>6, ConstantFacts
    <3>2. Count + wait = base + v
      BY <1>1, <2>6, ConstantFacts
    <3> QED
      BY <1>4, <2>1, <2>3, <2>4, <2>5, <2>6, <3>1, <3>2 DEF base
  <2>7. CASE v = xTickCount + wait - Wrap /\ v < xTickCount
    <3>1. item'[t].list = "overflow"
      BY <2>4, <2>7
    <3>2. Count + wait = base + Wrap + v
      BY <1>1, <2>7, ConstantFacts
    <3> QED
      BY <1>4, <2>1, <2>3, <2>4, <2>5, <3>1, <3>2 DEF base
  <2> QED
    BY <1>2, <2>6, <2>7
<1> QED
  BY <1>3, <1>4

\* A step of one task, which has suspended the scheduler, that may put it to sleep.
LEMMA SleepStep ==
    ASSUME IInv, NEW t \in Tasks, suspended = t,
           xTickCount' = xTickCount, xNumOfOverflows' = xNumOfOverflows,
           UNCHANGED <<suspended, uxPendedTicks, xPendingReadyList, now>>,
           xNextTaskUnblockTime' \in 0 .. portMAX_DELAY, xNextTaskUnblockTime' <= xNextTaskUnblockTime,
           pc' \in [Tasks -> Places], ticks' \in [Tasks -> 0 .. portMAX_DELAY], item' \in Items,
           timeOut' \in [Tasks -> Times], due' \in [Tasks -> Nat],
           \A u \in Tasks \ {t} : /\ pc'[u] = pc[u] /\ ticks'[u] = ticks[u] /\ item'[u] = item[u]
                                  /\ timeOut'[u] = timeOut[u] /\ due'[u] = due[u],
           semaphore' \in Semaphores, semaphore'.lock = semaphore.lock, QueueInv', Sound(t)'
    PROVE  IInv'
<1>1. TypeOK /\ HistoryOK /\ TicksKept /\ QueueInv /\ \A u \in Tasks : Sound(u)
  BY DEF IInv
<1>2. \A u \in Tasks : Sound(u)'
  <2> TAKE u \in Tasks
  <2>1. CASE u = t
    BY <2>1
  <2>2. CASE u # t
    <3>1. pc[u] \in Locking => semaphore'.lock # UNLOCKED
      BY <1>1 DEF Sound, PlaceInv
    <3>2. suspended' = u <=> suspended = u
      OBVIOUS
    <3>3. xNextTaskUnblockTime' \in Int
      BY ConstantFacts
    <3>4. /\ pc'[u] = pc[u] /\ item'[u] = item[u] /\ ticks'[u] = ticks[u]
          /\ timeOut'[u] = timeOut[u] /\ due'[u] = due[u] /\ now' = now
      BY <2>2
    <3> QED
      BY <1>1, <3>1, <3>2, <3>3, <3>4, SoundStays
  <2> QED
    BY <2>1, <2>2
<1>3. TicksKept'
  BY <1>1 DEF TicksKept, Count
<1>4. /\ xTickCount' \in 0 .. portMAX_DELAY /\ xNumOfOverflows' \in Nat /\ suspended' \in Tasks \cup {Nobody}
      /\ uxPendedTicks' \in Nat /\ xPendingReadyList' \subseteq Takers /\ now' \in 0 .. MaxTime /\ suspended' # Nobody
  BY <1>1, ConstantFacts DEF TypeOK
<1> QED
  BY <1>2, <1>3, <1>4, Assembled

\* The queue stays as it was, and who slept goes on sleeping.
LEMMA QueueStays ==
    ASSUME IInv, NEW t \in Tasks, pc[t] \notin AsleepPlaces, semaphore' = semaphore,
           xPendingReadyList' = xPendingReadyList,
           \A u \in Tasks \ {t} : pc'[u] = pc[u] /\ item'[u] = item[u],
           pc'[t] \in Locking <=> pc[t] \in Locking
    PROVE  QueueInv'
BY DEF IInv, QueueInv, Among, Once

LEMMA DelayKeeps ==
    ASSUME IInv, NEW t \in Tasks, Delay(t)
    PROVE  IInv'
<1>1. /\ t \in Delayers /\ pc[t] = "delay" /\ AddToDelayedList(t, ticks[t], FALSE) /\ Goto(t, "resume_delay")
      /\ due' = [due EXCEPT ![t] = Count + ticks[t]]
      /\ UNCHANGED <<suspended, uxPendedTicks, xPendingReadyList, semaphore, local, now>>
  BY DEF Delay, At
<1>2. /\ t \notin Periodic /\ suspended = t /\ Sound(t) /\ TypeOK /\ item \in Items /\ Count \in Nat
      /\ ticks \in [Tasks -> 0 .. portMAX_DELAY] /\ ticks[t] >= 1
  BY <1>1, TaskFacts, KindFacts DEF Suspending, Sound, DelayInv
<1>3. ticks[t] \in 1 .. portMAX_DELAY /\ Count + ticks[t] \in Nat
  BY <1>2, ConstantFacts
<1>4. /\ item' \in Items /\ \A u \in Tasks \ {t} : item'[u] = item[u]
      /\ xTickCount' = xTickCount /\ xNumOfOverflows' = xNumOfOverflows
      /\ xNextTaskUnblockTime' \in 0 .. portMAX_DELAY /\ xNextTaskUnblockTime' <= xNextTaskUnblockTime
      /\ \/ /\ item'[t].list = "delayed" /\ xTickCount < item'[t].value /\ xNextTaskUnblockTime' <= item'[t].value
            /\ Count + ticks[t] = xNumOfOverflows * Wrap + item'[t].value
         \/ /\ item'[t].list = "overflow"
            /\ Count + ticks[t] = xNumOfOverflows * Wrap + Wrap + item'[t].value
  BY <1>1, <1>2, <1>3, AddFacts
<1>5. pc' \in [Tasks -> Places] /\ pc'[t] = "resume_delay" /\ \A u \in Tasks \ {t} : pc'[u] = pc[u]
  BY <1>1, GotoFacts DEF Places
<1>6. due' \in [Tasks -> Nat] /\ due'[t] = Count + ticks[t] /\ \A u \in Tasks \ {t} : due'[u] = due[u]
  BY <1>1, <1>3, TaskFacts, UpdateFacts
<1>7. ticks' = ticks /\ timeOut' = timeOut
  BY <1>1 DEF local
<1>8. PlaceInv(t)'
  BY <1>1, <1>2, <1>5 DEF PlaceInv, DelayPlaces, Suspending, Locking
<1>9. ItemInv(t)'
  BY <1>4, <1>6 DEF ItemInv
<1>10. DelayInv(t)' /\ TakeInv(t)'
  BY <1>2, <1>4, <1>5 DEF DelayInv, TakeInv, TimedPlaces, TakePlaces
<1>11. Sound(t)'
  BY <1>8, <1>9, <1>10 DEF Sound
<1>12. pc[t] \notin AsleepPlaces /\ (pc'[t] \in Locking <=> pc[t] \in Locking)
  BY <1>1, <1>5 DEF AsleepPlaces, Locking
<1>13. QueueInv'
  BY <1>1, <1>4, <1>5, <1>12, QueueStays
<1>14. timeOut' \in [Tasks -> Times] /\ semaphore' \in Semaphores /\ semaphore'.lock = semaphore.lock
       /\ ticks' \in [Tasks -> 0 .. portMAX_DELAY]
  BY <1>1, <1>7, TaskFacts
<1> QED
  BY <1>1, <1>2, <1>4, <1>5, <1>6, <1>7, <1>11, <1>13, <1>14, SleepStep

LEMMA PlaceKeeps ==
    ASSUME IInv, NEW t \in Tasks, PlaceOnEventList(t)
    PROVE  IInv'
<1>1. /\ pc[t] = "place" /\ AddToDelayedList(t, ticks[t], TRUE) /\ Goto(t, "unlock")
      /\ semaphore' = [semaphore EXCEPT !.waiting = Append(@, t)]
      /\ UNCHANGED <<suspended, uxPendedTicks, xPendingReadyList, local, history>>
  BY DEF PlaceOnEventList, At
<1>2. /\ t \notin Periodic /\ t \in Takers /\ suspended = t /\ Sound(t) /\ TypeOK /\ item \in Items /\ Count \in Nat
      /\ ticks \in [Tasks -> 0 .. portMAX_DELAY] /\ QueueInv /\ semaphore \in Semaphores
  BY <1>1, TaskFacts, KindFacts DEF Suspending, DelayPlaces, IInv
<1>3. /\ ticks[t] # 0
      /\ ticks[t] # portMAX_DELAY =>
            /\ now <= due[t] + MaxLag /\ due[t] = Start(t) + ticks[t] /\ Start(t) = Count
            /\ ticks[t] + MaxLag <= Wrap
  BY <1>1, <1>2 DEF Sound, TakeInv, TimedPlaces, TakePlaces, Places
<1>4. ticks[t] \in 1 .. portMAX_DELAY
  BY <1>2, <1>3, ConstantFacts
<1>5. /\ item' \in Items /\ \A u \in Tasks \ {t} : item'[u] = item[u]
      /\ xTickCount' = xTickCount /\ xNumOfOverflows' = xNumOfOverflows
      /\ xNextTaskUnblockTime' \in 0 .. portMAX_DELAY /\ xNextTaskUnblockTime' <= xNextTaskUnblockTime
      /\ \/ item'[t].list = "suspended"
         \/ /\ item'[t].list = "delayed" /\ ticks[t] # portMAX_DELAY
            /\ xTickCount < item'[t].value /\ xNextTaskUnblockTime' <= item'[t].value
            /\ Count + ticks[t] = xNumOfOverflows * Wrap + item'[t].value
         \/ /\ item'[t].list = "overflow" /\ ticks[t] # portMAX_DELAY
            /\ Count + ticks[t] = xNumOfOverflows * Wrap + Wrap + item'[t].value
  BY <1>1, <1>2, <1>4, AddFacts
<1>6. pc' \in [Tasks -> Places] /\ pc'[t] = "unlock" /\ \A u \in Tasks \ {t} : pc'[u] = pc[u]
  BY <1>1, GotoFacts DEF Places
<1>7. ticks' = ticks /\ timeOut' = timeOut /\ due' = due /\ now' = now /\ Start(t)' = Start(t) /\ Count' = Count
  BY <1>1, <1>5 DEF local, history, Start, Count
<1>8. /\ semaphore' \in Semaphores /\ semaphore'.lock = semaphore.lock /\ semaphore'.messages = semaphore.messages
      /\ semaphore'.waiting = Append(semaphore.waiting, t)
  <2>1. semaphore.waiting \in Seq(Takers) /\ semaphore = [semaphore EXCEPT !.waiting = @]
    BY <1>2 DEF Semaphores
  <2>2. Append(semaphore.waiting, t) \in Seq(Takers)
    BY <1>2, <2>1, AppendProperties
  <2> QED
    BY <1>1, <1>2, <2>2 DEF Semaphores
<1>9. semaphore.lock # UNLOCKED
  BY <1>1, <1>2 DEF Sound, PlaceInv, Locking
<1>10. PlaceInv(t)'
  BY <1>1, <1>2, <1>6, <1>8, <1>9 DEF PlaceInv, TakePlaces, Places, Suspending, AsleepPlaces
<1>11. ItemInv(t)'
  BY <1>3, <1>5, <1>7 DEF ItemInv
<1>12. DelayInv(t)'
  BY <1>2, <1>6 DEF DelayInv
<1>13. TakeInv(t)'
  <2>1. Start(t) <= Count \/ ticks[t] = portMAX_DELAY
    BY <1>2, <1>3
  <2> QED
    BY <1>3, <1>6, <1>7, <2>1 DEF TakeInv
<1>14. Sound(t)'
  BY <1>10, <1>11, <1>12, <1>13 DEF Sound
<1>15. QueueInv'
  <2> DEFINE w == semaphore.waiting
  <2>1. w \in Seq(Takers) /\ semaphore'.waiting = Append(w, t) /\ xPendingReadyList' = xPendingReadyList
    BY <1>1, <1>2, <1>8 DEF Semaphores
  <2>2. ~Among(t, w) /\ t \notin xPendingReadyList
    BY <1>1, <1>2 DEF QueueInv, AsleepPlaces
  <2>3. Once(w)
    BY <1>2 DEF QueueInv
  <2> HIDE DEF w
  <2> DEFINE r == Append(w, t)
  <2>4. /\ Len(w) \in Nat /\ DOMAIN w = 1 .. Len(w) /\ DOMAIN r = 1 .. Len(w) + 1
        /\ r[Len(w) + 1] = t /\ \A i \in 1 .. Len(w) : r[i] = w[i]
    BY <1>2, <2>1, AppendProperties
  <2> HIDE DEF r
  <2>5. Once(r)
    <3> SUFFICES ASSUME NEW i \in DOMAIN r, NEW j \in DOMAIN r, r[i] = r[j]
                 PROVE  i = j
      BY DEF Once
    <3>1. CASE i = Len(w) + 1 /\ j = Len(w) + 1
      BY <3>1
    <3>2. CASE i # Len(w) + 1 /\ j # Len(w) + 1
      <4>1. i \in DOMAIN w /\ j \in DOMAIN w /\ w[i] = w[j]
        BY <2>4, <3>2
      <4> QED
        BY <2>3, <4>1 DEF Once
    <3>3. CASE i = Len(w) + 1 /\ j # Len(w) + 1
      BY <2>2, <2>4, <3>3 DEF Among
    <3>4. CASE i # Len(w) + 1 /\ j = Len(w) + 1
      BY <2>2, <2>4, <3>4 DEF Among
    <3> QED
      BY <3>1, <3>2, <3>3, <3>4
  <2>6. \A u : Among(u, r) => u = t \/ Among(u, w)
    <3> SUFFICES ASSUME NEW u, NEW i \in DOMAIN r, r[i] = u
                 PROVE  u = t \/ \E j \in DOMAIN w : w[j] = u
      BY DEF Among
    <3>1. CASE i = Len(w) + 1
      BY <2>4, <3>1
    <3>2. CASE i # Len(w) + 1
      BY <2>4, <3>2
    <3> QED
      BY <3>1, <3>2
  <2>7. item'[t].list # "ready" /\ pc'[t] \in AsleepPlaces
    BY <1>5, <1>6 DEF AsleepPlaces
  <2>8. semaphore'.waiting = r
    BY <2>1 DEF r
  <2>9. \A u \in Tasks : u \in xPendingReadyList' \/ Among(u, semaphore'.waiting) =>
            pc'[u] \in AsleepPlaces /\ item'[u].list # "ready"
    BY <1>2, <1>5, <1>6, <2>1, <2>6, <2>7, <2>8 DEF QueueInv, w
  <2>10. \A u \in Tasks : u \in xPendingReadyList' => ~Among(u, semaphore'.waiting)
    BY <1>2, <2>1, <2>2, <2>6, <2>8 DEF QueueInv, w
  <2>11. \E u \in Tasks : pc'[u] \in Locking
    BY <1>6 DEF Locking
  <2>12. semaphore'.lock = 1 => semaphore'.messages = 1
    BY <1>2, <1>8 DEF QueueInv
  <2> QED
    BY <2>5, <2>8, <2>9, <2>10, <2>11, <2>12 DEF QueueInv
<1>16. /\ timeOut' \in [Tasks -> Times] /\ due' \in [Tasks -> Nat] /\ ticks' \in [Tasks -> 0 .. portMAX_DELAY]
       /\ UNCHANGED <<suspended, uxPendedTicks, xPendingReadyList, now>>
  BY <1>1, <1>7, TaskFacts
<1> QED
  BY <1>2, <1>5, <1>6, <1>7, <1>8, <1>14, <1>15, <1>16, SleepStep

LEMMA RoundFacts ==
    ASSUME NEW w \in Nat, w > 0, NEW q \in Nat, NEW r \in 0 .. w - 1
    PROVE  (q * w + r) % w = r
OBVIOUS

\* A count is a number of rounds and what the counter shows.
LEMMA RemainderFacts ==
    ASSUME NEW x \in Nat, NEW r, x % Wrap = r
    PROVE  \E q \in Nat : x = q * Wrap + r
<1> DEFINE Split(n) == \E q \in Nat, y \in 0 .. Wrap - 1 : n = q * Wrap + y
           S == {n \in Nat : Split(n)}
<1>1. Wrap \in Nat /\ Wrap > 0
  BY ConstantFacts
<1>2. 0 \in S
  <2>1. 0 = 0 * Wrap + 0 /\ 0 \in Nat /\ 0 \in 0 .. Wrap - 1
    BY <1>1
  <2> QED
    BY <2>1
<1>3. ASSUME NEW n \in Nat, n \in S
      PROVE  n + 1 \in S
  <2>1. PICK q \in Nat, y \in 0 .. Wrap - 1 : n = q * Wrap + y
    BY <1>3
  <2>2. q * Wrap \in Nat /\ (q + 1) * Wrap = q * Wrap + Wrap
    BY ConstantFacts
  <2>3. CASE y = Wrap - 1
    <3>1. n + 1 = (q + 1) * Wrap + 0 /\ q + 1 \in Nat /\ 0 \in 0 .. Wrap - 1
      BY <1>1, <2>1, <2>2, <2>3
    <3> QED
      BY <3>1
  <2>4. CASE y # Wrap - 1
    <3>1. n + 1 = q * Wrap + (y + 1) /\ y + 1 \in 0 .. Wrap - 1
      BY <1>1, <2>1, <2>2, <2>4
    <3> QED
      BY <3>1
  <2> QED
    BY <2>3, <2>4
<1> HIDE DEF S
<1>4. x \in S
  BY <1>2, <1>3, Induction
<1>5. PICK q \in Nat, y \in 0 .. Wrap - 1 : x = q * Wrap + y
  BY <1>4 DEF S
<1>6. x % Wrap = y
  BY <1>1, <1>5, RoundFacts
<1> QED
  BY <1>5, <1>6

\* vTaskDelayUntil finds, from the counter alone, whether the time to wake is
\* still to come, and how far it is.
LEMMA UntilFacts ==
    ASSUME TypeOK, NEW previous \in 0 .. portMAX_DELAY, NEW d \in Nat, d % Wrap = previous,
           d <= Count, Count <= d + MaxLag,
           NEW wake, wake = (previous + Period) % Wrap,
           NEW wait, wait = (wake - xTickCount) % Wrap
    PROVE  /\ wake \in 0 .. portMAX_DELAY /\ (d + Period) % Wrap = wake
           /\ IF \/ xTickCount < previous /\ wake < previous /\ wake > xTickCount
                 \/ xTickCount >= previous /\ (wake < previous \/ wake > xTickCount)
              THEN wait \in 1 .. portMAX_DELAY /\ Count + wait = d + Period
              ELSE Count >= d + Period
<1>1. /\ xTickCount \in Nat /\ xTickCount < Wrap /\ xNumOfOverflows \in Nat /\ xNumOfOverflows * Wrap \in Nat
      /\ Count = xNumOfOverflows * Wrap + xTickCount /\ Count \in Nat
  BY ClockFacts DEF TypeOK
<1>2. /\ Wrap \in Nat /\ Wrap > 0 /\ Period \in Nat /\ Period > 0 /\ Period < Wrap
      /\ MaxLag \in Nat /\ MaxLag < Wrap /\ portMAX_DELAY = Wrap - 1 /\ previous \in Nat /\ previous < Wrap
  BY ConstantFacts, KernelTimeAssumption
<1>3. PICK q \in Nat : d = q * Wrap + previous
  BY RemainderFacts
<1>4. q * Wrap \in Nat /\ (q + 1) * Wrap = q * Wrap + Wrap /\ q + 1 \in Nat
  BY ConstantFacts
<1>5. \/ wake = previous + Period /\ previous + Period < Wrap
      \/ wake = previous + Period - Wrap /\ Wrap <= previous + Period
  <2>1. previous + Period \in Nat /\ previous + Period < 2 * Wrap
    BY <1>2
  <2>2. CASE previous + Period < Wrap
    BY <1>2, <2>1, <2>2, ModFacts
  <2>3. CASE Wrap <= previous + Period
    BY <1>2, <2>1, <2>3, ModFacts
  <2> QED
    BY <2>1, <2>2, <2>3, <1>2
<1>6. wake \in Nat /\ wake < Wrap
  BY <1>2, <1>5
<1>7. (d + Period) % Wrap = wake
  <2>1. CASE previous + Period < Wrap
    <3>1. d + Period = q * Wrap + wake
      BY <1>2, <1>3, <1>4, <1>5, <2>1
    <3>2. wake \in 0 .. Wrap - 1
      BY <1>2, <1>6
    <3>3. (q * Wrap + wake) % Wrap = wake
      BY <1>2, <3>2, RoundFacts
    <3> QED
      BY <3>1, <3>3
  <2>2. CASE Wrap <= previous + Period
    <3>1. d + Period = (q + 1) * Wrap + wake
      BY <1>2, <1>3, <1>4, <1>5, <2>2
    <3>2. wake \in 0 .. Wrap - 1
      BY <1>2, <1>6
    <3>3. ((q + 1) * Wrap + wake) % Wrap = wake
      BY <1>2, <1>4, <3>2, RoundFacts
    <3> QED
      BY <3>1, <3>3
  <2> QED
    BY <1>2, <2>1, <2>2
<1>8. /\ wake > xTickCount => wait = wake - xTickCount
      /\ wake < xTickCount => wait = wake - xTickCount + Wrap
  <2>1. wake - xTickCount \in Int
    BY <1>1, <1>6
  <2>2. CASE wake > xTickCount
    <3>1. 0 <= wake - xTickCount /\ wake - xTickCount < Wrap
      BY <1>1, <1>2, <1>6, <2>2
    <3> QED
      BY <1>1, <1>2, <1>6, <2>1, <2>2, <3>1, ModFacts
  <2>3. CASE wake < xTickCount
    <3>1. wake - xTickCount < 0 /\ -Wrap <= wake - xTickCount
      BY <1>1, <1>2, <1>6, <2>3
    <3> QED
      BY <1>1, <1>2, <1>6, <2>1, <2>3, <3>1, ModFacts
  <2> QED
    BY <1>1, <1>6, <2>2, <2>3
<1>9. xNumOfOverflows = q \/ xNumOfOverflows = q + 1
  <2>1. CASE xNumOfOverflows < q
    <3>1. xNumOfOverflows * Wrap + Wrap <= q * Wrap
      BY <1>1, <2>1, Rounds
    <3> QED
      BY <1>1, <1>2, <1>3, <1>4, <3>1
  <2>2. CASE q + 1 < xNumOfOverflows
    <3>1. (q + 1) * Wrap + Wrap <= xNumOfOverflows * Wrap
      BY <1>1, <1>4, <2>2, Rounds
    <3> QED
      BY <1>1, <1>2, <1>3, <1>4, <3>1
  <2> QED
    BY <1>1, <2>1, <2>2
<1> DEFINE blocks == \/ xTickCount < previous /\ wake < previous /\ wake > xTickCount
                     \/ xTickCount >= previous /\ (wake < previous \/ wake > xTickCount)
<1>10. IF blocks THEN wait \in 1 .. portMAX_DELAY /\ Count + wait = d + Period ELSE Count >= d + Period
  <2>1. CASE xNumOfOverflows = q
    <3>1. Count = q * Wrap + xTickCount /\ previous <= xTickCount
      BY <1>1, <1>2, <1>3, <1>4, <2>1
    <3>2. CASE previous + Period < Wrap
      <4>1. wake = previous + Period /\ d + Period = q * Wrap + wake
        BY <1>2, <1>3, <1>4, <1>5, <3>2
      <4>2. blocks <=> wake > xTickCount
        BY <1>1, <1>2, <1>6, <3>1, <4>1
      <4>3. CASE wake > xTickCount
        BY <1>1, <1>2, <1>4, <1>6, <1>8, <3>1, <4>1, <4>2, <4>3
      <4>4. CASE ~(wake > xTickCount)
        BY <1>1, <1>2, <1>4, <1>6, <3>1, <4>1, <4>2, <4>4
      <4> QED
        BY <4>3, <4>4
    <3>3. CASE Wrap <= previous + Period
      <4>1. wake = previous + Period - Wrap /\ d + Period = q * Wrap + Wrap + wake /\ wake < previous
        BY <1>2, <1>3, <1>4, <1>5, <3>3
      <4>2. blocks /\ wake < xTickCount
        BY <1>1, <1>2, <1>6, <3>1, <4>1
      <4>3. wait = wake - xTickCount + Wrap
        BY <1>8, <4>2
      <4> QED
        BY <1>1, <1>2, <1>4, <1>6, <3>1, <4>1, <4>2, <4>3
    <3> QED
      BY <1>2, <3>2, <3>3
  <2>2. CASE xNumOfOverflows = q + 1
    <3>1. Count = q * Wrap + Wrap + xTickCount /\ xTickCount < previous
      BY <1>1, <1>2, <1>3, <1>4, <2>2
    <3>2. CASE previous + Period < Wrap
      <4>1. wake = previous + Period /\ d + Period = q * Wrap + wake
        BY <1>2, <1>3, <1>4, <1>5, <3>2
      <4>2. ~blocks
        BY <1>1, <1>2, <1>6, <3>1, <4>1
      <4> QED
        BY <1>1, <1>2, <1>4, <1>6, <3>1, <4>1, <4>2
    <3>3. CASE Wrap <= previous + Period
      <4>1. wake = previous + Period - Wrap /\ d + Period = q * Wrap + Wrap + wake /\ wake < previous
        BY <1>2, <1>3, <1>4, <1>5, <3>3
      <4>2. blocks <=> wake > xTickCount
        BY <1>1, <1>2, <1>6, <3>1, <4>1
      <4>3. CASE wake > xTickCount
        BY <1>1, <1>2, <1>4, <1>6, <1>8, <3>1, <4>1, <4>2, <4>3
      <4>4. CASE ~(wake > xTickCount)
        BY <1>1, <1>2, <1>4, <1>6, <3>1, <4>1, <4>2, <4>4
      <4> QED
        BY <4>3, <4>4
    <3> QED
      BY <1>2, <3>2, <3>3
  <2> QED
    BY <1>9, <2>1, <2>2
<1> QED
  BY <1>2, <1>6, <1>7, <1>10

LEMMA DelayUntilKeeps ==
    ASSUME IInv, NEW t \in Tasks, DelayUntil(t)
    PROVE  IInv'
<1> DEFINE previous == timeOut[t].entering
           wake == (previous + Period) % Wrap
           wait == (wake - xTickCount) % Wrap
           blocks == \/ xTickCount < previous /\ wake < previous /\ wake > xTickCount
                     \/ xTickCount >= previous /\ (wake < previous \/ wake > xTickCount)
<1>1. /\ t \in Periodic /\ pc[t] = "delay" /\ Goto(t, "resume_delay")
      /\ timeOut' = [timeOut EXCEPT ![t].entering = wake] /\ due' = [due EXCEPT ![t] = @ + Period]
      /\ IF blocks THEN AddToDelayedList(t, wait, FALSE) ELSE UNCHANGED <<clock, item>>
      /\ UNCHANGED <<suspended, uxPendedTicks, xPendingReadyList, semaphore, ticks, now>>
  BY DEF DelayUntil, At
<1>2. /\ suspended = t /\ Sound(t) /\ TypeOK /\ item \in Items /\ Count \in Nat /\ now \in Nat /\ Count <= now
      /\ due \in [Tasks -> Nat] /\ timeOut \in [Tasks -> Times] /\ item[t].list = "ready"
      /\ t \notin Delayers /\ t \notin Takers
  BY <1>1, TaskFacts, KindFacts DEF Suspending, AsleepPlaces
<1>3. due[t] % Wrap = previous /\ now <= due[t] + MaxLag /\ due[t] <= Count
  BY <1>1, <1>2 DEF Sound, DelayInv
<1>4. previous \in 0 .. portMAX_DELAY /\ due[t] \in Nat /\ MaxLag \in Nat /\ Period \in Nat /\ due[t] + Period \in Nat
  BY <1>2, KernelTimeAssumption DEF Times
<1>5. Count <= due[t] + MaxLag
  BY <1>2, <1>3, <1>4
<1>6. /\ wake \in 0 .. portMAX_DELAY /\ (due[t] + Period) % Wrap = wake
      /\ IF blocks THEN wait \in 1 .. portMAX_DELAY /\ Count + wait = due[t] + Period
                   ELSE Count >= due[t] + Period
  <2> HIDE DEF previous
  <2>1. wake = (previous + Period) % Wrap
    OBVIOUS
  <2> HIDE DEF wake
  <2>2. wait = (wake - xTickCount) % Wrap
    OBVIOUS
  <2> HIDE DEF wait
  <2> QED
    BY <1>2, <1>3, <1>4, <1>5, <2>1, <2>2, UntilFacts
<1> HIDE DEF previous, wake, wait, blocks
<1>7. pc' \in [Tasks -> Places] /\ pc'[t] = "resume_delay" /\ \A u \in Tasks \ {t} : pc'[u] = pc[u]
  BY <1>1, GotoFacts DEF Places
<1>8. due' \in [Tasks -> Nat] /\ due'[t] = due[t] + Period /\ \A u \in Tasks \ {t} : due'[u] = due[u]
  BY <1>1, <1>2, <1>4, UpdateFacts
<1>9. timeOut' \in [Tasks -> Times] /\ timeOut'[t].entering = wake /\ \A u \in Tasks \ {t} : timeOut'[u] = timeOut[u]
  <2>1. timeOut' = [timeOut EXCEPT ![t] = [timeOut[t] EXCEPT !.entering = wake]]
    BY <1>1, <1>2
  <2>2. [timeOut[t] EXCEPT !.entering = wake] \in Times /\ [timeOut[t] EXCEPT !.entering = wake].entering = wake
    BY <1>2, <1>6 DEF Times
  <2> QED
    BY <1>2, <2>1, <2>2, UpdateFacts
<1>10. /\ item' \in Items /\ \A u \in Tasks \ {t} : item'[u] = item[u]
       /\ xTickCount' = xTickCount /\ xNumOfOverflows' = xNumOfOverflows
       /\ xNextTaskUnblockTime' \in 0 .. portMAX_DELAY /\ xNextTaskUnblockTime' <= xNextTaskUnblockTime
       /\ \/ item'[t].list = "ready" /\ Count >= due[t] + Period
          \/ /\ item'[t].list = "delayed" /\ xTickCount < item'[t].value /\ xNextTaskUnblockTime' <= item'[t].value
             /\ due[t] + Period = xNumOfOverflows * Wrap + item'[t].value
          \/ /\ item'[t].list = "overflow"
             /\ due[t] + Period = xNumOfOverflows * Wrap + Wrap + item'[t].value
  <2>1. CASE blocks
    <3>1. wait \in 1 .. portMAX_DELAY /\ Count + wait = due[t] + Period /\ AddToDelayedList(t, wait, FALSE)
      BY <1>1, <1>6, <2>1
    <3>2. /\ item' \in Items /\ \A u \in Tasks \ {t} : item'[u] = item[u]
          /\ xTickCount' = xTickCount /\ xNumOfOverflows' = xNumOfOverflows
          /\ xNextTaskUnblockTime' \in 0 .. portMAX_DELAY /\ xNextTaskUnblockTime' <= xNextTaskUnblockTime
          /\ \/ /\ item'[t].list = "delayed" /\ xTickCount < item'[t].value /\ xNextTaskUnblockTime' <= item'[t].value
                /\ Count + wait = xNumOfOverflows * Wrap + item'[t].value
             \/ /\ item'[t].list = "overflow"
                /\ Count + wait = xNumOfOverflows * Wrap + Wrap + item'[t].value
      BY <1>2, <3>1, AddFacts
    <3> QED
      BY <3>1, <3>2
  <2>2. CASE ~blocks
    <3>1. UNCHANGED <<clock, item>> /\ xNextTaskUnblockTime \in 0 .. portMAX_DELAY /\ Count >= due[t] + Period
      BY <1>1, <1>2, <1>6, <2>2 DEF TypeOK
    <3> QED
      BY <1>2, <3>1, ConstantFacts DEF clock
  <2> QED
    BY <2>1, <2>2
<1>11. PlaceInv(t)'
  BY <1>1, <1>2, <1>7 DEF PlaceInv, DelayPlaces, Suspending, Locking
<1>12. ItemInv(t)'
  BY <1>8, <1>10 DEF ItemInv
<1>13. DelayInv(t)'
  <2>1. now' <= due'[t] + MaxLag
    BY <1>1, <1>2, <1>3, <1>4, <1>8
  <2>2. item'[t].list = "ready" => Count' >= due'[t]
    BY <1>8, <1>10 DEF Count
  <2> QED
    BY <1>6, <1>7, <1>8, <1>9, <2>1, <2>2 DEF DelayInv
<1>14. TakeInv(t)'
  BY <1>7 DEF TakeInv, TimedPlaces, TakePlaces
<1>15. Sound(t)'
  BY <1>11, <1>12, <1>13, <1>14 DEF Sound
<1>16. pc[t] \notin AsleepPlaces /\ (pc'[t] \in Locking <=> pc[t] \in Locking)
  BY <1>1, <1>7 DEF AsleepPlaces, Locking
<1>17. QueueInv'
  BY <1>1, <1>7, <1>10, <1>16, QueueStays
<1>18. semaphore' \in Semaphores /\ semaphore'.lock = semaphore.lock /\ ticks' \in [Tasks -> 0 .. portMAX_DELAY]
       /\ ticks' = ticks
  BY <1>1, TaskFacts
<1> QED
  BY <1>1, <1>2, <1>7, <1>8, <1>9, <1>10, <1>15, <1>17, <1>18, SleepStep

-----------------------------------------------------------------------------
(* The wake-ups                                                            *)

\* The first n of a queue leave it.
LEMMA RestFacts ==
    ASSUME NEW w \in Seq(Takers), Once(w), NEW n \in Nat, n <= Len(w) \/ (n = 1 /\ Len(w) = 0),
           NEW r, r = Rest(w, n)
    PROVE  /\ r \in Seq(Takers) /\ Once(r) /\ Len(r) \in Nat /\ Len(r) <= Len(w)
           /\ \A u : Among(u, r) => Among(u, w) /\ u \notin {w[i] : i \in 1 .. Len(w) - Len(r)}
<1>1. Len(w) \in Nat /\ DOMAIN w = 1 .. Len(w)
  OBVIOUS
<1>2. CASE n <= Len(w)
  <2>1. r \in Seq(Takers) /\ Len(r) = Len(w) - n /\ \A i \in 1 .. Len(w) - n : r[i] = w[n + i]
    BY <1>2 DEF Rest
  <2>2. Len(r) \in Nat /\ DOMAIN r = 1 .. Len(r) /\ Len(w) - Len(r) = n
    BY <1>1, <1>2, <2>1
  <2>3. \A i \in DOMAIN r : n + i \in DOMAIN w /\ r[i] = w[n + i]
    BY <1>1, <1>2, <2>1, <2>2
  <2>4. Once(r)
    <3> SUFFICES ASSUME NEW i \in DOMAIN r, NEW j \in DOMAIN r, r[i] = r[j]
                 PROVE  i = j
      BY DEF Once
    <3>1. n + i = n + j
      BY <2>3 DEF Once
    <3> QED
      BY <2>2, <3>1
  <2>5. ASSUME NEW u, Among(u, r)
        PROVE  Among(u, w) /\ u \notin {w[i] : i \in 1 .. Len(w) - Len(r)}
    <3>1. PICK i \in DOMAIN r : r[i] = u
      BY <2>5 DEF Among
    <3>2. Among(u, w)
      BY <2>3, <3>1 DEF Among
    <3>3. ASSUME NEW j \in 1 .. n, w[j] = u
          PROVE  FALSE
      <4>1. j \in DOMAIN w /\ n + i \in DOMAIN w /\ w[j] = w[n + i]
        BY <1>1, <1>2, <2>3, <3>1, <3>3
      <4>2. j = n + i
        BY <4>1 DEF Once
      <4> QED
        BY <2>2, <4>2
    <3> QED
      BY <2>2, <3>2, <3>3
  <2> QED
    BY <1>1, <1>2, <2>1, <2>2, <2>4, <2>5
<1>3. CASE n = 1 /\ Len(w) = 0
  <2>1. r \in Seq(Takers) /\ Len(r) = 0 /\ DOMAIN r = {}
    BY <1>3 DEF Rest
  <2> QED
    BY <1>3, <2>1 DEF Once, Among
<1> QED
  BY <1>2, <1>3

\* What Wake does: it wakes tasks of the queue, or holds their wake-up back.
LEMMA WakeFacts ==
    ASSUME IInv, NEW w \in Semaphores, Wake(w), NEW n \in Nat,
           n <= Len(semaphore.waiting) \/ (n = 1 /\ Len(semaphore.waiting) = 0),
           w.waiting = semaphore.waiting \/ w.waiting = Rest(semaphore.waiting, n)
    PROVE  /\ semaphore' = w /\ item' \in Items /\ xNextTaskUnblockTime' \in 0 .. portMAX_DELAY
           /\ UNCHANGED <<xTickCount, xNumOfOverflows, suspended, uxPendedTicks>>
           /\ xPendingReadyList' \subseteq Takers /\ (suspended = Nobody => xPendingReadyList' = {})
           /\ (suspended # Nobody => item' = item)
           /\ Once(w.waiting)
           /\ \A u \in Tasks :
                /\ \/ item'[u] = item[u]
                   \/ item'[u] = Ready /\ pc[u] \in AsleepPlaces
                /\ item'[u].list = "delayed" => xNextTaskUnblockTime' <= item'[u].value
                /\ u \in xPendingReadyList' \/ Among(u, w.waiting) =>
                      /\ u \in xPendingReadyList \/ Among(u, semaphore.waiting)
                      /\ item'[u] = item[u]
                /\ u \in xPendingReadyList' => ~Among(u, w.waiting)
<1> DEFINE old == semaphore.waiting
           woken == {old[i] : i \in 1 .. Len(old) - Len(w.waiting)}
<1>1. TypeOK /\ QueueInv /\ (\A u \in Tasks : Sound(u)) /\ item \in Items /\ semaphore \in Semaphores
  BY TaskFacts DEF IInv, HistoryOK, TypeOK, Items
<1>2. /\ semaphore' = w
      /\ IF suspended = Nobody
         THEN item' = Woken(item, woken) /\ UNCHANGED xPendingReadyList
         ELSE xPendingReadyList' = xPendingReadyList \cup woken /\ UNCHANGED item
      /\ xNextTaskUnblockTime' = IF woken = {} THEN xNextTaskUnblockTime ELSE HeadValue(item')
      /\ UNCHANGED <<xTickCount, xNumOfOverflows, suspended, uxPendedTicks>>
  BY DEF Wake
<1>3. old \in Seq(Takers) /\ Len(old) \in Nat /\ Once(old)
      /\ \A i \in 1 .. Len(old) : old[i] \in Takers /\ Among(old[i], old)
  BY <1>1 DEF Semaphores, QueueInv, Among
<1>4. /\ Once(w.waiting) /\ Len(w.waiting) \in Nat /\ Len(w.waiting) <= Len(old)
      /\ \A u : Among(u, w.waiting) => Among(u, old) /\ u \notin woken
  <2>1. CASE w.waiting = old
    BY <1>3, <2>1
  <2>2. CASE w.waiting = Rest(old, n)
    <3> DEFINE r == w.waiting
    <3>1. r = Rest(old, n)
      BY <2>2
    <3> HIDE DEF r
    <3>2. /\ r \in Seq(Takers) /\ Once(r) /\ Len(r) \in Nat /\ Len(r) <= Len(old)
          /\ \A u : Among(u, r) => Among(u, old) /\ u \notin {old[i] : i \in 1 .. Len(old) - Len(r)}
      <4> HIDE DEF old
      <4>1. n <= Len(old) \/ (n = 1 /\ Len(old) = 0)
        BY DEF old
      <4> QED
        BY <1>3, <3>1, <4>1, RestFacts
    <3> QED
      BY <3>2 DEF r
  <2> QED
    BY <2>1, <2>2
<1>5. woken \subseteq Takers /\ \A u \in woken : Among(u, old)
  BY <1>3, <1>4
<1> HIDE DEF woken
<1>6. \A u \in woken : u \in Tasks /\ pc[u] \in AsleepPlaces
  BY <1>1, <1>5 DEF QueueInv, Tasks
<1>7. item' \in Items /\ \A u \in Tasks : item'[u] = IF suspended = Nobody /\ u \in woken THEN Ready ELSE item[u]
  BY <1>1, <1>2, WokenFacts
<1>8. \A u \in Tasks : item'[u] = item[u] \/ (item'[u] = Ready /\ pc[u] \in AsleepPlaces)
  BY <1>6, <1>7
<1>9. /\ xNextTaskUnblockTime' \in 0 .. portMAX_DELAY
      /\ \A u \in Tasks : item'[u].list = "delayed" => xNextTaskUnblockTime' <= item'[u].value
  <2>1. CASE woken = {}
    <3>1. \A u \in Tasks : item'[u] = item[u]
      BY <1>7, <2>1
    <3>2. xNextTaskUnblockTime' = xNextTaskUnblockTime
      BY <1>2, <2>1
    <3> QED
      BY <1>1, <3>1, <3>2 DEF Sound, ItemInv, TypeOK
  <2>2. CASE woken # {}
    BY <1>2, <1>7, <2>2, HeadFacts
  <2> QED
    BY <2>1, <2>2
<1>10. xPendingReadyList' \subseteq Takers /\ (suspended = Nobody => xPendingReadyList' = {})
       /\ xPendingReadyList' \subseteq xPendingReadyList \cup woken
  BY <1>1, <1>2, <1>5 DEF TypeOK
<1>11. \A u \in Tasks : u \in xPendingReadyList' \/ Among(u, w.waiting) =>
          (u \in xPendingReadyList \/ Among(u, old)) /\ item'[u] = item[u]
  BY <1>4, <1>5, <1>7, <1>10
<1>12. \A u \in Tasks : u \in xPendingReadyList' => ~Among(u, w.waiting)
  BY <1>1, <1>4, <1>10 DEF QueueInv
<1> QED
  BY <1>2, <1>4, <1>7, <1>8, <1>9, <1>10, <1>11, <1>12

\* A task that a give may have woken is sound.
LEMMA SoundWakes ==
    ASSUME NEW u \in Tasks, Sound(u), IInv,
           pc'[u] = pc[u], ticks'[u] = ticks[u], timeOut'[u] = timeOut[u], due'[u] = due[u],
           item'[u] = item[u] \/ (item'[u] = Ready /\ pc[u] \in AsleepPlaces),
           item'[u].list = "delayed" => xNextTaskUnblockTime' <= item'[u].value,
           xTickCount' = xTickCount, xNumOfOverflows' = xNumOfOverflows, now' = now, suspended' = suspended,
           pc[u] \in Locking => semaphore'.lock # UNLOCKED
    PROVE  Sound(u)'
<1>1. PlaceInv(u)'
  BY ReadyFacts DEF Sound, PlaceInv
<1>2. ItemInv(u)'
  BY ReadyFacts DEF Sound, ItemInv
<1>3. pc[u] \in AsleepPlaces => u \notin Periodic /\ pc[u] \notin {"resume_delay", "delayed"}
  BY KindFacts DEF AsleepPlaces, DelayPlaces
<1>4. DelayInv(u)'
  BY <1>3 DEF Sound, DelayInv, Count
<1>5. TakeInv(u)'
  BY DEF Sound, TakeInv, Count, Start
<1> QED
  BY <1>1, <1>2, <1>4, <1>5 DEF Sound

\* A semaphore some of whose fields are assigned.
LEMMA SemaphoreFacts ==
    ASSUME NEW A, NEW B, NEW C, NEW s \in [messages : A, lock : B, waiting : C],
           NEW m \in A, NEW l \in B, NEW q \in C
    PROVE  /\ [s EXCEPT !.messages = m, !.waiting = q] \in [messages : A, lock : B, waiting : C]
           /\ [s EXCEPT !.messages = m, !.waiting = q].messages = m
           /\ [s EXCEPT !.messages = m, !.waiting = q].lock = s.lock
           /\ [s EXCEPT !.messages = m, !.waiting = q].waiting = q
           /\ [s EXCEPT !.messages = m, !.lock = l] \in [messages : A, lock : B, waiting : C]
           /\ [s EXCEPT !.messages = m, !.lock = l].messages = m
           /\ [s EXCEPT !.messages = m, !.lock = l].lock = l
           /\ [s EXCEPT !.messages = m, !.lock = l].waiting = s.waiting
           /\ [s EXCEPT !.lock = l, !.waiting = q] \in [messages : A, lock : B, waiting : C]
           /\ [s EXCEPT !.lock = l, !.waiting = q].messages = s.messages
           /\ [s EXCEPT !.lock = l, !.waiting = q].lock = l
           /\ [s EXCEPT !.lock = l, !.waiting = q].waiting = q
           /\ [s EXCEPT !.waiting = q] \in [messages : A, lock : B, waiting : C]
           /\ [s EXCEPT !.waiting = q].messages = s.messages
           /\ [s EXCEPT !.waiting = q].lock = s.lock
           /\ [s EXCEPT !.waiting = q].waiting = q
OBVIOUS

LEMMA GiveKeeps ==
    ASSUME IInv, GiveFromISR
    PROVE  IInv'
<1>1. semaphore.messages = 0 /\ UNCHANGED <<pc, local, history>>
  BY DEF GiveFromISR
<1>2. /\ TypeOK /\ TicksKept /\ QueueInv /\ HistoryOK /\ semaphore \in Semaphores
      /\ \A u \in Tasks : Sound(u)
  BY DEF IInv, HistoryOK
<1>3. \E w \in Semaphores, n \in Nat :
         /\ Wake(w) /\ (n <= Len(semaphore.waiting) \/ (n = 1 /\ Len(semaphore.waiting) = 0))
         /\ w.waiting = semaphore.waiting \/ w.waiting = Rest(semaphore.waiting, n)
         /\ w.messages = 1 /\ (semaphore.lock = UNLOCKED <=> w.lock = UNLOCKED)
  <2>1. semaphore.waiting \in Seq(Takers) /\ Len(semaphore.waiting) \in Nat /\ semaphore.lock \in -1 .. 1
    BY <1>2 DEF Semaphores
  <2>2. CASE semaphore.lock = UNLOCKED
    <3> DEFINE w == [semaphore EXCEPT !.messages = 1, !.waiting = Rest(@, 1)]
    <3>1. Wake(w)
      BY <2>2 DEF GiveFromISR
    <3>2. 1 <= Len(semaphore.waiting) \/ Len(semaphore.waiting) = 0
      BY <2>1
    <3>3. Rest(semaphore.waiting, 1) \in Seq(Takers)
      BY <1>2, <2>1, <3>2, RestFacts DEF QueueInv
    <3>4. w \in Semaphores /\ w.messages = 1 /\ w.lock = semaphore.lock /\ w.waiting = Rest(semaphore.waiting, 1)
      <4>1. 1 \in 0 .. 1
        OBVIOUS
      <4> QED
        BY <1>2, <2>1, <3>3, <4>1, SemaphoreFacts DEF Semaphores
    <3> HIDE DEF w
    <3> QED
      BY <2>2, <3>1, <3>2, <3>4
  <2>3. CASE semaphore.lock # UNLOCKED
    <3> DEFINE w == [semaphore EXCEPT !.messages = 1, !.lock = @ + 1]
    <3>1. Wake(w)
      BY <2>3 DEF GiveFromISR
    <3>2. semaphore.lock = 0
      BY <1>1, <1>2, <2>1, <2>3 DEF QueueInv, UNLOCKED
    <3>3. w \in Semaphores /\ w.messages = 1 /\ w.lock = 1 /\ w.waiting = semaphore.waiting
      <4>1. 1 \in 0 .. 1 /\ semaphore.lock + 1 = 1 /\ semaphore.lock + 1 \in -1 .. 1
        BY <3>2
      <4> QED
        BY <1>2, <2>1, <4>1, SemaphoreFacts DEF Semaphores
    <3> HIDE DEF w
    <3>4. 0 <= Len(semaphore.waiting) /\ 0 \in Nat
      BY <2>1
    <3> QED
      BY <2>3, <3>1, <3>3, <3>4 DEF UNLOCKED
  <2> QED
    BY <2>2, <2>3
<1>4. PICK w \in Semaphores, n \in Nat :
         /\ Wake(w) /\ (n <= Len(semaphore.waiting) \/ (n = 1 /\ Len(semaphore.waiting) = 0))
         /\ w.waiting = semaphore.waiting \/ w.waiting = Rest(semaphore.waiting, n)
         /\ w.messages = 1 /\ (semaphore.lock = UNLOCKED <=> w.lock = UNLOCKED)
  BY <1>3
<1>5. /\ semaphore' = w /\ item' \in Items /\ xNextTaskUnblockTime' \in 0 .. portMAX_DELAY
      /\ UNCHANGED <<xTickCount, xNumOfOverflows, suspended, uxPendedTicks>>
      /\ xPendingReadyList' \subseteq Takers /\ (suspended = Nobody => xPendingReadyList' = {})
      /\ Once(w.waiting)
      /\ \A u \in Tasks :
            /\ \/ item'[u] = item[u]
               \/ item'[u] = Ready /\ pc[u] \in AsleepPlaces
            /\ item'[u].list = "delayed" => xNextTaskUnblockTime' <= item'[u].value
            /\ u \in xPendingReadyList' \/ Among(u, w.waiting) =>
                  /\ u \in xPendingReadyList \/ Among(u, semaphore.waiting)
                  /\ item'[u] = item[u]
            /\ u \in xPendingReadyList' => ~Among(u, w.waiting)
  BY <1>4, WakeFacts
<1>6. pc' = pc /\ ticks' = ticks /\ timeOut' = timeOut /\ due' = due /\ now' = now
  BY <1>1 DEF local, history
<1>7. \A u \in Tasks : Sound(u)'
  <2> TAKE u \in Tasks
  <2>1. pc[u] \in Locking => semaphore'.lock # UNLOCKED
    BY <1>2, <1>4, <1>5 DEF Sound, PlaceInv
  <2> QED
    BY <1>2, <1>5, <1>6, <2>1, SoundWakes
<1>8. QueueInv'
  <2>1. \A u \in Tasks : u \in xPendingReadyList' \/ Among(u, semaphore'.waiting) =>
            pc'[u] \in AsleepPlaces /\ item'[u].list # "ready"
    BY <1>2, <1>5, <1>6 DEF QueueInv
  <2>2. semaphore'.lock # UNLOCKED => \E u \in Tasks : pc'[u] \in Locking
    BY <1>2, <1>4, <1>5, <1>6 DEF QueueInv
  <2> QED
    BY <1>4, <1>5, <2>1, <2>2 DEF QueueInv
<1>9. TicksKept'
  BY <1>2, <1>5, <1>6 DEF TicksKept, Count
<1>10. /\ xTickCount' \in 0 .. portMAX_DELAY /\ xNumOfOverflows' \in Nat /\ suspended' \in Tasks \cup {Nobody}
       /\ uxPendedTicks' \in Nat /\ now' \in 0 .. MaxTime
       /\ (suspended' = Nobody => uxPendedTicks' = 0 /\ xPendingReadyList' = {})
       /\ pc' \in [Tasks -> Places] /\ ticks' \in [Tasks -> 0 .. portMAX_DELAY]
       /\ timeOut' \in [Tasks -> Times] /\ due' \in [Tasks -> Nat]
  BY <1>2, <1>5, <1>6 DEF TypeOK, HistoryOK
<1> QED
  BY <1>5, <1>7, <1>8, <1>9, <1>10, Assembled

LEMMA UnlockQueueKeeps ==
    ASSUME IInv, NEW t \in Tasks, UnlockQueue(t)
    PROVE  IInv'
<1> DEFINE n == IF semaphore.lock > Len(semaphore.waiting) THEN Len(semaphore.waiting) ELSE semaphore.lock
           w == [semaphore EXCEPT !.lock = UNLOCKED, !.waiting = Rest(@, n)]
           next == IF pc[t] = "unlock" THEN "resume" ELSE "resume_expired"
<1>1. /\ pc[t] \in {"unlock", "unlock_expired"} /\ Wake(w) /\ Goto(t, next)
      /\ UNCHANGED <<local, history>>
  BY DEF UnlockQueue
<1>2. /\ TypeOK /\ TicksKept /\ QueueInv /\ HistoryOK /\ semaphore \in Semaphores
      /\ \A u \in Tasks : Sound(u)
  BY DEF IInv, HistoryOK
<1>3. suspended = t /\ suspended # Nobody /\ t \in Takers /\ t \notin Periodic /\ semaphore.lock # UNLOCKED
  BY <1>1, <1>2, KindFacts, ConstantFacts DEF Suspending, DelayPlaces, Sound, PlaceInv, Locking
<1>4. semaphore.lock \in 0 .. 1 /\ semaphore.messages \in 0 .. 1 /\ semaphore.waiting \in Seq(Takers)
      /\ Len(semaphore.waiting) \in Nat
  BY <1>2, <1>3 DEF Semaphores, UNLOCKED
<1>5. n \in Nat /\ n <= Len(semaphore.waiting)
  BY <1>4
<1> HIDE DEF n
<1>6. Rest(semaphore.waiting, n) \in Seq(Takers)
  BY <1>2, <1>4, <1>5, RestFacts DEF QueueInv
<1>7. w \in Semaphores /\ w.lock = UNLOCKED /\ w.waiting = Rest(semaphore.waiting, n)
  <2>1. UNLOCKED \in -1 .. 1 /\ 0 \in 0 .. 1
    BY DEF UNLOCKED
  <2> QED
    BY <1>2, <1>6, <2>1, SemaphoreFacts DEF Semaphores
<1> HIDE DEF w
<1>8. /\ semaphore' = w /\ item' \in Items /\ xNextTaskUnblockTime' \in 0 .. portMAX_DELAY
      /\ UNCHANGED <<xTickCount, xNumOfOverflows, suspended, uxPendedTicks>>
      /\ xPendingReadyList' \subseteq Takers
      /\ item' = item
      /\ Once(w.waiting)
      /\ \A u \in Tasks :
            /\ item'[u].list = "delayed" => xNextTaskUnblockTime' <= item'[u].value
            /\ u \in xPendingReadyList' \/ Among(u, w.waiting) =>
                  u \in xPendingReadyList \/ Among(u, semaphore.waiting)
            /\ u \in xPendingReadyList' => ~Among(u, w.waiting)
  BY <1>1, <1>3, <1>5, <1>7, WakeFacts
<1>9. ticks' = ticks /\ timeOut' = timeOut /\ due' = due /\ now' = now
  BY <1>1 DEF local, history
<1>10. next \in Places
  BY DEF Places
<1>11. pc' \in [Tasks -> Places] /\ pc'[t] = next /\ \A u \in Tasks \ {t} : pc'[u] = pc[u]
  <2> HIDE DEF next
  <2> QED
    BY <1>1, <1>10, GotoFacts
<1>12. \A u \in Tasks : pc[u] \in Locking => u = t
  BY <1>2, <1>3 DEF Sound, PlaceInv, Locking, Suspending
<1>13. \A u \in Tasks : Sound(u)'
  <2> TAKE u \in Tasks
  <2>1. CASE u # t
    <3>1. pc[u] \in Locking => semaphore'.lock # UNLOCKED
      BY <1>12, <2>1
    <3>2. item'[u] = item[u] \/ (item'[u] = Ready /\ pc[u] \in AsleepPlaces)
      BY <1>8
    <3>3. /\ pc'[u] = pc[u] /\ ticks'[u] = ticks[u] /\ timeOut'[u] = timeOut[u] /\ due'[u] = due[u]
          /\ (item'[u].list = "delayed" => xNextTaskUnblockTime' <= item'[u].value)
          /\ xTickCount' = xTickCount /\ xNumOfOverflows' = xNumOfOverflows /\ now' = now /\ suspended' = suspended
      BY <1>8, <1>9, <1>11, <2>1
    <3> QED
      BY <1>2, <3>1, <3>2, <3>3, SoundWakes
  <2>2. CASE u = t
    <3>1. PlaceInv(t) /\ ItemInv(t) /\ DelayInv(t) /\ TakeInv(t)
      BY <1>2 DEF Sound
    <3>2. PlaceInv(t)'
      <4>1. /\ pc'[t] \in TakePlaces /\ pc'[t] \in Suspending /\ pc'[t] \notin Locking
            /\ (pc[t] = "unlock" => pc'[t] \in AsleepPlaces)
        BY <1>11 DEF TakePlaces, Places, Suspending, Locking, AsleepPlaces
      <4>2. pc[t] = "unlock_expired" => item[t].list = "ready"
        BY <3>1 DEF PlaceInv, AsleepPlaces
      <4> QED
        BY <1>1, <1>3, <1>8, <4>1, <4>2 DEF PlaceInv
    <3>3. ItemInv(t)'
      BY <1>8, <1>9, <3>1 DEF ItemInv
    <3>4. DelayInv(t)'
      BY <1>3, <1>11 DEF DelayInv
    <3>5. TakeInv(t)'
      <4>1. pc[t] \in TimedPlaces
        BY <1>1 DEF TimedPlaces, TakePlaces, Places
      <4>2. Count' = Count /\ Start(t)' = Start(t)
        BY <1>8, <1>9 DEF Count, Start
      <4>3. /\ pc'[t] \notin {"try", "empty", "place", "unlock_expired", "expired"}
            /\ (pc'[t] = "resume_expired" => pc[t] = "unlock_expired")
        BY <1>1, <1>11
      <4> QED
        BY <1>9, <3>1, <4>1, <4>2, <4>3 DEF TakeInv
    <3> QED
      BY <2>2, <3>2, <3>3, <3>4, <3>5 DEF Sound
  <2> QED
    BY <2>1, <2>2
<1>14. QueueInv'
  <2>1. ASSUME NEW u \in Tasks, u \in xPendingReadyList' \/ Among(u, semaphore'.waiting)
        PROVE  pc'[u] \in AsleepPlaces /\ item'[u].list # "ready"
    <3>1. u \in xPendingReadyList \/ Among(u, semaphore.waiting)
      BY <1>8, <2>1
    <3>2. pc[u] \in AsleepPlaces /\ item[u].list # "ready"
      BY <1>2, <3>1 DEF QueueInv
    <3>3. u = t => pc'[u] \in AsleepPlaces
      BY <1>1, <1>11, <3>2 DEF AsleepPlaces
    <3> QED
      BY <1>8, <1>11, <3>2, <3>3
  <2>2. semaphore'.lock = UNLOCKED /\ UNLOCKED # 1
    BY <1>7, <1>8 DEF UNLOCKED
  <2> QED
    BY <1>8, <2>1, <2>2 DEF QueueInv
<1>15. TicksKept'
  BY <1>2, <1>8, <1>9 DEF TicksKept, Count
<1>16. /\ xTickCount' \in 0 .. portMAX_DELAY /\ xNumOfOverflows' \in Nat /\ suspended' \in Tasks \cup {Nobody}
       /\ uxPendedTicks' \in Nat /\ now' \in 0 .. MaxTime
       /\ (suspended' = Nobody => uxPendedTicks' = 0 /\ xPendingReadyList' = {})
       /\ ticks' \in [Tasks -> 0 .. portMAX_DELAY]
       /\ timeOut' \in [Tasks -> Times] /\ due' \in [Tasks -> Nat] /\ semaphore' \in Semaphores
  BY <1>2, <1>3, <1>7, <1>8, <1>9 DEF TypeOK, HistoryOK
<1> QED
  BY <1>8, <1>11, <1>13, <1>14, <1>15, <1>16, Assembled

-----------------------------------------------------------------------------
(* The ticks, and the end of the suspension                                *)

\* The kernel before the ticks, with the wake-ups that were held back.
LEMMA KernelFacts ==
    ASSUME IInv, NEW ts, ts \subseteq xPendingReadyList, NEW items, items = Woken(item, ts),
           NEW next, next = IF ts = {} THEN xNextTaskUnblockTime ELSE HeadValue(items),
           NEW k, k = Kernel(items, next)
    PROVE  /\ Later(k, k, due, 0) /\ Total(k) = Count /\ Total(k) \in Nat
           /\ k.waiting = semaphore.waiting
           /\ \A u \in Tasks :
                /\ item[u].list = "ready" => k.item[u].list = "ready"
                /\ k.item[u].list = "ready" => item[u].list = "ready" \/ pc[u] \in AsleepPlaces
<1>1. TypeOK /\ QueueInv /\ item \in Items /\ semaphore \in Semaphores /\ Count \in Nat /\ \A u \in Tasks : Sound(u)
  BY ClockFacts DEF IInv, HistoryOK, TypeOK, Items
<1>2. items \in Items /\ \A u \in Tasks : items[u] = IF u \in ts THEN Ready ELSE item[u]
  BY <1>1, WokenFacts
<1>3. /\ k = [tick |-> xTickCount, overflows |-> xNumOfOverflows, item |-> items, next |-> next,
              waiting |-> semaphore.waiting]
      /\ k.tick = xTickCount /\ k.overflows = xNumOfOverflows /\ k.item = items /\ k.next = next
      /\ k.waiting = semaphore.waiting
  BY DEF Kernel
<1>4. /\ next \in 0 .. portMAX_DELAY
      /\ \A u \in Tasks : items[u].list = "delayed" => next <= items[u].value
  <2>1. CASE ts = {}
    <3>1. \A u \in Tasks : items[u] = item[u]
      BY <1>2, <2>1
    <3> QED
      BY <1>1, <2>1, <3>1 DEF Sound, ItemInv, TypeOK
  <2>2. CASE ts # {}
    BY <1>2, <2>2, HeadFacts
  <2> QED
    BY <2>1, <2>2
<1>5. k \in Kernels
  BY <1>1, <1>2, <1>3, <1>4 DEF Kernels, TypeOK, Semaphores
<1>6. Total(k) = Count
  BY <1>3 DEF Total, Base, Count
<1>7. Timely(k, due)
  <2> SUFFICES ASSUME NEW u \in Tasks
               PROVE  /\ items[u].list = "delayed" =>
                            /\ xTickCount < items[u].value /\ next <= items[u].value
                            /\ due[u] = xNumOfOverflows * Wrap + items[u].value
                      /\ items[u].list = "overflow" => due[u] = xNumOfOverflows * Wrap + Wrap + items[u].value
    BY <1>3 DEF Timely, Base
  <2>1. CASE u \in ts
    BY <1>2, <2>1, ReadyFacts
  <2>2. CASE u \notin ts
    BY <1>1, <1>2, <1>4, <2>2 DEF Sound, ItemInv
  <2> QED
    BY <2>1, <2>2
<1>8. Queued(k)
  <2>1. \A u \in Tasks : Among(u, semaphore.waiting) => items[u].list # "ready"
    BY <1>1, <1>2 DEF QueueInv
  <2> QED
    BY <1>1, <1>3, <2>1 DEF Queued, QueueInv
<1>9. Later(k, k, due, 0)
  BY <1>1, <1>5, <1>6, <1>7, <1>8 DEF Later
<1>10. \A u \in Tasks : k.item[u].list = "ready" => item[u].list = "ready" \/ pc[u] \in AsleepPlaces
  BY <1>1, <1>2, <1>3 DEF QueueInv
<1> QED
  BY <1>1, <1>2, <1>3, <1>6, <1>9, <1>10, ReadyFacts

\* What holds when the kernel is as n ticks make it.
LEMMA BecomesFacts ==
    ASSUME IInv, NEW k0, NEW k, NEW n \in Nat, Later(k0, k, due, n), Becomes(k), due' = due,
           Total(k0) = Count, k0.waiting = semaphore.waiting,
           \A u \in Tasks :
                /\ item[u].list = "ready" => k0.item[u].list = "ready"
                /\ k0.item[u].list = "ready" => item[u].list = "ready" \/ pc[u] \in AsleepPlaces
    PROVE  /\ xTickCount' \in 0 .. portMAX_DELAY /\ xNumOfOverflows' \in Nat
           /\ xNextTaskUnblockTime' \in 0 .. portMAX_DELAY /\ item' \in Items
           /\ semaphore' \in Semaphores /\ semaphore'.lock = semaphore.lock
           /\ semaphore'.messages = semaphore.messages /\ Once(semaphore'.waiting)
           /\ Count' = Count + n
           /\ \A u \in Tasks :
                /\ ItemInv(u)'
                /\ item[u].list = "ready" => item'[u].list = "ready"
                /\ item'[u].list = "ready" => item[u].list = "ready" \/ pc[u] \in AsleepPlaces \/ due[u] <= Count'
                /\ Among(u, semaphore'.waiting) => Among(u, semaphore.waiting) /\ item'[u].list # "ready"
<1>1. semaphore \in Semaphores /\ Count \in Nat
  BY ClockFacts DEF IInv, HistoryOK
<1>2. /\ xTickCount' = k.tick /\ xNumOfOverflows' = k.overflows /\ xNextTaskUnblockTime' = k.next
      /\ item' = k.item /\ semaphore' = [semaphore EXCEPT !.waiting = k.waiting]
  BY DEF Becomes
<1>3. /\ k \in Kernels /\ Timely(k, due) /\ Queued(k) /\ Total(k) = Count + n
      /\ \A u \in Tasks :
            /\ k0.item[u].list = "ready" => k.item[u].list = "ready"
            /\ k.item[u].list = "ready" => k0.item[u].list = "ready" \/ due[u] <= Total(k)
            /\ Among(u, k.waiting) => Among(u, semaphore.waiting)
  BY DEF Later
<1>4. /\ k.tick \in 0 .. portMAX_DELAY /\ k.overflows \in Nat /\ k.next \in 0 .. portMAX_DELAY
      /\ k.item \in Items /\ k.waiting \in Seq(Takers)
  BY <1>3 DEF Kernels
<1>5. Count' = Total(k)
  BY <1>2 DEF Count, Total, Base
<1>6. /\ semaphore' \in Semaphores /\ semaphore'.lock = semaphore.lock
      /\ semaphore'.messages = semaphore.messages /\ semaphore'.waiting = k.waiting
  <2>1. 0 \in 0 .. 1 /\ 0 \in -1 .. 1
    OBVIOUS
  <2> QED
    BY <1>1, <1>2, <1>4, <2>1, SemaphoreFacts DEF Semaphores
<1>7. \A u \in Tasks : ItemInv(u)'
  BY <1>2, <1>3 DEF Timely, ItemInv, Base
<1>8. Once(k.waiting) /\ \A u \in Tasks : Among(u, k.waiting) => k.item[u].list # "ready"
  BY <1>3 DEF Queued
<1> QED
  BY <1>2, <1>3, <1>4, <1>5, <1>6, <1>7, <1>8

\* A task that only time has passed for is sound.
LEMMA SoundLater ==
    ASSUME IInv, NEW u \in Tasks,
           pc'[u] = pc[u], ticks'[u] = ticks[u], timeOut'[u] = timeOut[u], due'[u] = due[u],
           ItemInv(u)', Count' \in Nat, Count' >= Count, Count' = Count \/ pc[u] \notin {"empty", "place"},
           item[u].list = "ready" => item'[u].list = "ready",
           item'[u].list = "ready" => item[u].list = "ready" \/ pc[u] \in AsleepPlaces \/ due[u] <= Count',
           suspended' = u <=> suspended = u, semaphore'.lock = semaphore.lock,
           Timed(u) => now' <= due[u] + MaxLag
    PROVE  Sound(u)'
<1>1. PlaceInv(u) /\ DelayInv(u) /\ TakeInv(u) /\ Count \in Nat /\ due[u] \in Nat
  BY TaskFacts DEF Sound
<1>2. PlaceInv(u)'
  BY <1>1 DEF PlaceInv
<1>3. pc[u] \in AsleepPlaces => u \notin Periodic /\ pc[u] \notin {"resume_delay", "delayed"}
  BY KindFacts DEF AsleepPlaces, DelayPlaces
<1>4. DelayInv(u)'
  <2>1. u \in Periodic => now' <= due'[u] + MaxLag
    BY DEF Timed
  <2>2. (u \in Periodic \/ pc[u] \in {"resume_delay", "delayed"}) /\ item'[u].list = "ready" => Count' >= due[u]
    BY <1>1, <1>3 DEF DelayInv
  <2> QED
    BY <1>1, <2>1, <2>2 DEF DelayInv
<1>5. TakeInv(u)'
  <2>1. Start(u)' = Start(u) /\ Start(u) \in Int
    <3>1. timeOut[u].count \in Nat /\ timeOut[u].entering \in Nat
      BY TaskFacts, ConstantFacts DEF Times
    <3> QED
      BY <3>1, ConstantFacts DEF Start
  <2>2. pc[u] \in TimedPlaces /\ ticks[u] # portMAX_DELAY => now' <= due[u] + MaxLag
    BY DEF Timed, TimedPlaces, TakePlaces
  <2>3. pc[u] \in {"empty", "place"} /\ ticks[u] # portMAX_DELAY => Start(u) = Count'
    BY <1>1 DEF TakeInv
  <2>4. pc[u] \in {"unlock_expired", "resume_expired", "expired"} => Count' >= due[u]
    BY <1>1 DEF TakeInv
  <2>5. pc[u] \in TimedPlaces /\ ticks[u] # portMAX_DELAY =>
            due[u] = Start(u) + ticks[u] /\ Start(u) <= Count' /\ ticks[u] + MaxLag <= Wrap
    BY <1>1, <2>1 DEF TakeInv
  <2> QED
    BY <1>1, <2>1, <2>2, <2>3, <2>4, <2>5 DEF TakeInv
<1> QED
  BY <1>2, <1>4, <1>5 DEF Sound

LEMMA TickKeeps ==
    ASSUME IInv, Tick
    PROVE  IInv'
<1>1. /\ now < MaxTime /\ now' = now + 1 /\ \A u \in Tasks : Timed(u) => now < due[u] + MaxLag
      /\ UNCHANGED <<suspended, xPendingReadyList, pc, local, due>>
  BY DEF Tick
<1>2. /\ TypeOK /\ TicksKept /\ QueueInv /\ HistoryOK /\ semaphore \in Semaphores /\ Count \in Nat
      /\ \A u \in Tasks : Sound(u)
  BY ClockFacts DEF IInv, HistoryOK
<1>3. ticks' = ticks /\ timeOut' = timeOut /\ due' = due /\ pc' = pc
  BY <1>1 DEF local
<1>4. now \in Nat /\ now' \in 0 .. MaxTime /\ \A u \in Tasks : due[u] \in Nat
  BY <1>1, <1>2, KernelTimeAssumption DEF TypeOK, HistoryOK
<1>5. \A u \in Tasks : Timed(u) => now' <= due[u] + MaxLag
  BY <1>1, <1>4, KernelTimeAssumption
<1>6. /\ suspended' \in Tasks \cup {Nobody} /\ xPendingReadyList' \subseteq Takers
      /\ pc' \in [Tasks -> Places] /\ ticks' \in [Tasks -> 0 .. portMAX_DELAY]
      /\ timeOut' \in [Tasks -> Times] /\ due' \in [Tasks -> Nat]
  BY <1>1, <1>2, <1>3 DEF TypeOK, HistoryOK
<1>7. CASE suspended = Nobody
  <2> DEFINE k == Kernel(item, xNextTaskUnblockTime)
  <2>1. Becomes(IncrementTick(k)) /\ uxPendedTicks' = uxPendedTicks
    BY <1>7 DEF Tick
  <2>2. uxPendedTicks = 0 /\ xPendingReadyList = {} /\ Count = now
    BY <1>2, <1>7 DEF TypeOK, TicksKept
  <2>3. /\ Later(k, k, due, 0) /\ Total(k) = Count /\ Total(k) \in Nat
        /\ k.waiting = semaphore.waiting
        /\ \A u \in Tasks :
              /\ item[u].list = "ready" => k.item[u].list = "ready"
              /\ k.item[u].list = "ready" => item[u].list = "ready" \/ pc[u] \in AsleepPlaces
    <3>1. item = Woken(item, {})
      <4>1. item = [u \in Tasks |-> item[u]]
        BY <1>2 DEF TypeOK
      <4> QED
        BY <4>1 DEF Woken
    <3>2. k = Kernel(item, xNextTaskUnblockTime)
      OBVIOUS
    <3> HIDE DEF k
    <3> QED
      BY <3>1, <3>2, KernelFacts
  <2> HIDE DEF k
  <2>4. Later(k, IncrementTick(k), due, 1)
    <3>1. due \in [Tasks -> Nat] /\ 0 \in Nat /\ 0 + 1 = 1
      BY <1>2 DEF HistoryOK
    <3>2. Later(k, IncrementTick(k), due, 0 + 1)
      BY <2>3, <3>1, TickFacts
    <3> QED
      BY <3>1, <3>2
  <2>5. /\ xTickCount' \in 0 .. portMAX_DELAY /\ xNumOfOverflows' \in Nat
        /\ xNextTaskUnblockTime' \in 0 .. portMAX_DELAY /\ item' \in Items
        /\ semaphore' \in Semaphores /\ semaphore'.lock = semaphore.lock
        /\ semaphore'.messages = semaphore.messages /\ Once(semaphore'.waiting)
        /\ Count' = Count + 1
        /\ \A u \in Tasks :
              /\ ItemInv(u)'
              /\ item[u].list = "ready" => item'[u].list = "ready"
              /\ item'[u].list = "ready" => item[u].list = "ready" \/ pc[u] \in AsleepPlaces \/ due[u] <= Count'
              /\ Among(u, semaphore'.waiting) => Among(u, semaphore.waiting) /\ item'[u].list # "ready"
    BY <1>3, <2>1, <2>3, <2>4, BecomesFacts
  <2>6. \A u \in Tasks : pc[u] \notin {"empty", "place"}
    BY <1>7, KindFacts, ConstantFacts DEF Suspending
  <2>7. \A u \in Tasks : Sound(u)'
    <3> TAKE u \in Tasks
    <3>1. Count' \in Nat /\ Count' >= Count /\ (suspended' = u <=> suspended = u)
      BY <1>1, <1>2, <2>5
    <3> QED
      BY <1>3, <1>5, <2>5, <2>6, <3>1, SoundLater
  <2>8. QueueInv'
    <3>1. \A u \in Tasks : u \in xPendingReadyList' \/ Among(u, semaphore'.waiting) =>
              pc'[u] \in AsleepPlaces /\ item'[u].list # "ready"
      BY <1>1, <1>2, <1>3, <2>2, <2>5 DEF QueueInv
    <3> QED
      BY <1>1, <1>2, <1>3, <2>2, <2>5, <3>1 DEF QueueInv
  <2>9. TicksKept'
    BY <1>1, <1>2, <2>1, <2>2, <2>5 DEF TicksKept
  <2> QED
    BY <1>1, <1>4, <1>6, <2>1, <2>2, <2>5, <2>7, <2>8, <2>9, Assembled
<1>8. CASE suspended # Nobody
  <2>1. uxPendedTicks' = uxPendedTicks + 1 /\ UNCHANGED <<clock, item, semaphore>>
    BY <1>8 DEF Tick
  <2>2. /\ xTickCount' = xTickCount /\ xNumOfOverflows' = xNumOfOverflows
        /\ xNextTaskUnblockTime' = xNextTaskUnblockTime
    BY <2>1 DEF clock
  <2>3. Count' = Count
    BY <2>2 DEF Count
  <2>4. \A u \in Tasks : Sound(u)'
    <3> TAKE u \in Tasks
    <3>1. ItemInv(u)'
      BY <1>2, <1>3, <2>1, <2>2 DEF Sound, ItemInv
    <3>2. Count' \in Nat /\ Count' >= Count /\ (suspended' = u <=> suspended = u)
      BY <1>1, <1>2, <2>3
    <3> QED
      BY <1>3, <1>5, <2>1, <2>3, <3>1, <3>2, SoundLater
  <2>5. QueueInv'
    BY <1>1, <1>2, <1>3, <2>1 DEF QueueInv, Among, Once
  <2>6. TicksKept'
    BY <1>1, <1>2, <1>4, <2>1, <2>3 DEF TicksKept, TypeOK
  <2>7. /\ xTickCount' \in 0 .. portMAX_DELAY /\ xNumOfOverflows' \in Nat /\ xNextTaskUnblockTime' \in 0 .. portMAX_DELAY
        /\ item' \in Items /\ uxPendedTicks' \in Nat /\ semaphore' \in Semaphores /\ suspended' # Nobody
    BY <1>1, <1>2, <1>8, <2>1, <2>2 DEF TypeOK, Items
  <2> QED
    BY <1>4, <1>6, <2>4, <2>5, <2>6, <2>7, Assembled
<1> QED
  BY <1>7, <1>8

\* The end of a suspension: what was held back is done, and no tick is lost.
LEMMA ResumeFacts ==
    ASSUME IInv, NEW t \in Tasks, NEW l, ResumeAll(t, l), due' = due
    PROVE  /\ suspended' = Nobody /\ xPendingReadyList' = {} /\ uxPendedTicks' = 0 /\ Goto(t, l)
           /\ xTickCount' \in 0 .. portMAX_DELAY /\ xNumOfOverflows' \in Nat
           /\ xNextTaskUnblockTime' \in 0 .. portMAX_DELAY /\ item' \in Items
           /\ semaphore' \in Semaphores /\ semaphore'.lock = semaphore.lock
           /\ semaphore'.messages = semaphore.messages /\ Once(semaphore'.waiting)
           /\ Count' = Count + uxPendedTicks
           /\ \A u \in Tasks :
                /\ ItemInv(u)'
                /\ item[u].list = "ready" => item'[u].list = "ready"
                /\ item'[u].list = "ready" => item[u].list = "ready" \/ pc[u] \in AsleepPlaces \/ due[u] <= Count'
                /\ Among(u, semaphore'.waiting) => Among(u, semaphore.waiting) /\ item'[u].list # "ready"
<1> DEFINE items == Woken(item, xPendingReadyList)
           next == IF xPendingReadyList = {} THEN xNextTaskUnblockTime ELSE HeadValue(items)
           k == Kernel(items, next)
           after[n \in 0 .. uxPendedTicks] == IF n = 0 THEN Kernel(items, next) ELSE IncrementTick(after[n - 1])
<1>1. /\ suspended' = Nobody /\ xPendingReadyList' = {} /\ uxPendedTicks' = 0 /\ Goto(t, l)
      /\ Becomes(after[uxPendedTicks])
  BY DEF ResumeAll
<1>2. uxPendedTicks \in Nat /\ due \in [Tasks -> Nat]
  BY DEF IInv, TypeOK, HistoryOK
<1>3. /\ Later(k, k, due, 0) /\ Total(k) = Count /\ Total(k) \in Nat
      /\ k.waiting = semaphore.waiting
      /\ \A u \in Tasks :
            /\ item[u].list = "ready" => k.item[u].list = "ready"
            /\ k.item[u].list = "ready" => item[u].list = "ready" \/ pc[u] \in AsleepPlaces
  <2> HIDE DEF items
  <2>1. items = Woken(item, xPendingReadyList)
    BY DEF items
  <2> HIDE DEF next
  <2>2. next = IF xPendingReadyList = {} THEN xNextTaskUnblockTime ELSE HeadValue(items)
    BY DEF next
  <2>3. k = Kernel(items, next)
    OBVIOUS
  <2> HIDE DEF k
  <2> QED
    BY <2>1, <2>2, <2>3, KernelFacts
<1> HIDE DEF items, next
<1>4. after = [n \in 0 .. uxPendedTicks |-> IF n = 0 THEN k ELSE IncrementTick(after[n - 1])]
  <2>1. \E f : f = [n \in 0 .. uxPendedTicks |-> IF n = 0 THEN k ELSE IncrementTick(f[n - 1])]
    <3> HIDE DEF k
    <3> QED
      BY <1>2, TicksExist
  <2> QED
    BY <2>1
<1> HIDE DEF k, after
<1>5. Later(k, after[uxPendedTicks], due, uxPendedTicks)
  <2>1. k \in Kernels /\ Timely(k, due) /\ Queued(k)
    BY <1>3 DEF Later
  <2> QED
    BY <1>2, <1>3, <1>4, <2>1, TicksFacts
<1>6. /\ xTickCount' \in 0 .. portMAX_DELAY /\ xNumOfOverflows' \in Nat
      /\ xNextTaskUnblockTime' \in 0 .. portMAX_DELAY /\ item' \in Items
      /\ semaphore' \in Semaphores /\ semaphore'.lock = semaphore.lock
      /\ semaphore'.messages = semaphore.messages /\ Once(semaphore'.waiting)
      /\ Count' = Count + uxPendedTicks
      /\ \A u \in Tasks :
            /\ ItemInv(u)'
            /\ item[u].list = "ready" => item'[u].list = "ready"
            /\ item'[u].list = "ready" => item[u].list = "ready" \/ pc[u] \in AsleepPlaces \/ due[u] <= Count'
            /\ Among(u, semaphore'.waiting) => Among(u, semaphore.waiting) /\ item'[u].list # "ready"
  BY <1>1, <1>2, <1>3, <1>5, BecomesFacts
<1> QED
  BY <1>1, <1>6

LEMMA ResumeKeeps ==
    ASSUME IInv, NEW t \in Tasks, NEW l, ResumeAll(t, l), UNCHANGED <<local, history>>,
           \/ pc[t] = "resume_delay" /\ l = "delayed"
           \/ pc[t] = "resume" /\ l = "retry"
           \/ pc[t] = "resume_expired" /\ l = "expired"
    PROVE  IInv'
<1>1. ticks' = ticks /\ timeOut' = timeOut /\ due' = due /\ now' = now
  BY DEF local, history
<1>2. /\ TypeOK /\ TicksKept /\ QueueInv /\ HistoryOK /\ semaphore \in Semaphores /\ Count \in Nat
      /\ uxPendedTicks \in Nat /\ now \in Nat /\ \A u \in Tasks : Sound(u)
  BY TaskFacts DEF IInv
<1>3. suspended = t
  BY KindFacts DEF Suspending
<1>4. /\ suspended' = Nobody /\ xPendingReadyList' = {} /\ uxPendedTicks' = 0 /\ Goto(t, l)
      /\ xTickCount' \in 0 .. portMAX_DELAY /\ xNumOfOverflows' \in Nat
      /\ xNextTaskUnblockTime' \in 0 .. portMAX_DELAY /\ item' \in Items
      /\ semaphore' \in Semaphores /\ semaphore'.lock = semaphore.lock
      /\ semaphore'.messages = semaphore.messages /\ Once(semaphore'.waiting)
      /\ Count' = Count + uxPendedTicks
      /\ \A u \in Tasks :
            /\ ItemInv(u)'
            /\ item[u].list = "ready" => item'[u].list = "ready"
            /\ item'[u].list = "ready" => item[u].list = "ready" \/ pc[u] \in AsleepPlaces \/ due[u] <= Count'
            /\ Among(u, semaphore'.waiting) => Among(u, semaphore.waiting) /\ item'[u].list # "ready"
  BY <1>1, ResumeFacts
<1>5. pc' \in [Tasks -> Places] /\ pc'[t] = l /\ \A u \in Tasks \ {t} : pc'[u] = pc[u]
  BY <1>4, GotoFacts DEF Places
<1>6. Count' \in Nat /\ Count' >= Count
  BY <1>2, <1>4
<1>7. \A u \in Tasks : Sound(u)'
  <2> TAKE u \in Tasks
  <2>1. CASE u # t
    <3>1. pc[u] \notin Suspending
      BY <1>3, <2>1, KindFacts
    <3>2. Timed(u) => now' <= due[u] + MaxLag
      <4>1. Timed(u) => u \in Periodic \/ (pc[u] \in TimedPlaces /\ ticks[u] # portMAX_DELAY)
        BY <1>2 DEF Timed, TimedPlaces, TakePlaces, TypeOK
      <4> QED
        BY <1>1, <1>2, <4>1 DEF Sound, DelayInv, TakeInv
    <3>3. pc[u] \notin {"empty", "place"} /\ (suspended' = u <=> suspended = u)
      BY <1>3, <1>4, <2>1, <3>1, ConstantFacts DEF Suspending
    <3> QED
      BY <1>1, <1>4, <1>5, <1>6, <2>1, <3>2, <3>3, SoundLater
  <2>2. CASE u = t
    <3>1. PlaceInv(t) /\ DelayInv(t) /\ TakeInv(t) /\ due[t] \in Nat
      BY <1>2, TaskFacts DEF Sound
    <3>2. PlaceInv(t)'
      <4>1. /\ l \notin Suspending /\ l \notin Locking
            /\ (pc[t] \in DelayPlaces <=> l \in DelayPlaces) /\ (pc[t] \in TakePlaces <=> l \in TakePlaces)
            /\ (l # "expired" => l \in AsleepPlaces \cup {"resume_delay", "delayed"})
        BY DEF Suspending, Locking, DelayPlaces, TakePlaces, Places, AsleepPlaces
      <4>2. l = "expired" => item'[t].list = "ready"
        BY <1>4, <3>1 DEF PlaceInv, AsleepPlaces
      <4> QED
        BY <1>4, <1>5, <3>1, <4>1, <4>2, ConstantFacts DEF PlaceInv
    <3>3. DelayInv(t)'
      <4>1. pc[t] \in {"resume", "resume_expired"} => t \notin Periodic
        BY KindFacts DEF DelayPlaces
      <4>2. pc[t] = "resume_delay" /\ item'[t].list = "ready" => Count' >= due[t]
        BY <1>2, <1>4, <1>6, <3>1 DEF DelayInv, AsleepPlaces
      <4> QED
        BY <1>1, <1>5, <3>1, <4>1, <4>2 DEF DelayInv
    <3>4. TakeInv(t)'
      <4>1. CASE l = "delayed"
        BY <1>5, <4>1 DEF TakeInv, TimedPlaces, TakePlaces
      <4>2. CASE l # "delayed"
        <5>1. pc[t] \in TimedPlaces
          BY <4>2 DEF TimedPlaces, TakePlaces, Places
        <5>2. Start(t)' = Start(t) /\ Start(t) \in Int
          <6>1. timeOut[t].count \in Nat /\ timeOut[t].entering \in Nat
            BY TaskFacts, ConstantFacts DEF Times
          <6> QED
            BY <1>1, <6>1, ConstantFacts DEF Start
        <5>3. l = "expired" => Count' >= due[t]
          BY <1>2, <1>6, <3>1 DEF TakeInv
        <5>4. ticks[t] # portMAX_DELAY =>
                 /\ now <= due[t] + MaxLag
                 /\ due[t] = Start(t) + ticks[t] /\ Start(t) <= Count' /\ ticks[t] + MaxLag <= Wrap
          BY <1>2, <1>6, <3>1, <5>1, <5>2 DEF TakeInv
        <5> QED
          BY <1>1, <1>5, <3>1, <4>2, <5>1, <5>2, <5>3, <5>4 DEF TakeInv
      <4> QED
        BY <4>1, <4>2
    <3> QED
      BY <1>4, <2>2, <3>2, <3>3, <3>4 DEF Sound
  <2> QED
    BY <2>1, <2>2
<1>8. QueueInv'
  <2>1. ASSUME NEW u \in Tasks, Among(u, semaphore'.waiting)
        PROVE  pc'[u] \in AsleepPlaces /\ item'[u].list # "ready"
    <3>1. pc[u] \in AsleepPlaces /\ item'[u].list # "ready"
      BY <1>2, <1>4, <2>1 DEF QueueInv
    <3> QED
      BY <1>5, <3>1 DEF AsleepPlaces
  <2>2. semaphore.lock = UNLOCKED
    <3> SUFFICES ASSUME semaphore.lock # UNLOCKED
                 PROVE  FALSE
      OBVIOUS
    <3>1. PICK u \in Tasks : pc[u] \in Locking
      BY <1>2 DEF QueueInv
    <3>2. u = t
      BY <1>3, <3>1, KindFacts DEF Locking, Suspending
    <3> QED
      BY <3>1, <3>2 DEF Locking
  <2> QED
    BY <1>2, <1>4, <2>1, <2>2 DEF QueueInv
<1>9. TicksKept'
  BY <1>1, <1>2, <1>4 DEF TicksKept
<1>10. /\ suspended' \in Tasks \cup {Nobody} /\ uxPendedTicks' \in Nat /\ xPendingReadyList' \subseteq Takers
       /\ ticks' \in [Tasks -> 0 .. portMAX_DELAY] /\ now' \in 0 .. MaxTime
       /\ timeOut' \in [Tasks -> Times] /\ due' \in [Tasks -> Nat]
  BY <1>1, <1>2, <1>4 DEF TypeOK, HistoryOK
<1> QED
  BY <1>4, <1>5, <1>7, <1>8, <1>9, <1>10, Assembled

-----------------------------------------------------------------------------
(* The theorems                                                            *)

LEMMA Starts ==
    ASSUME Init
    PROVE  IInv
<1>1. /\ xTickCount = 0 /\ xNumOfOverflows = 0 /\ xNextTaskUnblockTime = portMAX_DELAY
      /\ item = [t \in Tasks |-> Ready] /\ suspended = Nobody /\ uxPendedTicks = 0 /\ xPendingReadyList = {}
      /\ semaphore = [messages |-> 0, lock |-> UNLOCKED, waiting |-> <<>>]
      /\ pc = [t \in Tasks |-> "idle"] /\ ticks = [t \in Tasks |-> 0]
      /\ timeOut = [t \in Tasks |-> NoTime]
      /\ now = 0 /\ due = [t \in Tasks |-> 0]
  BY DEF Init
<1>2. /\ semaphore \in Semaphores /\ semaphore.messages = 0 /\ semaphore.lock = UNLOCKED
      /\ semaphore.waiting = <<>> /\ semaphore.messages \in 0 .. 1 /\ semaphore.lock \in -1 .. 1
      /\ semaphore.waiting \in Seq(Takers)
  BY <1>1 DEF Semaphores, UNLOCKED
<1>3. Wrap \in Nat /\ 0 * Wrap + 0 = 0 /\ 0 % Wrap = 0 /\ MaxLag \in Nat /\ MaxTime \in Nat
  BY KernelTimeAssumption, ConstantFacts, ModFacts
<1>4. Count = 0
  BY <1>1, <1>3 DEF Count
<1>5. TypeOK
  BY <1>1, <1>2, <1>3, ReadyFacts, ConstantFacts DEF TypeOK, Places
<1>6. HistoryOK /\ TicksKept
  BY <1>1, <1>2, <1>4, NoTimeFacts DEF HistoryOK, TicksKept
<1>7. QueueInv
  BY <1>1, <1>2 DEF QueueInv, Once, Among, UNLOCKED
<1>8. \A u \in Tasks : Sound(u)
  <2> TAKE u \in Tasks
  <2>1. pc[u] = "idle" /\ item[u].list = "ready" /\ due[u] = 0 /\ timeOut[u].entering = 0 /\ suspended # u
    BY <1>1, ReadyFacts, ConstantFacts DEF NoTime
  <2>2. PlaceInv(u)
    BY <2>1 DEF PlaceInv, DelayPlaces, TakePlaces, Places, Suspending, Locking
  <2>3. ItemInv(u) /\ TakeInv(u)
    BY <2>1 DEF ItemInv, TakeInv, TimedPlaces, TakePlaces
  <2>4. DelayInv(u)
    BY <1>1, <1>3, <1>4, <2>1 DEF DelayInv
  <2> QED
    BY <2>2, <2>3, <2>4 DEF Sound
<1> QED
  BY <1>5, <1>6, <1>7, <1>8 DEF IInv

LEMMA StaysPut ==
    ASSUME IInv, UNCHANGED vars
    PROVE  IInv'
<1>1. /\ UNCHANGED <<xTickCount, xNumOfOverflows, xNextTaskUnblockTime, item, suspended, uxPendedTicks,
                     xPendingReadyList, semaphore, pc, ticks, timeOut, now, due>>
  BY DEF vars, clock, scheduler, local, history
<1>2. \A u \in Tasks : Sound(u)'
  BY <1>1 DEF IInv, Sound, PlaceInv, ItemInv, DelayInv, TakeInv, Count, Start
<1>3. QueueInv'
  BY <1>1 DEF IInv, QueueInv, Among, Once
<1>4. TypeOK' /\ HistoryOK' /\ TicksKept'
  BY <1>1 DEF IInv, TypeOK, HistoryOK, TicksKept, Count
<1> QED
  BY <1>2, <1>3, <1>4 DEF IInv

\* Each step keeps the invariant.
LEMMA Keeps ==
    ASSUME IInv, [Next]_vars
    PROVE  IInv'
<1>1. CASE UNCHANGED vars
  BY <1>1, StaysPut
<1>2. CASE Tick
  BY <1>2, TickKeeps
<1>3. CASE GiveFromISR
  BY <1>3, GiveKeeps
<1>4. ASSUME NEW t \in Tasks, Take(t) \/ BeginDelay(t)
      PROVE  IInv'
  BY <1>4, TakeStarts, BeginDelayKeeps
<1>5. ASSUME NEW t \in Tasks, TakeStep(t)
      PROVE  IInv'
  <2>1. CASE Got(t)
    BY <2>1, GotKeeps
  <2>2. CASE NotGot(t)
    BY <2>2, NotGotKeeps
  <2>3. CASE SuspendAll(t)
    BY <2>3, SuspendAllKeeps
  <2>4. CASE LockQueue(t)
    BY <2>4, LockQueueKeeps
  <2>5. CASE CheckForTimeOut(t)
    BY <2>5, CheckForTimeOutKeeps
  <2>6. CASE IsQueueEmpty(t)
    BY <2>6, IsQueueEmptyKeeps
  <2>7. CASE PlaceOnEventList(t)
    BY <2>7, PlaceKeeps
  <2>8. CASE UnlockQueue(t)
    BY <2>8, UnlockQueueKeeps
  <2>9. CASE ResumeTake(t)
    BY <2>9, ResumeKeeps DEF ResumeTake, At
  <2>10. CASE Expired(t)
    BY <2>10, ExpiredKeeps
  <2> QED
    BY <1>5, <2>1, <2>2, <2>3, <2>4, <2>5, <2>6, <2>7, <2>8, <2>9, <2>10 DEF TakeStep
<1>6. ASSUME NEW t \in Tasks, DelayStep(t)
      PROVE  IInv'
  <2>1. CASE DelayUntil(t)
    BY <2>1, DelayUntilKeeps
  <2>2. CASE Delay(t)
    BY <2>2, DelayKeeps
  <2>3. CASE EndDelay(t)
    BY <2>3, ResumeKeeps DEF EndDelay, At
  <2>4. CASE AfterDelay(t)
    BY <2>4, AfterDelayKeeps
  <2> QED
    BY <1>6, <2>1, <2>2, <2>3, <2>4 DEF DelayStep
<1> QED
  BY <1>1, <1>2, <1>3, <1>4, <1>5, <1>6 DEF Next

LEMMA Invariance == Spec => []IInv
<1>1. Init => IInv
  BY Starts
<1>2. IInv /\ [Next]_vars => IInv'
  BY Keeps
<1> QED
  BY <1>1, <1>2, PTL DEF Spec

\* Every variable has its type; the queue is locked, ticks and wake-ups are
\* held back only while the scheduler is suspended.
THEOREM Typing == Spec => []TypeOK
<1>1. IInv => TypeOK
  BY DEF IInv
<1> QED
  BY <1>1, Invariance, PTL

\* However long the scheduler is suspended, and wherever the counter wraps, the
\* ticks that are counted and those held back are all that came.
THEOREM NoTickLost == Spec => []TicksKept
<1>1. IInv => TicksKept
  BY DEF IInv
<1> QED
  BY <1>1, Invariance, PTL

\* configASSERT of taskSWITCH_DELAYED_LISTS never fails: nobody who is due
\* before the wrap is still in the list when it is exchanged.
THEOREM ExchangeIsSafe == Spec => []DelayedEmptyAtWrap
<1>1. IInv => DelayedEmptyAtWrap
  <2> SUFFICES ASSUME IInv, xTickCount = portMAX_DELAY, NEW u \in Tasks, item[u].list = "delayed"
               PROVE  FALSE
    BY DEF DelayedEmptyAtWrap, In
  <2>1. xTickCount < item[u].value
    BY DEF IInv, Sound, ItemInv
  <2>2. item[u].value \in 0 .. portMAX_DELAY
    BY DEF IInv, TypeOK
  <2> QED
    BY <2>1, <2>2, ConstantFacts
<1> QED
  BY <1>1, Invariance, PTL

\* Whoever sleeps for a time is not late yet: the tick at which the time is
\* over wakes the task, or is held back, on either side of the wrap.
THEOREM WokenInTime == Spec => []NotLate
<1>1. IInv => NotLate
  <2> SUFFICES ASSUME IInv, NEW u \in Tasks, item[u].list \in {"delayed", "overflow"}
               PROVE  Count < due[u]
    BY DEF NotLate
  <2>1. ItemInv(u) /\ item[u].value \in Nat
    BY ConstantFacts DEF IInv, Sound, TypeOK
  <2>2. xTickCount < Wrap /\ xTickCount \in Nat /\ xNumOfOverflows * Wrap \in Nat
        /\ Count = xNumOfOverflows * Wrap + xTickCount
    BY ClockFacts DEF IInv
  <2>3. CASE item[u].list = "delayed"
    BY <2>1, <2>2, <2>3 DEF ItemInv
  <2>4. CASE item[u].list = "overflow"
    BY <2>1, <2>2, <2>4, ConstantFacts DEF ItemInv
  <2> QED
    BY <2>3, <2>4
<1> QED
  BY <1>1, Invariance, PTL

\* A delay that is over has lasted its time, and a take that has been given up
\* has waited its time, also when it began to wait again in between.
THEOREM NotWokenEarly == Spec => []NotEarly
<1>1. IInv => NotEarly
  BY DEF IInv, Sound, DelayInv, TakeInv, NotEarly
<1> QED
  BY <1>1, Invariance, PTL

=============================================================================
