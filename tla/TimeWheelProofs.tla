--------------------------- MODULE TimeWheelProofs ---------------------------
(***************************************************************************)
(* Theorems about TimeWheel, for any number of wheels of any sizes, any    *)
(* timers and any delays shorter than a turn of the clock.                 *)
(***************************************************************************)
EXTENDS TimeWheel, Division

Top == Len(Sizes)

------------------------------------------------------------------------------
(* The spans of the wheels.                                                *)

\* What the proofs use of the sizes.
LEMMA SizeFacts ==
  /\ Top \in Nat /\ Top >= 2
  /\ \A i \in 1..Top : Sizes[i] \in Nat \ {0}
  BY TimeWheelAssumption DEF Top

\* Span is well defined: the product of the sizes up to a wheel.
LEMMA SpanFacts ==
  /\ \A i \in 0..Top : Span[i] \in Nat \ {0}
  /\ Span[0] = 1
  /\ \A i \in 1..Top : Span[i] = Span[i - 1] * Sizes[i]
<1> DEFINE Good(k, g) == /\ g \in [0..k -> Nat \ {0}] /\ g[0] = 1
                         /\ \A i \in 1..k : g[i] = g[i - 1] * Sizes[i]
           T == {k \in 0..Top : ~ \E g : Good(k, g)}
<1>1. T = {}
  <2> SUFFICES ASSUME T # {} PROVE FALSE
    OBVIOUS
  <2>1. PICK k \in T : \A m \in T : k <= m
    <3>1. T \subseteq Nat
      BY SizeFacts
    <3> HIDE DEF T
    <3> QED
      BY <3>1, LeastElement
  <2>2. k # 0
    <3>1. Good(0, [i \in 0..0 |-> 1])
      OBVIOUS
    <3> QED
      BY <2>1, <3>1
  <2>3. k \in 0..Top /\ k - 1 \in 0..Top /\ k \in 1..Top /\ k - 1 \notin T
    <3>1. k \in 0..Top
      OBVIOUS
    <3>2. k - 1 \in 0..Top /\ k \in 1..Top /\ ~(k <= k - 1)
      BY <2>2, <3>1, SizeFacts
    <3> HIDE DEF T
    <3> QED
      BY <2>1, <3>1, <3>2
  <2>4. PICK g : Good(k - 1, g)
    BY <2>3
  <2> DEFINE h == [i \in 0..k |-> IF i = k THEN g[k - 1] * Sizes[k] ELSE g[i]]
  <2>5. g[k - 1] \in Nat \ {0} /\ Sizes[k] \in Nat \ {0}
    BY <2>3, <2>4, SizeFacts
  <2>6. g[k - 1] * Sizes[k] \in Nat \ {0}
    BY <2>5
  <2>7. \A i \in 0..k : i # k => i \in 0..(k - 1) /\ h[i] = g[i]
    BY <2>3
  <2>8. h \in [0..k -> Nat \ {0}]
    BY <2>4, <2>6, <2>7
  <2>9. h[0] = 1
    BY <2>2, <2>3, <2>4, <2>7
  <2>10. ASSUME NEW i \in 1..k PROVE h[i] = h[i - 1] * Sizes[i]
    <3>1. i - 1 \in 0..k /\ i - 1 # k /\ i \in 0..k
      BY <2>3
    <3>2. CASE i = k
      BY <2>7, <3>1, <3>2
    <3>3. CASE i # k
      <4>1. i \in 1..(k - 1)
        BY <2>3, <3>3
      <4>2. g[i] = g[i - 1] * Sizes[i]
        BY <2>4, <4>1
      <4> QED
        BY <2>7, <3>1, <3>3, <4>2
    <3> QED
      BY <3>2, <3>3
  <2>11. Good(k, h)
    BY <2>8, <2>9, <2>10
  <2> QED
    BY <2>1, <2>11
<1>2. PICK g : Good(Top, g)
  <2>1. Top \in 0..Top
    BY SizeFacts
  <2> HIDE DEF Good
  <2> QED
    BY <1>1, <2>1
<1>3. g = [i \in 0..Len(Sizes) |-> IF i = 0 THEN 1 ELSE g[i - 1] * Sizes[i]]
  <2>1. \A i \in 0..Top : g[i] = IF i = 0 THEN 1 ELSE g[i - 1] * Sizes[i]
    BY <1>2, SizeFacts
  <2> QED
    BY <1>2, <2>1 DEF Top
<1>4. Span = [i \in 0..Len(Sizes) |-> IF i = 0 THEN 1 ELSE Span[i - 1] * Sizes[i]]
  BY <1>3, Zenon DEF Span
<1>5. Span[0] = 1 /\ \A i \in 1..Top : Span[i] = Span[i - 1] * Sizes[i]
  <2>1. \A i \in 0..Top : Span[i] = IF i = 0 THEN 1 ELSE Span[i - 1] * Sizes[i]
    BY <1>4, Zenon DEF Top
  <2>2. 0 \in 0..Top /\ \A i \in 1..Top : i \in 0..Top /\ i # 0
    BY SizeFacts
  <2> QED
    BY <2>1, <2>2, Zenon
<1>6. \A i \in 0..Top : Span[i] \in Nat \ {0}
  <2> DEFINE U == {i \in 0..Top : Span[i] \notin Nat \ {0}}
  <2> SUFFICES ASSUME U # {} PROVE FALSE
    OBVIOUS
  <2>1. PICK k \in U : \A m \in U : k <= m
    <3>1. U \subseteq Nat
      BY SizeFacts
    <3> HIDE DEF U
    <3> QED
      BY <3>1, LeastElement
  <2>2. k \in 0..Top /\ Span[k] \notin Nat \ {0}
    OBVIOUS
  <2>3. k # 0
    BY <1>5, <2>2
  <2>4. k \in 1..Top /\ k - 1 \in 0..Top /\ ~(k <= k - 1)
    BY <2>2, <2>3, SizeFacts
  <2>5. Span[k - 1] \in Nat \ {0}
    BY <2>1, <2>4
  <2>6. Span[k - 1] * Sizes[k] \in Nat \ {0}
    BY <2>4, <2>5, SizeFacts
  <2> QED
    BY <1>5, <2>2, <2>4, <2>6
<1> QED
  BY <1>5, <1>6

\* The span of a wheel is a multiple of the span of every finer one.
LEMMA SpanDivides ==
  \A i \in 0..Top : \A j \in 0..i : \E k \in Nat \ {0} : Span[i] = Span[j] * k
<1> DEFINE P(i) == \A j \in 0..i : \E k \in Nat \ {0} : Span[i] = Span[j] * k
           T == {i \in 0..Top : ~P(i)}
<1> SUFFICES ASSUME T # {} PROVE FALSE
  OBVIOUS
<1>1. PICK i \in T : \A m \in T : i <= m
  <2>1. T \subseteq Nat
    BY SizeFacts
  <2> HIDE DEF T
  <2> QED
    BY <2>1, LeastElement
<1>2. i \in 0..Top /\ ~P(i)
  OBVIOUS
<1>3. i # 0
  <2>1. P(0)
    <3>1. Span[0] = Span[0] * 1 /\ \A j \in 0..0 : j = 0
      BY SpanFacts
    <3> QED
      BY <3>1
  <2> QED
    BY <1>2, <2>1
<1>4. i \in 1..Top /\ i - 1 \in 0..Top /\ ~(i <= i - 1)
  BY <1>2, <1>3, SizeFacts
<1>5. P(i - 1)
  BY <1>1, <1>4
<1>6. ASSUME NEW j \in 0..i PROVE \E k \in Nat \ {0} : Span[i] = Span[j] * k
  <2>1. CASE j = i
    <3>1. Span[i] = Span[i] * 1
      BY <1>2, SpanFacts
    <3> QED
      BY <2>1, <3>1
  <2>2. CASE j # i
    <3>1. j \in 0..(i - 1) /\ j \in 0..Top
      BY <1>4, <2>2, SizeFacts
    <3>2. PICK k \in Nat \ {0} : Span[i - 1] = Span[j] * k
      BY <1>5, <3>1
    <3>3. Span[i] = Span[i - 1] * Sizes[i] /\ Sizes[i] \in Nat \ {0} /\ Span[j] \in Nat \ {0}
      BY <1>4, <3>1, SpanFacts, SizeFacts
    <3>4. k * Sizes[i] \in Nat \ {0} /\ (Span[j] * k) * Sizes[i] = Span[j] * (k * Sizes[i])
      BY <3>3
    <3> QED
      BY <3>2, <3>3, <3>4
  <2> QED
    BY <2>1, <2>2
<1> QED
  BY <1>2, <1>6

\* The wheels: wheel i has Sizes[i] slots of Span[i - 1] ticks each.
LEMMA WheelFacts ==
  ASSUME NEW i \in Wheels
  PROVE  /\ i \in 1..Top /\ i \in 0..Top /\ i - 1 \in 0..Top
         /\ Span[i] \in Nat \ {0} /\ Span[i - 1] \in Nat \ {0} /\ Sizes[i] \in Nat \ {0}
         /\ Span[i] = Span[i - 1] * Sizes[i]
<1>1. i \in 1..Top /\ i \in 0..Top /\ i - 1 \in 0..Top
  BY SizeFacts DEF Wheels, Top
<1> QED
  BY <1>1, SpanFacts, SizeFacts

\* add_node's choice of a wheel exists: it spans the distance unless it is the
\* coarsest, and no finer one does.
LEMMA AddNodeWheel ==
  ASSUME NEW e \in Nat, NEW now \in Nat
  PROVE  \E i \in Wheels :
            /\ AddNode(e, now) = <<i, IndexOn(i, e)>>
            /\ i = 1 => Distance(e, now) < Span[1]
            /\ i # 1 => Distance(e, now) >= Span[i - 1]
<1> DEFINE d == Distance(e, now)
           Fits(k) == d < Span[k] \/ k = Len(Sizes)
           Q(k) == Fits(k) /\ \A j \in 1..(k - 1) : d >= Span[j]
           T == {k \in Wheels : Fits(k)}
<1>1. d \in Int
  BY TimeWheelAssumption, DivMod DEF Distance
<1> HIDE DEF d
<1>2. PICK k \in T : \A m \in T : k <= m
  <2>1. T \subseteq Nat
    BY SizeFacts DEF Wheels, Top
  <2>2. Len(Sizes) \in T
    BY SizeFacts DEF Wheels, Top
  <2> HIDE DEF T
  <2> QED
    BY <2>1, <2>2, LeastElement
<1>3. k \in Wheels /\ Fits(k)
  OBVIOUS
<1>4. ASSUME NEW j \in 1..(k - 1) PROVE d >= Span[j]
  <2>1. j \in Wheels /\ ~(k <= j)
    BY <1>3, SizeFacts DEF Wheels, Top
  <2>2. ~(d < Span[j])
    BY <1>2, <2>1
  <2>3. Span[j] \in Nat
    BY <2>1, WheelFacts
  <2> QED
    BY <1>1, <2>2, <2>3
<1>5. \E i \in Wheels : Q(i)
  BY <1>3, <1>4
<1> DEFINE w == CHOOSE i \in Wheels : Q(i)
<1>6. w \in Wheels /\ Q(w)
  BY <1>5
<1>7. AddNode(e, now) = <<w, IndexOn(w, e)>>
  BY DEF AddNode, d
<1> HIDE DEF w
<1>8. w = 1 => d < Span[1]
  BY <1>6, SizeFacts DEF Top
<1>9. w # 1 => d >= Span[w - 1]
  <2>1. w # 1 => w - 1 \in 1..(w - 1)
    BY <1>6, SizeFacts DEF Wheels, Top
  <2> QED
    BY <1>6, <2>1
<1> QED
  BY <1>6, <1>7, <1>8, <1>9 DEF d

------------------------------------------------------------------------------
(* The list that a tick moves.                                             *)

\* The indexes of a time on the wheels are slots of them.
LEMMA IndexType ==
  ASSUME NEW i \in Wheels, NEW t \in Nat
  PROVE  IndexOn(i, t) \in Nat /\ IndexOn(i, t) < Sizes[i] /\ t \div Span[i - 1] \in Int
<1> DEFINE P == Span[i - 1]
           S == Sizes[i]
<1>1. P \in Nat \ {0} /\ S \in Nat \ {0} /\ t \in Int
  BY WheelFacts
<1> HIDE DEF P, S
<1>2. t \div P \in Int
  BY <1>1, DivMod
<1>3. (t \div P) % S \in 0..(S - 1)
  BY <1>1, <1>2, DivMod
<1> QED
  BY <1>1, <1>2, <1>3 DEF IndexOn, P, S

\* At a multiple of a wheel's span this wheel and the finer ones are at slot 0.
LEMMA FinerAtZero ==
  ASSUME NEW m \in 0..Top, NEW t \in Nat, t % Span[m] = 0, NEW j \in 1..m
  PROVE  IndexOn(j, t) = 0
<1>1. j \in Wheels /\ j \in 0..m
  BY SizeFacts DEF Wheels, Top
<1> DEFINE P == Span[j - 1]
           S == Sizes[j]
<1>2. P \in Nat \ {0} /\ S \in Nat \ {0} /\ Span[j] = P * S
  BY <1>1, WheelFacts
<1>3. PICK k \in Nat \ {0} : Span[m] = Span[j] * k
  BY <1>1, SpanDivides
<1>4. Span[m] \in Nat \ {0}
  BY SpanFacts
<1>5. PICK c \in Int : t = Span[m] * c
  <2> DEFINE M == Span[m]
  <2>3. M \in Nat \ {0} /\ t \in Int
    BY <1>4
  <2> HIDE DEF M
  <2>4. t = M * (t \div M) + (t % M) /\ t \div M \in Int
    BY <2>3, DivMod
  <2>1. t = Span[m] * (t \div Span[m]) + (t % Span[m]) /\ t \div Span[m] \in Int
    BY <2>4 DEF M
  <2>2. Span[m] * (t \div Span[m]) \in Int
    BY <1>4, <2>1
  <2> QED
    BY <2>1, <2>2
<1> HIDE DEF P, S
<1>6. t = P * (S * (k * c)) /\ S * (k * c) \in Int /\ k * c \in Int
  <2>1. t = ((P * S) * k) * c
    BY <1>2, <1>3, <1>5
  <2>2. ((P * S) * k) * c = (P * S) * (k * c)
    BY <1>2, <1>3
  <2>3. k * c \in Int
    BY <1>3
  <2>4. \A x \in Int : (P * S) * x = P * (S * x) /\ S * x \in Int
    BY <1>2
  <2> QED
    BY <2>1, <2>2, <2>3, <2>4
<1> DEFINE q == S * (k * c)
<1>7. t \div P = q
  <2>1. q \in Int /\ t = P * q
    BY <1>6
  <2> HIDE DEF q
  <2>2. P * q \in Int /\ t = P * q + 0 /\ 0 \in 0..(P - 1)
    BY <1>2, <2>1
  <2> QED
    BY <1>2, <2>1, <2>2, ModOfSum
<1>8. q % S = 0
  <2> DEFINE z == k * c
  <2>1. z \in Int /\ q = S * z
    BY <1>6
  <2> HIDE DEF z, q
  <2>2. q = S * z + 0 /\ 0 \in 0..(S - 1)
    BY <1>2, <2>1
  <2> QED
    BY <1>2, <2>1, <2>2, ModOfSum
<1> QED
  BY <1>7, <1>8 DEF IndexOn, P, S

\* At the start of slot 0 of a wheel the wheel starts over.
LEMMA ZeroStartsOver ==
  ASSUME NEW i \in Wheels, NEW t \in Nat, t % Span[i - 1] = 0, IndexOn(i, t) = 0
  PROVE  t % Span[i] = 0
<1> DEFINE P == Span[i - 1]
           S == Sizes[i]
           q == t \div P
           z == q \div S
<1>1. P \in Nat \ {0} /\ S \in Nat \ {0} /\ Span[i] = P * S /\ Span[i] \in Nat \ {0}
  BY WheelFacts
<1>2. q \in Int /\ t = P * q + 0
  <2>1. P \in Nat \ {0} /\ t \in Int /\ t % P = 0
    BY <1>1
  <2> HIDE DEF P
  <2>2. t \div P \in Int /\ t = P * (t \div P) + (t % P)
    BY <2>1, DivMod
  <2> QED
    BY <2>1, <2>2
<1>3. z \in Int /\ q = S * z + 0
  BY <1>1, <1>2, DivMod DEF IndexOn
<1> HIDE DEF P, S, q, z
<1>4. P * q \in Int /\ S * z \in Int
  BY <1>1, <1>2, <1>3
<1>5. t = P * (S * z)
  BY <1>2, <1>3, <1>4
<1>6. P * (S * z) = (P * S) * z
  BY <1>1, <1>3
<1> DEFINE M == P * S
<1>7. /\ M \in Nat \ {0} /\ M * z \in Int /\ t = M * z + 0 /\ 0 \in 0..(M - 1)
      /\ Span[i] = M
  BY <1>1, <1>3, <1>5, <1>6
<1> HIDE DEF M
<1> QED
  BY <1>3, <1>7, ModOfSum

\* timer_shift moves the list of a slot that starts, unless it is slot 0 of one
\* of the middle wheels.
LEMMA MovedStarts ==
  ASSUME NEW i \in Wheels \ {1}, NEW now \in Nat, now % Span[i - 1] = 0,
         IndexOn(i, now) # 0 \/ i = Top
  PROVE  Moved(now) = <<i, IndexOn(i, now)>>
<1>1. i \in 1..Top /\ i - 1 \in 0..Top /\ Top \in 0..Top /\ i \in 1..i
  BY WheelFacts, SizeFacts
<1>2. CASE IndexOn(i, now) # 0
  <2>1. now % Span[Len(Sizes)] # 0
    <3> SUFFICES ASSUME now % Span[Top] = 0 PROVE FALSE
      BY DEF Top
    <3> QED
      BY <1>1, <1>2, FinerAtZero
  <2>2. i \in Starts(now)
    BY <1>2 DEF Starts
  <2>3. ASSUME NEW j \in Starts(now) PROVE i <= j
    <3>1. j \in Wheels /\ IndexOn(j, now) # 0
      BY DEF Starts
    <3>2. j \notin 1..(i - 1)
      BY <1>1, <3>1, FinerAtZero
    <3> QED
      BY <1>1, <3>1, <3>2, WheelFacts
  <2>4. \A k \in Starts(now) : (\A j \in Starts(now) : k <= j) => k = i
    <3> SUFFICES ASSUME NEW k \in Starts(now), k <= i PROVE k = i
      BY <2>2
    <3>1. k \in Int /\ i \in Int /\ i <= k
      BY <1>1, <2>3, WheelFacts DEF Starts
    <3> QED
      BY <3>1
  <2>5. Finest(Starts(now)) = i
    BY <2>2, <2>3, <2>4 DEF Finest
  <2> QED
    BY <2>1, <2>2, <2>5 DEF Moved
<1>3. CASE IndexOn(i, now) = 0 /\ i = Top
  <2>1. now % Span[Len(Sizes)] = 0
    BY <1>3, ZeroStartsOver DEF Top
  <2> QED
    BY <1>3, <2>1 DEF Moved, Top
<1> QED
  BY <1>2, <1>3

\* It never moves a list of the finest wheel or slot 0 of a middle one.
LEMMA MovedNever ==
  ASSUME NEW now \in Nat, NEW s \in Wheels \X Nat, s = Moved(now)
  PROVE  s[1] # 1 /\ ~Orphan(s)
<1>1. CASE now % Span[Len(Sizes)] = 0
  <2>1. s = <<Top, 0>>
    BY <1>1 DEF Moved, Top
  <2> QED
    BY <2>1, SizeFacts DEF Orphan, Top
<1>2. CASE now % Span[Len(Sizes)] # 0 /\ Starts(now) = {}
  <2>1. s = <<0, 0>>
    BY <1>2 DEF Moved
  <2> QED
    BY <2>1 DEF Wheels
<1>3. CASE now % Span[Len(Sizes)] # 0 /\ Starts(now) # {}
  <2> DEFINE i == Finest(Starts(now))
  <2>1. i \in Starts(now)
    <3>1. Starts(now) \subseteq Nat
      BY SizeFacts DEF Starts, Wheels, Top
    <3>2. \E k \in Starts(now) : \A j \in Starts(now) : k <= j
      BY <1>3, <3>1, LeastElement
    <3> QED
      BY <3>2 DEF Finest
  <2>2. s = <<i, IndexOn(i, now)>>
    BY <1>3 DEF Moved
  <2> HIDE DEF i
  <2>3. i # 1 /\ IndexOn(i, now) # 0
    BY <2>1 DEF Starts
  <2> QED
    BY <2>2, <2>3 DEF Orphan
<1> QED
  BY <1>1, <1>2, <1>3

------------------------------------------------------------------------------
(* Distances on the clock.                                                 *)

Clock == 0..(TimeMod - 1)

\* The turn of the clock is a whole number of turns of the coarsest wheel, as
\* in timewheel.c, where both are 2^32.
WholeLaps == TimeMod % Span[Len(Sizes)] = 0

\* A distance is less than a turn of the clock.
LEMMA DistanceType ==
  ASSUME NEW e \in Int, NEW now \in Int
  PROVE  Distance(e, now) \in Clock /\ Distance(e, now) \in Nat
<1>1. e - now \in Int /\ TimeMod \in Nat \ {0}
  BY TimeWheelAssumption
<1>2. (e - now) % TimeMod \in 0..(TimeMod - 1)
  BY <1>1, DivMod
<1> QED
  BY <1>1, <1>2 DEF Distance, Clock

\* What add_timer stores is as far away as it was asked for.
LEMMA DistanceAdded ==
  ASSUME NEW t \in Clock, NEW d \in 1..(TimeMod - 1)
  PROVE  (t + d) % TimeMod \in Clock /\ Distance((t + d) % TimeMod, t) = d
<1> DEFINE M == TimeMod
           x == t + d
           q == x \div M
<1>1. M \in Nat \ {0} /\ t \in Int /\ d \in Int /\ x \in Int
  BY TimeWheelAssumption DEF Clock
<1>2. q \in Int /\ x % M \in 0..(M - 1) /\ x = M * q + (x % M)
  BY <1>1, DivMod
<1> DEFINE r == x % M
<1>3. r \in Int /\ x = M * q + r
  BY <1>1, <1>2
<1> HIDE DEF M, q, r
<1>4. M * q \in Int /\ M * (-q) = -(M * q) /\ -q \in Int
  BY <1>1, <1>2
<1>5. r - t = d + M * (-q)
  BY <1>1, <1>3, <1>4
<1>6. (d + M * (-q)) % M = d % M
  BY <1>1, <1>4, ModShift
<1>7. d % M = d
  BY <1>1, ModSmall DEF M
<1>8. (r - t) % M = d
  BY <1>5, <1>6, <1>7
<1> QED
  BY <1>2, <1>8 DEF Distance, Clock, M, r

\* A tick brings every point in time but the present one nearer.
LEMMA DistanceTick ==
  ASSUME NEW e \in Clock, NEW t \in Clock, Distance(e, t) # 0
  PROVE  Distance(e, (t + 1) % TimeMod) = Distance(e, t) - 1
<1> DEFINE M == TimeMod
           r == (e - t) % M
           a == (e - t) \div M
           q == (t + 1) \div M
           now == (t + 1) % M
<1>1. M \in Nat \ {0} /\ t \in Int /\ e \in Int /\ e - t \in Int /\ t + 1 \in Int
  BY TimeWheelAssumption DEF Clock
<1>2. a \in Int /\ r \in 0..(M - 1) /\ e - t = M * a + r
  BY <1>1, DivMod
<1>3. q \in Int /\ now \in 0..(M - 1) /\ t + 1 = M * q + now
  BY <1>1, DivMod
<1>4. r # 0
  BY DEF Distance
<1> HIDE DEF M, r, a, q, now
<1>5. /\ M * a \in Int /\ M * q \in Int /\ M * (a + q) = M * a + M * q /\ a + q \in Int
      /\ r \in Int /\ now \in Int
  BY <1>1, <1>2, <1>3
<1>6. r - 1 \in 0..(M - 1)
  BY <1>1, <1>2, <1>4
<1>7. e - now = M * (a + q) + (r - 1)
  BY <1>1, <1>2, <1>3, <1>5
<1>8. (M * (a + q) + (r - 1)) % M = r - 1
  BY <1>1, <1>5, <1>6, ModOfSum
<1> QED
  BY <1>7, <1>8 DEF Distance, M, r, now

\* Nothing but the present is at distance 0.
LEMMA DistanceZero ==
  ASSUME NEW e \in Clock, NEW t \in Clock, Distance(e, t) = 0
  PROVE  e = t
<1> DEFINE M == TimeMod
           a == (e - t) \div M
<1>1. M \in Nat \ {0} /\ t \in 0..(M - 1) /\ e \in 0..(M - 1) /\ e - t \in Int
  BY TimeWheelAssumption DEF Clock
<1>2. a \in Int /\ e - t = M * a + 0
  BY <1>1, DivMod DEF Distance
<1> HIDE DEF M, a
<1>3. M * a \in Int /\ -M < M * a /\ M * a < M
  BY <1>1, <1>2
<1>4. a = 0
  BY <1>1, <1>2, <1>3
<1> QED
  BY <1>1, <1>2, <1>4

\* The clock turns in whole turns of every wheel.
LEMMA LapsOfWheel ==
  ASSUME WholeLaps, NEW i \in 0..Top
  PROVE  \E z \in Int : TimeMod = Span[i] * z
<1> DEFINE M == Span[Top]
           l == TimeMod \div M
<1>1. M \in Nat \ {0} /\ TimeMod \in Int /\ TimeMod % M = 0 /\ i \in 0..Top /\ Top \in 0..Top
  BY TimeWheelAssumption, SpanFacts, SizeFacts DEF WholeLaps, Top
<1> HIDE DEF M
<1>2. l \in Int /\ TimeMod = M * l
  BY <1>1, DivMod
<1>3. PICK k \in Nat \ {0} : M = Span[i] * k
  BY <1>1, SpanDivides DEF M
<1>4. Span[i] \in Nat \ {0}
  BY SpanFacts
<1> HIDE DEF l
<1>5. (Span[i] * k) * l = Span[i] * (k * l) /\ k * l \in Int
  BY <1>2, <1>3, <1>4
<1> QED
  BY <1>2, <1>3, <1>5

\* When only the offset within its slot is left to a point in time, its slot on
\* the wheel starts now.
LEMMA SlotStarts ==
  ASSUME WholeLaps, NEW i \in Wheels, NEW e \in Clock, NEW now \in Clock,
         Distance(e, now) = e % Span[i - 1]
  PROVE  now % Span[i - 1] = 0 /\ IndexOn(i, now) = IndexOn(i, e)
<1> DEFINE P == Span[i - 1]
           S == Sizes[i]
           r == e % P
           b == e \div P
           a == (e - now) \div TimeMod
<1>1. /\ P \in Nat \ {0} /\ S \in Nat \ {0} /\ Span[i] = P * S
      /\ e \in Int /\ now \in Int /\ TimeMod \in Nat \ {0} /\ e - now \in Int
  BY WheelFacts, TimeWheelAssumption DEF Clock
<1>2. PICK z \in Int : TimeMod = (P * S) * z
  BY <1>1, LapsOfWheel, WheelFacts
<1> HIDE DEF P, S
<1>3. b \in Int /\ r \in 0..(P - 1) /\ e = P * b + r
  BY <1>1, DivMod
<1>4. a \in Int /\ e - now = TimeMod * a + r
  BY <1>1, DivMod DEF Distance, P
<1> HIDE DEF r, b, a
<1>5. TimeMod * a = P * (S * (z * a)) /\ z * a \in Int /\ S * (z * a) \in Int
  <2>1. ((P * S) * z) * a = (P * S) * (z * a) /\ z * a \in Int
    BY <1>1, <1>2, <1>4
  <2>2. \A x \in Int : (P * S) * x = P * (S * x) /\ S * x \in Int
    BY <1>1
  <2> QED
    BY <1>2, <2>1, <2>2
<1> DEFINE y == z * a
<1>6. y \in Int /\ TimeMod * a = P * (S * y) /\ S * y \in Int
  BY <1>5
<1> HIDE DEF y
<1> DEFINE c == S * y
<1>7. c \in Int /\ TimeMod * a = P * c
  BY <1>6
<1> HIDE DEF c
<1>8. P * (b - c) = P * b - P * c /\ P * b \in Int /\ P * c \in Int /\ b - c \in Int
  BY <1>1, <1>3, <1>7
<1>9. now = P * (b - c) + 0 /\ 0 \in 0..(P - 1)
  BY <1>1, <1>3, <1>4, <1>7, <1>8
<1>10. now % P = 0 /\ now \div P = b - c
  BY <1>1, <1>8, <1>9, ModOfSum
<1>11. S * (-y) = -(S * y) /\ -y \in Int
  BY <1>1, <1>6
<1>12. b - c = b + S * (-y)
  BY <1>3, <1>6, <1>11 DEF c
<1>13. (b + S * (-y)) % S = b % S
  BY <1>1, <1>3, <1>11, ModShift
<1>14. e \div P = b
  BY DEF b
<1> QED
  BY <1>10, <1>12, <1>13, <1>14 DEF IndexOn, P, S

\* Two points in time that share a slot of the finest wheel and are less than
\* its span apart are the same.
LEMMA FinestSlot ==
  ASSUME WholeLaps, NEW e \in Clock, NEW t \in Clock,
         IndexOn(1, e) = IndexOn(1, t), Distance(e, t) < Span[1]
  PROVE  Distance(e, t) = 0
<1> DEFINE S == Sizes[1]
           r == (e - t) % TimeMod
           a == (e - t) \div TimeMod
<1>1. 1 \in Wheels
  BY SizeFacts DEF Wheels, Top
<1>2. S \in Nat \ {0} /\ Span[1] = S /\ Span[0] = 1
  BY <1>1, WheelFacts, SpanFacts
<1>3. e \in Int /\ t \in Int /\ e - t \in Int /\ TimeMod \in Nat \ {0}
  BY TimeWheelAssumption DEF Clock
<1>4. PICK z \in Int : TimeMod = S * z
  BY <1>1, <1>2, LapsOfWheel, WheelFacts
<1>5. e % S = t % S
  <2>1. e \div 1 = e /\ t \div 1 = t
    BY <1>3
  <2>2. 1 - 1 = 0
    OBVIOUS
  <2> QED
    BY <1>2, <2>1, <2>2 DEF IndexOn
<1> HIDE DEF S
<1>6. a \in Int /\ r \in Int /\ 0 <= r /\ e - t = TimeMod * a + r
  BY <1>3, DivMod
<1>7. r < S
  BY <1>2 DEF Distance
<1> HIDE DEF r, a
<1>8. TimeMod * a = S * (z * a) /\ z * a \in Int
  BY <1>2, <1>4, <1>6
<1> DEFINE y == z * a
<1>9. y \in Int /\ TimeMod * a = S * y
  BY <1>8
<1> HIDE DEF y
<1>10. S * y \in Int
  BY <1>2, <1>9
<1>11. e = (t + r) + S * y /\ t + r \in Int
  BY <1>3, <1>6, <1>9, <1>10
<1>12. ((t + r) + S * y) % S = (t + r) % S
  BY <1>2, <1>9, <1>11, ModShift
<1>13. (t + r) % S = t % S
  BY <1>5, <1>11, <1>12
<1>14. t <= t + r /\ (t + r) - t < S
  BY <1>3, <1>6, <1>7, <1>2
<1>15. t + r = t
  BY <1>2, <1>3, <1>11, <1>13, <1>14, ModInjective
<1>16. r = 0
  BY <1>3, <1>6, <1>15
<1> QED
  BY <1>16 DEF Distance, r

------------------------------------------------------------------------------
(* Types.                                                                  *)

Places == {"none", "wheel", "detached", "ran", "skipped", "cleared"}

\* Every node is in a list of some wheel and the clock keeps its width.
WheelType ==
    /\ time \in Clock
    /\ state \in [Timers -> Places]
    /\ slot \in [Timers -> Wheels \X Nat]
    /\ expire \in [Timers -> Clock]
    /\ cancel \in [Timers -> BOOLEAN] /\ deleted \in [Timers -> BOOLEAN]
    /\ left \in [Timers -> Int]
    /\ pc \in {"out", "execute", "dispatch", "shift", "stopped"}

\* Where add_node puts a node: its slot start lies ahead, or it is on the
\* finest wheel within its span.
LEMMA Placed ==
  ASSUME NEW e \in Clock, NEW now \in Clock, NEW s, s = AddNode(e, now)
  PROVE  /\ s \in Wheels \X Nat
         /\ s[2] = IndexOn(s[1], e)
         /\ s[1] = 1 => Distance(e, now) < Span[1]
         /\ s[1] # 1 => Distance(e, now) > e % Span[s[1] - 1]
<1>1. e \in Nat /\ now \in Nat
  BY TimeWheelAssumption DEF Clock
<1>2. PICK i \in Wheels : /\ s = <<i, IndexOn(i, e)>>
                          /\ i = 1 => Distance(e, now) < Span[1]
                          /\ i # 1 => Distance(e, now) >= Span[i - 1]
  BY <1>1, AddNodeWheel
<1>3. IndexOn(i, e) \in Nat
  BY <1>1, IndexType
<1> DEFINE P == Span[i - 1]
           d == Distance(e, now)
<1>4. P \in Nat \ {0} /\ d \in Nat /\ e \in Int
  BY <1>1, WheelFacts, DistanceType
<1>5. i # 1 => d >= P
  BY <1>2
<1> HIDE DEF P, d
<1>6. e % P \in 0..(P - 1)
  BY <1>4, DivMod
<1>7. i # 1 => d > e % P
  BY <1>4, <1>5, <1>6
<1> QED
  BY <1>2, <1>3, <1>7 DEF P, d

\* A wheel just created is empty.
LEMMA TypeInit == Init => WheelType
<1>1. 0 \in Clock /\ <<1, 0>> \in Wheels \X Nat
  BY TimeWheelAssumption, SizeFacts DEF Clock, Wheels, Top
<1> QED
  BY <1>1 DEF Init, WheelType, Places

\* The clock after a tick.
LEMMA TickType ==
  ASSUME NEW t \in Clock
  PROVE  (t + 1) % TimeMod \in Clock
<1>1. t + 1 \in Int /\ TimeMod \in Nat \ {0}
  BY TimeWheelAssumption DEF Clock
<1> QED
  BY <1>1, DivMod DEF Clock

\* Every step keeps the types.
LEMMA TypeNext ==
  ASSUME WheelType, [Next]_vars
  PROVE  WheelType'
<1>1. ASSUME NEW n \in Timers, NEW d \in Delays, AddTimer(n, d) PROVE WheelType'
  <2>1. CASE d <= 0
    <3>1. d \in Int
      BY TimeWheelAssumption
    <3> QED
      BY <1>1, <2>1, <3>1 DEF AddTimer, WheelType, Places
  <2>2. CASE d > 0
    <3>1. d \in 1..(TimeMod - 1) /\ d \in Int
      BY <2>2, TimeWheelAssumption
    <3>2. (time + d) % TimeMod \in Clock
      BY <3>1, DistanceAdded DEF WheelType
    <3>3. AddNode((time + d) % TimeMod, time) \in Wheels \X Nat
      BY <3>2, Placed DEF WheelType
    <3>4. FreshCancel \subseteq BOOLEAN
      BY TimeWheelAssumption
    <3>5. /\ state' = [state EXCEPT ![n] = "wheel"]
          /\ expire' = [expire EXCEPT ![n] = (time + d) % TimeMod]
          /\ slot' = [slot EXCEPT ![n] = AddNode((time + d) % TimeMod, time)]
          /\ \E c \in FreshCancel : cancel' = [cancel EXCEPT ![n] = c]
          /\ left' = [left EXCEPT ![n] = d]
          /\ UNCHANGED <<time, deleted, pc, shifted>>
      BY <1>1, <2>2, <3>1 DEF AddTimer
    <3> HIDE DEF Clock
    <3>6. expire' \in [Timers -> Clock] /\ slot' \in [Timers -> Wheels \X Nat]
      BY <3>2, <3>3, <3>5 DEF WheelType
    <3> QED
      BY <3>1, <3>4, <3>5, <3>6 DEF WheelType, Places
  <2> QED
    BY <2>1, <2>2, TimeWheelAssumption
<1>2. ASSUME NEW n \in Timers, DelTimer(n) PROVE WheelType'
  BY <1>2 DEF DelTimer, WheelType
<1>3. CASE UpdateBegin
  BY <1>3 DEF UpdateBegin, nodeVars, WheelType
<1>4. CASE Execute
  BY <1>4 DEF Execute, WheelType, Places
<1>5. CASE TimerShift
  <2> DEFINE now == (time + 1) % TimeMod
  <2>1. now \in Clock
    BY TickType DEF WheelType
  <2>2. \A n \in Timers : AddNode(expire[n], now) \in Wheels \X Nat
    BY <2>1, Placed DEF WheelType
  <2> HIDE DEF now
  <2>3. slot' \in [Timers -> Wheels \X Nat] /\ time' \in Clock
    BY <1>5, <2>1, <2>2 DEF TimerShift, WheelType, now
  <2>4. left' \in [Timers -> Int]
    BY <1>5 DEF TimerShift, WheelType
  <2> QED
    BY <1>5, <2>3, <2>4 DEF TimerShift, WheelType
<1>6. CASE DispatchEnd
  BY <1>6 DEF DispatchEnd, nodeVars, WheelType
<1>7. ASSUME NEW n \in Timers, Dispatch(n) PROVE WheelType'
  <2>1. 0 \in Clock /\ <<1, 0>> \in Wheels \X Nat
    BY TimeWheelAssumption, SizeFacts DEF Clock, Wheels, Top
  <2> QED
    BY <1>7, <2>1 DEF Dispatch, Free, WheelType, Places
<1>8. CASE ClearTimer
  BY <1>8 DEF ClearTimer, WheelType, Places
<1>9. CASE UNCHANGED vars
  BY <1>9 DEF vars, nodeVars, WheelType
<1> QED
  BY <1>1, <1>2, <1>3, <1>4, <1>5, <1>6, <1>7, <1>8, <1>9 DEF Next, Update, Stopped

------------------------------------------------------------------------------
(* Timers on their way to their tick.                                      *)

\* A timer that is not lost is in the list its expiry says, within the span of
\* the finest wheel or ahead of the start of its slot on a coarser one.
OnTime(n) ==
    /\ left[n] = Distance(expire[n], time)
    /\ slot[n][2] = IndexOn(slot[n][1], expire[n])
    /\ slot[n][1] = 1 => left[n] < Span[1]
    /\ slot[n][1] # 1 => left[n] > expire[n] % Span[slot[n][1] - 1]

\* Every timer in the wheel is on time or in a slot 0 that no shift moves; what
\* has been detached is due now; and when the clock is about to tick nothing in
\* the finest wheel is.
WheelInv ==
    \A n \in Timers :
        /\ state[n] = "wheel" => Orphan(slot[n]) \/ OnTime(n)
        /\ state[n] = "detached" => left[n] = 0
        /\ pc = "shift" /\ state[n] = "wheel" /\ slot[n][1] = 1 => left[n] # 0

\* A step that leaves the clock and a node in the wheel alone.
LEMMA OnTimeKept ==
  ASSUME NEW n \in Timers, UNCHANGED time,
         slot'[n] = slot[n], expire'[n] = expire[n], left'[n] = left[n]
  PROVE  OnTime(n)' = OnTime(n) /\ Orphan(slot'[n]) = Orphan(slot[n])
  BY DEF OnTime, Distance, IndexOn

\* A timer just added is on time.
LEMMA InvAdd ==
  ASSUME WheelType, WheelInv, NEW n \in Timers, NEW d \in Delays, AddTimer(n, d)
  PROVE  WheelInv'
<1>1. d \in Int /\ pc # "shift" /\ pc' = pc /\ time' = time
  BY TimeWheelAssumption DEF AddTimer, LockFree
<1>2. CASE d <= 0
  <2>1. /\ UNCHANGED <<slot, expire, left>>
        /\ \A m \in Timers : state'[m] = state[m] \/ state'[m] = "ran"
    BY <1>1, <1>2 DEF AddTimer, WheelType
  <2>2. \A m \in Timers : OnTime(m)' = OnTime(m) /\ Orphan(slot'[m]) = Orphan(slot[m])
    BY <1>1, <2>1, OnTimeKept
  <2> QED
    BY <1>1, <2>1, <2>2 DEF WheelInv
<1>3. CASE d > 0
  <2> DEFINE e == (time + d) % TimeMod
  <2>1. /\ state' = [state EXCEPT ![n] = "wheel"] /\ expire' = [expire EXCEPT ![n] = e]
        /\ slot' = [slot EXCEPT ![n] = AddNode(e, time)] /\ left' = [left EXCEPT ![n] = d]
    BY <1>1, <1>3 DEF AddTimer
  <2>2. d \in 1..(TimeMod - 1)
    BY <1>1, <1>3, TimeWheelAssumption
  <2>3. e \in Clock /\ Distance(e, time) = d
    BY <2>2, DistanceAdded DEF WheelType
  <2> HIDE DEF e
  <2>4. state'[n] = "wheel" /\ expire'[n] = e /\ slot'[n] = AddNode(e, time) /\ left'[n] = d
    BY <2>1 DEF WheelType
  <2>5. OnTime(n)'
    <3> DEFINE s == AddNode(e, time)
    <3>1. /\ s[2] = IndexOn(s[1], e)
          /\ s[1] = 1 => d < Span[1]
          /\ s[1] # 1 => d > e % Span[s[1] - 1]
      BY <2>3, Placed DEF WheelType
    <3> HIDE DEF s
    <3>2. slot'[n] = s
      BY <2>4 DEF s
    <3> QED
      BY <1>1, <2>3, <2>4, <3>1, <3>2 DEF OnTime, IndexOn, Distance
  <2>6. ASSUME NEW m \in Timers, m # n
        PROVE  /\ OnTime(m)' = OnTime(m) /\ Orphan(slot'[m]) = Orphan(slot[m])
               /\ state'[m] = state[m] /\ left'[m] = left[m]
    <3>1. /\ state'[m] = state[m] /\ expire'[m] = expire[m]
          /\ slot'[m] = slot[m] /\ left'[m] = left[m]
      BY <2>1, <2>6 DEF WheelType
    <3> QED
      BY <1>1, <3>1, OnTimeKept
  <2> QED
    BY <1>1, <2>4, <2>5, <2>6 DEF WheelInv
<1> QED
  BY <1>1, <1>2, <1>3

\* What timer_execute detaches is due, and when it finds nothing, nothing is.
LEMMA InvExecute ==
  ASSUME WholeLaps, WheelType, WheelInv, Execute
  PROVE  WheelInv'
<1>1. UNCHANGED <<time, slot, expire, left>>
  BY DEF Execute
<1>2. \A m \in Timers : OnTime(m)' = OnTime(m) /\ Orphan(slot'[m]) = Orphan(slot[m])
  BY <1>1, OnTimeKept
<1>3. ASSUME NEW n \in Timers, state[n] = "wheel", slot[n][1] = 1
      PROVE  n \in Due <=> left[n] = 0
  <2>1. OnTime(n)
    BY <1>3 DEF WheelInv, Orphan
  <2>2. /\ slot[n] = <<1, IndexOn(1, expire[n])>> /\ left[n] = Distance(expire[n], time)
        /\ left[n] < Span[1] /\ expire[n] \in Clock /\ time \in Clock
    BY <1>3, <2>1 DEF OnTime, WheelType
  <2>3. ASSUME n \in Due PROVE left[n] = 0
    <3>1. IndexOn(1, expire[n]) = IndexOn(1, time)
      BY <2>2, <2>3 DEF Due
    <3> QED
      BY <2>2, <3>1, FinestSlot
  <2>4. ASSUME left[n] = 0 PROVE n \in Due
    <3>1. expire[n] = time
      BY <2>2, <2>4, DistanceZero
    <3> QED
      BY <1>3, <2>2, <3>1 DEF Due
  <2> QED
    BY <2>3, <2>4
<1>4. CASE Due # {}
  <2>1. /\ pc' = "dispatch"
        /\ \A n \in Timers : state'[n] = IF n \in Due THEN "detached" ELSE state[n]
    BY <1>4 DEF Execute
  <2>2. \A n \in Due : left[n] = 0
    BY <1>3 DEF Due
  <2> QED
    BY <1>1, <1>2, <2>1, <2>2 DEF WheelInv
<1>5. CASE Due = {}
  <2>1. state' = state
    BY <1>5 DEF Execute
  <2> QED
    BY <1>1, <1>2, <1>3, <1>5, <2>1 DEF WheelInv
<1> QED
  BY <1>4, <1>5

\* A tick moves every timer whose slot starts, except those in a slot 0 of a
\* middle wheel, and brings all others nearer.
LEMMA InvShift ==
  ASSUME WholeLaps, WheelType, WheelInv, TimerShift
  PROVE  WheelInv'
<1> DEFINE now == (time + 1) % TimeMod
<1>1. /\ pc = "shift" /\ pc' = "execute" /\ time' = now /\ state' = state /\ expire' = expire
      /\ \A n \in Timers : slot'[n] = IF state[n] = "wheel" /\ slot[n] = Moved(now)
                                      THEN AddNode(expire[n], now) ELSE slot[n]
      /\ \A n \in Timers : left'[n] = IF state[n] = "wheel" /\ left[n] >= 0
                                      THEN left[n] - 1 ELSE left[n]
  BY DEF TimerShift
<1>2. now \in Clock /\ now \in Nat
  <2>1. now \in Clock
    BY TickType DEF WheelType
  <2> QED
    BY <2>1, TimeWheelAssumption DEF Clock
<1> HIDE DEF now
<1>3. ASSUME NEW n \in Timers, state[n] = "wheel" PROVE Orphan(slot'[n]) \/ OnTime(n)'
  <2>1. slot[n] \in Wheels \X Nat /\ expire[n] \in Clock /\ time \in Clock /\ left[n] \in Int
    BY DEF WheelType
  <2>2. CASE Orphan(slot[n])
    <3>1. slot[n] # Moved(now)
      BY <1>2, <2>1, <2>2, MovedNever
    <3> QED
      BY <1>1, <2>2, <3>1
  <2>3. CASE ~Orphan(slot[n])
    <3> DEFINE e == expire[n]
               i == slot[n][1]
               l == Distance(e, now)
    <3>1. OnTime(n)
      BY <1>3, <2>3 DEF WheelInv
    <3>2. /\ left[n] = Distance(e, time) /\ slot[n] = <<i, IndexOn(i, e)>> /\ i \in Wheels
          /\ i = 1 => left[n] < Span[1]
          /\ i # 1 => left[n] > e % Span[i - 1]
      BY <2>1, <3>1 DEF OnTime
    <3>3. Span[i - 1] \in Nat \ {0} /\ e \in Nat /\ left[n] \in Nat
      <4>1. e \in Nat /\ time \in Nat
        BY <2>1, TimeWheelAssumption DEF Clock
      <4> HIDE DEF e, i, l
      <4>2. e \in Int /\ time \in Int
        BY <4>1
      <4>3. Distance(e, time) \in Nat
        BY <4>2, DistanceType
      <4> QED
        BY <3>2, <4>1, <4>3, WheelFacts
    <3>4. e % Span[i - 1] \in Nat
      BY <3>3
    <3>5. left[n] # 0
      <4>1. CASE i = 1
        BY <1>1, <1>3, <4>1 DEF WheelInv
      <4>2. CASE i # 1
        BY <3>2, <3>3, <3>4, <4>2
      <4> QED
        BY <4>1, <4>2
    <3>6. l = left[n] - 1
      BY <2>1, <3>2, <3>5, DistanceTick DEF now
    <3>7. left'[n] = l
      BY <1>1, <1>3, <3>3, <3>6
    <3>8. expire'[n] = e /\ time' = now /\ e \in Clock
      BY <1>1, <2>1
    <3> HIDE DEF l, e, i
    <3>9. CASE slot[n] = Moved(now)
      <4> DEFINE s == AddNode(e, now)
      <4>1. slot'[n] = s
        BY <1>1, <1>3, <3>9 DEF e
      <4>2. /\ s[2] = IndexOn(s[1], e)
            /\ s[1] = 1 => l < Span[1]
            /\ s[1] # 1 => l > e % Span[s[1] - 1]
        BY <1>2, <3>8, Placed DEF l
      <4> HIDE DEF s
      <4> QED
        BY <3>7, <3>8, <4>1, <4>2 DEF OnTime, l, Distance, IndexOn
    <3>10. CASE slot[n] # Moved(now)
      <4>1. slot'[n] = <<i, IndexOn(i, e)>>
        BY <1>1, <3>2, <3>10
      <4>2. i = 1 => l < Span[1]
        <5>1. 1 \in Wheels
          BY SizeFacts DEF Wheels, Top
        <5>2. Span[1] \in Nat
          BY <5>1, WheelFacts
        <5> QED
          BY <3>2, <3>3, <3>6, <5>2
      <4>3. ASSUME i # 1 PROVE l > e % Span[i - 1]
        <5>1. l # e % Span[i - 1]
          <6> SUFFICES ASSUME l = e % Span[i - 1] PROVE FALSE
            OBVIOUS
          <6>1. now % Span[i - 1] = 0 /\ IndexOn(i, now) = IndexOn(i, e)
            BY <1>2, <3>2, <3>8, SlotStarts DEF l
          <6>2. IndexOn(i, now) # 0 \/ i = Top
            BY <2>3, <3>2, <4>3, <6>1 DEF Orphan, Top
          <6>3. Moved(now) = <<i, IndexOn(i, now)>>
            BY <1>2, <3>2, <4>3, <6>1, <6>2, MovedStarts
          <6> QED
            BY <3>2, <3>10, <6>1, <6>3
        <5> QED
          BY <3>2, <3>3, <3>4, <3>6, <4>3, <5>1
      <4> QED
        BY <3>7, <3>8, <4>1, <4>2, <4>3 DEF OnTime, l, Distance, IndexOn
    <3> QED
      BY <3>9, <3>10
  <2> QED
    BY <2>2, <2>3
<1> QED
  BY <1>1, <1>3 DEF WheelInv

\* Every step keeps the timers on time.
LEMMA InvNext ==
  ASSUME WholeLaps, WheelType, WheelInv, [Next]_vars
  PROVE  WheelInv'
<1>1. ASSUME NEW n \in Timers, NEW d \in Delays, AddTimer(n, d) PROVE WheelInv'
  BY <1>1, InvAdd
<1>2. ASSUME UNCHANGED <<time, slot, expire, left, state>>, pc' # "shift" \/ pc' = pc
      PROVE  WheelInv'
  <2>1. \A m \in Timers : OnTime(m)' = OnTime(m) /\ Orphan(slot'[m]) = Orphan(slot[m])
    BY <1>2, OnTimeKept
  <2> QED
    BY <1>2, <2>1 DEF WheelInv
<1>3. ASSUME NEW n \in Timers, DelTimer(n) PROVE WheelInv'
  BY <1>2, <1>3 DEF DelTimer
<1>4. CASE UpdateBegin
  BY <1>2, <1>4 DEF UpdateBegin, nodeVars
<1>5. CASE Execute
  BY <1>5, InvExecute
<1>6. CASE TimerShift
  BY <1>6, InvShift
<1>7. CASE DispatchEnd
  BY <1>2, <1>7 DEF DispatchEnd, nodeVars
<1>8. ASSUME NEW n \in Timers, Dispatch(n) PROVE WheelInv'
  <2>1. /\ pc = "dispatch" /\ pc' = pc /\ time' = time /\ state'[n] \in {"ran", "skipped"}
        /\ \A m \in Timers \ {n} : /\ state'[m] = state[m] /\ slot'[m] = slot[m]
                                   /\ expire'[m] = expire[m] /\ left'[m] = left[m]
    BY <1>8 DEF Dispatch, Free, WheelType
  <2>2. \A m \in Timers \ {n} : OnTime(m)' = OnTime(m) /\ Orphan(slot'[m]) = Orphan(slot[m])
    BY <2>1, OnTimeKept
  <2> QED
    BY <2>1, <2>2 DEF WheelInv
<1>9. CASE ClearTimer
  <2>1. /\ pc' = "stopped" /\ UNCHANGED <<time, slot, expire, left>>
        /\ \A m \in Timers : state'[m] = state[m] \/ state'[m] = "cleared"
    BY <1>9 DEF ClearTimer
  <2>2. \A m \in Timers : OnTime(m)' = OnTime(m) /\ Orphan(slot'[m]) = Orphan(slot[m])
    BY <2>1, OnTimeKept
  <2> QED
    BY <2>1, <2>2 DEF WheelInv
<1>10. CASE UNCHANGED vars
  BY <1>2, <1>10 DEF vars, nodeVars
<1> QED
  BY <1>1, <1>3, <1>4, <1>5, <1>6, <1>7, <1>8, <1>9, <1>10 DEF Next, Update, Stopped

------------------------------------------------------------------------------
(* The theorems.                                                           *)

\* The clock and the nodes have their types, whatever the sizes.
THEOREM TypeCorrect == Spec => []WheelType
  BY TypeInit, TypeNext, PTL DEF Spec

\* When the clock's turn is a whole number of the coarsest wheel's turns, every
\* timer that is in a list other than a middle wheel's slot 0 is on time.
LEMMA Invariance == WholeLaps => (Spec => [](WheelType /\ WheelInv))
<1> SUFFICES ASSUME WholeLaps PROVE Spec => [](WheelType /\ WheelInv)
  OBVIOUS
<1>1. Init => WheelType /\ WheelInv
  BY TypeInit DEF Init, WheelInv
<1>2. WheelType /\ WheelInv /\ [Next]_vars => WheelType' /\ WheelInv'
  BY TypeNext, InvNext
<1> QED
  BY <1>1, <1>2, PTL DEF Spec

\* A timer is dispatched exactly the asked number of ticks after it was added:
\* never early and never late, on whatever wheel it started, for any number and
\* sizes of wheels, also across the wrap of the clock.
THEOREM DispatchedOnItsTick == WholeLaps => (Spec => []FiresOnItsTick)
<1> SUFFICES ASSUME WholeLaps PROVE Spec => []FiresOnItsTick
  OBVIOUS
<1>1. WheelInv => FiresOnItsTick
  BY DEF WheelInv, FiresOnItsTick
<1> QED
  BY <1>1, Invariance, PTL

\* The only timers that are ever late are those in slot 0 of a middle wheel:
\* timer_shift loses nothing else.
THEOREM OnlySlotZeroIsLost == WholeLaps => (Spec => []OverdueOnlyInSlotZero)
<1> SUFFICES ASSUME WholeLaps PROVE Spec => []OverdueOnlyInSlotZero
  OBVIOUS
<1>1. ASSUME WheelType, WheelInv PROVE OverdueOnlyInSlotZero
  <2> SUFFICES ASSUME NEW n \in Timers, state[n] = "wheel", left[n] < 0, ~Orphan(slot[n])
               PROVE  FALSE
    BY DEF OverdueOnlyInSlotZero
  <2>1. left[n] = Distance(expire[n], time)
    BY <1>1 DEF WheelInv, OnTime
  <2>2. left[n] \in Nat
    BY <1>1, <2>1, DistanceType, TimeWheelAssumption DEF WheelType, Clock
  <2> QED
    BY <2>2
<1> QED
  BY <1>1, Invariance, PTL

------------------------------------------------------------------------------
(* Cancelled timers.                                                       *)

\* With a node whose flag starts clear (clock-timer.c clears it; timewheel.c
\* leaves it to malloc), a set flag has been set by del_timer.
CancelInv ==
    \A n \in Timers : /\ cancel[n] => deleted[n]
                      /\ state[n] = "skipped" => deleted[n]

\* A callback is skipped only for a timer that was deleted.
THEOREM OnlyDeletedAreSkipped == FreshCancel = {FALSE} => (Spec => []SkippedOnlyIfDeleted)
<1> SUFFICES ASSUME FreshCancel = {FALSE} PROVE Spec => []SkippedOnlyIfDeleted
  OBVIOUS
<1>1. Init => CancelInv
  BY DEF Init, CancelInv
<1>2. ASSUME WheelType, CancelInv, [Next]_vars PROVE CancelInv'
  <2>1. ASSUME NEW n \in Timers, NEW d \in Delays, AddTimer(n, d) PROVE CancelInv'
    <3>1. deleted' = deleted /\ \A m \in Timers : cancel'[m] => cancel[m]
      BY <1>2, <2>1 DEF AddTimer, WheelType
    <3>2. \A m \in Timers : state'[m] = "skipped" => state[m] = "skipped"
      BY <1>2, <2>1 DEF AddTimer, WheelType
    <3> QED
      BY <1>2, <3>1, <3>2 DEF CancelInv
  <2>2. ASSUME NEW n \in Timers, DelTimer(n) PROVE CancelInv'
    BY <1>2, <2>2 DEF DelTimer, WheelType, CancelInv
  <2>3. CASE UpdateBegin \/ DispatchEnd \/ UNCHANGED vars
    BY <1>2, <2>3 DEF UpdateBegin, DispatchEnd, vars, nodeVars, CancelInv
  <2>4. CASE Execute \/ TimerShift \/ ClearTimer
    BY <1>2, <2>4 DEF Execute, TimerShift, ClearTimer, CancelInv
  <2>5. ASSUME NEW n \in Timers, Dispatch(n) PROVE CancelInv'
    BY <1>2, <2>5 DEF Dispatch, Free, WheelType, CancelInv
  <2> QED
    BY <1>2, <2>1, <2>2, <2>3, <2>4, <2>5 DEF Next, Update, Stopped
<1>3. CancelInv => SkippedOnlyIfDeleted
  BY DEF CancelInv, SkippedOnlyIfDeleted
<1> QED
  BY <1>1, <1>2, <1>3, TypeCorrect, PTL DEF Spec
==============================================================================
