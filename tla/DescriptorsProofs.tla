-------------------------- MODULE DescriptorsProofs --------------------------
(***************************************************************************)
(* What the chains of Descriptors are like for every request size, page    *)
(* size, length and place of the buffer.                                   *)
(***************************************************************************)
EXTENDS Descriptors, Induction

\* A remainder is below the divisor.
LEMMA RemainderBounds ==
  ASSUME NEW x \in Int, NEW m \in Nat \ {0}
  PROVE  x % m \in 0..(m - 1)
OBVIOUS

\* A quotient and a remainder are unique.
LEMMA RemainderUnique ==
  ASSUME NEW m \in Nat \ {0}, NEW q \in Int, NEW v \in 0..(m - 1), NEW x \in Int,
         x = m * q + v
  PROVE  x % m = v /\ x \div m = q
OBVIOUS

LEMMA RemainderDefined ==
  ASSUME NEW x \in Int, NEW m \in Nat \ {0}
  PROVE  x = m * (x \div m) + (x % m) /\ x \div m \in Int
OBVIOUS

\* The remainder goes down by one with its number, and from zero to the top.
LEMMA RemainderBefore ==
  ASSUME NEW x \in Int, NEW m \in Nat \ {0}
  PROVE  (x - 1) % m = IF x % m # 0 THEN (x % m) - 1 ELSE m - 1
<1> DEFINE q == x \div m
           v == x % m
<1>1. x = m * q + v /\ q \in Int /\ v \in 0..(m - 1)
  BY RemainderDefined, RemainderBounds
<1>2. CASE v # 0
  <2> DEFINE w == v - 1
  <2>1. x - 1 = m * q + w /\ w \in 0..(m - 1)
    BY <1>1, <1>2
  <2>2. (x - 1) % m = w
    <3>1. q \in Int /\ x - 1 \in Int
      BY <1>1
    <3> HIDE DEF q, w, v
    <3>2. QED
      BY <2>1, <3>1, RemainderUnique
  <2>3. QED
    BY <2>2, <1>2
<1>3. CASE v = 0
  <2> DEFINE p == q - 1
             w == m - 1
  <2>1. x - 1 = m * p + w /\ w \in 0..(m - 1) /\ p \in Int
    BY <1>1, <1>3
  <2>2. (x - 1) % m = w
    <3> HIDE DEF p, w
    <3>1. QED
      BY <2>1, RemainderUnique
  <2>3. QED
    BY <2>2, <1>3
<1>4. QED
  BY <1>2, <1>3

\* What one of three numbers is the least of them.
LEMMA LeastOfThree ==
  ASSUME NEW a \in Int, NEW b \in Int, NEW c \in Int
  PROVE  /\ Min({a, b, c}) \in {a, b, c}
         /\ Min({a, b, c}) <= a /\ Min({a, b, c}) <= b /\ Min({a, b, c}) <= c
<1>1. \E x \in {a, b, c} : \A y \in {a, b, c} : x <= y
  OBVIOUS
<1>2. QED
  BY <1>1 DEF Min

\* One round of OptimizeDescriptors' loop.
NextAdjMaxRound(g, i) ==
  IF i = 0 THEN AdjMax - 1
  ELSE IF g[i - 1] # 0 THEN g[i - 1] - 1 ELSE AdjMax

\* The loop's running maximum in closed form.
Countdown == [i \in Nat |-> (AdjMax - 1 - i) % (AdjMax + 1)]

LEMMA CountdownRounds == \A i \in Nat : Countdown[i] = NextAdjMaxRound(Countdown, i)
<1> SUFFICES ASSUME NEW i \in Nat PROVE Countdown[i] = NextAdjMaxRound(Countdown, i)
  OBVIOUS
<1> DEFINE m == AdjMax + 1
<1>1. AdjMax \in Nat /\ m \in Nat \ {0}
  BY DescriptorsAssumption
<1>2. CASE i = 0
  <2>1. (AdjMax - 1) % m = AdjMax - 1
    <3>1. AdjMax - 1 \in 0..(m - 1) /\ AdjMax - 1 = m * 0 + (AdjMax - 1)
      BY <1>1, DescriptorsAssumption
    <3>2. QED
      BY <3>1, <1>1, RemainderUnique
  <2>2. QED
    BY <2>1, <1>1, <1>2 DEF Countdown, NextAdjMaxRound
<1>3. CASE i # 0
  <2> DEFINE x == AdjMax - 1 - (i - 1)
  <2>1. x \in Int /\ x - 1 = AdjMax - 1 - i /\ i - 1 \in Nat
    BY <1>1, <1>3
  <2>2. (x - 1) % m = IF x % m # 0 THEN (x % m) - 1 ELSE m - 1
    BY <2>1, <1>1, RemainderBefore
  <2>3. Countdown[i] = (x - 1) % m /\ Countdown[i - 1] = x % m /\ m - 1 = AdjMax
    BY <2>1, <1>1 DEF Countdown
  <2>4. QED
    BY <2>2, <2>3, <1>3 DEF NextAdjMaxRound
<1>4. QED
  BY <1>2, <1>3

\* The recursive definition of nextAdjMax defines it.
LEMMA NextAdjMaxRounds == \A i \in Nat : NextAdjMax[i] = NextAdjMaxRound(NextAdjMax, i)
<1> DEFINE Rounds(g) == g = [i \in Nat |-> IF i = 0 THEN AdjMax - 1
                             ELSE IF g[i - 1] # 0 THEN g[i - 1] - 1 ELSE AdjMax]
<1>1. Rounds(Countdown)
  <2>1. Countdown = [i \in Nat |-> NextAdjMaxRound(Countdown, i)]
    <3>1. Countdown = [i \in Nat |-> Countdown[i]]
      BY DEF Countdown
    <3>2. QED
      BY <3>1, CountdownRounds
  <2>2. QED
    BY <2>1 DEF NextAdjMaxRound
<1>2. NextAdjMax = CHOOSE g : Rounds(g)
  BY DEF NextAdjMax
<1>3. Rounds(NextAdjMax)
  BY <1>1, <1>2
<1>4. QED
  BY <1>3 DEF NextAdjMaxRound

\* nextAdjMax counts down from adjMax - 1 to zero and then from adjMax to zero
\* again and again.
LEMMA NextAdjMaxIsCountdown == \A i \in Nat : NextAdjMax[i] = Countdown[i]
<1> DEFINE Wrong == {i \in Nat : NextAdjMax[i] # Countdown[i]}
<1>1. SUFFICES ASSUME Wrong # {} PROVE FALSE
  OBVIOUS
<1>2. PICK i \in Wrong : \A j \in Wrong : i <= j
  <2>1. Wrong \subseteq Nat
    OBVIOUS
  <2> HIDE DEF Wrong
  <2>2. QED
    BY <1>1, <2>1, LeastNumber
<1>3. CASE i = 0
  BY <1>2, <1>3, NextAdjMaxRounds, CountdownRounds DEF NextAdjMaxRound
<1>4. CASE i # 0
  <2>1. i - 1 \in Nat /\ i - 1 < i
    BY <1>2, <1>4
  <2>2. NextAdjMax[i - 1] = Countdown[i - 1]
    BY <2>1, <1>2
  <2>3. QED
    BY <2>2, <1>2, <1>4, NextAdjMaxRounds, CountdownRounds DEF NextAdjMaxRound
<1>5. QED
  BY <1>3, <1>4

-----------------------------------------------------------------------------

\* adjTo4k: from an address on there are as many descriptors in its page, and a
\* page begins after them.
LEMMA PageEnds ==
  ASSUME NEW a \in Nat, NEW k \in 0..To4k(a)
  PROVE  /\ To4k(a) \in Nat
         /\ a \div PageDescs = (a + k) \div PageDescs
         /\ k = To4k(a) => (a + k + 1) % PageDescs = 0
<1> DEFINE q == a \div PageDescs
           v == a % PageDescs
           w == v + k
<1>1. PageDescs \in Nat \ {0}
  BY DescriptorsAssumption
<1>2. a = PageDescs * q + v /\ q \in Int /\ v \in 0..(PageDescs - 1)
  BY <1>1, RemainderDefined, RemainderBounds
<1>3. To4k(a) = PageDescs - v - 1 /\ To4k(a) \in Nat /\ k \in Nat
  BY <1>1, <1>2 DEF To4k
<1>4. a + k = PageDescs * q + w /\ w \in 0..(PageDescs - 1) /\ a + k \in Int
  BY <1>1, <1>2, <1>3
<1>5. (a + k) \div PageDescs = q
  <2> HIDE DEF q, v, w
  <2>1. QED
    BY <1>1, <1>2, <1>4, RemainderUnique
<1>6. ASSUME k = To4k(a) PROVE (a + k + 1) % PageDescs = 0
  <2> DEFINE p == q + 1
             b == a + k + 1
  <2>1. b = PageDescs * p + 0 /\ p \in Int /\ b \in Int /\ 0 \in 0..(PageDescs - 1)
    BY <1>1, <1>2, <1>3, <1>6
  <2>2. b % PageDescs = 0
    <3> HIDE DEF p, b
    <3>1. QED
      BY <1>1, <2>1, RemainderUnique
  <2>3. QED
    BY <2>2
<1>7. QED
  BY <1>3, <1>5, <1>6

\* The running maximum ends a full request, counted from the start of the list.
LEMMA RequestEnds ==
  ASSUME NEW i \in Nat
  PROVE  /\ NextAdjMax[i] \in 0..AdjMax
         /\ (i + 1 + NextAdjMax[i] + 1) % (AdjMax + 1) = 0
<1> DEFINE m == AdjMax + 1
           x == AdjMax - 1 - i
           q == x \div m
           v == x % m
<1>1. AdjMax \in Nat /\ m \in Nat \ {0} /\ x \in Int
  BY DescriptorsAssumption
<1>2. NextAdjMax[i] = v
  BY NextAdjMaxIsCountdown DEF Countdown
<1>3. x = m * q + v /\ q \in Int /\ v \in 0..(m - 1)
  BY <1>1, RemainderDefined, RemainderBounds
<1> DEFINE p == 1 - q
           b == i + 1 + v + 1
<1>4. b = m * p + 0 /\ p \in Int /\ b \in Int /\ 0 \in 0..(m - 1)
  <2> DEFINE d == m * q
  <2>1. x = d + v /\ d \in Int /\ v \in Int
    BY <1>1, <1>3
  <2>2. b = m - d
    <3> HIDE DEF d, v
    <3>1. QED
      BY <1>1, <2>1
  <2>3. m * p = m - d
    <3> HIDE DEF m, q
    <3>1. QED
      BY <1>1, <1>3
  <2>4. b \in Int /\ p \in Int /\ 0 \in 0..(m - 1) /\ m * p \in Int
    BY <1>1, <1>3
  <2>5. QED
    <3> HIDE DEF b, d, m, p
    <3>1. QED
      BY <2>1, <2>2, <2>3, <2>4
<1>5. b % m = 0
  <2> HIDE DEF p, b, m
  <2>1. QED
    BY <1>1, <1>4, RemainderUnique
<1>6. QED
  BY <1>1, <1>2, <1>3, <1>5

\* The first read of a chain keeps to the limits and is as long as they allow.
LEMMA FirstRead ==
  ASSUME NEW n \in Nat \ {0}, NEW first \in Nat
  PROVE  /\ FirstAdj(n, first) \in Nat
         /\ WithinLimits(n, first, 0, FirstAdj(n, first))
         /\ AsLongAsAllowed(n, first, 0, FirstAdj(n, first))
<1> DEFINE k == FirstAdj(n, first)
           t == To4k(first)
<1>1. t \in Nat
  <2>1. first % PageDescs \in 0..(PageDescs - 1) /\ PageDescs \in Nat
    BY DescriptorsAssumption, RemainderBounds
  <2>2. QED
    BY <2>1 DEF To4k
<1>2. AdjMax \in Nat
  BY DescriptorsAssumption
<1>3. k \in {n - 1, AdjMax, t} /\ k <= n - 1 /\ k <= AdjMax /\ k <= t /\ k \in Nat
  <2> DEFINE u == n - 1
  <2>1. u \in Nat /\ u \in Int /\ AdjMax \in Int /\ t \in Int
    BY <1>1, <1>2
  <2>2. Min({u, AdjMax, t}) \in {u, AdjMax, t} /\ Min({u, AdjMax, t}) <= u
        /\ Min({u, AdjMax, t}) <= AdjMax /\ Min({u, AdjMax, t}) <= t
    <3> HIDE DEF t, u
    <3>1. QED
      BY <2>1, LeastOfThree
  <2>3. QED
    BY <1>1, <1>2, <2>1, <2>2 DEF FirstAdj
<1>4. /\ first \div PageDescs = (first + k) \div PageDescs
      /\ k = t => (first + k + 1) % PageDescs = 0
  BY <1>1, <1>3, PageEnds
<1>5. k = AdjMax => (k + 1) % (AdjMax + 1) = 0
  <2>1. (AdjMax + 1) % (AdjMax + 1) = 0
    <3> DEFINE m == AdjMax + 1
    <3>1. m = m * 1 + 0 /\ m \in Nat \ {0} /\ 0 \in 0..(m - 1)
      BY <1>2
    <3> HIDE DEF m
    <3>2. m % m = 0
      BY <3>1, RemainderUnique
    <3>3. QED
      BY <3>2 DEF m
  <2>2. QED
    BY <2>1
<1>6. first + 0 = first /\ k - 0 = k
  BY <1>3
<1>7. QED
  BY <1>3, <1>4, <1>5, <1>6 DEF WithinLimits, AsLongAsAllowed

\* So does the read that follows descriptor i.
LEMMA NextRead ==
  ASSUME NEW n \in Nat \ {0}, NEW first \in Nat, NEW i \in Nat, i + 1 < n
  PROVE  /\ NextAdj(n, first, i) \in Nat
         /\ WithinLimits(n, first, i + 1, i + 1 + NextAdj(n, first, i))
         /\ AsLongAsAllowed(n, first, i + 1, i + 1 + NextAdj(n, first, i))
<1> DEFINE k == NextAdj(n, first, i)
           a == first + i + 1
           t == To4k(a)
           u == n - 1 - (i + 1)
           w == NextAdjMax[i]
<1>1. t \in Nat /\ a \in Nat
  <2>1. a % PageDescs \in 0..(PageDescs - 1) /\ PageDescs \in Nat
    BY DescriptorsAssumption, RemainderBounds
  <2>2. QED
    BY <2>1 DEF To4k
<1>2. u \in Nat /\ w \in 0..AdjMax /\ AdjMax \in Nat
      /\ (i + 1 + w + 1) % (AdjMax + 1) = 0
  BY RequestEnds, DescriptorsAssumption
<1>3. NextAdjTotal(n, i) = u /\ NextAddress(n, first, i) = a
  BY DEF NextAdjTotal, NextAddress
<1>4. k = Min({u, w, t})
  BY <1>3 DEF NextAdj
<1>5. k \in {u, w, t} /\ k <= u /\ k <= w /\ k <= t /\ k \in Nat
  <2>1. u \in Int /\ w \in Int /\ t \in Int
    BY <1>1, <1>2
  <2> HIDE DEF u, w, t, k
  <2>2. Min({u, w, t}) \in {u, w, t} /\ Min({u, w, t}) <= u /\ Min({u, w, t}) <= w
        /\ Min({u, w, t}) <= t
    BY <2>1, LeastOfThree
  <2>3. QED
    BY <1>1, <1>2, <1>4, <2>2
<1>6. /\ a \div PageDescs = (a + k) \div PageDescs
      /\ k = t => (a + k + 1) % PageDescs = 0
  BY <1>1, <1>5, PageEnds
<1>7. first + (i + 1) = a /\ first + (i + 1 + k) = a + k
      /\ first + (i + 1 + k) + 1 = a + k + 1
  BY <1>5
<1>8. WithinLimits(n, first, i + 1, i + 1 + k)
  <2>1. i + 1 + k - (i + 1) <= AdjMax /\ i + 1 + k <= n - 1
    BY <1>2, <1>5
  <2>2. (first + (i + 1)) \div PageDescs = (first + (i + 1 + k)) \div PageDescs
    <3> HIDE DEF a, k
    <3>1. QED
      BY <1>6, <1>7
  <2>3. QED
    <3> HIDE DEF k
    <3>1. QED
      BY <1>5, <2>1, <2>2 DEF WithinLimits
<1>9. AsLongAsAllowed(n, first, i + 1, i + 1 + k)
  <2>1. CASE k = u
    <3>1. i + 1 + k = n - 1
      BY <2>1
    <3>2. QED
      BY <3>1 DEF AsLongAsAllowed
  <2>2. CASE k = w
    <3>1. (i + 1 + k + 1) % (AdjMax + 1) = 0
      BY <2>2, <1>2
    <3>2. QED
      BY <3>1 DEF AsLongAsAllowed
  <2>3. CASE k = t
    <3>1. (first + (i + 1 + k) + 1) % PageDescs = 0
      BY <2>3, <1>6, <1>7
    <3>2. QED
      BY <3>1 DEF AsLongAsAllowed
  <2>4. QED
    BY <2>1, <2>2, <2>3, <1>5
<1>10. QED
  BY <1>5, <1>8, <1>9

\* nextAdj is a number for every descriptor of a chain, the last one included.
LEMMA NextAdjTyped ==
  ASSUME NEW n \in Nat \ {0}, NEW first \in Nat, NEW i \in Nat, i < n
  PROVE  NextAdj(n, first, i) \in Nat
<1>1. CASE i + 1 < n
  BY <1>1, NextRead
<1>2. CASE ~(i + 1 < n)
  <2> DEFINE t == To4k(0)
             w == NextAdjMax[i]
  <2>1. t \in Nat
    <3>1. 0 % PageDescs \in 0..(PageDescs - 1) /\ PageDescs \in Nat
      BY DescriptorsAssumption, RemainderBounds
    <3>2. QED
      BY <3>1 DEF To4k
  <2>2. w \in Nat
    BY RequestEnds, DescriptorsAssumption
  <2>3. NextAdj(n, first, i) = Min({0, w, t})
    BY <1>2 DEF NextAdj, NextAdjTotal, NextAddress
  <2> HIDE DEF t, w
  <2>4. Min({0, w, t}) \in {0, w, t}
    <3> DEFINE z == 0
    <3>1. z \in Int /\ w \in Int /\ t \in Int
      BY <2>1, <2>2
    <3>2. Min({z, w, t}) \in {z, w, t}
      <4> HIDE DEF z
      <4>1. QED
        BY <3>1, LeastOfThree
    <3>3. QED
      BY <3>2
  <2>5. QED
    BY <2>1, <2>2, <2>3, <2>4
<1>3. QED
  BY <1>1, <1>2
=============================================================================
