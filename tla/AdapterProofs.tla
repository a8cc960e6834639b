------------------------------ MODULE AdapterProofs ------------------------------
(***************************************************************************)
(* Proofs about what an adapter computes without a state: what parse       *)
(* answers for every decimal string, every scale and every width of an     *)
(* integer, which plan a set of streams gets, whose a venue symbol is, and *)
(* what becomes of a frame.  The recursive functions of Price and Adapter  *)
(* are reasoned about by the least number for which something would fail.  *)
(***************************************************************************)
EXTENDS Frames, WellFoundedInduction, FiniteSetTheorems, SequenceTheorems, TLAPS

-----------------------------------------------------------------------------
(***************************************************************************)
(* Induction and recursion                                                 *)
(***************************************************************************)

\* A set of natural numbers that is not empty has a least one.
LEMMA LeastNumber ==
    ASSUME NEW T \in SUBSET Nat, T # {}
    PROVE  \E n \in T : \A m \in T : n <= m
<1> DEFINE less == OpToRel(<, Nat)
<1>1. IsWellFoundedOn(less, Nat)
    BY NatLessThanWellFounded
<1>2. \A x, y \in Nat : x < y => <<x, y>> \in less
    BY DEF OpToRel
<1> HIDE DEF less
<1>3. PICK n \in T : \A m \in T : ~(<<m, n>> \in less)
    BY <1>1, WFMin
<1>4. ASSUME NEW m \in T PROVE n <= m
    <2>1. m \in Nat /\ n \in Nat /\ ~(m < n)
        BY <1>2, <1>3
    <2>2. QED
        BY <2>1
<1>5. QED
    BY <1>4

\* Induction, with a set for the property.
LEMMA Induction ==
    ASSUME NEW P, 0 \in P, \A n \in Nat : n \in P => n + 1 \in P
    PROVE  \A n \in Nat : n \in P
<1>1. SUFFICES ASSUME Nat \ P # {} PROVE FALSE
    OBVIOUS
<1>2. PICK n \in Nat \ P : \A m \in Nat \ P : n <= m
    BY <1>1, LeastNumber
<1>3. n - 1 \in Nat /\ n - 1 \in P
    BY <1>2
<1>4. QED
    BY <1>2, <1>3

\* f begins with start and goes on by step.
Recursive(f, start, step) == f[0] = start /\ \A n \in Nat : f[n + 1] = step[<<n, f[n]>>]

\* A start and a step determine a function on the natural numbers.
LEMMA Recursion ==
    ASSUME NEW V, NEW start \in V, NEW step \in [Nat \X V -> V]
    PROVE  \E f \in [Nat -> V] : Recursive(f, start, step)
<1> DEFINE Follows(g, n) ==
               g[0] = start /\ \A k \in 0..(n - 1) : g[k + 1] = step[<<k, g[k]>>]
           P == {n \in Nat : \E g \in [0..n -> V] : Follows(g, n)}
           Q(m, n, g, h) == {k \in Nat : k <= m /\ k <= n => g[k] = h[k]}
<1>1. \A n \in Nat : n \in P
    <2>1. 0 \in P
        <3>1. [k \in 0..0 |-> start] \in [0..0 -> V] /\ Follows([k \in 0..0 |-> start], 0)
            OBVIOUS
        <3>2. QED
            BY <3>1
    <2>2. ASSUME NEW n \in Nat, n \in P PROVE n + 1 \in P
        <3>1. PICK g \in [0..n -> V] : Follows(g, n)
            BY <2>2
        <3> DEFINE h == [k \in 0..(n + 1) |-> IF k <= n THEN g[k] ELSE step[<<n, g[n]>>]]
        <3>2. h \in [0..(n + 1) -> V]
            <4>1. step[<<n, g[n]>>] \in V
                OBVIOUS
            <4>2. QED
                BY <4>1
        <3>3. h[0] = start
            BY <3>1
        <3>4. ASSUME NEW k \in 0..n PROVE h[k + 1] = step[<<k, h[k]>>]
            <4>1. CASE k = n
                <5>1. n \in 0..(n + 1) /\ n + 1 \in 0..(n + 1) /\ n <= n /\ ~(n + 1 <= n)
                    OBVIOUS
                <5>2. h[n] = g[n] /\ h[n + 1] = step[<<n, g[n]>>]
                    BY <5>1
                <5>3. QED
                    BY <4>1, <5>2
            <4>2. CASE k # n
                BY <3>1, <4>2
            <4>3. QED
                BY <4>1, <4>2
        <3> HIDE DEF h
        <3>5. Follows(h, n + 1)
            <4>1. 0..((n + 1) - 1) = 0..n
                OBVIOUS
            <4>2. QED
                BY <3>3, <3>4, <4>1
        <3>6. QED
            BY <3>2, <3>5
    <2> HIDE DEF P
    <2>3. QED
        BY <2>1, <2>2, Induction
<1>2. ASSUME NEW m \in Nat, NEW n \in Nat, NEW g \in [0..m -> V], NEW h \in [0..n -> V],
             Follows(g, m), Follows(h, n)
      PROVE  \A k \in Nat : k <= m /\ k <= n => g[k] = h[k]
    <2> DEFINE R == Q(m, n, g, h)
    <2>1. 0 \in R
        BY <1>2
    <2>2. ASSUME NEW k \in Nat, k \in R PROVE k + 1 \in R
        <3>1. SUFFICES ASSUME k + 1 <= m, k + 1 <= n PROVE g[k + 1] = h[k + 1]
            BY <2>2
        <3>2. k \in 0..(m - 1) /\ k \in 0..(n - 1)
            BY <3>1
        <3>3. g[k] = h[k]
            BY <2>2, <3>2
        <3>4. QED
            BY <1>2, <3>2, <3>3
    <2>3. \A k \in Nat : k \in R
        <3> HIDE DEF R
        <3> QED BY <2>1, <2>2, Induction
    <2>4. QED
        BY <2>3
<1> DEFINE pick == [n \in Nat |-> CHOOSE g \in [0..n -> V] : Follows(g, n)]
           f == [n \in Nat |-> pick[n][n]]
<1>3. \A n \in Nat : pick[n] \in [0..n -> V] /\ Follows(pick[n], n)
    BY <1>1
<1> HIDE DEF pick
<1>4. f \in [Nat -> V]
    BY <1>3
<1>5. f[0] = start
    BY <1>3
<1>6. ASSUME NEW n \in Nat PROVE f[n + 1] = step[<<n, f[n]>>]
    <2>1. pick[n + 1][n] = pick[n][n]
        <3>1. n + 1 \in Nat /\ n <= n /\ n <= n + 1
            OBVIOUS
        <3> HIDE DEF Follows
        <3>2. \A k \in Nat : k <= n + 1 /\ k <= n => pick[n + 1][k] = pick[n][k]
            BY <1>2, <1>3, <3>1
        <3>3. QED
            BY <3>1, <3>2
    <2>2. pick[n + 1][n + 1] = step[<<n, pick[n + 1][n]>>]
        <3>1. n \in 0..((n + 1) - 1) /\ n + 1 \in Nat
            OBVIOUS
        <3>2. Follows(pick[n + 1], n + 1)
            BY <1>3, <3>1
        <3>3. QED
            BY <3>1, <3>2
    <2>3. QED
        BY <2>1, <2>2
<1> HIDE DEF f
<1>7. Recursive(f, start, step)
    BY <1>5, <1>6 DEF Recursive
<1>8. QED
    BY <1>4, <1>7

-----------------------------------------------------------------------------
(***************************************************************************)
(* Powers of ten                                                           *)
(***************************************************************************)

\* TenTo is what its definition says.
LEMMA TenToFacts ==
    /\ TenTo \in [Nat -> Nat]
    /\ TenTo[0] = 1
    /\ \A n \in Nat : TenTo[n + 1] = 10 * TenTo[n]
<1> DEFINE step == [x \in Nat \X Nat |-> 10 * x[2]]
           Solves(f) == f = [n \in Nat |-> IF n = 0 THEN 1 ELSE 10 * f[n - 1]]
<1>1. PICK f \in [Nat -> Nat] : Recursive(f, 1, step)
    <2>1. step \in [Nat \X Nat -> Nat]
        OBVIOUS
    <2> HIDE DEF step
    <2>2. QED
        BY <2>1, Recursion
<1>2. f[0] = 1 /\ \A n \in Nat : f[n + 1] = 10 * f[n]
    BY <1>1 DEF Recursive
<1>3. Solves(f)
    <2>1. ASSUME NEW n \in Nat PROVE f[n] = IF n = 0 THEN 1 ELSE 10 * f[n - 1]
        <3>1. CASE n = 0
            BY <1>2, <3>1
        <3>2. CASE n # 0
            <4>1. n - 1 \in Nat /\ (n - 1) + 1 = n
                BY <3>2
            <4>2. f[(n - 1) + 1] = 10 * f[n - 1]
                BY <1>2, <4>1
            <4>3. QED
                BY <3>2, <4>1, <4>2
        <3>3. QED
            BY <3>1, <3>2
    <2>2. QED
        BY <1>1, <2>1
<1>4. TenTo = CHOOSE g : Solves(g)
    BY DEF TenTo
<1>5. Solves(TenTo)
    <2> HIDE DEF Solves
    <2>1. QED
        BY <1>3, <1>4
<1>6. TenTo[0] = 1 /\ \A n \in Nat : TenTo[n + 1] = 10 * TenTo[n]
    <2>1. \A n \in Nat : TenTo[n] = IF n = 0 THEN 1 ELSE 10 * TenTo[n - 1]
        BY <1>5
    <2>2. ASSUME NEW n \in Nat PROVE TenTo[n + 1] = 10 * TenTo[n]
        <3>1. n + 1 \in Nat /\ n + 1 # 0 /\ (n + 1) - 1 = n
            OBVIOUS
        <3>2. TenTo[n + 1] = 10 * TenTo[(n + 1) - 1]
            BY <2>1, <3>1
        <3>3. QED
            BY <3>1, <3>2
    <2>3. QED
        BY <2>1, <2>2
<1>7. \A n \in Nat : TenTo[n] \in Nat
    <2> DEFINE P == {n \in Nat : TenTo[n] \in Nat}
    <2>1. 0 \in P /\ \A n \in Nat : n \in P => n + 1 \in P
        BY <1>6
    <2> HIDE DEF P
    <2>2. \A n \in Nat : n \in P
        BY <2>1, Induction
    <2>3. QED
        BY <2>2 DEF P
<1>8. TenTo \in [Nat -> Nat]
    BY <1>5, <1>7
<1>9. QED
    BY <1>6, <1>8

\* A power of ten is positive, and the powers multiply as their exponents add.
LEMMA TenToAdds ==
    ASSUME NEW m \in Nat, NEW n \in Nat
    PROVE  /\ TenTo[m] \in Nat /\ TenTo[m] > 0
           /\ TenTo[m + n] = TenTo[m] * TenTo[n]
<1> DEFINE P == {k \in Nat : TenTo[k] > 0}
           Q == {k \in Nat : TenTo[m + k] = TenTo[m] * TenTo[k]}
<1>1. \A k \in Nat : TenTo[k] \in Nat
    BY TenToFacts
<1>2. \A k \in Nat : k \in P
    <2>1. 0 \in P /\ \A k \in Nat : k \in P => k + 1 \in P
        BY <1>1, TenToFacts
    <2> HIDE DEF P
    <2>2. QED
        BY <2>1, Induction
<1>3. \A k \in Nat : k \in Q
    <2>1. 0 \in Q
        BY <1>1, TenToFacts
    <2>2. ASSUME NEW k \in Nat, k \in Q PROVE k + 1 \in Q
        <3>1. m + k \in Nat /\ m + (k + 1) = (m + k) + 1
            OBVIOUS
        <3>2. TenTo[m + (k + 1)] = 10 * TenTo[m + k]
            BY <3>1, TenToFacts
        <3>3. TenTo[k + 1] = 10 * TenTo[k]
            BY TenToFacts
        <3>4. TenTo[m + k] = TenTo[m] * TenTo[k]
            BY <2>2
        <3>5. 10 * (TenTo[m] * TenTo[k]) = TenTo[m] * (10 * TenTo[k])
            BY <1>1
        <3>6. QED
            BY <3>2, <3>3, <3>4, <3>5
    <2> HIDE DEF Q
    <2>3. QED
        BY <2>1, <2>2, Induction
<1>4. QED
    BY <1>1, <1>2, <1>3

\* A larger exponent gives no smaller power.
LEMMA TenToGrows ==
    ASSUME NEW m \in Nat, NEW n \in Nat, m <= n
    PROVE  TenTo[m] <= TenTo[n]
<1>1. n - m \in Nat /\ m + (n - m) = n
    OBVIOUS
<1>2. TenTo[n] = TenTo[m] * TenTo[n - m]
    BY <1>1, TenToAdds
<1>3. TenTo[m] \in Nat /\ TenTo[n - m] \in Nat /\ TenTo[n - m] > 0
    BY <1>1, TenToAdds
<1> DEFINE a == TenTo[m]
           b == TenTo[n - m]
<1>4. a <= a * b
    <2> HIDE DEF a, b
    <2>1. \A x, y \in Nat : y > 0 => x <= x * y
        OBVIOUS
    <2>2. a \in Nat /\ b \in Nat /\ b > 0
        BY <1>3 DEF a, b
    <2>3. QED
        BY <2>1, <2>2
<1>5. QED
    BY <1>2, <1>4

-----------------------------------------------------------------------------
(***************************************************************************)
(* The value of a run of digits                                            *)
(***************************************************************************)

\* u holds the values of the prefixes of digits.
PrefixValues(digits, u) ==
    /\ u \in [0..Len(digits) -> Nat]
    /\ u[0] = 0
    /\ \A n \in 1..Len(digits) : u[n] = 10 * u[n - 1] + digits[n]

\* Every run of digits has its prefixes' values.
LEMMA PrefixesExist ==
    ASSUME NEW digits \in Digits
    PROVE  \E u : PrefixValues(digits, u)
<1> DEFINE step == [x \in Nat \X Nat |->
                       IF x[1] < Len(digits) THEN 10 * x[2] + digits[x[1] + 1] ELSE 0]
<1>1. \A n \in 1..Len(digits) : digits[n] \in 0..9
    BY DEF Digits
<1>2. step \in [Nat \X Nat -> Nat]
    <2>1. Len(digits) \in Nat
        BY DEF Digits
    <2>2. ASSUME NEW m \in Nat, NEW v \in Nat, m < Len(digits)
          PROVE  10 * v + digits[m + 1] \in Nat
        <3>1. m + 1 \in 1..Len(digits)
            BY <2>1, <2>2
        <3>2. digits[m + 1] \in Nat
            BY <1>1, <3>1
        <3>3. QED
            BY <3>2
    <2>3. \A x \in Nat \X Nat : x[1] \in Nat /\ x[2] \in Nat
        OBVIOUS
    <2>4. QED
        BY <2>2, <2>3
<1>3. PICK f \in [Nat -> Nat] : Recursive(f, 0, step)
    <2> HIDE DEF step
    <2>1. QED
        BY <1>2, Recursion
<1> DEFINE u == [n \in 0..Len(digits) |-> f[n]]
<1>4. u \in [0..Len(digits) -> Nat] /\ u[0] = 0
    BY <1>3 DEF Recursive, Digits
<1>5. ASSUME NEW n \in 1..Len(digits) PROVE u[n] = 10 * u[n - 1] + digits[n]
    <2>1. n - 1 \in Nat /\ n - 1 < Len(digits) /\ (n - 1) + 1 = n /\ n \in Nat
          /\ n - 1 \in 0..Len(digits) /\ n \in 0..Len(digits)
        BY DEF Digits
    <2>2. f[(n - 1) + 1] = step[<<n - 1, f[n - 1]>>]
        BY <1>3, <2>1 DEF Recursive
    <2>3. f[n - 1] \in Nat
        BY <2>1
    <2>4. step[<<n - 1, f[n - 1]>>] = 10 * f[n - 1] + digits[n]
        BY <2>1, <2>3
    <2>5. QED
        BY <2>1, <2>2, <2>4
<1> HIDE DEF u
<1>6. QED
    BY <1>4, <1>5 DEF PrefixValues

\* There is one function of prefixes' values, and its last is the value.
LEMMA PrefixesUnique ==
    ASSUME NEW digits \in Digits, NEW u, PrefixValues(digits, u)
    PROVE  /\ ValueOf(digits) = u[Len(digits)]
           /\ ValueOf(digits) \in Nat
<1> DEFINE Solves(f) ==
               f = [n \in 0..Len(digits) |-> IF n = 0 THEN 0 ELSE 10 * f[n - 1] + digits[n]]
           g == CHOOSE f : Solves(f)
           P == {n \in Nat : n <= Len(digits) => g[n] = u[n]}
<1>0. Len(digits) \in Nat
    BY DEF Digits
<1>1. Solves(u)
    <2>1. ASSUME NEW n \in 0..Len(digits)
          PROVE  u[n] = IF n = 0 THEN 0 ELSE 10 * u[n - 1] + digits[n]
        BY <1>0 DEF PrefixValues
    <2>2. u = [n \in 0..Len(digits) |-> u[n]]
        BY DEF PrefixValues
    <2>3. QED
        BY <2>1, <2>2
<1>2. Solves(g)
    <2> HIDE DEF Solves
    <2>1. QED
        BY <1>1
<1>3. ValueOf(digits) = g[Len(digits)]
    BY DEF ValueOf
<1> HIDE DEF g
<1>4. \A n \in Nat : n \in P
    <2>1. 0 \in P
        BY <1>0, <1>2 DEF PrefixValues
    <2>2. ASSUME NEW n \in Nat, n \in P PROVE n + 1 \in P
        <3>1. SUFFICES ASSUME n + 1 <= Len(digits) PROVE g[n + 1] = u[n + 1]
            OBVIOUS
        <3>2. n + 1 \in 0..Len(digits) /\ n + 1 \in 1..Len(digits) /\ n + 1 # 0
              /\ (n + 1) - 1 = n /\ n <= Len(digits)
            BY <1>0, <3>1
        <3>3. g[n] = u[n]
            BY <2>2, <3>2
        <3>4. g[n + 1] = 10 * g[n] + digits[n + 1]
            BY <1>2, <3>2
        <3>5. u[n + 1] = 10 * u[n] + digits[n + 1]
            BY <3>2 DEF PrefixValues
        <3>6. QED
            BY <3>3, <3>4, <3>5
    <2> HIDE DEF P
    <2>3. QED
        BY <2>1, <2>2, Induction
<1>5. g[Len(digits)] = u[Len(digits)]
    BY <1>0, <1>4
<1>6. u[Len(digits)] \in Nat
    BY <1>0 DEF PrefixValues
<1>7. QED
    BY <1>3, <1>5, <1>6

\* No digits are worth nothing, and one more digit is ten times as much and the
\* digit.
LEMMA ValueOfFacts ==
    /\ \A digits \in Digits : ValueOf(digits) \in Nat
    /\ ValueOf(<<>>) = 0
    /\ \A digits \in Digits, c \in 0..9 :
           ValueOf(Append(digits, c)) = 10 * ValueOf(digits) + c
<1>1. \A digits \in Digits : ValueOf(digits) \in Nat
    BY PrefixesExist, PrefixesUnique
<1>2. ValueOf(<<>>) = 0
    <2>1. <<>> \in Digits /\ Len(<<>>) = 0
        BY DEF Digits
    <2>2. PICK u : PrefixValues(<<>>, u)
        BY <2>1, PrefixesExist
    <2>3. ValueOf(<<>>) = u[0]
        BY <2>1, <2>2, PrefixesUnique
    <2>4. QED
        BY <2>2, <2>3 DEF PrefixValues
<1>3. ASSUME NEW digits \in Digits, NEW c \in 0..9
      PROVE  ValueOf(Append(digits, c)) = 10 * ValueOf(digits) + c
    <2> DEFINE more == Append(digits, c)
               n == Len(digits)
    <2>1. /\ more \in Digits /\ n \in Nat /\ Len(more) = n + 1
          /\ \A k \in 1..n : more[k] = digits[k]
          /\ more[n + 1] = c
        BY DEF Digits
    <2> HIDE DEF more
    <2>2. PICK u : PrefixValues(more, u)
        BY <2>1, PrefixesExist
    <2> DEFINE v == [k \in 0..n |-> u[k]]
    <2>3. PrefixValues(digits, v)
        <3>1. \A k \in 0..n : u[k] \in Nat
            BY <2>1, <2>2 DEF PrefixValues
        <3>2. v \in [0..n -> Nat]
            BY <3>1
        <3>3. v[0] = 0
            BY <2>1, <2>2 DEF PrefixValues
        <3>4. ASSUME NEW k \in 1..n PROVE v[k] = 10 * v[k - 1] + digits[k]
            <4>1. k \in 1..Len(more) /\ k \in 0..n /\ k - 1 \in 0..n
                BY <2>1
            <4>2. u[k] = 10 * u[k - 1] + more[k]
                BY <2>2, <4>1 DEF PrefixValues
            <4>3. QED
                BY <2>1, <4>1, <4>2
        <3> HIDE DEF v
        <3>5. QED
            BY <3>2, <3>3, <3>4 DEF PrefixValues
    <2>4. ValueOf(digits) = v[n] /\ v[n] = u[n]
        <3>1. v[n] = u[n]
            BY <2>1
        <3> HIDE DEF v
        <3>2. QED
            BY <2>3, <3>1, PrefixesUnique
    <2>5. ValueOf(more) = u[n + 1]
        BY <2>1, <2>2, PrefixesUnique
    <2>6. u[n + 1] = 10 * u[n] + c
        <3>1. n + 1 \in 1..Len(more) /\ (n + 1) - 1 = n
            BY <2>1
        <3>2. u[n + 1] = 10 * u[(n + 1) - 1] + more[n + 1]
            BY <2>2, <3>1 DEF PrefixValues
        <3>3. QED
            BY <2>1, <3>1, <3>2
    <2>7. QED
        BY <2>4, <2>5, <2>6 DEF more
<1>4. QED
    BY <1>1, <1>2, <1>3

\* A run of digits that is not empty is a shorter one and a last digit.
LEMMA LastDigit ==
    ASSUME NEW digits \in Digits, NEW n \in Nat, Len(digits) = n + 1
    PROVE  \E front \in Digits, c \in 0..9 :
               /\ digits = Append(front, c) /\ Len(front) = n
               /\ c = digits[n + 1] /\ \A k \in 1..n : front[k] = digits[k]
<1> DEFINE front == [k \in 1..n |-> digits[k]]
           c == digits[n + 1]
<1>1. \A k \in 1..(n + 1) : digits[k] \in 0..9
    BY DEF Digits
<1>2. front \in Digits /\ Len(front) = n /\ \A k \in 1..n : front[k] = digits[k]
    BY <1>1 DEF Digits
<1>3. c \in 0..9
    BY <1>1
<1>4. digits = Append(front, c)
    <2> HIDE DEF front
    <2>1. /\ Append(front, c) \in Digits
          /\ Len(Append(front, c)) = n + 1
          /\ \A k \in 1..n : Append(front, c)[k] = front[k]
          /\ Append(front, c)[n + 1] = c
        BY <1>2, <1>3 DEF Digits
    <2>2. \A k \in 1..(n + 1) : Append(front, c)[k] = digits[k]
        BY <1>2, <2>1
    <2> HIDE DEF c
    <2>3. QED
        BY <2>1, <2>2, SeqEqual DEF Digits
<1> HIDE DEF front, c
<1>5. c = digits[n + 1]
    BY DEF c
<1>6. QED
    BY <1>2, <1>3, <1>4, <1>5

\* The value of two runs, one after the other.
LEMMA ValueOfConcat ==
    ASSUME NEW left \in Digits, NEW right \in Digits
    PROVE  ValueOf(left \o right) = ValueOf(left) * TenTo[Len(right)] + ValueOf(right)
<1> DEFINE Holds(r) == ValueOf(left \o r) = ValueOf(left) * TenTo[Len(r)] + ValueOf(r)
           P == {n \in Nat : \A r \in Digits : Len(r) = n => Holds(r)}
<1>0. ValueOf(left) \in Nat
    BY ValueOfFacts
<1>1. 0 \in P
    <2>1. SUFFICES ASSUME NEW r \in Digits, Len(r) = 0 PROVE Holds(r)
        OBVIOUS
    <2>2. r = <<>>
        BY <2>1 DEF Digits
    <2>3. left \o r = left
        BY <2>2 DEF Digits
    <2>4. TenTo[Len(r)] = 1 /\ ValueOf(r) = 0
        BY <2>1, <2>2, TenToFacts, ValueOfFacts
    <2>5. QED
        BY <1>0, <2>3, <2>4
<1>2. ASSUME NEW n \in Nat, n \in P PROVE n + 1 \in P
    <2>1. SUFFICES ASSUME NEW r \in Digits, Len(r) = n + 1 PROVE Holds(r)
        OBVIOUS
    <2> HIDE DEF Holds
    <2>2. PICK front \in Digits, c \in 0..9 : r = Append(front, c) /\ Len(front) = n
        <3>1. \E front \in Digits, c \in 0..9 :
                  /\ r = Append(front, c) /\ Len(front) = n
                  /\ c = r[n + 1] /\ \A k \in 1..n : front[k] = r[k]
            BY <2>1, LastDigit
        <3>2. QED
            BY <3>1
    <2>3. left \o front \in Digits
        BY DEF Digits
    <2>4. left \o r = Append(left \o front, c)
        BY <2>2 DEF Digits
    <2>5. ValueOf(left \o r) = 10 * ValueOf(left \o front) + c
        BY <2>3, <2>4, ValueOfFacts
    <2>6. ValueOf(r) = 10 * ValueOf(front) + c
        BY <2>2, ValueOfFacts
    <2>7. ValueOf(left \o front) = ValueOf(left) * TenTo[n] + ValueOf(front)
        BY <1>2, <2>2 DEF Holds
    <2>8. TenTo[Len(r)] = 10 * TenTo[n] /\ TenTo[n] \in Nat
        BY <2>1, TenToFacts
    <2>9. ValueOf(front) \in Nat
        BY ValueOfFacts
    <2>10. \A a, b, x \in Nat, d \in 0..9 : 10 * (a * b + x) + d = a * (10 * b) + (10 * x + d)
        OBVIOUS
    <2>11. QED
        BY <1>0, <2>5, <2>6, <2>7, <2>8, <2>9, <2>10 DEF Holds
<1> HIDE DEF P
<1>3. \A n \in Nat : n \in P
    BY <1>1, <1>2, Induction
<1>4. Len(right) \in Nat
    BY DEF Digits
<1>5. QED
    BY <1>3, <1>4 DEF P

\* n digits are worth less than the n-th power of ten, and nothing exactly if all of
\* them are zero.
LEMMA ValueOfBounds ==
    ASSUME NEW digits \in Digits
    PROVE  /\ ValueOf(digits) < TenTo[Len(digits)]
           /\ ValueOf(digits) = 0 <=> \A n \in 1..Len(digits) : digits[n] = 0
<1> DEFINE Holds(r) == /\ ValueOf(r) < TenTo[Len(r)]
                       /\ ValueOf(r) = 0 <=> \A k \in 1..Len(r) : r[k] = 0
           P == {n \in Nat : \A r \in Digits : Len(r) = n => Holds(r)}
<1>1. 0 \in P
    <2>1. SUFFICES ASSUME NEW r \in Digits, Len(r) = 0 PROVE Holds(r)
        OBVIOUS
    <2>2. r = <<>>
        BY <2>1 DEF Digits
    <2>3. QED
        BY <2>1, <2>2, TenToFacts, ValueOfFacts
<1>2. ASSUME NEW n \in Nat, n \in P PROVE n + 1 \in P
    <2>1. SUFFICES ASSUME NEW r \in Digits, Len(r) = n + 1 PROVE Holds(r)
        OBVIOUS
    <2>2. PICK front \in Digits, c \in 0..9 :
              /\ r = Append(front, c) /\ Len(front) = n
              /\ c = r[n + 1] /\ \A k \in 1..n : front[k] = r[k]
        BY <2>1, LastDigit
    <2>3. ValueOf(r) = 10 * ValueOf(front) + c /\ ValueOf(front) \in Nat
        BY <2>2, ValueOfFacts
    <2>4. Holds(front)
        BY <1>2, <2>2
    <2>5. TenTo[n + 1] = 10 * TenTo[n] /\ TenTo[n] \in Nat
        BY TenToFacts
    <2>6. ValueOf(r) < TenTo[n + 1]
        <3>1. ValueOf(front) < TenTo[n]
            BY <2>2, <2>4
        <3>2. \A v, x \in Nat, d \in 0..9 : v < x => 10 * v + d < 10 * x
            OBVIOUS
        <3>3. QED
            BY <2>3, <2>5, <3>1, <3>2
    <2>7. ValueOf(r) = 0 <=> ValueOf(front) = 0 /\ c = 0
        BY <2>3
    <2>8. (\A k \in 1..(n + 1) : r[k] = 0) <=> (\A k \in 1..n : front[k] = 0) /\ c = 0
        <3>1. 1..(n + 1) = (1..n) \cup {n + 1}
            OBVIOUS
        <3>2. QED
            BY <2>2, <3>1
    <2>9. QED
        BY <2>1, <2>2, <2>4, <2>6, <2>7, <2>8
<1> HIDE DEF P
<1>3. \A n \in Nat : n \in P
    BY <1>1, <1>2, Induction
<1>4. Len(digits) \in Nat
    BY DEF Digits
<1>5. QED
    BY <1>3, <1>4 DEF P

\* Digits that do not begin with zero are worth as much as their number says.
LEMMA ValueOfLeading ==
    ASSUME NEW digits \in Digits, digits # <<>>, digits[1] # 0
    PROVE  /\ Len(digits) - 1 \in Nat
           /\ TenTo[Len(digits) - 1] <= ValueOf(digits)
           /\ ValueOf(digits) > 0
<1> DEFINE first == <<digits[1]>>
           rest == [k \in 1..(Len(digits) - 1) |-> digits[k + 1]]
<1>1. /\ Len(digits) - 1 \in Nat /\ Len(digits) \in Nat
      /\ \A k \in 1..Len(digits) : digits[k] \in 0..9
    BY DEF Digits
<1>2. digits[1] \in 1..9
    BY <1>1
<1>3. first \in Digits /\ Len(first) = 1
    BY <1>2 DEF Digits
<1>4. /\ rest \in Seq(0..9) /\ Len(rest) = Len(digits) - 1
      /\ \A k \in 1..(Len(digits) - 1) : rest[k] = digits[k + 1]
    <2>1. \A k \in 1..(Len(digits) - 1) : digits[k + 1] \in 0..9
        BY <1>1
    <2>2. QED
        BY <1>1, <2>1
<1>5. digits = first \o rest
    <2> HIDE DEF rest
    <2>1. /\ first \o rest \in Seq(0..9) /\ Len(first \o rest) = Len(digits)
          /\ \A k \in 1..Len(digits) :
                 (first \o rest)[k] = IF k <= 1 THEN first[k] ELSE rest[k - 1]
        BY <1>1, <1>3, <1>4, ConcatProperties DEF Digits
    <2>2. \A k \in 1..Len(digits) : (first \o rest)[k] = digits[k]
        <3>1. SUFFICES ASSUME NEW k \in 1..Len(digits) PROVE (first \o rest)[k] = digits[k]
            OBVIOUS
        <3>2. CASE k = 1
            BY <2>1, <3>2
        <3>3. CASE k # 1
            <4>1. k - 1 \in 1..(Len(digits) - 1) /\ (k - 1) + 1 = k /\ ~(k <= 1)
                BY <1>1, <3>3
            <4>2. QED
                BY <1>4, <2>1, <4>1
        <3>4. QED
            BY <3>2, <3>3
    <2> HIDE DEF first
    <2>3. QED
        BY <2>1, <2>2, SeqEqual DEF Digits
<1>6. ValueOf(first) = digits[1]
    <2>1. first = Append(<<>>, digits[1]) /\ <<>> \in Digits /\ digits[1] \in 0..9
        BY <1>2 DEF Digits
    <2>2. ValueOf(first) = 10 * 0 + digits[1]
        BY <2>1, ValueOfFacts
    <2>3. QED
        BY <1>2, <2>2
<1> HIDE DEF first, rest
<1>7. ValueOf(digits) = digits[1] * TenTo[Len(digits) - 1] + ValueOf(rest)
    BY <1>3, <1>4, <1>5, <1>6, ValueOfConcat DEF Digits
<1>8. ValueOf(rest) \in Nat
    BY <1>4, ValueOfFacts DEF Digits
<1>9. TenTo[Len(digits) - 1] \in Nat /\ TenTo[Len(digits) - 1] > 0
    BY <1>1, TenToAdds
<1>10. \A a \in 1..9, b, x \in Nat : b > 0 => b <= a * b + x /\ a * b + x > 0
    OBVIOUS
<1>11. QED
    BY <1>1, <1>2, <1>7, <1>8, <1>9, <1>10

\* Zeros behind the digits multiply.
LEMMA ValueOfZeros ==
    ASSUME NEW digits \in Digits, NEW k \in Nat, NEW zeros \in Digits,
           Len(zeros) = k, \A n \in 1..k : zeros[n] = 0
    PROVE  ValueOf(digits \o zeros) = ValueOf(digits) * TenTo[k]
<1>1. ValueOf(zeros) = 0
    BY ValueOfBounds
<1>2. ValueOf(digits \o zeros) = ValueOf(digits) * TenTo[k] + ValueOf(zeros)
    BY ValueOfConcat
<1>3. ValueOf(digits) * TenTo[k] \in Nat
    <2>1. ValueOf(digits) \in Nat /\ TenTo[k] \in Nat
        BY ValueOfFacts, TenToFacts
    <2>2. QED
        BY <2>1
<1>4. QED
    BY <1>1, <1>2, <1>3

\* A run of digits split in two.
LEMMA Split ==
    ASSUME NEW digits \in Digits, NEW m \in 0..Len(digits)
    PROVE  /\ SubSeq(digits, 1, m) \in Digits /\ Len(SubSeq(digits, 1, m)) = m
           /\ SubSeq(digits, m + 1, Len(digits)) \in Digits
           /\ Len(SubSeq(digits, m + 1, Len(digits))) = Len(digits) - m
           /\ \A n \in 1..m : SubSeq(digits, 1, m)[n] = digits[n]
           /\ \A n \in 1..(Len(digits) - m) :
                  SubSeq(digits, m + 1, Len(digits))[n] = digits[m + n]
           /\ digits = SubSeq(digits, 1, m) \o SubSeq(digits, m + 1, Len(digits))
<1>1. Len(digits) \in Nat /\ \A n \in 1..Len(digits) : digits[n] \in 0..9
    BY DEF Digits
<1>2. /\ SubSeq(digits, 1, m) \in Seq(0..9)
      /\ Len(SubSeq(digits, 1, m)) = IF 1 <= m THEN m - 1 + 1 ELSE 0
      /\ \A n \in 1..(m - 1 + 1) : SubSeq(digits, 1, m)[n] = digits[1 + n - 1]
    <2>1. \A n \in 1..m : digits[n] \in 0..9
        BY <1>1
    <2>2. 1 \in Int /\ m \in Int
        OBVIOUS
    <2>3. QED
        BY <2>1, <2>2, SubSeqProperties
<1>3. /\ SubSeq(digits, m + 1, Len(digits)) \in Seq(0..9)
      /\ Len(SubSeq(digits, m + 1, Len(digits)))
             = IF m + 1 <= Len(digits) THEN Len(digits) - (m + 1) + 1 ELSE 0
      /\ \A n \in 1..(Len(digits) - (m + 1) + 1) :
             SubSeq(digits, m + 1, Len(digits))[n] = digits[(m + 1) + n - 1]
    <2>1. \A n \in (m + 1)..Len(digits) : digits[n] \in 0..9
        BY <1>1
    <2>2. m + 1 \in Int /\ Len(digits) \in Int
        BY <1>1
    <2>3. QED
        BY <2>1, <2>2, SubSeqProperties
<1> DEFINE left == SubSeq(digits, 1, m)
           right == SubSeq(digits, m + 1, Len(digits))
<1>4. left \in Digits /\ Len(left) = m /\ \A n \in 1..m : left[n] = digits[n]
    <2>1. 1..(m - 1 + 1) = 1..m /\ \A n \in 1..m : 1 + n - 1 = n
        OBVIOUS
    <2>2. QED
        BY <1>2, <2>1 DEF Digits
<1>5. /\ right \in Digits /\ Len(right) = Len(digits) - m
      /\ \A n \in 1..(Len(digits) - m) : right[n] = digits[m + n]
    <2>1. /\ Len(digits) - (m + 1) + 1 = Len(digits) - m
          /\ \A n \in 1..(Len(digits) - m) : (m + 1) + n - 1 = m + n
        BY <1>1
    <2>2. Len(right) = Len(digits) - m
        <3>1. CASE m + 1 <= Len(digits)
            BY <1>3, <2>1, <3>1
        <3>2. CASE ~(m + 1 <= Len(digits))
            <4>1. Len(digits) - m = 0
                BY <1>1, <3>2
            <4>2. QED
                BY <1>3, <3>2, <4>1
        <3>3. QED
            BY <3>1, <3>2
    <2>3. ASSUME NEW n \in 1..(Len(digits) - m) PROVE right[n] = digits[m + n]
        <3>1. n \in 1..(Len(digits) - (m + 1) + 1)
            BY <2>1
        <3>2. right[n] = digits[(m + 1) + n - 1]
            BY <1>3, <3>1
        <3>3. QED
            BY <2>1, <3>2
    <2>4. QED
        BY <1>3, <2>2, <2>3 DEF Digits
<1> HIDE DEF left, right
<1>6. /\ left \o right \in Seq(0..9) /\ Len(left \o right) = Len(digits)
      /\ \A n \in 1..Len(digits) : (left \o right)[n] = IF n <= m THEN left[n] ELSE right[n - m]
    <2>1. Len(left) + Len(right) = Len(digits)
        BY <1>1, <1>4, <1>5
    <2>2. /\ left \o right \in Seq(0..9) /\ Len(left \o right) = Len(left) + Len(right)
          /\ \A n \in 1..(Len(left) + Len(right)) :
                 (left \o right)[n] = IF n <= Len(left) THEN left[n] ELSE right[n - Len(left)]
        BY <1>4, <1>5, ConcatProperties DEF Digits
    <2>3. QED
        BY <1>4, <2>1, <2>2
<1>7. ASSUME NEW n \in 1..Len(digits) PROVE (left \o right)[n] = digits[n]
    <2>1. CASE n <= m
        <3>1. n \in 1..m
            BY <2>1
        <3>2. QED
            BY <1>4, <1>6, <2>1, <3>1
    <2>2. CASE ~(n <= m)
        <3>1. n - m \in 1..(Len(digits) - m) /\ m + (n - m) = n
            BY <1>1, <2>2
        <3>2. QED
            BY <1>5, <1>6, <2>2, <3>1
    <2>3. QED
        BY <2>1, <2>2
<1>8. digits = left \o right
    BY <1>6, <1>7, SeqEqual DEF Digits
<1>9. QED
    BY <1>4, <1>5, <1>8 DEF left, right

\* Leading zeros are worth nothing, and what is left does not begin with one.
LEMMA SignificantFacts ==
    ASSUME NEW digits \in Digits
    PROVE  /\ Significant(digits) \in Digits
           /\ ValueOf(Significant(digits)) = ValueOf(digits)
           /\ Significant(digits) # <<>> => Significant(digits)[1] # 0
<1> DEFINE nonzero == {n \in 1..Len(digits) : digits[n] # 0}
<1>0. Len(digits) \in Nat
    BY DEF Digits
<1>1. CASE nonzero = {}
    <2>1. Significant(digits) = <<>>
        BY <1>1 DEF Significant
    <2>2. ValueOf(digits) = 0
        BY <1>1, ValueOfBounds
    <2>3. <<>> \in Digits
        BY DEF Digits
    <2>4. QED
        BY <2>1, <2>2, <2>3, ValueOfFacts
<1>2. CASE nonzero # {}
    <2>1. nonzero \in SUBSET Nat
        BY <1>0
    <2>2. PICK m \in nonzero : \A n \in nonzero : m <= n
        <3> HIDE DEF nonzero
        <3>1. QED
            BY <1>2, <2>1, LeastNumber
    <2>3. Min(nonzero) = m
        <3>1. Min(nonzero) \in nonzero /\ \A n \in nonzero : Min(nonzero) <= n
            BY <2>2 DEF Min
        <3>2. Min(nonzero) <= m /\ m <= Min(nonzero) /\ m \in Nat /\ Min(nonzero) \in Nat
            BY <2>1, <2>2, <3>1
        <3>3. QED
            BY <3>2
    <2>4. m \in 1..Len(digits) /\ digits[m] # 0 /\ \A n \in 1..(m - 1) : digits[n] = 0
        <3>1. m \in 1..Len(digits) /\ digits[m] # 0
            BY <2>2
        <3>2. ASSUME NEW n \in 1..(m - 1), digits[n] # 0 PROVE FALSE
            <4>1. n \in 1..Len(digits) /\ ~(m <= n)
                BY <1>0, <3>1
            <4>2. QED
                BY <2>2, <3>2, <4>1
        <3>3. QED
            BY <3>1, <3>2
    <2>5. Significant(digits) = SubSeq(digits, m, Len(digits))
        BY <1>2, <2>3 DEF Significant
    <2> DEFINE left == SubSeq(digits, 1, m - 1)
               right == SubSeq(digits, m, Len(digits))
    <2>6. /\ left \in Digits /\ Len(left) = m - 1 /\ \A n \in 1..(m - 1) : left[n] = digits[n]
          /\ right \in Digits /\ Len(right) = Len(digits) - (m - 1)
          /\ \A n \in 1..(Len(digits) - (m - 1)) : right[n] = digits[(m - 1) + n]
          /\ digits = left \o right
        <3> DEFINE k == m - 1
        <3>1. k \in 0..Len(digits) /\ k + 1 = m
            BY <1>0, <2>4
        <3> HIDE DEF k
        <3>2. /\ SubSeq(digits, 1, k) \in Digits /\ Len(SubSeq(digits, 1, k)) = k
              /\ SubSeq(digits, k + 1, Len(digits)) \in Digits
              /\ Len(SubSeq(digits, k + 1, Len(digits))) = Len(digits) - k
              /\ \A n \in 1..k : SubSeq(digits, 1, k)[n] = digits[n]
              /\ \A n \in 1..(Len(digits) - k) :
                     SubSeq(digits, k + 1, Len(digits))[n] = digits[k + n]
              /\ digits = SubSeq(digits, 1, k) \o SubSeq(digits, k + 1, Len(digits))
            BY <3>1, Split
        <3>3. k = m - 1
            BY DEF k
        <3>4. QED
            BY <3>1, <3>2, <3>3
    <2> HIDE DEF left, right
    <2>7. ValueOf(left) = 0
        BY <2>4, <2>6, ValueOfBounds
    <2>8. ValueOf(digits) = ValueOf(left) * TenTo[Len(right)] + ValueOf(right)
        BY <2>6, ValueOfConcat
    <2>9. ValueOf(digits) = ValueOf(right)
        <3>1. Len(right) \in Nat
            BY <2>6 DEF Digits
        <3>2. TenTo[Len(right)] \in Nat /\ ValueOf(right) \in Nat
            BY <2>6, <3>1, TenToFacts, ValueOfFacts
        <3>3. QED
            BY <2>7, <2>8, <3>2
    <2>10. right[1] # 0
        <3>1. 1 \in 1..(Len(digits) - (m - 1)) /\ (m - 1) + 1 = m
            BY <1>0, <2>4
        <3>2. QED
            BY <2>4, <2>6, <3>1
    <2>11. QED
        BY <2>5, <2>6, <2>9, <2>10 DEF right
<1>3. QED
    BY <1>1, <1>2

-----------------------------------------------------------------------------
(***************************************************************************)
(* parse                                                                   *)
(***************************************************************************)

\* A positive number of digits does not begin with zero.
Leads(digits) == digits \in Digits /\ digits # <<>> /\ digits[1] # 0

\* Moved to the left the digits gain zeros.
LEMMA ShiftedLeft ==
    ASSUME NEW digits, Leads(digits), NEW shift \in Nat
    PROVE  /\ Leads(Shifted(digits, shift))
           /\ Len(Shifted(digits, shift)) = Len(digits) + shift
           /\ ValueOf(Shifted(digits, shift)) = ValueOf(digits) * TenTo[shift]
<1> DEFINE zeros == [n \in 1..shift |-> 0]
<1>1. zeros \in Digits /\ Len(zeros) = shift /\ \A n \in 1..shift : zeros[n] = 0
    <2>1. zeros \in Seq(0..9) /\ Len(zeros) = shift
        OBVIOUS
    <2>2. QED
        BY <2>1 DEF Digits
<1>2. Shifted(digits, shift) = digits \o zeros
    BY DEF Shifted
<1> HIDE DEF zeros
<1>3. Len(digits) \in Nat /\ 1 \in 1..Len(digits)
    BY DEF Leads, Digits
<1>4. digits \o zeros \in Digits /\ Len(digits \o zeros) = Len(digits) + shift
      /\ (digits \o zeros)[1] = digits[1]
    <2>1. digits \in Seq(0..9) /\ zeros \in Seq(0..9)
        BY <1>1 DEF Leads, Digits
    <2>2. /\ digits \o zeros \in Seq(0..9)
          /\ Len(digits \o zeros) = Len(digits) + Len(zeros)
          /\ \A n \in 1..(Len(digits) + Len(zeros)) :
                 (digits \o zeros)[n] = IF n <= Len(digits) THEN digits[n] ELSE zeros[n - Len(digits)]
        BY <2>1, ConcatProperties
    <2>3. 1 \in 1..(Len(digits) + Len(zeros)) /\ 1 <= Len(digits)
        BY <1>1, <1>3
    <2>4. (digits \o zeros)[1] = digits[1]
        BY <2>2, <2>3
    <2>5. QED
        BY <1>1, <2>2, <2>4 DEF Digits
<1>5. digits \o zeros # <<>>
    <2>1. Len(digits \o zeros) # 0
        BY <1>3, <1>4
    <2>2. QED
        BY <2>1
<1>6. ValueOf(digits \o zeros) = ValueOf(digits) * TenTo[shift]
    BY <1>1, ValueOfZeros DEF Leads
<1>7. QED
    BY <1>2, <1>4, <1>5, <1>6 DEF Leads

\* Moved to the right, with nothing but zeros dropped, the digits are worth what they
\* were.
LEMMA ShiftedRight ==
    ASSUME NEW digits, Leads(digits), NEW shift \in Int, shift < 0, ~DropsDigits(digits, shift)
    PROVE  /\ Leads(Shifted(digits, shift))
           /\ Len(Shifted(digits, shift)) = Len(digits) + shift
           /\ ValueOf(Shifted(digits, shift)) * TenTo[-shift] = ValueOf(digits)
<1> DEFINE m == Len(digits) + shift
           left == SubSeq(digits, 1, m)
           right == SubSeq(digits, m + 1, Len(digits))
<1>1. Len(digits) \in Nat /\ digits \in Digits
    BY DEF Leads, Digits
<1>2. m \in 1..Len(digits) /\ -shift \in Nat /\ Len(digits) - m = -shift
    BY <1>1 DEF DropsDigits
<1>3. \A n \in (m + 1)..Len(digits) : digits[n] = 0
    BY DEF DropsDigits
<1>4. Shifted(digits, shift) = left
    BY DEF Shifted
<1> HIDE DEF m
<1>5. /\ left \in Digits /\ Len(left) = m /\ \A n \in 1..m : left[n] = digits[n]
      /\ right \in Digits /\ Len(right) = Len(digits) - m
      /\ \A n \in 1..(Len(digits) - m) : right[n] = digits[m + n]
      /\ digits = left \o right
    <2>1. m \in 0..Len(digits)
        BY <1>2
    <2>2. QED
        BY <1>1, <2>1, Split
<1> HIDE DEF left, right
<1>6. \A n \in 1..(Len(digits) - m) : right[n] = 0
    <2>1. \A n \in 1..(Len(digits) - m) : m + n \in (m + 1)..Len(digits)
        BY <1>1, <1>2
    <2>2. QED
        BY <1>3, <1>5, <2>1
<1>7. ValueOf(left \o right) = ValueOf(left) * TenTo[-shift]
    BY <1>2, <1>5, <1>6, ValueOfZeros
<1>8. left # <<>> /\ left[1] # 0
    <2>1. 1 \in 1..m
        BY <1>2
    <2>2. left[1] = digits[1]
        BY <1>5, <2>1
    <2>3. Len(left) # 0
        BY <1>2, <1>5
    <2>4. QED
        BY <2>2, <2>3 DEF Leads
<1>9. QED
    BY <1>4, <1>5, <1>7, <1>8 DEF Leads, m

\* Where a digit that is not zero would be dropped nothing at the scale is the number.
LEMMA DroppedIsInexact ==
    ASSUME NEW digits, Leads(digits), NEW shift \in Int, shift < 0, DropsDigits(digits, shift),
           NEW x \in Int
    PROVE  x * TenTo[-shift] # ValueOf(digits)
<1> DEFINE m == Len(digits) + shift
           left == SubSeq(digits, 1, m)
           right == SubSeq(digits, m + 1, Len(digits))
           power == TenTo[-shift]
<1>1. Len(digits) \in Nat /\ digits \in Digits /\ m \in Int /\ -shift \in Nat
    BY DEF Leads, Digits
<1>2. power \in Nat /\ power > 0
    BY <1>1, TenToAdds
<1>3. ValueOf(digits) \in Nat /\ ValueOf(digits) > 0
    BY <1>1, ValueOfFacts, ValueOfLeading DEF Leads
<1>4. CASE m <= 0
    <2>1. Len(digits) <= -shift
        BY <1>1, <1>4
    <2>2. ValueOf(digits) < power
        <3>1. ValueOf(digits) < TenTo[Len(digits)]
            BY <1>1, ValueOfBounds
        <3>2. TenTo[Len(digits)] <= power /\ TenTo[Len(digits)] \in Nat
            BY <1>1, <2>1, TenToGrows, TenToFacts
        <3> HIDE DEF power
        <3>3. QED
            BY <1>2, <1>3, <3>1, <3>2
    <2>3. \A p, v \in Nat : 0 < v /\ v < p => x * p # v
        OBVIOUS
    <2> HIDE DEF power
    <2>4. x * power # ValueOf(digits)
        BY <1>2, <1>3, <2>2, <2>3
    <2>5. QED
        BY <2>4 DEF power
<1>5. CASE m > 0
    <2>1. m \in 0..Len(digits) /\ Len(digits) - m = -shift
        BY <1>1, <1>5
    <2>2. PICK n \in (m + 1)..Len(digits) : digits[n] # 0
        <3>1. ~(-shift >= Len(digits))
            BY <1>1, <1>5
        <3>2. QED
            BY <3>1 DEF DropsDigits
    <2> HIDE DEF m
    <2>3. /\ left \in Digits /\ right \in Digits /\ Len(right) = -shift
          /\ \A k \in 1..(Len(digits) - m) : right[k] = digits[m + k]
          /\ digits = left \o right
        BY <1>1, <2>1, Split
    <2> HIDE DEF left, right
    <2>4. right[n - m] # 0 /\ n - m \in 1..Len(right)
        <3>1. n - m \in 1..(Len(digits) - m) /\ m + (n - m) = n
            BY <1>1, <2>1, <2>2
        <3>2. QED
            BY <2>1, <2>2, <2>3, <3>1
    <2>5. ValueOf(right) # 0 /\ ValueOf(right) < power /\ ValueOf(right) \in Nat
        BY <2>3, <2>4, ValueOfBounds, ValueOfFacts
    <2>6. ValueOf(digits) = ValueOf(left) * power + ValueOf(right) /\ ValueOf(left) \in Nat
        <3>1. ValueOf(left) \in Nat
            BY <2>3, ValueOfFacts
        <3>2. ValueOf(left \o right) = ValueOf(left) * TenTo[Len(right)] + ValueOf(right)
            BY <2>3, ValueOfConcat
        <3>3. digits = left \o right /\ TenTo[Len(right)] = power
            BY <2>3
        <3>4. QED
            BY <3>1, <3>2, <3>3
    <2>7. \A p, v, w \in Nat : 0 < w /\ w < p => x * p # v * p + w
        <3>1. SUFFICES ASSUME NEW p \in Nat, NEW v \in Nat, NEW w \in Nat, 0 < w, w < p,
                              x * p = v * p + w
                       PROVE  FALSE
            OBVIOUS
        <3>2. (x - v) * p = w
            BY <3>1
        <3>3. CASE x - v <= 0
            <4>1. (x - v) * p <= 0
                BY <3>3
            <4>2. QED
                BY <3>1, <3>2, <4>1
        <3>4. CASE x - v >= 1
            <4>1. (x - v) * p >= p
                BY <3>4
            <4>2. QED
                BY <3>1, <3>2, <4>1
        <3>5. QED
            BY <3>3, <3>4
    <2> HIDE DEF power
    <2>8. x * power # ValueOf(digits)
        <3>1. 0 < ValueOf(right)
            BY <2>5
        <3>2. QED
            BY <1>2, <2>5, <2>6, <2>7, <3>1
    <2>9. QED
        BY <2>8 DEF power
<1>6. QED
    BY <1>1, <1>4, <1>5

\* What does not fit is told by the number of digits or by the value.
LEMMA TooLargeIsTooLarge ==
    ASSUME NEW digits, NEW shift \in Int, Leads(digits), Leads(Shifted(digits, shift)),
           Len(Shifted(digits, shift)) = Len(digits) + shift
    PROVE  TooLarge(digits, shift) <=> ValueOf(Shifted(digits, shift)) > MaxInt
<1> DEFINE moved == Shifted(digits, shift)
<1>1. moved \in Digits /\ Len(moved) \in Nat /\ Len(moved) - 1 \in Nat
      /\ TenTo[Len(moved) - 1] <= ValueOf(moved)
    BY ValueOfLeading DEF Leads, Digits
<1>2. ValueOf(moved) \in Nat
    BY <1>1, ValueOfFacts
<1>3. ASSUME Len(moved) > MaxDigits PROVE ValueOf(moved) > MaxInt
    <2>1. MaxDigits \in Nat /\ MaxDigits <= Len(moved) - 1 /\ MaxInt < TenTo[MaxDigits]
          /\ MaxInt \in Nat
        BY <1>1, <1>3, PriceAssumption
    <2>2. TenTo[MaxDigits] <= TenTo[Len(moved) - 1]
        BY <1>1, <2>1, TenToGrows
    <2>3. TenTo[MaxDigits] \in Nat /\ TenTo[Len(moved) - 1] \in Nat
        BY <1>1, <2>1, TenToFacts
    <2> HIDE DEF moved
    <2>4. QED
        BY <1>1, <1>2, <2>1, <2>2, <2>3
<1>4. Len(digits) + shift = Len(moved)
    OBVIOUS
<1>5. TooLarge(digits, shift) <=> Len(moved) > MaxDigits \/ ValueOf(moved) > MaxInt
    BY <1>4 DEF TooLarge
<1> HIDE DEF moved
<1>6. TooLarge(digits, shift) <=> ValueOf(moved) > MaxInt
    BY <1>3, <1>5
<1>7. QED
    BY <1>6 DEF moved

\* x at a scale is w, shift places to the left.
Scaled(x, w, shift) == IF shift < 0 THEN x * TenTo[-shift] = w ELSE x = w * TenTo[shift]

\* There is at most one such x; both signs go together, and nothing is nothing.
LEMMA ScaledFacts ==
    ASSUME NEW w \in Int, NEW shift \in Int
    PROVE  /\ \A x, y \in Int : Scaled(x, w, shift) /\ Scaled(y, w, shift) => x = y
           /\ \A x \in Int : Scaled(-x, -w, shift) <=> Scaled(x, w, shift)
           /\ \A x \in Int : w >= 0 /\ Scaled(x, w, shift) => x >= 0
           /\ Scaled(0, w, shift) <=> w = 0
<1> DEFINE p == IF shift < 0 THEN TenTo[-shift] ELSE TenTo[shift]
<1>1. p \in Nat /\ p > 0
    <2>1. CASE shift < 0
        <3>1. -shift \in Nat
            BY <2>1
        <3>2. QED
            BY <2>1, <3>1, TenToAdds
    <2>2. CASE shift >= 0
        <3>1. shift \in Nat /\ ~(shift < 0)
            BY <2>2
        <3>2. QED
            BY <3>1, TenToAdds
    <2>3. QED
        BY <2>1, <2>2
<1>2. \A x, v : Scaled(x, v, shift) <=> IF shift < 0 THEN x * p = v ELSE x = v * p
    BY DEF Scaled
<1> HIDE DEF p
<1>3. \A x, y \in Int : x * p = y * p => x = y
    <2>1. ASSUME NEW x \in Int, NEW y \in Int, x * p = y * p PROVE x = y
        <3>1. (x - y) * p = 0
            BY <1>1, <2>1
        <3>2. QED
            BY <1>1, <3>1
    <2>2. QED
        BY <2>1
<1>4. \A x \in Int : (-x) * p = -(x * p) /\ (-w) * p = -(w * p) /\ x * p \in Int /\ w * p \in Int
    BY <1>1
<1>5. \A x \in Int : x * p >= 0 => x >= 0
    BY <1>1
<1>6. w >= 0 => w * p >= 0
    BY <1>1
<1>7. w * p = 0 <=> w = 0
    BY <1>1
<1>13. 0 * p = 0
    BY <1>1
<1>8. \A x, y \in Int : Scaled(x, w, shift) /\ Scaled(y, w, shift) => x = y
    BY <1>2, <1>3
<1>9. \A x \in Int : Scaled(-x, -w, shift) <=> Scaled(x, w, shift)
    BY <1>2, <1>4
<1>10. \A x \in Int : w >= 0 /\ Scaled(x, w, shift) => x >= 0
    BY <1>2, <1>5, <1>6
<1>11. Scaled(0, w, shift) <=> w = 0
    BY <1>2, <1>7, <1>13
<1>12. QED
    BY <1>8, <1>9, <1>10, <1>11

\* What the digits come to at the scale, or that they come to nothing there.
LEMMA Magnitude ==
    ASSUME NEW digits, Leads(digits), NEW shift \in Int
    PROVE  IF (shift < 0 /\ DropsDigits(digits, shift)) \/ TooLarge(digits, shift)
           THEN \A x \in 0..MaxInt : ~Scaled(x, ValueOf(digits), shift)
           ELSE /\ ValueOf(Shifted(digits, shift)) \in 1..MaxInt
                /\ Scaled(ValueOf(Shifted(digits, shift)), ValueOf(digits), shift)
<1>1. digits \in Digits /\ ValueOf(digits) \in Nat /\ ValueOf(digits) > 0 /\ MaxInt \in Nat
    BY ValueOfFacts, ValueOfLeading, PriceAssumption DEF Leads
<1>2. CASE shift < 0 /\ DropsDigits(digits, shift)
    <2>1. \A x \in Int : x * TenTo[-shift] # ValueOf(digits)
        BY <1>2, DroppedIsInexact
    <2>2. \A x \in 0..MaxInt : x \in Int
        BY <1>1
    <2>3. QED
        BY <1>2, <2>1, <2>2 DEF Scaled
<1>3. CASE ~(shift < 0 /\ DropsDigits(digits, shift))
    <2> DEFINE moved == Shifted(digits, shift)
    <2>1. /\ Leads(moved) /\ Len(moved) = Len(digits) + shift
          /\ Scaled(ValueOf(moved), ValueOf(digits), shift)
        <3>1. CASE shift < 0
            BY <1>3, <3>1, ShiftedRight DEF Scaled
        <3>2. CASE shift >= 0
            <4>1. shift \in Nat /\ ~(shift < 0)
                BY <3>2
            <4>2. QED
                BY <4>1, ShiftedLeft DEF Scaled
        <3>3. QED
            BY <3>1, <3>2
    <2>2. TooLarge(digits, shift) <=> ValueOf(moved) > MaxInt
        BY <2>1, TooLargeIsTooLarge
    <2>3. ValueOf(moved) \in Nat /\ ValueOf(moved) > 0
        BY <2>1, ValueOfFacts, ValueOfLeading DEF Leads
    <2>4. \A x \in Int : Scaled(x, ValueOf(digits), shift) => x = ValueOf(moved)
        <3>1. ValueOf(digits) \in Int /\ ValueOf(moved) \in Int
            BY <1>1, <2>3
        <3>2. QED
            BY <2>1, <3>1, ScaledFacts
    <2> HIDE DEF moved
    <2>5. TooLarge(digits, shift) => \A x \in 0..MaxInt : ~Scaled(x, ValueOf(digits), shift)
        <3>1. \A x \in 0..MaxInt : x \in Int /\ ~(x > MaxInt)
            BY <1>1
        <3>2. QED
            BY <2>2, <2>4, <3>1
    <2>6. ~TooLarge(digits, shift) => ValueOf(moved) \in 1..MaxInt
        BY <1>1, <2>2, <2>3
    <2>7. QED
        BY <1>3, <2>1, <2>5, <2>6 DEF moved
<1>4. QED
    BY <1>2, <1>3

\* A decimal string, or what parse turns down at sight.
IsText(s) ==
    /\ s.kind # ""
    /\ s.kind = "number" =>
           s.negative \in BOOLEAN /\ s.digits \in Digits /\ s.frac \in Nat /\ s.exp \in Int

LEMMA DecimalFacts == \A s \in Decimals : IsText(s)
<1>1. QED
    BY DEF Decimals, IsText

\* The values a field of the scale may have.
Carried(signed) == IF signed THEN -MaxInt..MaxInt ELSE 0..MaxInt

\* What a text is worth before it is brought to a scale.
Worth(s) == (IF s.negative THEN -1 ELSE 1) * ValueOf(s.digits)

LEMMA WorthFacts ==
    ASSUME NEW s, s.digits \in Digits, s.negative \in BOOLEAN
    PROVE  /\ Worth(s) \in Int
           /\ Worth(s) = IF s.negative THEN -ValueOf(s.digits) ELSE ValueOf(s.digits)
<1> DEFINE w == ValueOf(s.digits)
<1>1. w \in Nat
    BY ValueOfFacts
<1>2. Worth(s) = IF s.negative THEN (-1) * w ELSE 1 * w
    BY DEF Worth
<1> HIDE DEF w
<1>3. (-1) * w = -w /\ 1 * w = w /\ -w \in Int /\ w \in Int
    BY <1>1
<1>4. Worth(s) \in Int /\ Worth(s) = IF s.negative THEN -w ELSE w
    BY <1>2, <1>3
<1>5. QED
    BY <1>4 DEF w

LEMMA DenotesIsScaled ==
    ASSUME NEW s, NEW v, NEW scaleExp
    PROVE  Denotes(s, v, scaleExp) <=> Scaled(v, Worth(s), s.exp - s.frac - scaleExp)
<1>1. QED
    BY DEF Denotes, Scaled, Worth

\* parse answers the value that the text denotes, and refuses only where there is none.
LEMMA ParseFacts ==
    ASSUME NEW s, IsText(s), NEW scaleExp \in Int, NEW signed \in BOOLEAN
    PROVE  LET result == parse(s, scaleExp, signed)
           IN  IF result.err = ""
               THEN /\ s.kind = "number" /\ result = Accept(result.v)
                    /\ result.v \in Carried(signed) /\ Denotes(s, result.v, scaleExp)
               ELSE s.kind = "number" => \A v \in Carried(signed) : ~Denotes(s, v, scaleExp)
<1> DEFINE digits == Significant(s.digits)
           shift == s.exp - s.frac - scaleExp
           result == parse(s, scaleExp, signed)
           moved == ValueOf(Shifted(digits, shift))
<1>1. CASE s.kind # "number"
    <2>1. result = Refuse(s.kind)
        BY <1>1 DEF parse
    <2> HIDE DEF result
    <2>2. result.err # ""
        BY <1>1, <2>1 DEF Refuse, IsText
    <2>3. QED
        BY <1>1, <2>2 DEF result
<1>2. CASE s.kind = "number"
    <2>1. s.negative \in BOOLEAN /\ s.digits \in Digits /\ shift \in Int /\ MaxInt \in Nat
        BY <1>2, PriceAssumption DEF IsText
    <2>2. digits \in Digits /\ ValueOf(digits) = ValueOf(s.digits) /\ ValueOf(digits) \in Nat
          /\ (digits # <<>> => Leads(digits))
        BY <2>1, SignificantFacts, ValueOfFacts DEF Leads
    <2>3. \A v : Denotes(s, v, scaleExp) <=>
                     Scaled(v, (IF s.negative THEN -1 ELSE 1) * ValueOf(digits), shift)
        BY <2>2, DenotesIsScaled DEF Worth
    <2>4. \A v : Denotes(s, v, scaleExp) <=>
                     Scaled(v, IF s.negative THEN -ValueOf(digits) ELSE ValueOf(digits), shift)
        <3>1. (IF s.negative THEN -1 ELSE 1) * ValueOf(digits)
              = IF s.negative THEN -ValueOf(digits) ELSE ValueOf(digits)
            BY <2>2
        <3>2. QED
            BY <2>3, <3>1
    <2>5. CASE digits = <<>>
        <3>1. result = Accept(0)
            BY <1>2, <2>5 DEF parse
        <3> HIDE DEF result, digits, shift
        <3>2. result.err = "" /\ result.v = 0
            BY <3>1 DEF Accept
        <3>3. ValueOf(digits) = 0
            BY <2>5, ValueOfFacts
        <3>4. Denotes(s, 0, scaleExp)
            <4> DEFINE sign == IF s.negative THEN -1 ELSE 1
            <4>1. \A k \in Int : k * 0 = 0
                OBVIOUS
            <4>2. sign \in Int
                OBVIOUS
            <4>3. Denotes(s, 0, scaleExp) <=> Scaled(0, sign * 0, shift)
                BY <2>3, <3>3
            <4> HIDE DEF sign
            <4>4. Scaled(0, 0, shift)
                BY <2>1, ScaledFacts
            <4>5. QED
                BY <4>1, <4>2, <4>3, <4>4
        <3>5. 0 \in Carried(signed)
            BY <2>1 DEF Carried
        <3>6. QED
            BY <1>2, <3>1, <3>2, <3>4, <3>5 DEF result
    <2>6. CASE digits # <<>>
        <3> DEFINE w == ValueOf(digits)
                   fails == (shift < 0 /\ DropsDigits(digits, shift)) \/ TooLarge(digits, shift)
        <3>1. IF fails THEN \A x \in 0..MaxInt : ~Scaled(x, w, shift)
              ELSE moved \in 1..MaxInt /\ Scaled(moved, w, shift)
            BY <2>1, <2>2, <2>6, Magnitude
        <3>2. /\ \A x \in Int : Scaled(-x, -w, shift) <=> Scaled(x, w, shift)
              /\ \A x \in Int : Scaled(x, w, shift) => x >= 0
            BY <2>1, <2>2, ScaledFacts
        <3>3. w > 0
            BY <2>2, <2>6, ValueOfLeading DEF Leads
        <3>4. result = IF s.negative /\ ~signed THEN Refuse("ErrNegative")
                       ELSE IF shift < 0 /\ DropsDigits(digits, shift) THEN Refuse("ErrPrecisionLoss")
                       ELSE IF TooLarge(digits, shift) THEN Refuse("ErrOutOfRange")
                       ELSE Accept((IF s.negative THEN -1 ELSE 1) * moved)
            BY <1>2, <2>6 DEF parse
        <3> HIDE DEF w, digits, shift, result, moved
        <3>5. CASE s.negative /\ ~signed
            <4>1. result.err # ""
                BY <3>4, <3>5 DEF Refuse
            <4>2. ASSUME NEW v \in 0..MaxInt PROVE ~Scaled(v, -w, shift)
                <5>1. v \in Int /\ -v \in Int /\ -(-v) = v
                    BY <2>1, <4>2
                <5>2. SUFFICES ASSUME Scaled(v, -w, shift) PROVE FALSE
                    OBVIOUS
                <5>3. Scaled(-v, w, shift)
                    BY <3>2, <5>1, <5>2
                <5>4. v = 0
                    BY <2>1, <3>2, <4>2, <5>1, <5>3
                <5>5. Scaled(0, w, shift)
                    BY <5>3, <5>4
                <5>6. w = 0 /\ w \in Int
                    BY <2>1, <2>2, <5>5, ScaledFacts DEF w
                <5>7. QED
                    BY <3>3, <5>6
            <4>3. \A v \in Carried(signed) : ~Denotes(s, v, scaleExp)
                BY <2>4, <3>5, <4>2 DEF Carried, w
            <4>4. QED
                BY <4>1, <4>3 DEF result
        <3>6. CASE ~(s.negative /\ ~signed) /\ fails
            <4>1. result.err # ""
                BY <3>4, <3>6 DEF Refuse
            <4>2. ASSUME NEW v \in Carried(signed), Denotes(s, v, scaleExp) PROVE FALSE
                <5>1. v \in Int /\ -v \in Int /\ -(-v) = v /\ v <= MaxInt /\ -v <= MaxInt
                    BY <2>1 DEF Carried
                <5>2. CASE s.negative
                    <6>1. Scaled(v, -w, shift)
                        BY <2>4, <4>2, <5>2 DEF w
                    <6>2. Scaled(-v, w, shift)
                        BY <3>2, <5>1, <6>1
                    <6>3. -v \in 0..MaxInt
                        BY <2>1, <3>2, <5>1, <6>2
                    <6>4. QED
                        BY <3>1, <3>6, <6>2, <6>3
                <5>3. CASE ~s.negative
                    <6>1. Scaled(v, w, shift)
                        BY <2>4, <4>2, <5>3 DEF w
                    <6>2. v \in 0..MaxInt
                        BY <2>1, <3>2, <5>1, <6>1
                    <6>3. QED
                        BY <3>1, <3>6, <6>1, <6>2
                <5>4. QED
                    BY <5>2, <5>3
            <4>3. QED
                BY <4>1, <4>2 DEF result
        <3>7. CASE ~(s.negative /\ ~signed) /\ ~fails
            <4>1. moved \in 1..MaxInt /\ Scaled(moved, w, shift) /\ moved \in Int
                BY <2>1, <3>1, <3>7
            <4>2. CASE s.negative
                <5>1. (-1) * moved = -moved /\ -moved \in -MaxInt..MaxInt
                    BY <2>1, <4>1
                <5>2. result = Accept(-moved)
                    BY <3>4, <3>7, <4>2, <5>1
                <5>3. result.err = "" /\ result.v = -moved
                    BY <5>2 DEF Accept
                <5>4. Scaled(-moved, -w, shift)
                    BY <3>2, <4>1
                <5>5. Denotes(s, -moved, scaleExp)
                    BY <2>4, <4>2, <5>4 DEF w
                <5>6. -moved \in Carried(signed)
                    BY <3>7, <4>2, <5>1 DEF Carried
                <5>7. QED
                    BY <1>2, <5>2, <5>3, <5>5, <5>6 DEF result
            <4>3. CASE ~s.negative
                <5>1. 1 * moved = moved /\ moved \in -MaxInt..MaxInt /\ moved \in 0..MaxInt
                    BY <2>1, <4>1
                <5>2. result = Accept(moved)
                    BY <3>4, <3>7, <4>3, <5>1
                <5>3. result.err = "" /\ result.v = moved
                    BY <5>2 DEF Accept
                <5>5. Denotes(s, moved, scaleExp)
                    BY <2>4, <4>1, <4>3 DEF w
                <5>6. moved \in Carried(signed)
                    BY <5>1 DEF Carried
                <5>7. QED
                    BY <1>2, <5>2, <5>3, <5>5, <5>6 DEF result
            <4>4. QED
                BY <4>2, <4>3
        <3>8. QED
            BY <3>5, <3>6, <3>7
    <2>7. QED
        BY <2>5, <2>6
<1>3. QED
    BY <1>1, <1>2

-----------------------------------------------------------------------------
(***************************************************************************)
(* format                                                                  *)
(***************************************************************************)

\* Dividing by ten more is dividing by ten again; the digit is what was left over.
LEMMA DivideOnce ==
    ASSUME NEW u \in Nat, NEW p \in Nat, p > 0
    PROVE  /\ u \div p \in Nat /\ 10 * p \in Nat /\ 10 * p > 0
           /\ (u \div p) % 10 \in 0..9
           /\ u \div p = 10 * (u \div (10 * p)) + ((u \div p) % 10)
<1> DEFINE q == u \div p
           a == q \div 10
           b == q % 10
           r == u - p * q
           c == u \div (10 * p)
           t == u - (10 * p) * c
<1>1. q \in Nat /\ r \in 0..(p - 1) /\ u = p * q + r
    OBVIOUS
<1>2. 10 * p \in Nat /\ 10 * p > 0
    OBVIOUS
<1>3. c \in Nat /\ t \in 0..((10 * p) - 1) /\ u = (10 * p) * c + t
    BY <1>2
<1> HIDE DEF q, c
<1>4. a \in Nat /\ b \in 0..9 /\ q = 10 * a + b
    BY <1>1
<1> HIDE DEF a, b, r, t
<1>5. a = c
    <2>1. u = (10 * p) * a + (p * b + r)
        BY <1>1, <1>4
    <2>2. p * b + r < 10 * p /\ p * b + r >= 0
        <3>1. p * b <= 9 * p /\ p * b >= 0
            BY <1>4
        <3>2. p * b \in Int
            BY <1>4
        <3>3. \A x, y, z \in Int : x >= 0 /\ x <= 9 * z /\ 0 <= y /\ y < z => x + y < 10 * z /\ x + y >= 0
            OBVIOUS
        <3>4. QED
            BY <1>1, <3>1, <3>2, <3>3
    <2> DEFINE s == p * b + r
    <2>3. s \in Nat /\ s < 10 * p /\ u = (10 * p) * a + s
        BY <1>1, <1>4, <2>1, <2>2
    <2> HIDE DEF s
    <2>4. \A k \in Int : k >= 1 => (10 * p) * k >= 10 * p
        BY <1>2
    <2>5. (10 * p) * (a - c) = t - s
        BY <1>2, <1>3, <1>4, <2>3
    <2>6. (10 * p) * (c - a) = s - t
        BY <1>2, <1>3, <1>4, <2>3
    <2>7. ~(a - c >= 1) /\ ~(c - a >= 1)
        BY <1>2, <1>3, <1>4, <2>3, <2>4, <2>5, <2>6
    <2>8. QED
        BY <1>3, <1>4, <2>7
<1>6. QED
    BY <1>1, <1>2, <1>4, <1>5 DEF q, b, c

\* As many digits as are written for u: one more than the scale at least.
Wide(u, scale, w) ==
    /\ w > scale /\ u < TenTo[w]
    /\ w = scale + 1 \/ u >= TenTo[w - 1]

LEMMA WidthExists ==
    ASSUME NEW u \in 0..MaxInt, NEW scale \in Nat
    PROVE  \E w \in 1..(MaxDigits + scale + 1) : Wide(u, scale, w)
<1> DEFINE T == {w \in Nat : w > scale /\ u < TenTo[w]}
           most == MaxDigits + scale + 1
<1>1. MaxDigits \in Nat /\ MaxInt \in Nat /\ u \in Nat /\ MaxInt < TenTo[MaxDigits] /\ most \in Nat
    BY PriceAssumption
<1>2. most \in T
    <2>1. MaxDigits <= most /\ most > scale
        BY <1>1
    <2>2. TenTo[MaxDigits] <= TenTo[most] /\ TenTo[MaxDigits] \in Nat /\ TenTo[most] \in Nat
        BY <1>1, <2>1, TenToGrows, TenToFacts
    <2>3. QED
        BY <1>1, <2>1, <2>2
<1>3. PICK w \in T : \A m \in T : w <= m
    BY <1>2, LeastNumber
<1>4. w \in Nat /\ w > scale /\ u < TenTo[w] /\ w <= most
    BY <1>2, <1>3
<1>5. w \in 1..most
    BY <1>1, <1>4
<1>6. ASSUME w # scale + 1 PROVE u >= TenTo[w - 1]
    <2>1. w - 1 \in Nat /\ w - 1 > scale /\ ~(w <= w - 1)
        BY <1>4, <1>6
    <2>2. TenTo[w - 1] \in Nat
        BY <2>1, TenToFacts
    <2>3. ~(u < TenTo[w - 1])
        BY <1>3, <2>1
    <2>4. QED
        BY <1>1, <2>2, <2>3
<1>7. QED
    BY <1>4, <1>5, <1>6 DEF Wide

\* The digits of u, and what they are worth.
LEMMA Written ==
    ASSUME NEW u \in Nat, NEW width \in Nat, u < TenTo[width], NEW d,
           d = [n \in 1..width |-> (u \div TenTo[width - n]) % 10]
    PROVE  d \in Digits /\ Len(d) = width /\ ValueOf(d) = u
<1> DEFINE left(n) == u \div TenTo[width - n]
           P == {n \in Nat : n <= width => ValueOf(SubSeq(d, 1, n)) = left(n)}
<1>1. \A n \in 0..width : width - n \in Nat /\ TenTo[width - n] \in Nat /\ TenTo[width - n] > 0
    <2>1. \A n \in 0..width : width - n \in Nat
        OBVIOUS
    <2>2. QED
        BY <2>1, TenToAdds
<1>2. \A n \in 1..width : left(n - 1) = (u \div TenTo[(width - n) + 1])
    <2>1. \A n \in 1..width : width - (n - 1) = (width - n) + 1
        OBVIOUS
    <2>2. QED
        BY <2>1
<1>3. ASSUME NEW n \in 1..width
      PROVE  left(n) \in Nat /\ left(n) % 10 \in 0..9 /\ left(n) = 10 * left(n - 1) + (left(n) % 10)
    <2> DEFINE p == TenTo[width - n]
    <2>1. p \in Nat /\ p > 0 /\ width - n \in Nat
        BY <1>1
    <2>2. TenTo[(width - n) + 1] = 10 * p
        BY <2>1, TenToFacts
    <2>3. u \div p = 10 * (u \div (10 * p)) + ((u \div p) % 10)
          /\ u \div p \in Nat /\ (u \div p) % 10 \in 0..9
        <3> HIDE DEF p
        <3>1. QED
            BY <2>1, DivideOnce
    <2>4. QED
        BY <1>2, <2>2, <2>3
<1>4. d \in Digits /\ Len(d) = width /\ \A n \in 1..width : d[n] = left(n) % 10
    <2>1. d \in [1..width -> 0..9]
        BY <1>3
    <2>2. d \in Seq(0..9) /\ Len(d) = width
        BY <2>1
    <2>3. QED
        BY <2>2 DEF Digits
<1>5. left(0) = 0
    <2>1. width - 0 = width
        OBVIOUS
    <2>2. \A p \in Nat : u < p => u \div p = 0
        OBVIOUS
    <2>3. TenTo[width] \in Nat
        BY TenToFacts
    <2>4. QED
        BY <2>1, <2>2, <2>3
<1>6. left(width) = u
    <2>1. width - width = 0 /\ u \div 1 = u
        OBVIOUS
    <2>2. QED
        BY <2>1, TenToFacts
<1> HIDE DEF left
<1>7. \A n \in Nat : n \in P
    <2>1. 0 \in P
        <3>1. SubSeq(d, 1, 0) = <<>>
            OBVIOUS
        <3>2. QED
            BY <1>5, <3>1, ValueOfFacts
    <2>2. ASSUME NEW n \in Nat, n \in P PROVE n + 1 \in P
        <3>1. SUFFICES ASSUME n + 1 <= width PROVE ValueOf(SubSeq(d, 1, n + 1)) = left(n + 1)
            OBVIOUS
        <3>2. n + 1 \in 1..width /\ n <= width /\ n \in 0..Len(d) /\ n + 1 \in 0..Len(d) /\ (n + 1) - 1 = n
            BY <1>4, <3>1
        <3>3. /\ SubSeq(d, 1, n) \in Digits /\ Len(SubSeq(d, 1, n)) = n
              /\ \A k \in 1..n : SubSeq(d, 1, n)[k] = d[k]
            BY <1>4, <3>2, Split
        <3>4. /\ SubSeq(d, 1, n + 1) \in Digits /\ Len(SubSeq(d, 1, n + 1)) = n + 1
              /\ \A k \in 1..(n + 1) : SubSeq(d, 1, n + 1)[k] = d[k]
            BY <1>4, <3>2, Split
        <3>5. PICK front \in Digits, c \in 0..9 :
                  /\ SubSeq(d, 1, n + 1) = Append(front, c) /\ Len(front) = n
                  /\ c = SubSeq(d, 1, n + 1)[n + 1]
                  /\ \A k \in 1..n : front[k] = SubSeq(d, 1, n + 1)[k]
            BY <3>4, LastDigit
        <3>6. front = SubSeq(d, 1, n)
            <4>1. \A k \in 1..n : k \in 1..(n + 1)
                OBVIOUS
            <4>2. \A k \in 1..n : front[k] = SubSeq(d, 1, n)[k]
                BY <3>3, <3>4, <3>5, <4>1
            <4>3. front \in Seq(0..9) /\ SubSeq(d, 1, n) \in Seq(0..9)
                BY <3>3 DEF Digits
            <4>4. Len(front) = Len(SubSeq(d, 1, n))
                BY <3>3, <3>5
            <4>5. QED
                BY <3>5, <4>2, <4>3, <4>4, SeqEqual
        <3>7. c = left(n + 1) % 10
            <4>1. n + 1 \in 1..(n + 1)
                OBVIOUS
            <4>2. QED
                BY <1>4, <3>2, <3>4, <3>5, <4>1
        <3>8. ValueOf(SubSeq(d, 1, n + 1)) = 10 * ValueOf(SubSeq(d, 1, n)) + c
            <4>1. ValueOf(Append(front, c)) = 10 * ValueOf(front) + c
                BY ValueOfFacts
            <4>2. SubSeq(d, 1, n + 1) = Append(front, c)
                BY <3>5
            <4>3. QED
                BY <3>6, <4>1, <4>2
        <3>9. ValueOf(SubSeq(d, 1, n)) = left(n)
            BY <2>2, <3>2
        <3>10. left(n + 1) = 10 * left((n + 1) - 1) + (left(n + 1) % 10)
            BY <1>3, <3>2
        <3>11. QED
            BY <3>2, <3>7, <3>8, <3>9, <3>10
    <2> HIDE DEF P
    <2>3. QED
        BY <2>1, <2>2, Induction
<1>8. SubSeq(d, 1, width) = d
    <2>1. width \in 0..Len(d)
        BY <1>4
    <2>2. /\ SubSeq(d, 1, width) \in Digits /\ Len(SubSeq(d, 1, width)) = width
          /\ \A k \in 1..width : SubSeq(d, 1, width)[k] = d[k]
        BY <1>4, <2>1, Split
    <2>3. QED
        BY <1>4, <2>2, SeqEqual DEF Digits
<1>9. ValueOf(d) = u
    <2>1. ValueOf(SubSeq(d, 1, width)) = left(width)
        BY <1>7
    <2>2. QED
        BY <1>6, <1>8, <2>1
<1>10. QED
    BY <1>4, <1>9

\* What is printed is a text that denotes what was printed.
LEMMA FormatFacts ==
    ASSUME NEW v \in -MaxInt..MaxInt, NEW scaleExp \in Int, scaleExp <= 0
    PROVE  /\ IsText(format(v, scaleExp)) /\ format(v, scaleExp).kind = "number"
           /\ Denotes(format(v, scaleExp), v, scaleExp)
<1> DEFINE u == IF v < 0 THEN -v ELSE v
           scale == -scaleExp
           width == CHOOSE w \in 1..(MaxDigits + scale + 1) : Wide(u, scale, w)
           d == [n \in 1..width |-> (u \div TenTo[width - n]) % 10]
           kept == {0} \cup {k \in 1..scale : d[width - scale + k] # 0}
           most == Max(kept)
           left == SubSeq(d, 1, width - scale + most)
           right == SubSeq(d, width - scale + most + 1, width)
<1>1. MaxInt \in Nat /\ MaxDigits \in Nat /\ u \in 0..MaxInt /\ u \in Nat /\ scale \in Nat /\ v \in Int
    BY PriceAssumption
<1>2. format(v, scaleExp) = Number(v < 0, left, most, 0)
    BY DEF format, Wide
<1> HIDE DEF u
<1>3. width \in 1..(MaxDigits + scale + 1) /\ Wide(u, scale, width)
    BY <1>1, WidthExists
<1> HIDE DEF width
<1>4. width \in Nat /\ width > scale /\ u < TenTo[width]
    BY <1>1, <1>3 DEF Wide
<1>5. d \in Digits /\ Len(d) = width /\ ValueOf(d) = u
    BY <1>1, <1>4, Written
<1> HIDE DEF d
<1>6. most \in 0..scale /\ \A k \in (most + 1)..scale : d[width - scale + k] = 0
    <2>1. kept \subseteq 0..scale /\ 0 \in kept
        BY <1>1
    <2>2. most \in kept /\ \A k \in kept : k <= most
        <3> DEFINE T == {scale - k : k \in kept}
        <3>1. T \subseteq Nat /\ T # {}
            BY <1>1, <2>1
        <3> HIDE DEF kept
        <3>2. PICK m \in T : \A n \in T : m <= n
            <4> HIDE DEF T
            <4>1. QED
                BY <3>1, LeastNumber
        <3>3. PICK j \in kept : m = scale - j
            BY <3>2
        <3>4. \A k \in kept : k <= j
            <4>1. \A k \in kept : scale - j <= scale - k /\ k \in Int
                BY <1>1, <2>1, <3>2, <3>3
            <4>2. QED
                BY <1>1, <2>1, <3>3, <4>1
        <3>5. QED
            BY <3>3, <3>4 DEF Max
    <2> HIDE DEF most
    <2>3. most \in 0..scale
        BY <2>1, <2>2
    <2>4. ASSUME NEW k \in (most + 1)..scale, d[width - scale + k] # 0 PROVE FALSE
        <3>1. k \in 1..scale /\ ~(k <= most)
            BY <1>1, <2>3
        <3>2. k \in kept
            BY <2>4, <3>1
        <3>3. QED
            BY <2>2, <3>1, <3>2
    <2>5. QED
        BY <2>3, <2>4
<1> HIDE DEF most
<1> DEFINE m == width - scale + most
           shift == scale - most
<1>7. m \in 0..Len(d) /\ m \in Nat /\ Len(d) - m = shift /\ shift \in Nat /\ most \in Nat
    BY <1>1, <1>4, <1>5, <1>6
<1>8. \A n \in 1..(Len(d) - m) : d[m + n] = 0
    <2>1. ASSUME NEW n \in 1..(Len(d) - m) PROVE d[m + n] = 0
        <3>1. most + n \in (most + 1)..scale /\ m + n = width - scale + (most + n)
            BY <1>1, <1>4, <1>5, <1>6
        <3> HIDE DEF m
        <3>2. d[width - scale + (most + n)] = 0
            BY <1>6, <3>1
        <3>3. QED
            BY <3>1, <3>2
    <2>2. QED
        BY <2>1
<1>9. left = SubSeq(d, 1, m) /\ right = SubSeq(d, m + 1, Len(d))
    BY <1>5
<1> HIDE DEF m, left, right
<1>10. /\ left \in Digits /\ right \in Digits /\ Len(right) = Len(d) - m
       /\ \A n \in 1..(Len(d) - m) : right[n] = d[m + n]
       /\ d = left \o right
    BY <1>5, <1>7, <1>9, Split
<1>11. u = ValueOf(left) * TenTo[shift]
    <2>1. \A n \in 1..shift : right[n] = 0
        BY <1>7, <1>8, <1>10
    <2> HIDE DEF shift
    <2>2. ValueOf(left \o right) = ValueOf(left) * TenTo[shift]
        BY <1>7, <1>10, <2>1, ValueOfZeros
    <2>3. QED
        BY <1>5, <1>10, <2>2
<1> DEFINE s == Number(v < 0, left, most, 0)
<1>12. s.kind = "number" /\ s.negative = (v < 0) /\ s.digits = left /\ s.frac = most /\ s.exp = 0
    BY DEF Number
<1> HIDE DEF s
<1>13. IsText(s)
    BY <1>7, <1>10, <1>12 DEF IsText
<1>14. Denotes(s, v, scaleExp)
    <2>1. s.exp - s.frac - scaleExp = shift
        BY <1>1, <1>7, <1>12
    <2>2. ValueOf(left) \in Int /\ shift \in Int /\ ~(shift < 0)
        BY <1>7, <1>10, ValueOfFacts
    <2>3. Scaled(u, ValueOf(left), shift)
        BY <1>11, <2>2 DEF Scaled
    <2>4. CASE v < 0
        <3>1. Worth(s) = -ValueOf(left)
            BY <1>10, <1>12, <2>4, WorthFacts
        <3>2. u = -v /\ -u = v
            BY <1>1, <2>4 DEF u
        <3>3. Scaled(-u, -ValueOf(left), shift)
            BY <1>1, <2>2, <2>3, ScaledFacts
        <3>4. QED
            BY <2>1, <3>1, <3>2, <3>3, DenotesIsScaled
    <2>5. CASE ~(v < 0)
        <3>1. Worth(s) = ValueOf(left)
            <4>1. s.negative = FALSE
                <5>1. (v < 0) = FALSE
                    BY <1>1, <2>5
                <5>2. QED
                    BY <1>12, <5>1
            <4>2. s.digits \in Digits /\ s.negative \in BOOLEAN
                BY <1>10, <1>12, <4>1
            <4>3. QED
                BY <1>12, <4>1, <4>2, WorthFacts
        <3>2. u = v
            BY <2>5 DEF u
        <3>3. QED
            BY <2>1, <2>3, <3>1, <3>2, DenotesIsScaled
    <2>6. QED
        BY <2>4, <2>5
<1>15. QED
    BY <1>2, <1>12, <1>13, <1>14 DEF s

\* Whatever decimal string is read at whatever scale: what parse answers is exactly what
\* was written and is printed as a string that reads the same, and what it turns down
\* has no exact value that a field could carry (price.go's parse and format).
THEOREM ParseExact ==
    ASSUME NEW s \in Decimals, NEW scaleExp \in Int, scaleExp <= 0, NEW signed \in BOOLEAN
    PROVE  ParsedExactly(s, scaleExp, signed)
<1>0. IsText(s)
    BY DecimalFacts
<1> DEFINE result == parse(s, scaleExp, signed)
           v == result.v
           printed == format(v, scaleExp)
           again == parse(printed, scaleExp, signed)
<1>1. IF result.err = ""
      THEN /\ s.kind = "number" /\ result = Accept(v)
           /\ v \in Carried(signed) /\ Denotes(s, v, scaleExp)
      ELSE s.kind = "number" => \A x \in Carried(signed) : ~Denotes(s, x, scaleExp)
    BY <1>0, ParseFacts
<1>2. \A x \in Carried(signed) : x \in -MaxInt..MaxInt /\ x \in Int
    BY PriceAssumption DEF Carried
<1>3. ASSUME result.err = "" PROVE again = result
    <2>1. v \in Carried(signed) /\ v \in -MaxInt..MaxInt /\ result = Accept(v)
        BY <1>1, <1>2, <1>3
    <2> HIDE DEF v, result
    <2>2. IsText(printed) /\ printed.kind = "number" /\ Denotes(printed, v, scaleExp)
        BY <2>1, FormatFacts
    <2> HIDE DEF printed
    <2>3. IF again.err = ""
          THEN again = Accept(again.v) /\ again.v \in Carried(signed) /\ Denotes(printed, again.v, scaleExp)
          ELSE \A x \in Carried(signed) : ~Denotes(printed, x, scaleExp)
        BY <2>2, ParseFacts
    <2>4. /\ again = Accept(again.v) /\ again.v \in Carried(signed)
          /\ Denotes(printed, again.v, scaleExp)
        BY <2>1, <2>2, <2>3
    <2>5. again.v = v
        <3>1. Worth(printed) \in Int /\ printed.exp - printed.frac - scaleExp \in Int
            <4>1. /\ printed.digits \in Digits /\ printed.negative \in BOOLEAN
                  /\ printed.exp \in Int /\ printed.frac \in Nat
                BY <2>2 DEF IsText
            <4>2. Worth(printed) \in Int
                BY <4>1, WorthFacts
            <4>3. QED
                BY <4>1, <4>2
        <3>2. again.v \in Int /\ v \in Int
            BY <1>2, <2>1, <2>4
        <3>3. QED
            BY <2>2, <2>4, <3>1, <3>2, ScaledFacts, DenotesIsScaled
    <2>6. QED
        BY <2>1, <2>4, <2>5
<1>4. ParsedExactly(s, scaleExp, signed) <=>
          IF result.err = ""
          THEN v \in Carried(signed) /\ Denotes(s, v, scaleExp) /\ again = result
          ELSE s.kind = "number" => \A x \in Carried(signed) : ~Denotes(s, x, scaleExp)
    BY DEF ParsedExactly, Carried
<1> HIDE DEF result, v, printed, again
<1>5. QED
    BY <1>1, <1>3, <1>4

-----------------------------------------------------------------------------
(***************************************************************************)
(* PlanSubscriptions                                                       *)
(***************************************************************************)

\* What a set is listed as holds each of its elements once.
LEMMA Listed ==
    ASSUME NEW S, IsFiniteSet(S)
    PROVE  /\ SetToSeq(S) \in Seq(S) /\ Len(SetToSeq(S)) \in Nat
           /\ \A x \in S : \E n \in 1..Len(SetToSeq(S)) : SetToSeq(S)[n] = x
           /\ \A m, n \in 1..Len(SetToSeq(S)) : SetToSeq(S)[m] = SetToSeq(S)[n] => m = n
           /\ S # {} => Len(SetToSeq(S)) > 0
<1> DEFINE N == Cardinality(S)
           list == SetToSeq(S)
<1>1. N \in Nat /\ ExistsBijection(1..N, S)
    BY FS_CardinalityType
<1> HIDE DEF N
<1>2. \E f \in [1..N -> S] : IsInjective(f)
    BY <1>1 DEF ExistsBijection, Bijection, Injection
<1>3. list \in [1..N -> S] /\ IsInjective(list)
    BY <1>2 DEF SetToSeq, N
<1> HIDE DEF list
<1>4. IsFiniteSet(1..N) /\ Cardinality(1..N) = N
    BY <1>1, FS_Interval
<1>5. list \in Surjection(1..N, S)
    <2>1. list \in Injection(1..N, S)
        BY <1>3 DEF Injection
    <2>2. Cardinality(1..N) = Cardinality(S)
        BY <1>4 DEF N
    <2>3. QED
        BY <2>1, <2>2, FS_Injection
<1>6. list \in Seq(S) /\ Len(list) = N
    BY <1>1, <1>3
<1>7. \A x \in S : \E n \in 1..N : list[n] = x
    BY <1>5 DEF Surjection
<1>8. \A m, n \in 1..N : list[m] = list[n] => m = n
    BY <1>3 DEF IsInjective
<1>9. S # {} => N > 0
    BY <1>1, <1>7
<1>10. QED
    BY <1>1, <1>6, <1>7, <1>8, <1>9 DEF list

\* max to a chunk: no chunk is empty or overfull, and each place is in one.
Low(k, max) == (k - 1) * max + 1
High(k, max, length) == Min({k * max, length})
Chunks(max, length) == (length + max - 1) \div max

LEMMA Chunked ==
    ASSUME NEW length \in Nat, NEW max \in Nat \ {0}
    PROVE  /\ Chunks(max, length) \in Nat
           /\ \A k \in 1..Chunks(max, length) :
                  /\ Low(k, max) \in 1..length
                  /\ High(k, max, length) \in Low(k, max)..length
                  /\ High(k, max, length) - Low(k, max) + 1 \in 1..max
           /\ \A n \in 1..length : \E k \in 1..Chunks(max, length) :
                  n \in Low(k, max)..High(k, max, length)
           /\ \A j, k \in 1..Chunks(max, length), n \in 1..length :
                  n \in Low(j, max)..High(j, max, length) /\ n \in Low(k, max)..High(k, max, length)
                  => j = k
<1> DEFINE N == Chunks(max, length)
           r == (length + max - 1) % max
<1>1. N \in Nat /\ r \in 0..(max - 1) /\ length + max - 1 = max * N + r
    BY DEF Chunks
<1> HIDE DEF N, r
<1>2. \A k \in Nat : High(k, max, length) \in Int /\ Low(k, max) \in Int
                     /\ High(k, max, length) = IF k * max <= length THEN k * max ELSE length
    <2>1. ASSUME NEW k \in Nat
          PROVE  High(k, max, length) = IF k * max <= length THEN k * max ELSE length
        <3> DEFINE a == k * max
        <3>1. a \in Int
            OBVIOUS
        <3> HIDE DEF a
        <3>2. Min({a, length}) = IF a <= length THEN a ELSE length
            BY <3>1 DEF Min
        <3>3. QED
            BY <3>2 DEF High, a
    <2>2. QED
        BY <2>1 DEF Low
<1>3. \A k \in Nat : k * max \in Int /\ (k - 1) * max = k * max - max
    OBVIOUS
<1>4. ASSUME NEW k \in 1..N
      PROVE  /\ Low(k, max) \in 1..length
             /\ High(k, max, length) \in Low(k, max)..length
             /\ High(k, max, length) - Low(k, max) + 1 \in 1..max
    <2> DEFINE a == k * max
    <2>1. k \in Nat /\ a \in Int /\ (k - 1) * max = a - max /\ a >= max
        BY <1>1, <1>3
    <2>2. a <= max * N
        BY <1>1
    <2>3. High(k, max, length) = IF a <= length THEN a ELSE length
        BY <1>2, <2>1
    <2>4. Low(k, max) = a - max + 1
        BY <2>1 DEF Low
    <2> HIDE DEF a
    <2>5. max * N \in Int
        BY <1>1
    <2>6. a - max + 1 <= length
        BY <1>1, <2>1, <2>2, <2>5
    <2>7. QED
        BY <2>1, <2>3, <2>4, <2>6
<1>5. ASSUME NEW n \in 1..length
      PROVE  \E k \in 1..N : n \in Low(k, max)..High(k, max, length)
    <2> DEFINE q == (n - 1) \div max
               b == (n - 1) % max
    <2>1. q \in Nat /\ b \in 0..(max - 1) /\ n - 1 = max * q + b
        OBVIOUS
    <2> HIDE DEF q, b
    <2>2. max * q \in Int /\ (q + 1) * max = max * q + max /\ q + 1 \in Nat /\ (q + 1) - 1 = q
        BY <2>1
    <2>3. q + 1 \in 1..N
        <3>1. max * (q + 1) < max * (N + 1)
            <4>1. max * (q + 1) = max * q + max /\ max * (N + 1) = max * N + max /\ max * N \in Int
                BY <1>1, <2>1
            <4>2. QED
                BY <1>1, <2>1, <2>2, <4>1
        <3>2. \A x, y \in Nat : max * x < max * y => x < y
            OBVIOUS
        <3>3. q + 1 < N + 1
            BY <1>1, <2>2, <3>1, <3>2
        <3>4. QED
            BY <1>1, <2>1, <3>3
    <2>4. Low(q + 1, max) = max * q + 1
        BY <2>1, <2>2 DEF Low
    <2>5. High(q + 1, max, length) = IF max * q + max <= length THEN max * q + max ELSE length
        BY <1>2, <2>2
    <2>6. n \in Low(q + 1, max)..High(q + 1, max, length)
        BY <2>1, <2>2, <2>4, <2>5
    <2>7. QED
        BY <2>3, <2>6
<1>6. ASSUME NEW j \in 1..N, NEW k \in 1..N, NEW n \in 1..length,
             n \in Low(j, max)..High(j, max, length), n \in Low(k, max)..High(k, max, length)
      PROVE  j = k
    <2>1. \A i \in 1..N : n \in Low(i, max)..High(i, max, length)
                          => i * max - max + 1 <= n /\ n <= i * max
        BY <1>1, <1>2, <1>3 DEF Low
    <2>2. j * max - max + 1 <= n /\ n <= j * max /\ k * max - max + 1 <= n /\ n <= k * max
        BY <1>6, <2>1
    <2>3. j * max < k * max + max /\ k * max < j * max + max
        BY <1>1, <1>3, <2>2
    <2>4. \A x, y \in Nat : x * max < y * max + max => x <= y
        <3>1. ASSUME NEW x \in Nat, NEW y \in Nat, x * max < y * max + max PROVE x <= y
            <4>1. (x - y) * max < max
                BY <3>1
            <4>2. x - y < 1
                BY <4>1
            <4>3. QED
                BY <4>2
        <3>2. QED
            BY <3>1
    <2>5. QED
        BY <1>1, <2>3, <2>4
<1>7. QED
    BY <1>1, <1>4, <1>5, <1>6 DEF N

\* A plan whose symbols all belong to its streams asks for all of them, in order.
LEMMA AllAsked ==
    ASSUME NEW a, NEW plan, NEW S, plan.symbols \in Seq(S),
           \A n \in 1..Len(plan.symbols) :
               plan.symbols[n] \in {VenueSymbol(a, s.instrument) : s \in plan.specifications}
    PROVE  topics(a, plan) = plan.symbols
<1> DEFINE symbols == plan.symbols
           asked == {VenueSymbol(a, s.instrument) : s \in plan.specifications}
           Solves(f) == f = [n \in 0..Len(symbols) |->
                                IF n = 0 THEN <<>>
                                ELSE IF symbols[n] \in asked THEN Append(f[n - 1], symbols[n])
                                ELSE f[n - 1]]
           g == CHOOSE f : Solves(f)
           u == [n \in 0..Len(symbols) |-> SubSeq(symbols, 1, n)]
           P == {n \in Nat : n <= Len(symbols) => g[n] = u[n]}
<1>1. topics(a, plan) = g[Len(symbols)]
    BY DEF topics
<1>2. symbols \in Seq(S) /\ Len(symbols) \in Nat /\ \A n \in 1..Len(symbols) : symbols[n] \in asked
    OBVIOUS
<1> HIDE DEF symbols, asked
<1>3. u[0] = <<>> /\ u[Len(symbols)] = symbols
    BY <1>2
<1>4. ASSUME NEW n \in 1..Len(symbols) PROVE u[n] = Append(u[n - 1], symbols[n])
    <2>1. n - 1 \in 0..Len(symbols) /\ n \in 0..Len(symbols) /\ n - 1 \in Nat /\ (n - 1) + 1 = n
        BY <1>2
    <2>2. SubSeq(symbols, 1, n) = Append(SubSeq(symbols, 1, n - 1), symbols[n])
        BY <1>2, <2>1
    <2>3. QED
        BY <2>1, <2>2
<1> HIDE DEF u
<1>5. Solves(u)
    <2>1. ASSUME NEW n \in 0..Len(symbols)
          PROVE  u[n] = IF n = 0 THEN <<>>
                        ELSE IF symbols[n] \in asked THEN Append(u[n - 1], symbols[n])
                        ELSE u[n - 1]
        <3>1. CASE n = 0
            BY <1>3, <3>1
        <3>2. CASE n # 0
            <4>1. n \in 1..Len(symbols)
                BY <1>2, <3>2
            <4>2. QED
                BY <1>2, <1>4, <3>2, <4>1
        <3>3. QED
            BY <3>1, <3>2
    <2>2. u = [n \in 0..Len(symbols) |-> u[n]]
        BY DEF u
    <2>3. QED
        BY <2>1, <2>2
<1>6. Solves(g)
    <2> HIDE DEF Solves
    <2>1. QED
        BY <1>5
<1> HIDE DEF g
<1>7. \A n \in Nat : n \in P
    <2>1. 0 \in P
        <3>1. 0 \in 0..Len(symbols)
            BY <1>2
        <3>2. g[0] = <<>>
            BY <1>6, <3>1
        <3>3. QED
            BY <1>3, <3>2
    <2>2. ASSUME NEW n \in Nat, n \in P PROVE n + 1 \in P
        <3>1. SUFFICES ASSUME n + 1 <= Len(symbols) PROVE g[n + 1] = u[n + 1]
            OBVIOUS
        <3>2. n + 1 \in 0..Len(symbols) /\ n + 1 \in 1..Len(symbols) /\ n + 1 # 0
              /\ (n + 1) - 1 = n /\ n <= Len(symbols)
            BY <1>2, <3>1
        <3>3. g[n] = u[n]
            BY <2>2, <3>2
        <3>4. g[n + 1] = Append(g[n], symbols[n + 1])
            BY <1>2, <1>6, <3>2
        <3>5. u[n + 1] = Append(u[n], symbols[n + 1])
            BY <1>4, <3>2
        <3>6. QED
            BY <3>3, <3>4, <3>5
    <2> HIDE DEF P
    <2>3. QED
        BY <2>1, <2>2, Induction
<1>8. g[Len(symbols)] = u[Len(symbols)]
    BY <1>2, <1>7
<1>9. QED
    BY <1>1, <1>3, <1>8 DEF symbols

\* What the plans of an adapter for a set of streams come to.
Divided(a, specifications, plans) ==
    /\ \A k \in DOMAIN plans :
           /\ topics(a, plans[k]) \in Seq({VenueSymbol(a, s.instrument) : s \in specifications})
           /\ Len(topics(a, plans[k])) \in 1..a.options.max
           /\ plans[k].specifications
              = {s \in specifications : VenueSymbol(a, s.instrument) \in ToSet(topics(a, plans[k]))}
    /\ \A s \in specifications : \E k \in DOMAIN plans : s \in plans[k].specifications
    /\ \A j, k \in DOMAIN plans :
           j # k => ToSet(topics(a, plans[j])) \cap ToSet(topics(a, plans[k])) = {}

\* What PlanSubscriptions answers: every symbol is on one socket, with all of its
\* streams, and no socket has none or too many.
LEMMA Planned ==
    ASSUME NEW a, NEW specifications, IsFiniteSet(specifications), a.options.max \in Nat \ {0}
    PROVE  Divided(a, specifications, PlanSubscriptions(a, specifications))
<1> DEFINE plans == PlanSubscriptions(a, specifications)
           Called == {VenueSymbol(a, s.instrument) : s \in specifications}
           symbols == SetToSeq(Called)
           max == a.options.max
           N == Chunks(max, Len(symbols))
           Chunk(k) == SubSeq(symbols, Low(k, max), High(k, max, Len(symbols)))
           Plan(k) == [symbols |-> Chunk(k),
                       specifications |->
                           {s \in specifications : VenueSymbol(a, s.instrument) \in ToSet(Chunk(k))}]
<1>1. plans = [k \in 1..N |-> Plan(k)]
    BY DEF PlanSubscriptions, Sorted, Low, High, Chunks
<1>2. IsFiniteSet(Called)
    <2> DEFINE f == [s \in specifications |-> VenueSymbol(a, s.instrument)]
    <2>1. f \in Surjection(specifications, Called)
        BY DEF Surjection
    <2>2. QED
        BY <2>1, FS_Surjection
<1> HIDE DEF Called
<1>3. /\ symbols \in Seq(Called) /\ Len(symbols) \in Nat
      /\ \A x \in Called : \E n \in 1..Len(symbols) : symbols[n] = x
      /\ \A m, n \in 1..Len(symbols) : symbols[m] = symbols[n] => m = n
    BY <1>2, Listed
<1> HIDE DEF symbols
<1>4. max \in Nat \ {0}
    OBVIOUS
<1> HIDE DEF max
<1>5. /\ N \in Nat
      /\ \A k \in 1..N :
             /\ Low(k, max) \in 1..Len(symbols)
             /\ High(k, max, Len(symbols)) \in Low(k, max)..Len(symbols)
             /\ High(k, max, Len(symbols)) - Low(k, max) + 1 \in 1..max
      /\ \A n \in 1..Len(symbols) : \E k \in 1..N : n \in Low(k, max)..High(k, max, Len(symbols))
      /\ \A j, k \in 1..N, n \in 1..Len(symbols) :
             n \in Low(j, max)..High(j, max, Len(symbols)) /\ n \in Low(k, max)..High(k, max, Len(symbols))
             => j = k
    BY <1>3, <1>4, Chunked
<1> HIDE DEF N
<1>6. ASSUME NEW k \in 1..N
      PROVE  /\ Chunk(k) \in Seq(Called) /\ Len(Chunk(k)) \in 1..max
             /\ ToSet(Chunk(k)) = {symbols[n] : n \in Low(k, max)..High(k, max, Len(symbols))}
             /\ topics(a, Plan(k)) = Chunk(k)
    <2> DEFINE first == Low(k, max)
               last == High(k, max, Len(symbols))
    <2>1. first \in 1..Len(symbols) /\ last \in first..Len(symbols) /\ last - first + 1 \in 1..max
        BY <1>5
    <2> HIDE DEF first, last
    <2> DEFINE chunk == SubSeq(symbols, first, last)
    <2>2. /\ chunk \in Seq(Called) /\ Len(chunk) = last - first + 1
          /\ \A n \in 1..(last - first + 1) : chunk[n] = symbols[first + n - 1]
        <3>1. /\ \A n \in first..last : symbols[n] \in Called
              /\ first \in Int /\ last \in Int /\ first <= last
            <4>1. first \in Int /\ last \in Int /\ first <= last /\ \A n \in first..last : n \in 1..Len(symbols)
                BY <1>3, <2>1
            <4>2. \A n \in 1..Len(symbols) : symbols[n] \in Called
                BY <1>3
            <4>3. QED
                BY <4>1, <4>2
        <3>2. /\ SubSeq(symbols, first, last) \in Seq(Called)
              /\ Len(SubSeq(symbols, first, last)) = IF first <= last THEN last - first + 1 ELSE 0
              /\ \A n \in 1..(last - first + 1) :
                     SubSeq(symbols, first, last)[n] = symbols[first + n - 1]
            BY <3>1, SubSeqProperties
        <3>3. QED
            BY <3>1, <3>2
    <2>3. Chunk(k) = chunk
        BY DEF first, last
    <2> HIDE DEF chunk
    <2>4. ToSet(chunk) = {symbols[n] : n \in first..last}
        <3>1. DOMAIN chunk = 1..(last - first + 1)
            BY <2>2
        <3>2. \A n \in first..last : n - first + 1 \in 1..(last - first + 1) /\ first + (n - first + 1) - 1 = n
            BY <2>1
        <3>3. \A n \in 1..(last - first + 1) : first + n - 1 \in first..last
            BY <2>1
        <3>4. ASSUME NEW n \in first..last PROVE symbols[n] \in ToSet(chunk)
            <4>1. n - first + 1 \in DOMAIN chunk /\ chunk[n - first + 1] = symbols[n]
                BY <2>2, <3>1, <3>2
            <4>2. QED
                BY <4>1 DEF ToSet
        <3>5. ASSUME NEW n \in DOMAIN chunk PROVE chunk[n] \in {symbols[m] : m \in first..last}
            BY <2>2, <3>1, <3>3
        <3>6. QED
            BY <3>4, <3>5 DEF ToSet
    <2>5. topics(a, Plan(k)) = chunk
        <3>1. Plan(k).symbols = chunk
              /\ Plan(k).specifications = {s \in specifications : VenueSymbol(a, s.instrument) \in ToSet(chunk)}
            BY <2>3
        <3> HIDE DEF Plan
        <3>2. ASSUME NEW n \in 1..Len(chunk)
              PROVE  chunk[n] \in {VenueSymbol(a, s.instrument) : s \in Plan(k).specifications}
            <4>1. chunk[n] \in Called /\ chunk[n] \in ToSet(chunk)
                BY <2>2 DEF ToSet
            <4>2. PICK s \in specifications : VenueSymbol(a, s.instrument) = chunk[n]
                BY <4>1 DEF Called
            <4>3. QED
                BY <3>1, <4>1, <4>2
        <3>3. QED
            BY <2>2, <3>1, <3>2, AllAsked
    <2> QED
        BY <2>5, <2>4, <2>3, <2>2, <2>1 DEF first, last
<1> HIDE DEF Chunk
<1>7. /\ DOMAIN plans = 1..N
      /\ \A k \in 1..N : topics(a, plans[k]) = Chunk(k)
      /\ \A k \in 1..N : plans[k].specifications
                         = {s \in specifications : VenueSymbol(a, s.instrument) \in ToSet(Chunk(k))}
    BY <1>1, <1>6
<1> HIDE DEF Plan, plans
<1>8. ASSUME NEW s \in specifications
      PROVE  \E k \in DOMAIN plans : s \in plans[k].specifications
    <2>1. VenueSymbol(a, s.instrument) \in Called
        BY DEF Called
    <2>2. PICK n \in 1..Len(symbols) : symbols[n] = VenueSymbol(a, s.instrument)
        BY <1>3, <2>1
    <2>3. PICK k \in 1..N : n \in Low(k, max)..High(k, max, Len(symbols))
        BY <1>5
    <2>4. VenueSymbol(a, s.instrument) \in ToSet(Chunk(k))
        BY <1>6, <2>2, <2>3
    <2>5. QED
        BY <1>7, <2>4
<1>9. ASSUME NEW j \in 1..N, NEW k \in 1..N, NEW x, x \in ToSet(Chunk(j)), x \in ToSet(Chunk(k))
      PROVE  j = k
    <2>1. PICK m \in Low(j, max)..High(j, max, Len(symbols)) : symbols[m] = x
        BY <1>6, <1>9
    <2>2. PICK n \in Low(k, max)..High(k, max, Len(symbols)) : symbols[n] = x
        BY <1>6, <1>9
    <2>3. m \in 1..Len(symbols) /\ n \in 1..Len(symbols)
        <3>1. \A i \in 1..N : \A l \in Low(i, max)..High(i, max, Len(symbols)) : l \in 1..Len(symbols)
            <4>1. SUFFICES ASSUME NEW i \in 1..N, NEW l \in Low(i, max)..High(i, max, Len(symbols))
                           PROVE  l \in 1..Len(symbols)
                OBVIOUS
            <4>2. Low(i, max) \in 1..Len(symbols) /\ High(i, max, Len(symbols)) \in Low(i, max)..Len(symbols)
                BY <1>5
            <4>3. QED
                BY <1>3, <4>2
        <3>2. QED
            BY <2>1, <2>2, <3>1
    <2>4. m = n
        BY <1>3, <2>1, <2>2, <2>3
    <2>5. QED
        BY <1>5, <2>1, <2>2, <2>3, <2>4
<1>10. ASSUME NEW k \in DOMAIN plans
       PROVE  /\ topics(a, plans[k]) \in Seq(Called)
              /\ Len(topics(a, plans[k])) \in 1..max
              /\ plans[k].specifications
                 = {s \in specifications : VenueSymbol(a, s.instrument) \in ToSet(topics(a, plans[k]))}
    BY <1>6, <1>7
<1>11. ASSUME NEW j \in DOMAIN plans, NEW k \in DOMAIN plans, j # k
       PROVE  ToSet(topics(a, plans[j])) \cap ToSet(topics(a, plans[k])) = {}
    BY <1>7, <1>9, <1>11
<1>12. QED
    BY <1>8, <1>10, <1>11 DEF plans, Called, max, Divided

-----------------------------------------------------------------------------
(***************************************************************************)
(* FetchMetadata                                                           *)
(***************************************************************************)

\* An operator of its own, for the SMT backend cannot take an empty string.
Succeeded(outcome) == outcome.err = ""

\* A result without an error has every number.
LEMMA AllOrNothingFacts ==
    ASSUME NEW results, NEW Messages, NEW outcome, outcome = AllOrNothing(results, Messages),
           Succeeded(outcome) \/ outcome.messages # {}
    PROVE  outcome = Parsed(Messages) /\ \A n \in DOMAIN results : Succeeded(results[n])
<1> DEFINE failed == {n \in DOMAIN results : results[n].err # ""}
<1>1. ASSUME NEW err PROVE numericError(err).err # "" /\ numericError(err).messages = {}
    BY DEF numericError, Failed
<1>2. outcome = IF failed = {} THEN Parsed(Messages) ELSE numericError(results[Min(failed)].err)
    BY DEF AllOrNothing
<1> HIDE DEF failed
<1>3. failed = {}
    BY <1>1, <1>2 DEF Succeeded
<1>4. QED
    BY <1>2, <1>3 DEF failed, Succeeded

LEMMA CheckedFacts ==
    ASSUME NEW reference, NEW c, NEW numbers, NEW multiplier,
           NEW outcome, outcome = Checked(reference, c, numbers, multiplier), Succeeded(outcome)
    PROVE  /\ \A n \in DOMAIN numbers : Succeeded(numbers[n])
           /\ Usable(numbers[1].v, numbers[2].v, multiplier)
           /\ outcome.messages = {Listing(reference, c, numbers[1].v, numbers[2].v, multiplier)}
<1> DEFINE One == {Listing(reference, c, numbers[1].v, numbers[2].v, multiplier)}
<1>1. outcome # Failed("field")
    <2>1. Failed("field").err = "field"
        BY DEF Failed
    <2>2. QED
        BY <2>1 DEF Succeeded
<1>2. /\ outcome = AllOrNothing(numbers, One)
      /\ (\A n \in DOMAIN numbers : Succeeded(numbers[n]))
         => Usable(numbers[1].v, numbers[2].v, multiplier)
    BY <1>1 DEF Checked, Succeeded
<1> HIDE DEF One
<1>3. outcome = Parsed(One) /\ \A n \in DOMAIN numbers : Succeeded(numbers[n])
    BY <1>2, AllOrNothingFacts
<1>4. outcome.messages = One
    <2>1. Parsed(One).messages = One
        BY DEF Parsed
    <2>2. QED
        BY <1>3, <2>1
<1>5. QED
    BY <1>2, <1>3, <1>4 DEF One

\* A number that may be left out and is not zero was written.
LEMMA OrZeroFacts ==
    ASSUME NEW text \in Decimals, NEW number, number = OrZero(text, ParsePrice(text)),
           Succeeded(number), number.v # 0
    PROVE  Denotes(text, number.v, PriceExp)
<1>1. text # ErrEmpty /\ number = parse(text, PriceExp, FALSE)
    BY DEF OrZero, Accept, ParsePrice
<1>2. ParsedExactly(text, PriceExp, FALSE)
    BY PriceAssumption, ParseExact
<1>3. QED
    BY <1>1, <1>2 DEF ParsedExactly, Succeeded

\* What a contract yields can be traded on and has the tick that was listed.
LEMMA ContractFacts ==
    ASSUME NEW a, a.venue \in {"BINANCE", "KUCOIN"}, NEW c, c.tick \in Decimals,
           NEW outcome, outcome = instrumentMetadata(a, c), Succeeded(outcome)
    PROVE  \E m : /\ outcome.messages = {m}
                  /\ m.tick > 0 /\ m.lot > 0 /\ m.multiplier > 0
                  /\ m.instrument = ParseVenueSymbol(a, c.symbol) /\ Denotes(c.tick, m.tick, PriceExp)
<1> DEFINE reference == ParseVenueSymbol(a, c.symbol)
           tick == OrZero(c.tick, ParsePrice(c.tick))
<1>1. PICK numbers, multiplier :
            /\ outcome = Checked(reference, c, numbers, multiplier)
            /\ 1 \in DOMAIN numbers /\ numbers[1] = tick
    <2>1. CASE a.venue = "BINANCE"
        <3> DEFINE numbers == <<tick, OrZero(c.lot, ParseSize(c.lot)), OrZero(c.limit, ParseSize(c.limit)),
                                OrZero(c.notional, ParsePrice(c.notional))>>
        <3>1. outcome = Checked(reference, c, numbers, linearContractMultiplier)
            BY <2>1 DEF instrumentMetadata, instrumentMetadataBinance
        <3> HIDE DEF tick
        <3>2. 1 \in DOMAIN numbers /\ numbers[1] = tick
            <4>1. \A x1, x2, x3, x4 : 1 \in DOMAIN <<x1, x2, x3, x4>> /\ <<x1, x2, x3, x4>>[1] = x1
                OBVIOUS
            <4>2. QED
                BY <4>1, Zenon
        <3> HIDE DEF numbers
        <3>3. QED
            BY <3>1, <3>2
    <2>2. CASE a.venue = "KUCOIN"
        <3> DEFINE multiplier == OrZero(c.multiplier, ParseSize(c.multiplier))
                   numbers == <<tick, OrZero(c.lot, ParseSize(c.lot)), OrZero(c.limit, ParseSize(c.limit)), multiplier>>
        <3>1. outcome = Checked(reference, c, numbers, multiplier.v)
            BY <2>2 DEF instrumentMetadata, instrumentMetadataKuCoin
        <3> HIDE DEF tick, multiplier
        <3>2. 1 \in DOMAIN numbers /\ numbers[1] = tick
            <4>1. \A x1, x2, x3, x4 : 1 \in DOMAIN <<x1, x2, x3, x4>> /\ <<x1, x2, x3, x4>>[1] = x1
                OBVIOUS
            <4>2. QED
                BY <4>1, Zenon
        <3> HIDE DEF numbers
        <3>3. QED
            BY <3>1, <3>2
    <2>3. QED
        BY <2>1, <2>2
<1> HIDE DEF reference, tick
<1>2. /\ Succeeded(tick) /\ Usable(tick.v, numbers[2].v, multiplier)
      /\ outcome.messages = {Listing(reference, c, tick.v, numbers[2].v, multiplier)}
    <2>1. /\ \A n \in DOMAIN numbers : Succeeded(numbers[n])
          /\ Usable(numbers[1].v, numbers[2].v, multiplier)
          /\ outcome.messages = {Listing(reference, c, numbers[1].v, numbers[2].v, multiplier)}
        BY <1>1, CheckedFacts
    <2>2. QED
        BY <1>1, <2>1, Zenon
<1>3. tick.v > 0 /\ numbers[2].v > 0 /\ multiplier > 0
    BY <1>2 DEF Usable
<1>4. Denotes(c.tick, tick.v, PriceExp)
    <2>1. tick = OrZero(c.tick, ParsePrice(c.tick))
        BY DEF tick
    <2>2. tick.v # 0
        <3>1. ~(0 > 0)
            OBVIOUS
        <3>2. QED
            BY <1>3, <3>1, Zenon
    <2>3. QED
        BY <1>2, <2>1, <2>2, OrZeroFacts
<1> DEFINE m == Listing(reference, c, tick.v, numbers[2].v, multiplier)
<1>5. /\ m.tick = tick.v /\ m.lot = numbers[2].v /\ m.multiplier = multiplier
      /\ m.instrument = reference
    BY DEF Listing
<1> HIDE DEF m
<1>6. outcome.messages = {m}
    BY <1>2 DEF m
<1>7. QED
    BY <1>3, <1>4, <1>5, <1>6 DEF reference

\* A refresh that succeeds has what every contract that is an instrument yields.
LEMMA CollectFacts ==
    ASSUME NEW a, NEW contracts, NEW outcome, outcome = Collect(a, contracts), Succeeded(outcome)
    PROVE  LET ours == {c \in contracts : ParseVenueSymbol(a, c.symbol) # NoRef}
           IN  /\ outcome.messages = UNION {instrumentMetadata(a, c).messages : c \in ours}
               /\ \A c \in ours : Succeeded(instrumentMetadata(a, c))
<1> DEFINE ours == {c \in contracts : ParseVenueSymbol(a, c.symbol) # NoRef}
           wrong == {c \in ours : instrumentMetadata(a, c).err # ""}
           found == UNION {instrumentMetadata(a, c).messages : c \in ours}
           one == CHOOSE c \in wrong : TRUE
<1>1. outcome = IF ours = {} THEN Failed("field")
                ELSE IF wrong # {} THEN instrumentMetadata(a, one) ELSE Parsed(found)
    BY DEF Collect
<1>2. wrong # {} => instrumentMetadata(a, one).err # ""
    <2>1. wrong # {} => one \in wrong
        OBVIOUS
    <2>2. QED
        BY <2>1
<1>3. Failed("field").err # "" /\ Parsed(found).messages = found
    BY DEF Failed, Parsed
<1>4. wrong = {} /\ outcome.messages = found
    <2> HIDE DEF wrong, found, one, ours
    <2>1. QED
        BY <1>1, <1>2, <1>3 DEF Succeeded
<1>5. QED
    BY <1>4 DEF Succeeded

\* What is not an error is what the loop collects.
LEMMA FetchedFacts ==
    ASSUME NEW a, a.venue \in Venues, NEW r, NEW outcome, outcome = FetchMetadata(a, r), Succeeded(outcome)
    PROVE  outcome = Collect(a, IF a.venue = "TABDEAL" THEN r.contracts ELSE Linear(r.contracts))
<1>1. \A err : Failed(err).err = err
    BY DEF Failed
<1>2. \A err : outcome = Failed(err) => err = ""
    BY <1>1 DEF Succeeded
<1>3. "call" # "" /\ "field" # ""
    OBVIOUS
<1>4. CASE a.venue = "BINANCE"
    <2>1. outcome = FetchMetadataBinance(a, r)
        BY <1>4 DEF FetchMetadata
    <2>2. outcome = Collect(a, Linear(r.contracts))
        BY <1>2, <1>3, <2>1, Zenon DEF FetchMetadataBinance
    <2>3. QED
        BY <1>4, <2>2
<1>5. CASE a.venue = "KUCOIN"
    <2>1. outcome = FetchMetadataKuCoin(a, r)
        BY <1>5 DEF FetchMetadata
    <2>2. outcome = Collect(a, Linear(r.contracts))
        BY <1>2, <1>3, <2>1, Zenon DEF FetchMetadataKuCoin
    <2>3. QED
        BY <1>5, <2>2
<1>6. CASE a.venue = "TABDEAL"
    <2>1. outcome = FetchMetadataTabdeal(a, r)
        BY <1>6 DEF FetchMetadata
    <2>2. outcome = Collect(a, r.contracts)
        BY <1>2, <1>3, <2>1, Zenon DEF FetchMetadataTabdeal
    <2>3. QED
        BY <1>6, <2>2
<1>7. QED
    BY <1>4, <1>5, <1>6 DEF Venues

\* Tabdeal's contracts always yield one message, for their instrument.
LEMMA TabdealContract ==
    ASSUME NEW a, a.venue = "TABDEAL", NEW c
    PROVE  \E m : /\ instrumentMetadata(a, c).messages = {m}
                  /\ m.instrument = ParseVenueSymbol(a, c.symbol)
<1> DEFINE reference == ParseVenueSymbol(a, c.symbol)
           tick == ParsePrice(Places(c.places)).v
           lot == ParseSize(Places(c.places)).v
           m == Listing(reference, c, tick, lot, linearContractMultiplier)
<1>1. instrumentMetadata(a, c) = Parsed({m})
    BY DEF instrumentMetadata, instrumentMetadataTabdeal
<1> HIDE DEF reference, tick, lot
<1>2. m.instrument = reference
    BY DEF Listing
<1> HIDE DEF m
<1>3. Parsed({m}).messages = {m}
    BY DEF Parsed
<1>4. QED
    BY <1>1, <1>2, <1>3 DEF reference

\* A refresh that succeeds has a message for each contract that is of the market and an
\* instrument; on Binance and KuCoin a tradable one.
LEMMA RefreshFacts ==
    ASSUME NEW a, a.venue \in Venues, NEW r, \A c \in r.contracts : c.tick \in Decimals,
           NEW outcome, outcome = FetchMetadata(a, r), Succeeded(outcome),
           NEW c \in r.contracts, a.venue = "TABDEAL" \/ c.linear, ParseVenueSymbol(a, c.symbol) # NoRef
    PROVE  \E m \in outcome.messages :
               /\ m.instrument = ParseVenueSymbol(a, c.symbol)
               /\ a.venue \in {"BINANCE", "KUCOIN"} =>
                      m.tick > 0 /\ m.lot > 0 /\ m.multiplier > 0 /\ Denotes(c.tick, m.tick, PriceExp)
<1> DEFINE contracts == IF a.venue = "TABDEAL" THEN r.contracts ELSE Linear(r.contracts)
           ours == {d \in contracts : ParseVenueSymbol(a, d.symbol) # NoRef}
<1>1. c \in ours
    BY DEF Linear
<1>2. outcome = Collect(a, contracts)
    BY FetchedFacts
<1> HIDE DEF contracts
<1>3. /\ outcome.messages = UNION {instrumentMetadata(a, d).messages : d \in ours}
      /\ \A d \in ours : Succeeded(instrumentMetadata(a, d))
    BY <1>2, CollectFacts
<1> HIDE DEF ours
<1>4. \A m : instrumentMetadata(a, c).messages = {m} => m \in outcome.messages
    BY <1>1, <1>3
<1>5. CASE a.venue \in {"BINANCE", "KUCOIN"}
    <2>1. Succeeded(instrumentMetadata(a, c))
        BY <1>1, <1>3
    <2>2. PICK m : /\ instrumentMetadata(a, c).messages = {m}
                   /\ m.tick > 0 /\ m.lot > 0 /\ m.multiplier > 0
                   /\ m.instrument = ParseVenueSymbol(a, c.symbol) /\ Denotes(c.tick, m.tick, PriceExp)
        BY <1>5, <2>1, ContractFacts
    <2>3. m \in outcome.messages
        BY <1>4, <2>2
    <2>4. QED
        BY <2>2, <2>3, Zenon
<1>6. CASE a.venue = "TABDEAL"
    <2>1. PICK m : instrumentMetadata(a, c).messages = {m} /\ m.instrument = ParseVenueSymbol(a, c.symbol)
        BY <1>6, TabdealContract
    <2>2. m \in outcome.messages
        BY <1>4, <2>1
    <2>3. a.venue \notin {"BINANCE", "KUCOIN"}
        BY <1>6
    <2>4. QED
        BY <2>1, <2>2, <2>3, Zenon
<1>7. QED
    BY <1>5, <1>6 DEF Venues

-----------------------------------------------------------------------------
(***************************************************************************)
(* Parse and FetchOnce                                                     *)
(***************************************************************************)

\* What was read is what was written.
LEMMA NumberRead ==
    ASSUME NEW text \in Decimals, NEW scaleExp \in Int, scaleExp <= 0, NEW signed \in BOOLEAN,
           NEW number, number = parse(text, scaleExp, signed), Succeeded(number)
    PROVE  Denotes(text, number.v, scaleExp)
<1>1. ParsedExactly(text, scaleExp, signed)
    BY ParseExact
<1>2. QED
    BY <1>1 DEF ParsedExactly, Succeeded

\* A time that fits is carried as it is.
LEMMA Stamped ==
    ASSUME NEW ms \in Int, ms > 0, ms * Millisecond <= MaxInt
    PROVE  millisecondsToNanoseconds(ms) = ms * Millisecond /\ ms * Millisecond > 0
<1>1. \A m, k \in Nat : m > 0 /\ k > 0 => m * k \in Nat /\ m * k > 0
    OBVIOUS
<1>2. ms \in Nat /\ Millisecond \in Nat /\ Millisecond > 0 /\ MaxInt \in Nat
    BY PriceAssumption, TimestampAssumption
<1> DEFINE n == ms * Millisecond
<1>3. n \in Nat /\ n > 0 /\ n <= MaxInt
    BY <1>1, <1>2
<1> HIDE DEF n
<1>4. \A a, b \in Nat : b > 0 /\ a < b => a % b = a
    OBVIOUS
<1>5. /\ n + MaxInt + 1 \in Nat /\ 2 * (MaxInt + 1) \in Nat
      /\ 2 * (MaxInt + 1) > 0 /\ n + MaxInt + 1 < 2 * (MaxInt + 1)
    BY <1>2, <1>3
<1>6. (n + MaxInt + 1) % (2 * (MaxInt + 1)) = n + MaxInt + 1
    BY <1>4, <1>5
<1>7. Int64(n) = n
    BY <1>2, <1>3, <1>6 DEF Int64
<1>8. QED
    BY <1>3, <1>7 DEF n, millisecondsToNanoseconds

LEMMA MessageFacts ==
    ASSUME NEW a, NEW reference, NEW channel, NEW ms, NEW source, NEW value,
           NEW m, m = message(a, reference, channel, ms, source, value)
    PROVE  /\ m.specification = [instrument |-> reference, channel |-> channel]
           /\ m.specification.channel = channel /\ m.specification.instrument = reference
           /\ m.key = <<a.venue, reference.market, Canonical(reference), channel>>
           /\ m.exchangeTime = millisecondsToNanoseconds(ms)
           /\ m.source = source /\ m.value = value
<1>1. QED
    BY DEF message

\* KuCoin's two frames.
LEMMA MarkIndexFacts ==
    ASSUME NEW a, NEW reference, NEW f, {f.mark, f.index} \subseteq Decimals,
           NEW outcome, outcome = parseMarkIndex(a, reference, f), outcome.messages # {}
    PROVE  /\ ~timestampFails(f.time)
           /\ Denotes(f.mark, ParsePrice(f.mark).v, PriceExp)
           /\ Denotes(f.index, ParsePrice(f.index).v, PriceExp)
           /\ outcome.messages
              = {message(a, reference, "mark_price", f.time, "WEBSOCKET", ParsePrice(f.mark).v),
                 message(a, reference, "index_price", f.time, "WEBSOCKET", ParsePrice(f.index).v)}
<1> DEFINE mark == ParsePrice(f.mark)
           index == ParsePrice(f.index)
           Messages == {message(a, reference, "mark_price", f.time, "WEBSOCKET", mark.v),
                        message(a, reference, "index_price", f.time, "WEBSOCKET", index.v)}
<1>1. \A err : Failed(err).messages = {}
    BY DEF Failed
<1>2. outcome = AllOrNothing(<<mark, index>>, Messages) /\ ~timestampFails(f.time)
    BY <1>1, Zenon DEF parseMarkIndex
<1>3. mark = parse(f.mark, PriceExp, FALSE) /\ index = parse(f.index, PriceExp, FALSE)
    BY DEF ParsePrice
<1> HIDE DEF mark, index, Messages
<1>4. outcome = Parsed(Messages) /\ \A n \in DOMAIN <<mark, index>> : Succeeded(<<mark, index>>[n])
    BY <1>2, AllOrNothingFacts
<1>5. Succeeded(mark) /\ Succeeded(index)
    BY <1>4
<1>6. Denotes(f.mark, mark.v, PriceExp) /\ Denotes(f.index, index.v, PriceExp)
    BY <1>3, <1>5, NumberRead, PriceAssumption
<1>7. outcome.messages = Messages
    <2>1. Parsed(Messages).messages = Messages
        BY DEF Parsed
    <2>2. QED
        BY <1>4, <2>1
<1>8. QED
    BY <1>2, <1>6, <1>7 DEF mark, index, Messages

LEMMA FundingFacts ==
    ASSUME NEW a, NEW reference, NEW f, f.rate \in Decimals,
           NEW outcome, outcome = parseFunding(a, reference, f), outcome.messages # {}
    PROVE  /\ ~timestampFails(f.time) /\ f.rate # ErrEmpty
           /\ Denotes(f.rate, ParseRate(f.rate).v, RateExp)
           /\ outcome.messages
              = {message(a, reference, "funding", f.time, "WEBSOCKET", ParseRate(f.rate).v)}
<1> DEFINE rate == ParseRate(f.rate)
           Messages == {message(a, reference, "funding", f.time, "WEBSOCKET", rate.v)}
<1>1. (\A err : Failed(err).messages = {}) /\ Nothing.messages = {}
    BY DEF Failed, Nothing
<1>2. outcome = AllOrNothing(<<rate>>, Messages) /\ ~timestampFails(f.time) /\ f.rate # ErrEmpty
    BY <1>1, Zenon DEF parseFunding
<1>3. rate = parse(f.rate, RateExp, TRUE)
    BY DEF ParseRate
<1> HIDE DEF rate, Messages
<1>4. outcome = Parsed(Messages) /\ \A n \in DOMAIN <<rate>> : Succeeded(<<rate>>[n])
    BY <1>2, AllOrNothingFacts
<1>5. Succeeded(rate)
    BY <1>4
<1>6. Denotes(f.rate, rate.v, RateExp)
    BY <1>3, <1>5, NumberRead, PriceAssumption
<1>7. outcome.messages = Messages
    <2>1. Parsed(Messages).messages = Messages
        BY DEF Parsed
    <2>2. QED
        BY <1>4, <2>1
<1>8. QED
    BY <1>2, <1>6, <1>7 DEF rate, Messages

\* Binance's one frame.
LEMMA MarkPriceFacts ==
    ASSUME NEW a, NEW f, {f.mark, f.index, f.rate} \subseteq Decimals, f.time \in Int,
           NEW outcome, outcome = ParseBinance(a, f), outcome.messages # {}
    PROVE  LET reference == ParseVenueSymbol(a, f.symbol)
               Prices == {message(a, reference, "mark_price", f.time, "WEBSOCKET", ParsePrice(f.mark).v),
                          message(a, reference, "index_price", f.time, "WEBSOCKET", ParsePrice(f.index).v)}
               Rate == message(a, reference, "funding", f.time, "WEBSOCKET", ParseRate(f.rate).v)
           IN  /\ f.time > 0 /\ reference # NoRef
               /\ Denotes(f.mark, ParsePrice(f.mark).v, PriceExp)
               /\ Denotes(f.index, ParsePrice(f.index).v, PriceExp)
               /\ IF f.rate = ErrEmpty \/ f.next <= 0 THEN outcome.messages = Prices
                  ELSE /\ outcome.messages = Prices \cup {Rate}
                       /\ Denotes(f.rate, ParseRate(f.rate).v, RateExp)
<1> DEFINE reference == ParseVenueSymbol(a, f.symbol)
           mark == ParsePrice(f.mark)
           index == ParsePrice(f.index)
           rate == ParseRate(f.rate)
           Prices == {message(a, reference, "mark_price", f.time, "WEBSOCKET", mark.v),
                      message(a, reference, "index_price", f.time, "WEBSOCKET", index.v)}
           Rate == message(a, reference, "funding", f.time, "WEBSOCKET", rate.v)
           short == f.rate = ErrEmpty \/ f.next <= 0
<1>1. (\A err : Failed(err).messages = {}) /\ Nothing.messages = {}
    BY DEF Failed, Nothing
<1>2. /\ ~(f.time <= 0) /\ reference # NoRef
      /\ outcome = IF short THEN AllOrNothing(<<mark, index>>, Prices)
                   ELSE AllOrNothing(<<mark, index, rate>>, Prices \cup {Rate})
    BY <1>1, Zenon DEF ParseBinance
<1>3. /\ mark = parse(f.mark, PriceExp, FALSE) /\ index = parse(f.index, PriceExp, FALSE)
      /\ rate = parse(f.rate, RateExp, TRUE)
    BY DEF ParsePrice, ParseRate
<1> HIDE DEF mark, index, rate, Prices, Rate, reference, short
<1>4. \A Messages : Parsed(Messages).messages = Messages
    BY DEF Parsed
<1>5. ASSUME short
      PROVE  Succeeded(mark) /\ Succeeded(index) /\ outcome.messages = Prices
    <2>1. outcome = AllOrNothing(<<mark, index>>, Prices)
        BY <1>2, <1>5
    <2>2. outcome = Parsed(Prices) /\ \A n \in DOMAIN <<mark, index>> : Succeeded(<<mark, index>>[n])
        BY <2>1, AllOrNothingFacts
    <2>3. QED
        BY <1>4, <2>2
<1>6. ASSUME ~short
      PROVE  /\ Succeeded(mark) /\ Succeeded(index) /\ Succeeded(rate)
             /\ outcome.messages = Prices \cup {Rate}
    <2>1. outcome = AllOrNothing(<<mark, index, rate>>, Prices \cup {Rate})
        BY <1>2, <1>6
    <2>2. /\ outcome = Parsed(Prices \cup {Rate})
          /\ \A n \in DOMAIN <<mark, index, rate>> : Succeeded(<<mark, index, rate>>[n])
        BY <2>1, AllOrNothingFacts
    <2>3. QED
        BY <1>4, <2>2
<1>7. Denotes(f.mark, mark.v, PriceExp) /\ Denotes(f.index, index.v, PriceExp)
    BY <1>3, <1>5, <1>6, NumberRead, PriceAssumption
<1>8. ~short => Denotes(f.rate, rate.v, RateExp)
    BY <1>3, <1>6, NumberRead, PriceAssumption
<1>9. f.time > 0
    BY <1>2
<1>10. IF short THEN outcome.messages = Prices
       ELSE outcome.messages = Prices \cup {Rate} /\ Denotes(f.rate, rate.v, RateExp)
    BY <1>5, <1>6, <1>8
<1>11. QED
    BY <1>2, <1>7, <1>9, <1>10, Zenon DEF mark, index, rate, Prices, Rate, reference, short

Levels == Seq(Seq(Decimals))

\* The two numbers of a level.
LevelRead(level, read) ==
    /\ Denotes(level[1], read[1], PriceExp)
    /\ Denotes(level[2], read[2], SizeExp)

SideRead(side, read) ==
    Len(read) = Len(side) /\ DOMAIN read = DOMAIN side /\ \A n \in DOMAIN side : LevelRead(side[n], read[n])

Booked(a, reference, bids, asks, source, outcome) ==
    \E value, time :
        /\ outcome.messages = {message(a, reference, "orderbook", time, source, value)}
        /\ SideRead(bids, value.bids) /\ SideRead(asks, value.asks)

\* A book is there with every level of both its sides, or not at all.
LEMMA BookFacts ==
    ASSUME NEW a, NEW reference, NEW bids \in Levels, NEW asks \in Levels, NEW ms, NEW source,
           ~LevelsFail(bids), ~LevelsFail(asks),
           NEW outcome, outcome = book(a, reference, bids, asks, ms, source), outcome.messages # {}
    PROVE  Booked(a, reference, bids, asks, source, outcome)
<1> DEFINE levels == bids \o asks
           results == [n \in 1..(2 * Len(levels)) |->
                          LET level == levels[(n + 1) \div 2]
                          IN  IF n % 2 = 1 THEN ParsePrice(level[1]) ELSE ParseSize(level[2])]
           Read(level) == <<ParsePrice(level[1]).v, ParseSize(level[2]).v>>
           Side(side) == [n \in DOMAIN side |-> <<ParsePrice(side[n][1]).v, ParseSize(side[n][2]).v>>]
           value == [bids |-> Side(bids), asks |-> Side(asks)]
           time == IF ms <= 0 THEN 0 ELSE ms
           Messages == {message(a, reference, "orderbook", time, source, value)}
<1>1. outcome = AllOrNothing(results, Messages)
    BY DEF book
<1>2. value.bids = Side(bids) /\ value.asks = Side(asks)
    OBVIOUS
<1> HIDE DEF value, time
<1>3. outcome = Parsed(Messages) /\ \A n \in DOMAIN results : Succeeded(results[n])
    <2> HIDE DEF results, Messages
    <2>1. QED
        BY <1>1, AllOrNothingFacts
<1>4. outcome.messages = Messages
    <2> HIDE DEF Messages
    <2>1. Parsed(Messages).messages = Messages
        BY DEF Parsed
    <2>2. QED
        BY <1>3, <2>1
<1>5. /\ levels \in Levels /\ Len(levels) = Len(bids) + Len(asks)
      /\ Len(bids) \in Nat /\ Len(asks) \in Nat
      /\ \A n \in 1..Len(bids) : n \in 1..Len(levels) /\ levels[n] = bids[n]
      /\ \A n \in 1..Len(asks) : Len(bids) + n \in 1..Len(levels) /\ levels[Len(bids) + n] = asks[n]
    <2>1. \A b, c \in Seq(Seq(Decimals)) :
              /\ b \o c \in Seq(Seq(Decimals)) /\ Len(b \o c) = Len(b) + Len(c)
              /\ \A n \in 1..Len(b) : (b \o c)[n] = b[n]
              /\ \A n \in 1..Len(c) : (b \o c)[Len(b) + n] = c[n]
        BY ConcatProperties
    <2>2. /\ Len(bids) \in Nat /\ Len(asks) \in Nat
          /\ \A n \in 1..Len(bids) : n \in 1..(Len(bids) + Len(asks))
          /\ \A n \in 1..Len(asks) : Len(bids) + n \in 1..(Len(bids) + Len(asks))
        BY DEF Levels
    <2>3. QED
        BY <2>1, <2>2 DEF Levels
<1> HIDE DEF levels
<1>6. ASSUME NEW k \in 1..Len(levels)
      PROVE  Succeeded(ParsePrice(levels[k][1])) /\ Succeeded(ParseSize(levels[k][2]))
    <2>1. /\ 2 * k - 1 \in 1..(2 * Len(levels)) /\ 2 * k \in 1..(2 * Len(levels))
          /\ ((2 * k - 1) + 1) \div 2 = k /\ (2 * k + 1) \div 2 = k
          /\ (2 * k - 1) % 2 = 1 /\ (2 * k) % 2 = 0
        BY <1>5
    <2>2. results[2 * k - 1] = ParsePrice(levels[k][1]) /\ results[2 * k] = ParseSize(levels[k][2])
        BY <2>1
    <2>3. DOMAIN results = 1..(2 * Len(levels))
        OBVIOUS
    <2> HIDE DEF results
    <2>4. QED
        BY <1>3, <2>1, <2>2, <2>3
<1> HIDE DEF results
<1>7. \A side \in {bids, asks} : \A n \in 1..Len(side) :
          /\ Succeeded(ParsePrice(side[n][1])) /\ Succeeded(ParseSize(side[n][2]))
          /\ side[n] \in Seq(Decimals) /\ Len(side[n]) = 2
    <2>0. ASSUME NEW side \in Levels, ~LevelsFail(side), NEW n \in 1..Len(side)
          PROVE  side[n] \in Seq(Decimals) /\ Len(side[n]) = 2
        <3>1. DOMAIN side = 1..Len(side) /\ side[n] \in Seq(Decimals)
            BY <2>0 DEF Levels
        <3>2. QED
            BY <2>0, <3>1 DEF LevelsFail
    <2>1. ASSUME NEW n \in 1..Len(bids)
          PROVE  /\ Succeeded(ParsePrice(bids[n][1])) /\ Succeeded(ParseSize(bids[n][2]))
                 /\ bids[n] \in Seq(Decimals) /\ Len(bids[n]) = 2
        BY <1>5, <1>6, <2>0
    <2>2. ASSUME NEW n \in 1..Len(asks)
          PROVE  /\ Succeeded(ParsePrice(asks[n][1])) /\ Succeeded(ParseSize(asks[n][2]))
                 /\ asks[n] \in Seq(Decimals) /\ Len(asks[n]) = 2
        BY <1>5, <1>6, <2>0
    <2>3. QED
        BY <2>1, <2>2
<1>8. ASSUME NEW side \in {bids, asks} PROVE SideRead(side, Side(side))
    <2>1. side \in Levels /\ DOMAIN side = 1..Len(side) /\ Len(side) \in Nat
        BY DEF Levels
    <2>2. DOMAIN Side(side) = 1..Len(side) /\ Len(Side(side)) = Len(side)
        BY <2>1
    <2>3. ASSUME NEW n \in DOMAIN side PROVE LevelRead(side[n], Side(side)[n])
        <3>1. /\ Succeeded(ParsePrice(side[n][1])) /\ Succeeded(ParseSize(side[n][2]))
              /\ side[n][1] \in Decimals /\ side[n][2] \in Decimals
            <4>1. side[n] \in Seq(Decimals) /\ Len(side[n]) = 2
                BY <1>7, <2>1
            <4>2. side[n][1] \in Decimals /\ side[n][2] \in Decimals
                <5>1. \A q \in Seq(Decimals) : Len(q) = 2 => q[1] \in Decimals /\ q[2] \in Decimals
                    <6>1. SUFFICES ASSUME NEW q \in Seq(Decimals), Len(q) = 2
                                   PROVE  q[1] \in Decimals /\ q[2] \in Decimals
                        OBVIOUS
                    <6>2. 1 \in 1..Len(q) /\ 2 \in 1..Len(q)
                        BY <6>1
                    <6>3. QED
                        BY <6>2, ElementOfSeq
                <5>2. QED
                    BY <4>1, <5>1, Zenon
            <4>3. QED
                BY <1>7, <2>1, <4>2
        <3>2. Denotes(side[n][1], ParsePrice(side[n][1]).v, PriceExp)
            BY <3>1, NumberRead, PriceAssumption DEF ParsePrice
        <3>3. Denotes(side[n][2], ParseSize(side[n][2]).v, SizeExp)
            BY <3>1, NumberRead, PriceAssumption DEF ParseSize
        <3>4. /\ Side(side)[n][1] = ParsePrice(side[n][1]).v
              /\ Side(side)[n][2] = ParseSize(side[n][2]).v
            OBVIOUS
        <3>5. QED
            BY <3>2, <3>3, <3>4 DEF LevelRead
    <2> HIDE DEF Side
    <2>4. QED
        BY <2>1, <2>2, <2>3 DEF SideRead
<1>9. SideRead(bids, value.bids) /\ SideRead(asks, value.asks)
    BY <1>2, <1>8, Zenon
<1>10. QED
    BY <1>4, <1>9 DEF Booked

\* The fallback's answer is what was asked for.
LEMMA BuildFacts ==
    ASSUME NEW a, NEW specification, NEW r,
           NEW outcome, outcome = build(a, specification, r), outcome.messages # {}
    PROVE  \E value : outcome.messages
                      = {message(a, specification.instrument, specification.channel, r.time, "REST", value)}
<1> DEFINE channel == specification.channel
           number == IF channel = "funding" THEN ParseRate(Asked(channel, r)) ELSE ParsePrice(Asked(channel, r))
           Messages == {message(a, specification.instrument, channel, r.time, "REST", number.v)}
<1>1. outcome = AllOrNothing(<<number>>, Messages)
    BY DEF build
<1> HIDE DEF number
<1>2. outcome.messages = Messages
    <2> HIDE DEF Messages
    <2>1. outcome = Parsed(Messages)
        BY <1>1, AllOrNothingFacts
    <2>2. Parsed(Messages).messages = Messages
        BY DEF Parsed
    <2>3. QED
        BY <2>1, <2>2
<1>3. QED
    BY <1>2

LEMMA FetchOnceFacts ==
    ASSUME NEW a, a.venue \in Venues, NEW specification,
           specification = [instrument |-> specification.instrument, channel |-> specification.channel],
           NEW r, {r.bids, r.asks} \subseteq Levels,
           NEW outcome, outcome = FetchOnce(a, specification, r), outcome.messages # {}
    PROVE  \A m \in outcome.messages : m.specification = specification /\ m.source = "REST"
<1>1. (\A err : Failed(err).messages = {}) /\ Nothing.messages = {}
    BY DEF Failed, Nothing
<1>2. ASSUME NEW time, NEW value,
             outcome.messages = {message(a, specification.instrument, specification.channel, time, "REST", value)}
      PROVE  \A m \in outcome.messages : m.specification = specification /\ m.source = "REST"
    BY <1>2, MessageFacts
<1>3. CASE a.venue = "BINANCE"
    <2>1. outcome = FetchOnceBinance(a, specification, r)
        BY <1>3 DEF FetchOnce
    <2>2. outcome = build(a, specification, r)
        BY <1>1, <2>1, Zenon DEF FetchOnceBinance, restMessageBinance
    <2>3. QED
        BY <1>2, <2>2, BuildFacts
<1>4. CASE a.venue = "KUCOIN"
    <2>1. outcome = FetchOnceKuCoin(a, specification, r)
        BY <1>4 DEF FetchOnce
    <2>2. outcome = build(a, specification, r)
        BY <1>1, <2>1, Zenon DEF FetchOnceKuCoin, restMessageKuCoin
    <2>3. QED
        BY <1>2, <2>2, BuildFacts
<1>5. CASE a.venue = "TABDEAL"
    <2>1. outcome = FetchOnceTabdeal(a, specification, r)
        BY <1>5 DEF FetchOnce
    <2>2. /\ ~CallFails(a, specification) /\ ~LevelsFail(r.bids) /\ ~LevelsFail(r.asks)
          /\ outcome = book(a, specification.instrument, r.bids, r.asks, r.time, "REST")
        BY <1>1, <2>1, Zenon DEF FetchOnceTabdeal
    <2>3. specification.channel = "orderbook"
        BY <1>5, <2>2 DEF CallFails, checkFails, ServedChannels
    <2>4. \E value, time :
              outcome.messages = {message(a, specification.instrument, "orderbook", time, "REST", value)}
        <3>1. r.bids \in Levels /\ r.asks \in Levels
            OBVIOUS
        <3>2. Booked(a, specification.instrument, r.bids, r.asks, "REST", outcome)
            BY <2>2, <3>1, BookFacts
        <3>3. QED
            BY <3>2 DEF Booked
    <2>5. QED
        BY <1>2, <2>3, <2>4
<1>6. QED
    BY <1>3, <1>4, <1>5 DEF Venues

-----------------------------------------------------------------------------
(***************************************************************************)
(* Venue symbols                                                           *)
(***************************************************************************)

\* A part of a sequence, by its elements.
LEMMA Part ==
    ASSUME NEW S, NEW s \in Seq(S), NEW m \in Nat, NEW n \in Nat, 1 <= m, n <= Len(s), m <= n + 1
    PROVE  /\ SubSeq(s, m, n) \in Seq(S) /\ Len(SubSeq(s, m, n)) = n - m + 1
           /\ \A k \in 1..(n - m + 1) : SubSeq(s, m, n)[k] = s[m + k - 1]
<1>1. Len(s) \in Nat /\ \A k \in 1..Len(s) : s[k] \in S
    BY ElementOfSeq
<1>2. \A k \in m..n : k \in 1..Len(s)
    BY <1>1
<1>3. \A k \in m..n : s[k] \in S
    BY <1>1, <1>2
<1>4. /\ SubSeq(s, m, n) \in Seq(S)
      /\ Len(SubSeq(s, m, n)) = IF m <= n THEN n - m + 1 ELSE 0
      /\ \A k \in 1..(n - m + 1) : SubSeq(s, m, n)[k] = s[m + k - 1]
    BY <1>3, SubSeqProperties
<1>5. (IF m <= n THEN n - m + 1 ELSE 0) = n - m + 1
    OBVIOUS
<1>6. QED
    BY <1>4, <1>5

\* Two sequences after each other, by their elements.
LEMMA Joined ==
    ASSUME NEW S, NEW s \in Seq(S), NEW t \in Seq(S)
    PROVE  /\ s \o t \in Seq(S) /\ Len(s \o t) = Len(s) + Len(t)
           /\ Len(s) \in Nat /\ Len(t) \in Nat
           /\ \A k \in 1..Len(s) : (s \o t)[k] = s[k]
           /\ \A k \in 1..Len(t) : (s \o t)[Len(s) + k] = t[k]
<1>1. /\ s \o t \in Seq(S) /\ Len(s \o t) = Len(s) + Len(t)
      /\ \A k \in 1..(Len(s) + Len(t)) : (s \o t)[k] = IF k <= Len(s) THEN s[k] ELSE t[k - Len(s)]
    BY ConcatProperties
<1>2. Len(s) \in Nat /\ Len(t) \in Nat
    OBVIOUS
<1>3. ASSUME NEW k \in 1..Len(s) PROVE (s \o t)[k] = s[k]
    <2>1. k \in 1..(Len(s) + Len(t)) /\ k <= Len(s)
        BY <1>2
    <2>2. QED
        BY <1>1, <2>1
<1>4. ASSUME NEW k \in 1..Len(t) PROVE (s \o t)[Len(s) + k] = t[k]
    <2>1. Len(s) + k \in 1..(Len(s) + Len(t)) /\ ~(Len(s) + k <= Len(s)) /\ Len(s) + k - Len(s) = k
        BY <1>2
    <2>2. QED
        BY <1>1, <2>1
<1>5. QED
    BY <1>1, <1>2, <1>3, <1>4

\* What EndsIn says of the elements.
LEMMA EndsInFacts ==
    ASSUME NEW S, NEW s \in Seq(S), NEW q \in Seq(S)
    PROVE  EndsIn(s, q) <=> /\ Len(s) > Len(q)
                            /\ \A k \in 1..Len(q) : q[k] = s[Len(s) - Len(q) + k]
<1> DEFINE rs == Reverse(s)
           rq == Reverse(q)
<1>1. Len(s) \in Nat /\ Len(q) \in Nat
    OBVIOUS
<1>2. ASSUME NEW t \in Seq(S)
      PROVE  /\ Reverse(t) \in Seq(S) /\ Len(Reverse(t)) = Len(t)
             /\ \A k \in 1..Len(t) : Reverse(t)[k] = t[Len(t) - k + 1]
    <2>1. Len(t) \in Nat /\ \A k \in 1..Len(t) : Len(t) - k + 1 \in 1..Len(t)
        OBVIOUS
    <2>2. \A k \in 1..Len(t) : t[Len(t) - k + 1] \in S
        BY <2>1, ElementOfSeq
    <2>3. Reverse(t) = [k \in 1..Len(t) |-> t[(Len(t) - k) + 1]]
        BY DEF Reverse
    <2>4. QED
        BY <2>1, <2>2, <2>3
<1>3. /\ rs \in Seq(S) /\ Len(rs) = Len(s) /\ \A k \in 1..Len(s) : rs[k] = s[Len(s) - k + 1]
      /\ rq \in Seq(S) /\ Len(rq) = Len(q) /\ \A k \in 1..Len(q) : rq[k] = q[Len(q) - k + 1]
    BY <1>2
<1>4. IsSuffix(q, s) <=> /\ Len(rq) <= Len(rs)
                         /\ SubSeq(rq, 1, Len(rq)) = SubSeq(rs, 1, Len(rq))
    BY DEF IsSuffix, IsPrefix
<1> HIDE DEF rs, rq
<1>5. ASSUME Len(q) < Len(s)
      PROVE  IsSuffix(q, s) <=> \A k \in 1..Len(q) : q[k] = s[Len(s) - Len(q) + k]
    <2> DEFINE p == SubSeq(rq, 1, Len(q))
               r == SubSeq(rs, 1, Len(q))
    <2>1. /\ p \in Seq(S) /\ Len(p) = Len(q) /\ \A k \in 1..Len(q) : p[k] = rq[k]
        <3>1. /\ p \in Seq(S) /\ Len(p) = Len(q) - 1 + 1
              /\ \A k \in 1..(Len(q) - 1 + 1) : p[k] = rq[1 + k - 1]
            BY <1>1, <1>3, Part
        <3>2. Len(q) - 1 + 1 = Len(q) /\ \A k \in 1..Len(q) : 1 + k - 1 = k
            BY <1>1
        <3>3. QED
            BY <3>1, <3>2
    <2>2. /\ r \in Seq(S) /\ Len(r) = Len(q) /\ \A k \in 1..Len(q) : r[k] = rs[k]
        <3>1. /\ r \in Seq(S) /\ Len(r) = Len(q) - 1 + 1
              /\ \A k \in 1..(Len(q) - 1 + 1) : r[k] = rs[1 + k - 1]
            BY <1>1, <1>3, <1>5, Part
        <3>2. Len(q) - 1 + 1 = Len(q) /\ \A k \in 1..Len(q) : 1 + k - 1 = k
            BY <1>1
        <3>3. QED
            BY <3>1, <3>2
    <2>3. IsSuffix(q, s) <=> p = r
        BY <1>1, <1>3, <1>4, <1>5
    <2> HIDE DEF p, r
    <2>4. p = r <=> \A k \in 1..Len(q) : p[k] = r[k]
        BY <2>1, <2>2, SeqEqual
    <2>5. \A k \in 1..Len(q) : /\ k \in 1..Len(s) /\ Len(q) - k + 1 \in 1..Len(q)
                               /\ Len(s) - Len(q) + (Len(q) - k + 1) = Len(s) - k + 1
                               /\ Len(q) - (Len(q) - k + 1) + 1 = k
                               /\ Len(s) - (Len(q) - k + 1) + 1 = Len(s) - Len(q) + k
        BY <1>1, <1>5
    <2>6. (\A k \in 1..Len(q) : p[k] = r[k]) <=> \A k \in 1..Len(q) : q[Len(q) - k + 1] = s[Len(s) - k + 1]
        BY <1>3, <2>1, <2>2, <2>5
    <2>7. (\A k \in 1..Len(q) : q[Len(q) - k + 1] = s[Len(s) - k + 1])
          <=> \A k \in 1..Len(q) : q[k] = s[Len(s) - Len(q) + k]
        <3>1. ASSUME \A k \in 1..Len(q) : q[Len(q) - k + 1] = s[Len(s) - k + 1], NEW k \in 1..Len(q)
              PROVE  q[k] = s[Len(s) - Len(q) + k]
            <4> DEFINE j == Len(q) - k + 1
            <4>1. j \in 1..Len(q) /\ Len(q) - j + 1 = k /\ Len(s) - j + 1 = Len(s) - Len(q) + k
                BY <2>5
            <4> HIDE DEF j
            <4>2. q[Len(q) - j + 1] = s[Len(s) - j + 1]
                BY <3>1, <4>1
            <4>3. QED
                BY <4>1, <4>2
        <3>2. ASSUME \A k \in 1..Len(q) : q[k] = s[Len(s) - Len(q) + k], NEW k \in 1..Len(q)
              PROVE  q[Len(q) - k + 1] = s[Len(s) - k + 1]
            <4> DEFINE j == Len(q) - k + 1
            <4>1. j \in 1..Len(q) /\ Len(s) - Len(q) + j = Len(s) - k + 1
                BY <2>5
            <4>2. QED
                BY <3>2, <4>1
        <3>3. QED
            BY <3>1, <3>2
    <2>8. QED
        BY <2>3, <2>4, <2>6, <2>7
<1>6. QED
    BY <1>1, <1>5 DEF EndsIn

\* A sequence is its two parts, at whichever place it is cut.
LEMMA CutFacts ==
    ASSUME NEW S, NEW s \in Seq(S), NEW n \in Nat, n <= Len(s)
    PROVE  s = SubSeq(s, 1, n) \o SubSeq(s, n + 1, Len(s))
<1> DEFINE a == SubSeq(s, 1, n)
           b == SubSeq(s, n + 1, Len(s))
<1>1. Len(s) \in Nat
    OBVIOUS
<1>2. a \in Seq(S) /\ Len(a) = n /\ \A k \in 1..n : a[k] = s[k]
    <2>1. a \in Seq(S) /\ Len(a) = n - 1 + 1 /\ \A k \in 1..(n - 1 + 1) : a[k] = s[1 + k - 1]
        BY Part
    <2>2. n - 1 + 1 = n /\ \A k \in 1..n : 1 + k - 1 = k
        OBVIOUS
    <2> HIDE DEF a
    <2>3. QED
        BY <2>1, <2>2
<1>3. b \in Seq(S) /\ Len(b) = Len(s) - n /\ \A k \in 1..(Len(s) - n) : b[k] = s[n + k]
    <2>1. n + 1 \in Nat /\ 1 <= n + 1 /\ n + 1 <= Len(s) + 1
        BY <1>1
    <2>2. /\ b \in Seq(S) /\ Len(b) = Len(s) - (n + 1) + 1
          /\ \A k \in 1..(Len(s) - (n + 1) + 1) : b[k] = s[(n + 1) + k - 1]
        BY <1>1, <2>1, Part
    <2>3. Len(s) - (n + 1) + 1 = Len(s) - n /\ \A k \in 1..(Len(s) - n) : (n + 1) + k - 1 = n + k
        BY <1>1
    <2> HIDE DEF b
    <2>4. QED
        BY <2>2, <2>3
<1> HIDE DEF a, b
<1>4. /\ a \o b \in Seq(S) /\ Len(a \o b) = Len(s)
      /\ \A k \in 1..Len(a) : (a \o b)[k] = a[k]
      /\ \A k \in 1..Len(b) : (a \o b)[Len(a) + k] = b[k]
    <2>1. /\ a \o b \in Seq(S) /\ Len(a \o b) = Len(a) + Len(b)
          /\ \A k \in 1..Len(a) : (a \o b)[k] = a[k]
          /\ \A k \in 1..Len(b) : (a \o b)[Len(a) + k] = b[k]
        BY <1>2, <1>3, Joined
    <2>2. Len(a) + Len(b) = Len(s)
        BY <1>1, <1>2, <1>3
    <2>3. QED
        BY <2>1, <2>2
<1>5. ASSUME NEW k \in 1..Len(s) PROVE s[k] = (a \o b)[k]
    <2>1. CASE k <= n
        <3>1. k \in 1..n
            BY <2>1
        <3>2. QED
            BY <1>2, <1>4, <3>1
    <2>2. CASE k > n
        <3>1. k - n \in 1..(Len(s) - n) /\ n + (k - n) = k
            BY <1>1, <2>2
        <3>2. (a \o b)[n + (k - n)] = b[k - n] /\ b[k - n] = s[n + (k - n)]
            BY <1>2, <1>3, <1>4, <3>1
        <3>3. QED
            BY <3>1, <3>2
    <2>3. k \in Nat /\ (k <= n \/ k > n)
        BY <1>1
    <2>4. QED
        BY <2>1, <2>2, <2>3
<1>6. s = a \o b
    BY <1>4, <1>5, SeqEqual
<1>7. QED
    BY <1>6 DEF a, b

\* What is joined can be cut again.
LEMMA Parts ==
    ASSUME NEW S, NEW s \in Seq(S), NEW t \in Seq(S)
    PROVE  /\ SubSeq(s \o t, 1, Len(s)) = s
           /\ SubSeq(s \o t, Len(s) + 1, Len(s) + Len(t)) = t
<1> DEFINE u == s \o t
           a == SubSeq(u, 1, Len(s))
           b == SubSeq(u, Len(s) + 1, Len(s) + Len(t))
<1>1. /\ u \in Seq(S) /\ Len(u) = Len(s) + Len(t) /\ Len(s) \in Nat /\ Len(t) \in Nat
      /\ \A k \in 1..Len(s) : u[k] = s[k]
      /\ \A k \in 1..Len(t) : u[Len(s) + k] = t[k]
    BY Joined
<1> HIDE DEF u
<1>2. a \in Seq(S) /\ Len(a) = Len(s) /\ \A k \in 1..Len(s) : a[k] = u[k]
    <2>1. /\ a \in Seq(S) /\ Len(a) = Len(s) - 1 + 1
          /\ \A k \in 1..(Len(s) - 1 + 1) : a[k] = u[1 + k - 1]
        BY <1>1, Part
    <2>2. Len(s) - 1 + 1 = Len(s) /\ \A k \in 1..Len(s) : 1 + k - 1 = k
        BY <1>1
    <2> HIDE DEF a
    <2>3. QED
        BY <2>1, <2>2
<1>3. b \in Seq(S) /\ Len(b) = Len(t) /\ \A k \in 1..Len(t) : b[k] = u[Len(s) + k]
    <2>1. /\ Len(s) + 1 \in Nat /\ Len(s) + Len(t) \in Nat /\ 1 <= Len(s) + 1
          /\ Len(s) + Len(t) <= Len(u) /\ Len(s) + 1 <= Len(s) + Len(t) + 1
        BY <1>1
    <2>2. /\ b \in Seq(S) /\ Len(b) = Len(s) + Len(t) - (Len(s) + 1) + 1
          /\ \A k \in 1..(Len(s) + Len(t) - (Len(s) + 1) + 1) : b[k] = u[(Len(s) + 1) + k - 1]
        BY <1>1, <2>1, Part
    <2>3. /\ Len(s) + Len(t) - (Len(s) + 1) + 1 = Len(t)
          /\ \A k \in 1..Len(t) : (Len(s) + 1) + k - 1 = Len(s) + k
        BY <1>1
    <2> HIDE DEF b
    <2>4. QED
        BY <2>2, <2>3
<1> HIDE DEF a, b
<1>4. a = s
    <2>1. \A k \in 1..Len(a) : a[k] = s[k]
        BY <1>1, <1>2
    <2>2. QED
        BY <1>2, <2>1, SeqEqual
<1>5. b = t
    <2>1. \A k \in 1..Len(b) : b[k] = t[k]
        BY <1>1, <1>3
    <2>2. QED
        BY <1>3, <2>1, SeqEqual
<1>6. QED
    BY <1>4, <1>5 DEF a, b, u

\* A suffix taken off and what is left.
LEMMA SuffixOff ==
    ASSUME NEW S, NEW s \in Seq(S), NEW q \in Seq(S), EndsIn(s, q)
    PROVE  CutSuffix(s, q) \in Seq(S) /\ Len(CutSuffix(s, q)) >= 1 /\ s = CutSuffix(s, q) \o q
<1> DEFINE n == Len(s) - Len(q)
           rest == SubSeq(s, n + 1, Len(s))
<1>1. /\ Len(s) \in Nat /\ Len(q) \in Nat /\ n \in Nat /\ n >= 1 /\ n <= Len(s)
      /\ Len(s) > Len(q) /\ \A k \in 1..Len(q) : q[k] = s[n + k]
    BY EndsInFacts
<1>2. /\ CutSuffix(s, q) \in Seq(S) /\ Len(CutSuffix(s, q)) = n - 1 + 1
    BY <1>1, Part DEF CutSuffix
<1>3. rest \in Seq(S) /\ Len(rest) = Len(q) /\ \A k \in 1..Len(q) : rest[k] = s[n + k]
    <2>1. n + 1 \in Nat /\ 1 <= n + 1 /\ n + 1 <= Len(s) + 1
        BY <1>1
    <2>2. /\ rest \in Seq(S) /\ Len(rest) = Len(s) - (n + 1) + 1
          /\ \A k \in 1..(Len(s) - (n + 1) + 1) : rest[k] = s[(n + 1) + k - 1]
        BY <1>1, <2>1, Part
    <2>3. Len(s) - (n + 1) + 1 = Len(q) /\ \A k \in 1..Len(q) : (n + 1) + k - 1 = n + k
        BY <1>1
    <2> HIDE DEF rest
    <2>4. QED
        BY <2>2, <2>3
<1>4. s = SubSeq(s, 1, n) \o rest
    BY <1>1, CutFacts
<1> HIDE DEF rest
<1>5. rest = q
    <2>1. \A k \in 1..Len(rest) : rest[k] = q[k]
        BY <1>1, <1>3
    <2>2. QED
        BY <1>3, <2>1, SeqEqual
<1>6. CutSuffix(s, q) = SubSeq(s, 1, n)
    BY DEF CutSuffix
<1>7. QED
    BY <1>1, <1>2, <1>4, <1>5, <1>6

LEMMA SuffixOn ==
    ASSUME NEW S, NEW s \in Seq(S), NEW q \in Seq(S), Len(s) >= 1
    PROVE  EndsIn(s \o q, q) /\ CutSuffix(s \o q, q) = s
<1> DEFINE u == s \o q
<1>1. /\ u \in Seq(S) /\ Len(u) = Len(s) + Len(q) /\ Len(s) \in Nat /\ Len(q) \in Nat
      /\ \A k \in 1..Len(q) : u[Len(s) + k] = q[k]
    BY Joined
<1>2. SubSeq(u, 1, Len(s)) = s
    BY Parts
<1> HIDE DEF u
<1>3. Len(u) - Len(q) = Len(s) /\ Len(u) > Len(q)
    BY <1>1
<1>4. EndsIn(u, q)
    BY <1>1, <1>3, EndsInFacts
<1>5. CutSuffix(u, q) = s
    BY <1>2, <1>3 DEF CutSuffix
<1>6. QED
    BY <1>4, <1>5 DEF u

\* An operator of its own, for the SMT backend cannot take this string either.
Separator == "_"

\* What names are spelled from: the provers do not know that a string is one.
Fragments ==
    STRING \cup {Separator} \cup {"USD", "T", "C", "B", "FD", "BN", "BTC", "ETH", "IRT", "M"}

Name(s) == s \in Seq(Fragments) /\ Len(s) >= 1 /\ \A k \in 1..Len(s) : s[k] # Separator

SplitAt(s, n) == n \in 2..(Len(s) - 1) /\ \A k \in 1..Len(s) : s[k] = Separator <=> k = n

LEMMA Splits ==
    /\ Separator \in Fragments
    /\ \A s : CanonicalRe(s) <=> \E n : SplitAt(s, n)
    /\ \A i : Canonical(i) = (i.base \o <<Separator>>) \o i.quote
<1>1. Separator \in Fragments
    BY DEF Fragments
<1>2. ASSUME NEW s PROVE CanonicalRe(s) <=> \E n : SplitAt(s, n)
    <2>1. CanonicalRe(s) <=> \E n \in 2..(Len(s) - 1) : \A k \in 1..Len(s) : s[k] = Separator <=> k = n
        BY Zenon DEF CanonicalRe, Separator
    <2>2. ASSUME CanonicalRe(s) PROVE \E n : SplitAt(s, n)
        <3>1. PICK n \in 2..(Len(s) - 1) : \A k \in 1..Len(s) : s[k] = Separator <=> k = n
            BY <2>1, <2>2
        <3>2. SplitAt(s, n)
            BY <3>1 DEF SplitAt
        <3>3. QED
            BY <3>2
    <2>3. ASSUME NEW n, SplitAt(s, n) PROVE CanonicalRe(s)
        <3>1. n \in 2..(Len(s) - 1) /\ \A k \in 1..Len(s) : s[k] = Separator <=> k = n
            BY <2>3 DEF SplitAt
        <3>2. QED
            BY <2>1, <3>1
    <2>4. QED
        BY <2>2, <2>3
<1>3. ASSUME NEW i PROVE Canonical(i) = (i.base \o <<Separator>>) \o i.quote
    BY Zenon DEF Canonical, Separator
<1>4. QED
    BY <1>1, <1>2, <1>3

LEMMA OneElement ==
    ASSUME NEW S, NEW x \in S
    PROVE  <<x>> \in Seq(S) /\ Len(<<x>>) = 1 /\ <<x>>[1] = x /\ 1 \in 1..Len(<<x>>)
<1>1. QED
    OBVIOUS

\* A canonical symbol is taken apart at its one separator.
LEMMA SeparatorAt ==
    ASSUME NEW s \in Seq(Fragments), NEW n, SplitAt(s, n), NEW market \in MarketTypes
    PROVE  /\ CanonicalRe(s)
           /\ ParseCanonical(s, market).base = SubSeq(s, 1, n - 1)
           /\ ParseCanonical(s, market).quote = SubSeq(s, n + 1, Len(s))
           /\ ParseCanonical(s, market).market = market
<1>1. CanonicalRe(s)
    BY Splits
<1> DEFINE m == CHOOSE k \in 1..Len(s) : s[k] = Separator
<1>2. m = n
    <2>1. Len(s) \in Nat /\ n \in 1..Len(s) /\ s[n] = Separator
        BY DEF SplitAt
    <2>2. m \in 1..Len(s) /\ s[m] = Separator
        BY <2>1
    <2>3. QED
        BY <2>2 DEF SplitAt
<1> HIDE DEF m
<1> DEFINE base == SubSeq(s, 1, m - 1)
           quote == SubSeq(s, m + 1, Len(s))
           settle == IF IsInverse(market) THEN base ELSE IF IsDerivative(market) THEN quote ELSE <<>>
<1>3. ParseCanonical(s, market) = [base |-> base, quote |-> quote, market |-> market, settle |-> settle]
    BY <1>1, Zenon DEF ParseCanonical, m, Separator
<1> HIDE DEF base, quote, settle
<1>4. /\ ParseCanonical(s, market).base = base /\ ParseCanonical(s, market).quote = quote
      /\ ParseCanonical(s, market).market = market
    BY <1>3
<1>5. QED
    BY <1>1, <1>2, <1>4 DEF base, quote

\* An instrument is spelled the way its symbol was.
LEMMA CanonicalFacts ==
    ASSUME NEW s \in Seq(Fragments), CanonicalRe(s), NEW market \in MarketTypes,
           NEW i, i = ParseCanonical(s, market)
    PROVE  Name(i.base) /\ Name(i.quote) /\ i.market = market /\ Canonical(i) = s
<1>1. PICK n : SplitAt(s, n)
    BY Splits
<1>2. Len(s) \in Nat /\ n \in Nat /\ n >= 2 /\ n + 1 <= Len(s) /\ n \in 1..Len(s)
    BY <1>1 DEF SplitAt
<1> DEFINE base == SubSeq(s, 1, n - 1)
           quote == SubSeq(s, n + 1, Len(s))
           front == SubSeq(s, 1, n)
<1>3. i.base = base /\ i.quote = quote /\ i.market = market
    BY <1>1, SeparatorAt
<1>4. base \in Seq(Fragments) /\ Len(base) = n - 1 /\ \A k \in 1..(n - 1) : base[k] = s[k]
    <2>1. n - 1 \in Nat /\ n - 1 <= Len(s) /\ 1 <= n - 1 + 1
        BY <1>2
    <2>2. /\ base \in Seq(Fragments) /\ Len(base) = n - 1 - 1 + 1
          /\ \A k \in 1..(n - 1 - 1 + 1) : base[k] = s[1 + k - 1]
        BY <2>1, Part
    <2>3. n - 1 - 1 + 1 = n - 1 /\ \A k \in 1..(n - 1) : 1 + k - 1 = k
        BY <1>2
    <2> HIDE DEF base
    <2>4. QED
        BY <2>2, <2>3
<1>5. quote \in Seq(Fragments) /\ Len(quote) = Len(s) - n /\ \A k \in 1..(Len(s) - n) : quote[k] = s[n + k]
    <2>1. n + 1 \in Nat /\ 1 <= n + 1 /\ n + 1 <= Len(s) + 1
        BY <1>2
    <2>2. /\ quote \in Seq(Fragments) /\ Len(quote) = Len(s) - (n + 1) + 1
          /\ \A k \in 1..(Len(s) - (n + 1) + 1) : quote[k] = s[(n + 1) + k - 1]
        BY <1>2, <2>1, Part
    <2>3. Len(s) - (n + 1) + 1 = Len(s) - n /\ \A k \in 1..(Len(s) - n) : (n + 1) + k - 1 = n + k
        BY <1>2
    <2> HIDE DEF quote
    <2>4. QED
        BY <2>2, <2>3
<1>6. front \in Seq(Fragments) /\ Len(front) = n /\ \A k \in 1..n : front[k] = s[k]
    <2>1. /\ front \in Seq(Fragments) /\ Len(front) = n - 1 + 1
          /\ \A k \in 1..(n - 1 + 1) : front[k] = s[1 + k - 1]
        BY <1>2, Part
    <2>2. n - 1 + 1 = n /\ \A k \in 1..n : 1 + k - 1 = k
        BY <1>2
    <2> HIDE DEF front
    <2>3. QED
        BY <2>1, <2>2
<1>7. s = front \o quote
    BY <1>2, CutFacts
<1> HIDE DEF base, quote, front
<1>8. front = base \o <<Separator>>
    <2>1. <<Separator>> \in Seq(Fragments) /\ Len(<<Separator>>) = 1 /\ <<Separator>>[1] = Separator
        BY Splits, OneElement
    <2>2. /\ base \o <<Separator>> \in Seq(Fragments) /\ Len(base \o <<Separator>>) = Len(base) + Len(<<Separator>>)
          /\ \A k \in 1..Len(base) : (base \o <<Separator>>)[k] = base[k]
          /\ \A k \in 1..Len(<<Separator>>) : (base \o <<Separator>>)[Len(base) + k] = <<Separator>>[k]
        BY <1>4, <2>1, Joined
    <2> DEFINE t == base \o <<Separator>>
    <2>3. t \in Seq(Fragments) /\ Len(t) = n /\ (\A k \in 1..(n - 1) : t[k] = base[k]) /\ t[n] = Separator
        <3>1. Len(base) + Len(<<Separator>>) = n /\ Len(base) + 1 = n
            BY <1>2, <1>4, <2>1
        <3>2. 1 \in 1..Len(<<Separator>>)
            BY Splits, OneElement
        <3>3. t[Len(base) + 1] = Separator
            BY <2>1, <2>2, <3>2
        <3>4. QED
            BY <1>4, <2>2, <3>1, <3>3
    <2> HIDE DEF t
    <2>4. ASSUME NEW k \in 1..n PROVE front[k] = t[k]
        <3>1. k = n \/ k \in 1..(n - 1)
            BY <1>2
        <3>2. s[n] = Separator
            BY <1>1, <1>2 DEF SplitAt
        <3>3. QED
            BY <1>4, <1>6, <2>3, <3>1, <3>2
    <2>5. front = t
        BY <1>6, <2>3, <2>4, SeqEqual
    <2>6. QED
        BY <2>5 DEF t
<1>9. Name(base)
    <2>1. \A k \in 1..(n - 1) : k \in 1..Len(s) /\ k # n
        BY <1>2
    <2>2. QED
        BY <1>1, <1>2, <1>4, <2>1 DEF Name, SplitAt
<1>10. Name(quote)
    <2>1. \A k \in 1..(Len(s) - n) : n + k \in 1..Len(s) /\ n + k # n
        BY <1>2
    <2>2. QED
        BY <1>1, <1>2, <1>5, <2>1 DEF Name, SplitAt
<1>11. Canonical(i) = (base \o <<Separator>>) \o quote
    BY <1>3, Splits
<1>12. QED
    BY <1>3, <1>7, <1>8, <1>9, <1>10, <1>11

\* What is joined by a separator and is a symbol is the instrument of its two parts.
LEMMA CanonicalOf ==
    ASSUME NEW base \in Seq(Fragments), NEW quote \in Seq(Fragments), Len(base) >= 1, NEW market \in MarketTypes,
           NEW i, i = ParseCanonical(base \o <<Separator>> \o quote, market), i # NoRef
    PROVE  i.base = base /\ i.quote = quote /\ i.market = market
<1> DEFINE t == base \o <<Separator>>
           s == t \o quote
           n == Len(base) + 1
<1>1. t \in Seq(Fragments) /\ Len(t) = n /\ n \in Nat /\ t[n] = Separator
    <2>1. <<Separator>> \in Seq(Fragments) /\ Len(<<Separator>>) = 1 /\ <<Separator>>[1] = Separator /\ 1 \in 1..Len(<<Separator>>)
        BY Splits, OneElement
    <2>2. /\ t \in Seq(Fragments) /\ Len(t) = Len(base) + Len(<<Separator>>) /\ Len(base) \in Nat
          /\ \A k \in 1..Len(<<Separator>>) : t[Len(base) + k] = <<Separator>>[k]
        BY <2>1, Joined
    <2> HIDE DEF t
    <2>3. QED
        BY <2>1, <2>2
<1>2. SubSeq(t, 1, Len(base)) = base
    <2>1. <<Separator>> \in Seq(Fragments)
        BY Splits, OneElement
    <2>2. QED
        BY <2>1, Parts
<1> HIDE DEF t
<1>3. /\ s \in Seq(Fragments) /\ Len(s) = n + Len(quote) /\ Len(quote) \in Nat
      /\ \A k \in 1..n : s[k] = t[k]
      /\ SubSeq(s, 1, n) = t /\ SubSeq(s, n + 1, Len(s)) = quote
    <2>1. /\ s \in Seq(Fragments) /\ Len(s) = Len(t) + Len(quote) /\ Len(quote) \in Nat
          /\ \A k \in 1..Len(t) : s[k] = t[k]
        BY <1>1, Joined
    <2>2. SubSeq(s, 1, Len(t)) = t /\ SubSeq(s, Len(t) + 1, Len(t) + Len(quote)) = quote
        BY <1>1, Parts
    <2>3. QED
        BY <1>1, <2>1, <2>2
<1>4. i = ParseCanonical(s, market)
    BY DEF t
<1> HIDE DEF s
<1>5. CanonicalRe(s)
    BY <1>4, Zenon DEF ParseCanonical
<1>6. PICK m : SplitAt(s, m)
    BY <1>5, Splits
<1>7. m = n
    <2>1. n \in 1..n /\ n \in 1..Len(s)
        BY <1>1, <1>3
    <2>2. s[n] = Separator
        BY <1>1, <1>3, <2>1
    <2>3. QED
        BY <1>6, <2>1, <2>2 DEF SplitAt
<1>8. /\ i.base = SubSeq(s, 1, n - 1) /\ i.quote = SubSeq(s, n + 1, Len(s)) /\ i.market = market
    <2>1. SplitAt(s, n)
        BY <1>6, <1>7
    <2>2. /\ ParseCanonical(s, market).base = SubSeq(s, 1, n - 1)
          /\ ParseCanonical(s, market).quote = SubSeq(s, n + 1, Len(s))
          /\ ParseCanonical(s, market).market = market
        BY <1>3, <2>1, SeparatorAt
    <2>3. QED
        BY <1>4, <2>2
<1>9. SubSeq(s, 1, n - 1) = base
    <2>1. Len(base) \in Nat /\ n - 1 = Len(base) /\ Len(base) <= Len(t) /\ Len(base) <= Len(s)
        BY <1>1, <1>3
    <2> DEFINE p == SubSeq(s, 1, Len(base))
    <2>2. p \in Seq(Fragments) /\ Len(p) = Len(base) - 1 + 1 /\ \A k \in 1..(Len(base) - 1 + 1) : p[k] = s[1 + k - 1]
        BY <1>3, <2>1, Part
    <2>3. /\ SubSeq(t, 1, Len(base)) \in Seq(Fragments) /\ Len(SubSeq(t, 1, Len(base))) = Len(base) - 1 + 1
          /\ \A k \in 1..(Len(base) - 1 + 1) : SubSeq(t, 1, Len(base))[k] = t[1 + k - 1]
        BY <1>1, <2>1, Part
    <2>4. Len(base) - 1 + 1 = Len(base) /\ \A k \in 1..Len(base) : 1 + k - 1 = k /\ k \in 1..n
        BY <1>1, <2>1
    <2> HIDE DEF p
    <2>5. \A k \in 1..Len(p) : p[k] = base[k]
        BY <1>2, <1>3, <2>2, <2>3, <2>4
    <2>6. p = base
        BY <2>2, <2>4, <2>5, SeqEqual
    <2>7. QED
        BY <2>1, <2>6 DEF p
<1>10. QED
    BY <1>3, <1>8, <1>9

LEMMA TwoElements ==
    ASSUME NEW S, NEW x \in S, NEW y \in S
    PROVE  <<x, y>> \in Seq(S) /\ Len(<<x, y>>) = 2 /\ <<x, y>>[2] = y
<1>1. QED
    OBVIOUS

\* A quote asset of one or two fragments, the last of which is last.
IsQuote(q, length, last) == q \in Seq(Fragments) /\ Len(q) = length /\ q[length] = last

LEMMA QuoteFacts ==
    ASSUME NEW q, NEW length, NEW last, IsQuote(q, length, last)
    PROVE  q \in Seq(Fragments) /\ Len(q) = length /\ q[length] = last
<1>1. QED
    BY DEF IsQuote

\* No quote asset comes before a longer one that ends alike.
Ordered(list) ==
    /\ \A n \in DOMAIN list : n \in Nat /\ list[n] \in Seq(Fragments) /\ Len(list[n]) >= 1
    /\ \A m, n \in DOMAIN list :
           m < n /\ Len(list[m]) < Len(list[n]) => list[m][Len(list[m])] # list[n][Len(list[n])]

LEMMA QuotesOrdered == \A v \in Venues : Ordered(quotes(v))
<1>1. /\ IsQuote(<<"USD", "T">>, 2, "T") /\ IsQuote(<<"USD", "C">>, 2, "C")
      /\ IsQuote(<<"B", "USD">>, 2, "USD") /\ IsQuote(<<"T", "USD">>, 2, "USD")
      /\ IsQuote(<<"FD", "USD">>, 2, "USD") /\ IsQuote(<<"BN", "B">>, 2, "B")
      /\ IsQuote(<<"USD">>, 1, "USD") /\ IsQuote(<<"BTC">>, 1, "BTC") /\ IsQuote(<<"ETH">>, 1, "ETH")
      /\ IsQuote(<<"IRT">>, 1, "IRT")
    <2>1. /\ \A x \in Fragments : IsQuote(<<x>>, 1, x)
          /\ \A x, y \in Fragments : IsQuote(<<x, y>>, 2, y)
        BY OneElement, TwoElements DEF IsQuote
    <2>2. {"USD", "T", "C", "B", "FD", "BN", "BTC", "ETH", "IRT"} \subseteq Fragments
        BY DEF Fragments
    <2>3. QED
        BY <2>1, <2>2
<1>2. Ordered(quotes("BINANCE"))
    <2> DEFINE list == quotes("BINANCE")
    <2>1. list = << <<"USD", "T">>, <<"USD", "C">>, <<"B", "USD">>, <<"T", "USD">>, <<"FD", "USD">>,
                    <<"USD">>, <<"BN", "B">>, <<"BTC">>, <<"ETH">> >>
        BY DEF quotes
    <2>2. /\ DOMAIN list = 1..9
          /\ list[1] = <<"USD", "T">> /\ list[2] = <<"USD", "C">> /\ list[3] = <<"B", "USD">>
          /\ list[4] = <<"T", "USD">> /\ list[5] = <<"FD", "USD">> /\ list[6] = <<"USD">>
          /\ list[7] = <<"BN", "B">> /\ list[8] = <<"BTC">> /\ list[9] = <<"ETH">>
        <3>1. \A a, b, c, d, e, f, g, h, i :
                  /\ DOMAIN <<a, b, c, d, e, f, g, h, i>> = 1..9
                  /\ <<a, b, c, d, e, f, g, h, i>>[1] = a /\ <<a, b, c, d, e, f, g, h, i>>[2] = b
                  /\ <<a, b, c, d, e, f, g, h, i>>[3] = c /\ <<a, b, c, d, e, f, g, h, i>>[4] = d
                  /\ <<a, b, c, d, e, f, g, h, i>>[5] = e /\ <<a, b, c, d, e, f, g, h, i>>[6] = f
                  /\ <<a, b, c, d, e, f, g, h, i>>[7] = g /\ <<a, b, c, d, e, f, g, h, i>>[8] = h
                  /\ <<a, b, c, d, e, f, g, h, i>>[9] = i
            OBVIOUS
        <3> HIDE DEF list
        <3>2. QED
            BY <2>1, <3>1, Zenon
    <2> HIDE DEF list
    <2>3. /\ IsQuote(list[1], 2, "T") /\ IsQuote(list[2], 2, "C") /\ IsQuote(list[3], 2, "USD")
          /\ IsQuote(list[4], 2, "USD") /\ IsQuote(list[5], 2, "USD") /\ IsQuote(list[6], 1, "USD")
          /\ IsQuote(list[7], 2, "B") /\ IsQuote(list[8], 1, "BTC") /\ IsQuote(list[9], 1, "ETH")
        BY <1>1, <2>2, Zenon
    <2>4. /\ \A n \in 1..9 : list[n] \in Seq(Fragments) /\ Len(list[n]) \in 1..2
          /\ Len(list[1]) = 2 /\ Len(list[2]) = 2 /\ Len(list[3]) = 2 /\ Len(list[4]) = 2
          /\ Len(list[5]) = 2 /\ Len(list[6]) = 1 /\ Len(list[7]) = 2 /\ Len(list[8]) = 1
          /\ Len(list[9]) = 1 /\ list[6][1] = "USD" /\ list[7][2] = "B"
        <3>1. list[1] \in Seq(Fragments) /\ Len(list[1]) = 2
            <4>1. IsQuote(list[1], 2, "T")
                BY <2>3
            <4>2. QED
                BY <4>1, QuoteFacts
        <3>2. list[2] \in Seq(Fragments) /\ Len(list[2]) = 2
            <4>1. IsQuote(list[2], 2, "C")
                BY <2>3
            <4>2. QED
                BY <4>1, QuoteFacts
        <3>3. list[3] \in Seq(Fragments) /\ Len(list[3]) = 2
            <4>1. IsQuote(list[3], 2, "USD")
                BY <2>3
            <4>2. QED
                BY <4>1, QuoteFacts
        <3>4. list[4] \in Seq(Fragments) /\ Len(list[4]) = 2
            <4>1. IsQuote(list[4], 2, "USD")
                BY <2>3
            <4>2. QED
                BY <4>1, QuoteFacts
        <3>5. list[5] \in Seq(Fragments) /\ Len(list[5]) = 2
            <4>1. IsQuote(list[5], 2, "USD")
                BY <2>3
            <4>2. QED
                BY <4>1, QuoteFacts
        <3>6. list[6] \in Seq(Fragments) /\ Len(list[6]) = 1
            <4>1. IsQuote(list[6], 1, "USD")
                BY <2>3
            <4>2. QED
                BY <4>1, QuoteFacts
        <3>7. list[7] \in Seq(Fragments) /\ Len(list[7]) = 2
            <4>1. IsQuote(list[7], 2, "B")
                BY <2>3
            <4>2. QED
                BY <4>1, QuoteFacts
        <3>8. list[8] \in Seq(Fragments) /\ Len(list[8]) = 1
            <4>1. IsQuote(list[8], 1, "BTC")
                BY <2>3
            <4>2. QED
                BY <4>1, QuoteFacts
        <3>9. list[9] \in Seq(Fragments) /\ Len(list[9]) = 1
            <4>1. IsQuote(list[9], 1, "ETH")
                BY <2>3
            <4>2. QED
                BY <4>1, QuoteFacts
        <3>10. \A n \in 1..9 : n = 1 \/ n = 2 \/ n = 3 \/ n = 4 \/ n = 5 \/ n = 6 \/ n = 7 \/ n = 8 \/ n = 9
            OBVIOUS
        <3>11. 1 \in 1..2 /\ 2 \in 1..2
            OBVIOUS
        <3>12. list[6][1] = "USD" /\ list[7][2] = "B"
            BY <2>3, QuoteFacts, Zenon
        <3>13. QED
            BY <3>1, <3>2, <3>3, <3>4, <3>5, <3>6, <3>7, <3>8, <3>9, <3>10, <3>11, <3>12, Zenon
    <2>5. ASSUME NEW m \in 1..9, NEW n \in 1..9, m < n, Len(list[m]) < Len(list[n])
          PROVE  list[m][Len(list[m])] # list[n][Len(list[n])]
        <3>1. Len(list[m]) = 1 /\ Len(list[n]) = 2
            <4>1. Len(list[m]) \in 1..2 /\ Len(list[n]) \in 1..2
                BY <2>4, Zenon
            <4>2. \A x, y \in 1..2 : x < y => x = 1 /\ y = 2
                OBVIOUS
            <4>3. QED
                BY <2>5, <4>1, <4>2, Zenon
        <3>2. m = 6 /\ n = 7
            BY <2>4, <2>5, <3>1
        <3>3. "USD" # "B"
            OBVIOUS
        <3>4. list[m][Len(list[m])] = "USD" /\ list[n][Len(list[n])] = "B"
            BY <2>4, <3>1, <3>2, Zenon
        <3>5. QED
            BY <3>3, <3>4, Zenon
    <2>6. \A n \in DOMAIN list : n \in Nat /\ list[n] \in Seq(Fragments) /\ Len(list[n]) >= 1
        <3>1. \A n \in 1..9 : n \in Nat
            OBVIOUS
        <3>2. \A k : k \in 1..2 => k >= 1
            OBVIOUS
        <3>3. QED
            BY <2>2, <2>4, <3>1, <3>2, Zenon
    <2>7. QED
        BY <2>2, <2>5, <2>6, Zenon DEF Ordered, list
<1>3. Ordered(quotes("KUCOIN"))
    <2> DEFINE list == quotes("KUCOIN")
    <2>1. list = << <<"USD", "T">>, <<"USD", "C">>, <<"USD">> >>
        BY DEF quotes
    <2>2. DOMAIN list = 1..3 /\ list[1] = <<"USD", "T">> /\ list[2] = <<"USD", "C">> /\ list[3] = <<"USD">>
        BY <2>1
    <2> HIDE DEF list
    <2>3. IsQuote(list[1], 2, "T") /\ IsQuote(list[2], 2, "C") /\ IsQuote(list[3], 1, "USD")
        BY <1>1, <2>2, Zenon
    <2>4. /\ \A n \in 1..3 : list[n] \in Seq(Fragments) /\ Len(list[n]) \in 1..2
          /\ Len(list[1]) = 2 /\ Len(list[2]) = 2 /\ Len(list[3]) = 1
        <3>1. list[1] \in Seq(Fragments) /\ Len(list[1]) = 2
            <4>1. IsQuote(list[1], 2, "T")
                BY <2>3
            <4>2. QED
                BY <4>1, QuoteFacts
        <3>2. list[2] \in Seq(Fragments) /\ Len(list[2]) = 2
            <4>1. IsQuote(list[2], 2, "C")
                BY <2>3
            <4>2. QED
                BY <4>1, QuoteFacts
        <3>3. list[3] \in Seq(Fragments) /\ Len(list[3]) = 1
            <4>1. IsQuote(list[3], 1, "USD")
                BY <2>3
            <4>2. QED
                BY <4>1, QuoteFacts
        <3>4. \A n \in 1..3 : n = 1 \/ n = 2 \/ n = 3
            OBVIOUS
        <3>5. 1 \in 1..2 /\ 2 \in 1..2
            OBVIOUS
        <3>6. QED
            BY <3>1, <3>2, <3>3, <3>4, <3>5, Zenon
    <2>5. ASSUME NEW m \in 1..3, NEW n \in 1..3, m < n, Len(list[m]) < Len(list[n])
          PROVE  list[m][Len(list[m])] # list[n][Len(list[n])]
        BY <2>4, <2>5
    <2>6. \A n \in DOMAIN list : n \in Nat /\ list[n] \in Seq(Fragments) /\ Len(list[n]) >= 1
        <3>1. \A n \in 1..3 : n \in Nat
            OBVIOUS
        <3>2. \A k : k \in 1..2 => k >= 1
            OBVIOUS
        <3>3. QED
            BY <2>2, <2>4, <3>1, <3>2, Zenon
    <2>7. QED
        BY <2>2, <2>5, <2>6, Zenon DEF Ordered, list
<1>4. Ordered(quotes("TABDEAL"))
    <2> DEFINE list == quotes("TABDEAL")
    <2>1. list = << <<"USD", "T">>, <<"USD", "C">>, <<"IRT">> >>
        BY DEF quotes
    <2>2. DOMAIN list = 1..3 /\ list[1] = <<"USD", "T">> /\ list[2] = <<"USD", "C">> /\ list[3] = <<"IRT">>
        BY <2>1
    <2> HIDE DEF list
    <2>3. IsQuote(list[1], 2, "T") /\ IsQuote(list[2], 2, "C") /\ IsQuote(list[3], 1, "IRT")
        BY <1>1, <2>2, Zenon
    <2>4. /\ \A n \in 1..3 : list[n] \in Seq(Fragments) /\ Len(list[n]) \in 1..2
          /\ Len(list[1]) = 2 /\ Len(list[2]) = 2 /\ Len(list[3]) = 1
        <3>1. list[1] \in Seq(Fragments) /\ Len(list[1]) = 2
            <4>1. IsQuote(list[1], 2, "T")
                BY <2>3
            <4>2. QED
                BY <4>1, QuoteFacts
        <3>2. list[2] \in Seq(Fragments) /\ Len(list[2]) = 2
            <4>1. IsQuote(list[2], 2, "C")
                BY <2>3
            <4>2. QED
                BY <4>1, QuoteFacts
        <3>3. list[3] \in Seq(Fragments) /\ Len(list[3]) = 1
            <4>1. IsQuote(list[3], 1, "IRT")
                BY <2>3
            <4>2. QED
                BY <4>1, QuoteFacts
        <3>4. \A n \in 1..3 : n = 1 \/ n = 2 \/ n = 3
            OBVIOUS
        <3>5. 1 \in 1..2 /\ 2 \in 1..2
            OBVIOUS
        <3>6. QED
            BY <3>1, <3>2, <3>3, <3>4, <3>5, Zenon
    <2>5. ASSUME NEW m \in 1..3, NEW n \in 1..3, m < n, Len(list[m]) < Len(list[n])
          PROVE  list[m][Len(list[m])] # list[n][Len(list[n])]
        BY <2>4, <2>5
    <2>6. \A n \in DOMAIN list : n \in Nat /\ list[n] \in Seq(Fragments) /\ Len(list[n]) >= 1
        <3>1. \A n \in 1..3 : n \in Nat
            OBVIOUS
        <3>2. \A k : k \in 1..2 => k >= 1
            OBVIOUS
        <3>3. QED
            BY <2>2, <2>4, <3>1, <3>2, Zenon
    <2>7. QED
        BY <2>2, <2>5, <2>6, Zenon DEF Ordered, list
<1>5. QED
    BY <1>2, <1>3, <1>4 DEF Venues

\* A symbol is what it is taken apart into.
LEMMA SplitFacts ==
    ASSUME NEW v \in Venues, NEW s \in Seq(Fragments), NEW i, i = split(v, s), i # NoRef
    PROVE  i.base \o i.quote = s /\ i.market = MarketType
<1> DEFINE list == quotes(v)
           matching == {n \in DOMAIN list : EndsIn(s, list[n])}
           n == Min(matching)
           quote == list[n]
<1>1. Ordered(list)
    BY QuotesOrdered
<1>2. matching # {} /\ i = ParseCanonical(CutSuffix(s, quote) \o <<Separator>> \o quote, MarketType)
    BY Zenon DEF split, Separator
<1>3. n \in matching
    <2> HIDE DEF list
    <2>1. matching \in SUBSET Nat
        BY <1>1 DEF Ordered
    <2> HIDE DEF matching
    <2>2. \E m \in matching : \A k \in matching : m <= k
        BY <1>2, <2>1, LeastNumber
    <2>3. QED
        BY <2>2 DEF Min
<1> HIDE DEF n, list
<1>4. quote \in Seq(Fragments) /\ EndsIn(s, quote)
    BY <1>1, <1>3 DEF Ordered
<1> HIDE DEF quote, matching
<1>5. CutSuffix(s, quote) \in Seq(Fragments) /\ Len(CutSuffix(s, quote)) >= 1 /\ s = CutSuffix(s, quote) \o quote
    BY <1>4, SuffixOff
<1>6. MarketType \in MarketTypes
    BY DEF MarketType, MarketTypes
<1>7. i.base = CutSuffix(s, quote) /\ i.quote = quote /\ i.market = MarketType
    BY <1>2, <1>4, <1>5, <1>6, CanonicalOf
<1>8. QED
    BY <1>5, <1>7

\* Where no longer quote asset ends it, the pair is taken apart where it was joined.
LEMMA SplitOf ==
    ASSUME NEW v \in Venues, NEW base \in Seq(Fragments), Len(base) >= 1,
           NEW quote \in Seq(Fragments), quote \in Range(quotes(v)),
           \A q \in Range(quotes(v)) : EndsIn(base \o quote, q) => Len(q) <= Len(quote)
    PROVE  split(v, base \o quote) = ParseCanonical(base \o <<Separator>> \o quote, MarketType)
<1> DEFINE list == quotes(v)
           s == base \o quote
           matching == {n \in DOMAIN list : EndsIn(s, list[n])}
           n == Min(matching)
<1>1. Ordered(list)
    BY QuotesOrdered
<1>2. PICK k \in DOMAIN list : list[k] = quote
    BY DEF Range
<1>3. EndsIn(s, quote) /\ CutSuffix(s, quote) = base
    BY SuffixOn
<1>4. \A m \in DOMAIN list : EndsIn(s, list[m]) => Len(list[m]) <= Len(quote)
    BY DEF Range
<1>5. s \in Seq(Fragments) /\ Len(s) \in Nat
    BY Joined
<1>6. split(v, s) = IF matching = {} THEN NoRef
                    ELSE ParseCanonical(CutSuffix(s, list[n]) \o <<Separator>> \o list[n], MarketType)
    BY Zenon DEF split, Separator
<1> HIDE DEF list, s
<1>7. k \in matching
    BY <1>2, <1>3
<1>8. n \in matching /\ n <= k
    <2>1. matching \in SUBSET Nat
        BY <1>1 DEF Ordered
    <2> HIDE DEF matching
    <2>2. \E m \in matching : \A j \in matching : m <= j
        BY <1>7, <2>1, LeastNumber
    <2>3. n \in matching /\ \A j \in matching : n <= j
        BY <2>2 DEF Min
    <2>4. QED
        BY <1>7, <2>3
<1> HIDE DEF n
<1>9. list[n] = quote
    <2> DEFINE q == list[n]
    <2>1. /\ n \in DOMAIN list /\ n \in Nat /\ k \in Nat /\ EndsIn(s, q) /\ q \in Seq(Fragments)
          /\ Len(q) \in Nat /\ Len(q) >= 1 /\ Len(q) <= Len(quote)
          /\ Len(quote) \in Nat /\ Len(quote) >= 1
        BY <1>1, <1>2, <1>4, <1>8 DEF Ordered
    <2>2. /\ Len(s) > Len(q) /\ \A j \in 1..Len(q) : q[j] = s[Len(s) - Len(q) + j]
          /\ Len(s) > Len(quote) /\ \A j \in 1..Len(quote) : quote[j] = s[Len(s) - Len(quote) + j]
        BY <1>3, <1>5, <2>1, EndsInFacts
    <2>3. q[Len(q)] = s[Len(s)] /\ quote[Len(quote)] = s[Len(s)]
        <3>1. Len(s) - Len(q) + Len(q) = Len(s) /\ Len(s) - Len(quote) + Len(quote) = Len(s)
              /\ Len(q) \in 1..Len(q) /\ Len(quote) \in 1..Len(quote)
            BY <1>5, <2>1
        <3> HIDE DEF q
        <3>2. QED
            BY <2>2, <3>1
    <2>4. CASE n = k
        BY <1>2, <2>4
    <2>5. CASE n # k
        <3>1. n < k
            BY <1>8, <2>1, <2>5
        <3>2. ~(Len(q) < Len(quote))
            BY <1>1, <1>2, <2>1, <2>3, <3>1 DEF Ordered
        <3>3. Len(q) = Len(quote)
            BY <2>1, <3>2
        <3> HIDE DEF q
        <3>4. \A j \in 1..Len(q) : q[j] = quote[j]
            BY <2>2, <3>3
        <3>5. q = quote
            BY <2>1, <3>3, <3>4, SeqEqual
        <3>6. QED
            BY <3>5 DEF q
    <2>6. QED
        BY <2>4, <2>5
<1>10. QED
    BY <1>3, <1>6, <1>8, <1>9 DEF s

\* What a venue calls an instrument that no override names.
Plain(v, i) ==
    CASE v = "BINANCE" -> i.base \o i.quote
      [] v = "KUCOIN"  -> (i.base \o i.quote) \o linearSuffix
      [] v = "TABDEAL" -> Canonical(i)

LEMMA Spellings ==
    ASSUME NEW a, a.venue \in Venues, NEW i, i.market = MarketType
    PROVE  /\ OwnSpelling(a, i) = Plain(a.venue, i)
           /\ VenueSymbol(a, i) = IF Canonical(i) \in DOMAIN a.options.overrides
                                  THEN a.options.overrides[Canonical(i)] ELSE Plain(a.venue, i)
<1>1. ASSUME NEW b, b.venue \in Venues
      PROVE  VenueSymbol(b, i) = IF Canonical(i) \in DOMAIN b.options.overrides
                                 THEN b.options.overrides[Canonical(i)] ELSE Plain(b.venue, i)
    <2>1. \A symbol : Spelled(b, i, symbol) = IF Canonical(i) \in DOMAIN b.options.overrides
                                              THEN b.options.overrides[Canonical(i)] ELSE symbol
        BY Zenon DEF Spelled
    <2>2. CASE b.venue = "BINANCE"
        BY <2>1, <2>2 DEF VenueSymbol, BinanceSymbol, Plain
    <2>3. CASE b.venue = "KUCOIN"
        BY <2>1, <2>3 DEF VenueSymbol, KuCoinSymbol, Plain
    <2>4. CASE b.venue = "TABDEAL"
        BY <2>1, <2>4 DEF VenueSymbol, TabdealSymbol, Plain
    <2>5. QED
        BY <1>1, <2>2, <2>3, <2>4 DEF Venues
<1> DEFINE none == [c \in {} |-> <<>>]
           b == [venue |-> a.venue, options |-> [overrides |-> none]]
<1>2. b.venue = a.venue /\ b.options.overrides = none /\ DOMAIN none = {}
    OBVIOUS
<1>3. OwnSpelling(a, i) = VenueSymbol(b, i)
    BY DEF OwnSpelling
<1> HIDE DEF b, none
<1>4. QED
    BY <1>1, <1>2, <1>3

\* The overrides of a file that was let through, and a map New may turn them round into.
Overriding(a) ==
    /\ a.venue \in Venues
    /\ \A c \in DOMAIN a.options.overrides :
           /\ c \in Seq(Fragments) /\ CanonicalRe(c)
           /\ a.options.overrides[c] \in DOMAIN a.reverse
    /\ \A s \in DOMAIN a.reverse :
           a.reverse[s] \in DOMAIN a.options.overrides /\ a.options.overrides[a.reverse[s]] = s

\* How a symbol is read once it is known not to be empty.
LEMMA ParseVenueSymbolFacts ==
    ASSUME NEW a, a.venue \in Venues, NEW s, NEW i, i = ParseVenueSymbol(a, s), i # NoRef
    PROVE  /\ s # <<>>
           /\ s \in DOMAIN a.reverse => i = ParseCanonical(a.reverse[s], MarketType)
           /\ s \notin DOMAIN a.reverse /\ a.venue = "BINANCE" => i = split("BINANCE", s)
           /\ s \notin DOMAIN a.reverse /\ a.venue = "KUCOIN"
              => EndsIn(s, linearSuffix) /\ i = split("KUCOIN", CutSuffix(s, linearSuffix))
           /\ s \notin DOMAIN a.reverse /\ a.venue = "TABDEAL"
              => i = IF Separator \in ToSet(s) THEN ParseCanonical(s, MarketType) ELSE split("TABDEAL", s)
<1>1. ASSUME NEW reference, i = Reversed(a, s, reference)
      PROVE  s # <<>> /\ i = IF s \in DOMAIN a.reverse THEN ParseCanonical(a.reverse[s], MarketType)
                             ELSE reference
    BY <1>1, Zenon DEF Reversed
<1>2. CASE a.venue = "BINANCE"
    <2>1. i = ParseBinanceSymbol(a, s)
        BY <1>2 DEF ParseVenueSymbol
    <2>2. i = Reversed(a, s, split("BINANCE", s))
        BY <2>1, Zenon DEF ParseBinanceSymbol
    <2>3. QED
        BY <1>1, <1>2, <2>2
<1>3. CASE a.venue = "KUCOIN"
    <2> DEFINE reference == IF EndsIn(s, linearSuffix) THEN split("KUCOIN", CutSuffix(s, linearSuffix)) ELSE NoRef
    <2>1. i = ParseKuCoinSymbol(a, s)
        BY <1>3 DEF ParseVenueSymbol
    <2>2. i = Reversed(a, s, reference)
        BY <2>1 DEF ParseKuCoinSymbol
    <2>3. s # <<>> /\ i = IF s \in DOMAIN a.reverse THEN ParseCanonical(a.reverse[s], MarketType)
                          ELSE reference
        BY <1>1, <2>2
    <2>4. QED
        BY <1>3, <2>3
<1>4. CASE a.venue = "TABDEAL"
    <2> DEFINE reference == IF Separator \in ToSet(s) THEN ParseCanonical(s, MarketType) ELSE split("TABDEAL", s)
    <2>1. i = ParseTabdealSymbol(a, s)
        BY <1>4 DEF ParseVenueSymbol
    <2>2. i = Reversed(a, s, reference)
        BY <2>1, Zenon DEF ParseTabdealSymbol, Separator
    <2>3. s # <<>> /\ i = IF s \in DOMAIN a.reverse THEN ParseCanonical(a.reverse[s], MarketType)
                          ELSE reference
        BY <1>1, <2>2
    <2>4. QED
        BY <1>4, <2>3
<1>5. QED
    BY <1>2, <1>3, <1>4 DEF Venues

\* A canonical symbol has a separator.
LEMMA SeparatorIn ==
    ASSUME NEW s \in Seq(Fragments), CanonicalRe(s)
    PROVE  Separator \in ToSet(s)
<1>1. PICK n : SplitAt(s, n)
    BY Splits
<1>2. Len(s) \in Nat /\ n \in 2..(Len(s) - 1) /\ \A k \in 1..Len(s) : s[k] = Separator <=> k = n
    BY <1>1 DEF SplitAt
<1>3. n \in 1..Len(s)
    BY <1>2
<1>4. n \in DOMAIN s /\ s[n] = Separator
    BY <1>2, <1>3
<1>5. QED
    BY <1>4 DEF ToSet

LEMMA Suffix == linearSuffix \in Seq(Fragments) /\ Len(linearSuffix) = 1 /\ MarketType \in MarketTypes
<1>1. "M" \in Fragments
    BY DEF Fragments
<1>2. QED
    BY <1>1, OneElement DEF linearSuffix, MarketType, MarketTypes

\* What a symbol is read as has that symbol, by an override or by the venue's own
\* spelling.  Tabdeal takes a name without a separator apart as others do, but calls
\* nothing so itself.
LEMMA ReadAsItsOwn ==
    ASSUME NEW a, Overriding(a), NEW s \in Seq(Fragments),
           a.venue = "TABDEAL" => s \in DOMAIN a.reverse \/ Separator \in ToSet(s),
           NEW i, i = ParseVenueSymbol(a, s), i # NoRef
    PROVE  i.market = MarketType /\ s \in {VenueSymbol(a, i), OwnSpelling(a, i)}
<1>1. a.venue \in Venues
    BY DEF Overriding
<1>2. ASSUME s \in DOMAIN a.reverse
      PROVE  i.market = MarketType /\ VenueSymbol(a, i) = s
    <2> DEFINE c == a.reverse[s]
    <2>1. /\ c \in DOMAIN a.options.overrides /\ a.options.overrides[c] = s
          /\ c \in Seq(Fragments) /\ CanonicalRe(c)
        BY <1>2 DEF Overriding
    <2>2. i = ParseCanonical(c, MarketType)
        BY <1>1, <1>2, ParseVenueSymbolFacts
    <2> HIDE DEF c
    <2>3. i.market = MarketType /\ Canonical(i) = c
        BY <2>1, <2>2, CanonicalFacts, Suffix
    <2>4. QED
        BY <1>1, <2>1, <2>3, Spellings
<1>3. ASSUME s \notin DOMAIN a.reverse
      PROVE  i.market = MarketType /\ Plain(a.venue, i) = s
    <2>1. CASE a.venue = "BINANCE"
        <3>1. i = split("BINANCE", s)
            BY <1>1, <1>3, <2>1, ParseVenueSymbolFacts
        <3>2. i.base \o i.quote = s /\ i.market = MarketType
            BY <1>1, <2>1, <3>1, SplitFacts
        <3>3. QED
            BY <2>1, <3>2 DEF Plain
    <2>2. CASE a.venue = "KUCOIN"
        <3> DEFINE pair == CutSuffix(s, linearSuffix)
        <3>1. EndsIn(s, linearSuffix) /\ i = split("KUCOIN", pair)
            BY <1>1, <1>3, <2>2, ParseVenueSymbolFacts
        <3>2. pair \in Seq(Fragments) /\ s = pair \o linearSuffix
            BY <3>1, Suffix, SuffixOff
        <3> HIDE DEF pair
        <3>3. i.base \o i.quote = pair /\ i.market = MarketType
            BY <1>1, <2>2, <3>1, <3>2, SplitFacts
        <3>4. QED
            BY <2>2, <3>2, <3>3 DEF Plain
    <2>3. CASE a.venue = "TABDEAL"
        <3>1. i = ParseCanonical(s, MarketType)
            <4>1. Separator \in ToSet(s)
                BY <1>3, <2>3
            <4>2. i = IF Separator \in ToSet(s) THEN ParseCanonical(s, MarketType) ELSE split("TABDEAL", s)
                BY <1>1, <1>3, <2>3, ParseVenueSymbolFacts
            <4>3. QED
                BY <4>1, <4>2
        <3>2. CanonicalRe(s)
            BY <3>1 DEF ParseCanonical
        <3>3. i.market = MarketType /\ Canonical(i) = s
            BY <3>1, <3>2, CanonicalFacts, Suffix
        <3>4. QED
            BY <2>3, <3>3 DEF Plain
    <2>4. QED
        BY <1>1, <2>1, <2>2, <2>3 DEF Venues
<1>4. QED
    BY <1>1, <1>2, <1>3, Spellings

\* The symbol of an instrument that nothing else is spelled like is read as it, whatever
\* the overrides and however New turned them round (VenueSymbol and ParseVenueSymbol of
\* the three adapters).
THEOREM ReadBack ==
    ASSUME NEW a, Overriding(a), NEW c \in Seq(Fragments), CanonicalRe(c),
           NEW i, i = ParseCanonical(c, MarketType), Unmistakable(a, i),
           NEW s, s = VenueSymbol(a, i),
           NEW reference, reference = ParseVenueSymbol(a, s), reference # NoRef
    PROVE  reference = i
<1>1. a.venue \in Venues
    BY DEF Overriding
<1>2. /\ Name(i.base) /\ Name(i.quote) /\ i.market = MarketType /\ Canonical(i) = c
    BY CanonicalFacts, Suffix
<1>3. /\ s = IF c \in DOMAIN a.options.overrides THEN a.options.overrides[c] ELSE Plain(a.venue, i)
    BY <1>1, <1>2, Spellings
<1>4. CASE s \in DOMAIN a.reverse
    <2> DEFINE d == a.reverse[s]
    <2>1. d \in DOMAIN a.options.overrides /\ a.options.overrides[d] = s
        BY <1>4 DEF Overriding
    <2>2. reference = ParseCanonical(d, MarketType)
        BY <1>1, <1>4, ParseVenueSymbolFacts
    <2> HIDE DEF d
    <2>3. d = Canonical(i)
        BY <2>1 DEF Unmistakable
    <2>4. QED
        BY <1>2, <2>2, <2>3
<1>5. CASE s \notin DOMAIN a.reverse
    <2>1. c \notin DOMAIN a.options.overrides /\ s = Plain(a.venue, i)
        BY <1>3, <1>5 DEF Overriding
    <2> DEFINE pair == i.base \o i.quote
    <2>2. /\ i.base \in Seq(Fragments) /\ Len(i.base) >= 1
          /\ i.quote \in Seq(Fragments) /\ Len(i.quote) >= 1
        BY <1>2 DEF Name
    <2>3. ASSUME a.venue # "TABDEAL" PROVE split(a.venue, pair) = i
        <3>1. /\ i.quote \in Range(quotes(a.venue))
              /\ \A q \in Range(quotes(a.venue)) : EndsIn(pair, q) => Len(q) <= Len(i.quote)
            BY <1>2, <2>1, <2>3, Zenon DEF Unmistakable
        <3>2. split(a.venue, pair) = ParseCanonical(i.base \o <<Separator>> \o i.quote, MarketType)
            BY <1>1, <2>2, <3>1, SplitOf
        <3>3. QED
            BY <1>2, <3>2, Splits
    <2>4. pair \in Seq(Fragments) /\ Len(pair) >= 1
        <3>1. pair \in Seq(Fragments) /\ Len(pair) = Len(i.base) + Len(i.quote)
              /\ Len(i.base) \in Nat /\ Len(i.quote) \in Nat
            BY <2>2, Joined
        <3>2. \A m, n \in Nat : m >= 1 => m + n >= 1
            OBVIOUS
        <3> HIDE DEF pair
        <3>3. QED
            BY <2>2, <3>1, <3>2, Zenon
    <2> HIDE DEF pair
    <2>5. CASE a.venue = "BINANCE"
        <3>1. s = pair
            BY <2>1, <2>5 DEF Plain, pair
        <3>2. reference = split("BINANCE", s)
            BY <1>1, <1>5, <2>5, ParseVenueSymbolFacts
        <3>3. QED
            BY <2>3, <2>5, <3>1, <3>2
    <2>6. CASE a.venue = "KUCOIN"
        <3>1. s = pair \o linearSuffix
            BY <2>1, <2>6 DEF Plain, pair
        <3>2. reference = split("KUCOIN", CutSuffix(s, linearSuffix))
            BY <1>1, <1>5, <2>6, ParseVenueSymbolFacts
        <3>3. CutSuffix(s, linearSuffix) = pair
            BY <2>4, <3>1, Suffix, SuffixOn
        <3>4. QED
            BY <2>3, <2>6, <3>2, <3>3
    <2>7. CASE a.venue = "TABDEAL"
        <3>1. s = c
            BY <1>2, <2>1, <2>7 DEF Plain
        <3>2. Separator \in ToSet(c)
            BY SeparatorIn
        <3>3. reference = ParseCanonical(s, MarketType)
            <4>1. reference = IF Separator \in ToSet(s) THEN ParseCanonical(s, MarketType)
                              ELSE split("TABDEAL", s)
                BY <1>1, <1>5, <2>7, ParseVenueSymbolFacts
            <4>2. QED
                BY <3>1, <3>2, <4>1
        <3>4. QED
            BY <3>1, <3>3
    <2>8. QED
        BY <1>1, <2>5, <2>6, <2>7 DEF Venues
<1>6. QED
    BY <1>4, <1>5

LEMMA Strings == Seq(STRING) \subseteq Seq(Fragments)
<1>1. STRING \subseteq Fragments
    BY DEF Fragments
<1>2. ASSUME NEW s \in Seq(STRING) PROVE s \in Seq(Fragments)
    <2>1. Len(s) \in Nat /\ s = [k \in 1..Len(s) |-> s[k]] /\ \A k \in 1..Len(s) : s[k] \in STRING
        OBVIOUS
    <2>2. \A k \in 1..Len(s) : s[k] \in Fragments
        BY <1>1, <2>1
    <2>3. QED
        BY <2>1, <2>2
<1>3. QED
    BY <1>2
=================================================================================
