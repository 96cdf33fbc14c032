------------------------- MODULE ProverInputs_proofs -------------------------
(***************************************************************************)
(* The numbers of a proof arrive as they were sent: theorems about         *)
(* ProverInputs for every base, prime, size and number.                    *)
(*                                                                         *)
(* The numerals are recursive functions.  What they compute is proved by   *)
(* induction over sets of natural numbers (Induction), and that a recursive*)
(* function exists by Recursion: both follow from the order of the natural *)
(* numbers being well-founded.                                             *)
(***************************************************************************)
EXTENDS ProverInputs, SequenceTheorems, WellFoundedInduction, TLAPS

-----------------------------------------------------------------------------
(* Induction and recursion over the natural numbers.                       *)

\* A set of natural numbers has a least one.
LEMMA Smallest ==
    ASSUME NEW T, T \subseteq Nat, NEW n \in T
    PROVE  \E x \in T : \A y \in T : x <= y
<1>1. PICK R : R = OpToRel(<, Nat)
  OBVIOUS
<1>2. IsWellFoundedOn(R, Nat)
  BY <1>1, NatLessThanWellFounded
<1>3. \A x, y \in Nat : y < x => <<y, x>> \in R
  BY <1>1 DEF OpToRel
<1>4. T # {}
  OBVIOUS
<1>5. \E x \in T : \A y \in T : ~(<<y, x>> \in R)
  BY <1>2, <1>4, WFMin
<1>6. \A x, y \in T : ~(y < x) => x <= y
  OBVIOUS
<1>7. \A x, y \in T : y < x => <<y, x>> \in R
  BY <1>3
<1> QED
  BY <1>5, <1>6, <1>7

\* What holds of n when it holds of all below n holds of every n.
LEMMA Induction ==
    ASSUME NEW S, \A n \in Nat : (\A m \in 0 .. n - 1 : m \in S) => n \in S
    PROVE  \A n \in Nat : n \in S
<1> SUFFICES ASSUME NEW n \in Nat, n \notin S PROVE FALSE
  OBVIOUS
<1>1. PICK T : T = {k \in Nat : k \notin S}
  OBVIOUS
<1>2. n \in T /\ T \subseteq Nat
  BY <1>1
<1>3. PICK x \in T : \A y \in T : x <= y
  BY <1>2, Smallest
<1>4. \A m \in 0 .. x - 1 : m \in S
  BY <1>1, <1>3
<1> QED
  BY <1>1, <1>3, <1>4

\* A recursion asks for the value at g[n] to make the one at n.
Descends(g) == g \in [Nat -> Nat] /\ \A n \in Nat \ {0} : g[n] < n

Steps(step, A) == step \in [Nat -> [A -> A]]

Solution(f, A, a, g, step) ==
    f \in [Nat -> A] /\ \A n \in Nat : f[n] = IF n = 0 THEN a ELSE step[n][f[g[n]]]

\* A recursion that goes down has a solution.
LEMMA Recursion ==
    ASSUME NEW A, NEW a \in A, NEW g, Descends(g), NEW step, Steps(step, A)
    PROVE  \E f : Solution(f, A, a, g, step)
<1> USE DEF Descends, Steps
<1> DEFINE Good(n, f) ==
       /\ f \in [0 .. n -> A]
       /\ \A m \in 0 .. n : f[m] = IF m = 0 THEN a ELSE step[m][f[g[m]]]
<1>1. ASSUME NEW n \in Nat, NEW k \in Nat, NEW f, NEW h, Good(n, f), Good(k, h)
      PROVE  \A m \in Nat : m <= n /\ m <= k => f[m] = h[m]
  <2>1. PICK S : S = {m \in Nat : m <= n /\ m <= k => f[m] = h[m]}
    OBVIOUS
  <2>2. ASSUME NEW m \in Nat, \A i \in 0 .. m - 1 : i \in S PROVE m \in S
    <3>1. CASE m <= n /\ m <= k /\ m # 0
      <4>1. m \in 0 .. n /\ m \in 0 .. k /\ g[m] \in 0 .. m - 1 /\ g[m] \in Nat
        BY <3>1
      <4>2. f[g[m]] = h[g[m]]
        BY <2>1, <2>2, <3>1, <4>1
      <4>3. f[m] = step[m][f[g[m]]] /\ h[m] = step[m][h[g[m]]]
        BY <1>1, <3>1, <4>1
      <4> QED
        BY <2>1, <4>2, <4>3
    <3>2. CASE m <= n /\ m <= k /\ m = 0
      <4>1. 0 \in 0 .. n /\ 0 \in 0 .. k
        OBVIOUS
      <4> QED
        BY <1>1, <2>1, <3>2, <4>1
    <3>3. CASE ~(m <= n /\ m <= k)
      BY <2>1, <3>3
    <3> QED
      BY <3>1, <3>2, <3>3
  <2>3. \A m \in Nat : m \in S
    <3> HIDE DEF Good
    <3> QED
      BY <2>2, Induction
  <2> QED
    BY <2>1, <2>3
<1>2. ASSUME NEW n \in Nat PROVE \E f : Good(n, f)
  <2>1. PICK S : S = {m \in Nat : \E f : Good(m, f)}
    OBVIOUS
  <2>2. ASSUME NEW m \in Nat, \A i \in 0 .. m - 1 : i \in S PROVE m \in S
    <3>1. CASE m = 0
      <4>1. PICK f : f = [i \in 0 .. 0 |-> a]
        OBVIOUS
      <4>2. Good(0, f)
        BY <4>1
      <4> QED
        BY <2>1, <3>1, <4>2
    <3>2. CASE m # 0
      <4>1. m - 1 \in 0 .. m - 1 /\ m - 1 \in Nat
        BY <3>2
      <4>2. PICK h : Good(m - 1, h)
        BY <2>1, <2>2, <4>1
      <4>3. PICK f : f = [i \in 0 .. m |-> IF i < m THEN h[i] ELSE step[m][h[g[m]]]]
        OBVIOUS
      <4>4. g[m] \in 0 .. m - 1
        BY <3>2
      <4>5. f[m] = step[m][h[g[m]]] /\ f[m] \in A /\ f[g[m]] = h[g[m]]
        BY <3>2, <4>2, <4>3, <4>4
      <4>6. ASSUME NEW i \in 0 .. m - 1
            PROVE  f[i] = h[i] /\ (i # 0 => f[g[i]] = h[g[i]] /\ g[i] \in 0 .. m - 1)
        <5>1. i # 0 => g[i] \in Nat /\ g[i] < i
          OBVIOUS
        <5>2. i \in 0 .. m /\ i < m /\ (i # 0 => g[i] \in 0 .. m /\ g[i] < m)
          BY <3>2, <5>1
        <5> QED
          BY <4>3, <5>1, <5>2
      <4>7. f \in [0 .. m -> A]
        <5>1. \A i \in 0 .. m : i \in 0 .. m - 1 \/ i = m
          BY <3>2
        <5>2. \A i \in 0 .. m : f[i] \in A
          BY <4>2, <4>5, <4>6, <5>1
        <5> QED
          BY <4>3, <5>2
      <4>8. ASSUME NEW i \in 0 .. m PROVE f[i] = IF i = 0 THEN a ELSE step[i][f[g[i]]]
        <5>1. CASE i = m
          BY <3>2, <4>5, <5>1
        <5>2. CASE i \in 0 .. m - 1
          BY <4>2, <4>6, <5>2
        <5> QED
          BY <5>1, <5>2
      <4>9. Good(m, f)
        BY <4>7, <4>8
      <4> QED
        BY <2>1, <4>9
    <3> QED
      BY <3>1, <3>2
  <2>3. n \in S
    <3> HIDE DEF Good
    <3> QED
      BY <2>2, Induction
  <2> QED
    BY <2>1, <2>3
<1>3. PICK F : F = [n \in Nat |-> CHOOSE f : Good(n, f)]
  OBVIOUS
<1>4. \A n \in Nat : Good(n, F[n])
  <2> HIDE DEF Good
  <2> QED
    BY <1>2, <1>3
<1>5. PICK f : f = [n \in Nat |-> F[n][n]]
  OBVIOUS
<1>6. ASSUME NEW n \in Nat PROVE f[n] \in A /\ f[n] = IF n = 0 THEN a ELSE step[n][f[g[n]]]
  <2>1. Good(n, F[n]) /\ n \in 0 .. n /\ f[n] = F[n][n]
    BY <1>4, <1>5
  <2>2. CASE n = 0
    BY <2>1, <2>2
  <2>3. CASE n # 0
    <3>1. g[n] \in Nat /\ g[n] <= n
      BY <2>3
    <3>2. Good(g[n], F[g[n]])
      BY <1>4, <3>1
    <3>3. F[n][g[n]] = F[g[n]][g[n]]
      <4> HIDE DEF Good
      <4> QED
        BY <1>1, <2>1, <3>1, <3>2
    <3>4. f[g[n]] = F[n][g[n]]
      BY <1>5, <3>1, <3>3
    <3> QED
      BY <2>1, <2>3, <3>4
  <2> QED
    BY <2>2, <2>3
<1>7. f \in [Nat -> A]
  BY <1>5, <1>6
<1> QED
  BY <1>6, <1>7 DEF Solution

\* Quotient and remainder
LEMMA Division ==
    ASSUME NEW b \in Nat \ {0}, NEW m \in Nat
    PROVE  \E q \in Nat, r \in 0 .. b - 1 : q = m \div b /\ r = m % b /\ m = q * b + r
<1>1. m \div b \in Nat /\ m % b \in 0 .. b - 1
  OBVIOUS
<1>2. m % b = m - b * (m \div b)
  BY SMTT(30)
<1>3. PICK q \in Nat, r \in 0 .. b - 1 : q = m \div b /\ r = m % b
  BY <1>1
<1>4. q * b = b * q /\ b * q \in Nat
  OBVIOUS
<1>5. m = q * b + r
  BY <1>2, <1>3, <1>4
<1> QED
  BY <1>3, <1>5

\* Division by a base makes a number smaller.
LEMMA QuotientLess ==
    ASSUME NEW b \in Nat \ {0, 1}, NEW m \in Nat \ {0}
    PROVE  m \div b < m
OBVIOUS

-----------------------------------------------------------------------------
(* Digits and what they are worth.                                         *)

\* A digit string is that of the quotient and the remainder.
LEMMA DigitsRec ==
    ASSUME NEW b \in Nat \ {0, 1}
    PROVE  \A n \in Nat :
              /\ Digits(b, n) \in Seq(0 .. b - 1)
              /\ Digits(b, n) = IF n = 0 THEN <<>> ELSE Append(Digits(b, n \div b), n % b)
<1> DEFINE A == Seq(0 .. b - 1)
           Solves(f) == f = [m \in Nat |-> IF m = 0 THEN <<>> ELSE Append(f[m \div b], m % b)]
<1>1. \A m \in Nat : m \div b \in Nat /\ m % b \in 0 .. b - 1 /\ (m # 0 => m \div b < m)
  BY Division, QuotientLess
<1>2. \E f \in [Nat -> A] : Solves(f)
  <2>1. PICK g : g = [m \in Nat |-> m \div b]
    OBVIOUS
  <2>2. PICK step : step = [m \in Nat |-> [s \in A |-> Append(s, m % b)]]
    OBVIOUS
  <2>3. Descends(g)
    BY <1>1, <2>1 DEF Descends
  <2>4. Steps(step, A)
    <3>1. ASSUME NEW m \in Nat, NEW s \in A PROVE Append(s, m % b) \in A
      <4>1. m % b \in 0 .. b - 1
        BY <1>1
      <4> QED
        BY <4>1, AppendProperties
    <3> HIDE DEF A
    <3> QED
      BY <2>2, <3>1 DEF Steps
  <2>5. <<>> \in A
    OBVIOUS
  <2>6. PICK f : Solution(f, A, <<>>, g, step)
    <3> HIDE DEF A
    <3> QED
      BY <2>3, <2>4, <2>5, Recursion
  <2>7. \A n \in Nat : n # 0 => step[n][f[g[n]]] = Append(f[n \div b], n % b)
    <3> HIDE DEF A
    <3> QED
      BY <1>1, <2>1, <2>2, <2>6 DEF Solution
  <2>8. \A n \in Nat : f[n] = IF n = 0 THEN <<>> ELSE Append(f[n \div b], n % b)
    <3> HIDE DEF A
    <3> QED
      BY <2>6, <2>7 DEF Solution
  <2>9. Solves(f)
    <3> HIDE DEF A
    <3> QED
      BY <2>6, <2>8 DEF Solution
  <2> QED
    BY <2>6, <2>9 DEF Solution
<1>3. PICK d : d = CHOOSE f : Solves(f)
  OBVIOUS
<1>4. Solves(d)
  BY <1>2, <1>3
<1>5. \A n \in Nat : d[n] = IF n = 0 THEN <<>> ELSE Append(d[n \div b], n % b)
  BY <1>4
<1>6. \A n \in Nat : Digits(b, n) = d[n]
  BY <1>3 DEF Digits
<1>7. ASSUME NEW n \in Nat PROVE d[n] \in A
  <2>1. PICK S : S = {m \in Nat : d[m] \in A}
    OBVIOUS
  <2>2. ASSUME NEW m \in Nat, \A i \in 0 .. m - 1 : i \in S PROVE m \in S
    <3>1. CASE m = 0
      <4>1. <<>> \in A
        OBVIOUS
      <4> QED
        BY <1>5, <2>1, <3>1, <4>1
    <3>2. CASE m # 0
      <4>1. m \div b \in 0 .. m - 1 /\ m % b \in 0 .. b - 1
        <5>1. m \in Nat \ {0} /\ m \div b \in Nat /\ m % b \in 0 .. b - 1
          BY <3>2
        <5>2. m \div b < m
          BY <5>1, QuotientLess
        <5> QED
          BY <5>1, <5>2
      <4>2. d[m \div b] \in A
        BY <2>1, <2>2, <4>1
      <4>3. Append(d[m \div b], m % b) \in A
        BY <4>1, <4>2
      <4> QED
        BY <1>5, <2>1, <3>2, <4>3
    <3> QED
      BY <3>1, <3>2
  <2>3. \A m \in Nat : m \in S
    BY <2>2, Induction
  <2> QED
    BY <2>1, <2>3
<1> QED
  <2> HIDE DEF Solves
  <2>1. \A n \in Nat : n \div b \in Nat
    BY <1>1
  <2> QED
    BY <1>5, <1>6, <1>7, <2>1

\* v[i] is what the first i of the l digits s are worth.
Sums(v, b, s, l) ==
    /\ v \in [0 .. l -> Nat] /\ v[0] = 0
    /\ \A i \in 1 .. l : v[i] = v[i - 1] * b + s[i]

\* The worth of a digit string, prefix by prefix
LEMMA ValueRec ==
    ASSUME NEW b \in Nat, NEW s \in Seq(Nat), NEW l, l = Len(s)
    PROVE  \E v : Sums(v, b, s, l) /\ Value(b, s) = v[l]
<1> DEFINE Solves(f) ==
       f = [i \in 0 .. Len(s) |-> IF i = 0 THEN 0 ELSE f[i - 1] * b + s[i]]
<1>1. l \in Nat
  OBVIOUS
<1>2. \E f : Solves(f)
  <2>1. PICK g : g = [i \in Nat |-> IF i = 0 THEN 0 ELSE i - 1]
    OBVIOUS
  <2>2. PICK step : step = [i \in Nat |-> [x \in Nat |->
                              IF i \in 1 .. l THEN x * b + s[i] ELSE 0]]
    OBVIOUS
  <2>3. Descends(g)
    BY <2>1 DEF Descends
  <2>4. Steps(step, Nat)
    <3>1. \A i \in Nat, x \in Nat : i \in 1 .. l => s[i] \in Nat /\ x * b + s[i] \in Nat
      BY <1>1
    <3>2. \A i \in Nat, x \in Nat : (IF i \in 1 .. l THEN x * b + s[i] ELSE 0) \in Nat
      BY <3>1
    <3> QED
      BY <2>2, <3>2 DEF Steps
  <2>5. PICK f : Solution(f, Nat, 0, g, step)
    BY <2>3, <2>4, Recursion
  <2>6. ASSUME NEW i \in 1 .. l PROVE f[i] = f[i - 1] * b + s[i]
    <3>0. i \in Nat /\ i # 0 /\ i - 1 \in Nat
      OBVIOUS
    <3>1. f[i] = step[i][f[g[i]]] /\ g[i] = i - 1 /\ f[i - 1] \in Nat
      BY <2>1, <2>5, <3>0 DEF Solution
    <3>2. step[i][f[i - 1]] = f[i - 1] * b + s[i]
      BY <2>2, <3>1
    <3> QED
      BY <3>1, <3>2
  <2>7. PICK h : h = [i \in 0 .. l |-> f[i]]
    OBVIOUS
  <2>8. \A i \in 0 .. l : h[i] = IF i = 0 THEN 0 ELSE h[i - 1] * b + s[i]
    <3> TAKE i \in 0 .. l
    <3>1. CASE i = 0
      BY <2>5, <2>7, <3>1 DEF Solution
    <3>2. CASE i \in 1 .. l
      <4>1. h[i] = f[i] /\ h[i - 1] = f[i - 1]
        BY <2>7, <3>2
      <4> QED
        BY <2>6, <3>2, <4>1
    <3> QED
      BY <3>1, <3>2
  <2>9. Solves(h)
    BY <1>1, <2>7, <2>8
  <2> QED
    BY <2>9
<1>3. PICK v : v = CHOOSE f : Solves(f)
  OBVIOUS
<1>4. Solves(v)
  BY <1>2, <1>3
<1>5. Value(b, s) = v[Len(s)]
  BY <1>3 DEF Value
<1>6. v[0] = 0 /\ \A i \in 1 .. l : v[i] = v[i - 1] * b + s[i]
  <2>1. 0 \in 0 .. l /\ \A i \in 1 .. l : i \in 0 .. l /\ i # 0
    OBVIOUS
  <2>2. \A i \in 0 .. l : v[i] = IF i = 0 THEN 0 ELSE v[i - 1] * b + s[i]
    BY <1>1, <1>4
  <2> QED
    BY <2>1, <2>2
<1>7. \A i \in Nat : i <= l => v[i] \in Nat
  <2>1. PICK S : S = {i \in Nat : i <= l => v[i] \in Nat}
    OBVIOUS
  <2>2. ASSUME NEW i \in Nat, \A m \in 0 .. i - 1 : m \in S PROVE i \in S
    <3>1. CASE i = 0
      BY <1>6, <2>1, <3>1
    <3>2. CASE i \in 1 .. l
      <4>1. v[i - 1] \in Nat
        BY <2>1, <2>2, <3>2
      <4>2. s[i] \in Nat
        BY <1>1, <3>2
      <4>3. v[i - 1] * b + s[i] \in Nat
        BY <4>1, <4>2
      <4>4. v[i] \in Nat
        BY <1>6, <3>2, <4>3
      <4> QED
        BY <2>1, <4>4
    <3>3. CASE i > l
      BY <2>1, <3>3
    <3> QED
      BY <3>1, <3>2, <3>3
  <2>3. \A i \in Nat : i \in S
    BY <2>2, Induction
  <2> QED
    BY <2>1, <2>3
<1>8. v \in [0 .. l -> Nat]
  <2>1. v = [i \in 0 .. l |-> v[i]]
    BY <1>1, <1>4
  <2> HIDE DEF Solves
  <2> QED
    BY <1>7, <2>1
<1> QED
  <2> HIDE DEF Solves
  <2>1. Sums(v, b, s, l)
    BY <1>6, <1>8 DEF Sums
  <2> QED
    BY <1>1, <1>5, <2>1

\* These equations have one solution.
LEMMA ValueIs ==
    ASSUME NEW b \in Nat, NEW s \in Seq(Nat), NEW l, l = Len(s),
           NEW w, Sums(w, b, s, l)
    PROVE  Value(b, s) = w[l]
<1>1. l \in Nat /\ w[0] = 0 /\ \A i \in 1 .. l : w[i] = w[i - 1] * b + s[i]
  BY DEF Sums
<1>2. PICK v \in [0 .. l -> Nat] :
         /\ v[0] = 0
         /\ \A i \in 1 .. l : v[i] = v[i - 1] * b + s[i]
         /\ Value(b, s) = v[l]
  <2>1. PICK v : Sums(v, b, s, l) /\ Value(b, s) = v[l]
    BY ValueRec
  <2> QED
    BY <2>1 DEF Sums
<1>3. PICK S : S = {i \in Nat : i <= l => v[i] = w[i]}
  OBVIOUS
<1>4. ASSUME NEW i \in Nat, \A m \in 0 .. i - 1 : m \in S PROVE i \in S
  <2>1. CASE i = 0
    <3>1. v[0] = 0 /\ w[0] = 0
      BY <1>1, <1>2
    <3> QED
      BY <1>3, <2>1, <3>1
  <2>2. CASE i \in 1 .. l
    <3>1. v[i - 1] = w[i - 1]
      BY <1>3, <1>4, <2>2
    <3>2. w[i] = w[i - 1] * b + s[i]
      BY <1>1, <2>2
    <3> QED
      BY <1>2, <1>3, <2>2, <3>1, <3>2
  <2>3. CASE i > l
    BY <1>3, <2>3
  <2> QED
    BY <2>1, <2>2, <2>3
<1>5. \A i \in Nat : i \in S
  BY <1>4, Induction
<1> QED
  BY <1>1, <1>2, <1>3, <1>5

\* No digits are worth 0.
LEMMA ValueEmpty == ASSUME NEW b \in Nat PROVE Value(b, <<>>) = 0
<1>1. PICK s \in Seq(Nat) : s = <<>> /\ Len(s) = 0
  <2>1. <<>> \in Seq(Nat) /\ Len(<<>>) = 0
    OBVIOUS
  <2> QED
    BY <2>1
<1>2. PICK l \in Nat : l = 0 /\ l = Len(s)
  BY <1>1
<1>3. PICK v \in [0 .. l -> Nat] : v[0] = 0 /\ Value(b, s) = v[l]
  <2>1. PICK v : Sums(v, b, s, l) /\ Value(b, s) = v[l]
    BY <1>2, ValueRec
  <2> QED
    BY <2>1 DEF Sums
<1> QED
  BY <1>1, <1>2, <1>3

\* Digits are worth a natural number.
LEMMA ValueType == ASSUME NEW b \in Nat, NEW s \in Seq(Nat) PROVE Value(b, s) \in Nat
<1>1. PICK l \in Nat : l = Len(s)
  OBVIOUS
<1>2. PICK v : Sums(v, b, s, l) /\ Value(b, s) = v[l]
  <2>1. PICK v : Sums(v, b, s, l) /\ Value(b, s) = v[l]
    BY <1>1, ValueRec
  <2> QED
    BY <2>1 DEF Sums
<1>3. v \in [0 .. l -> Nat] /\ l \in 0 .. l
  BY <1>2 DEF Sums
<1> QED
  BY <1>2, <1>3

\* One digit more
LEMMA ValueAppend ==
    ASSUME NEW b \in Nat, NEW s \in Seq(Nat), NEW x \in Nat
    PROVE  Value(b, Append(s, x)) = Value(b, s) * b + x
<1>1. PICK l \in Nat : l = Len(s)
  OBVIOUS
<1>2. PICK t : t = Append(s, x)
  OBVIOUS
<1>3. /\ t \in Seq(Nat) /\ Len(t) = l + 1 /\ t[l + 1] = x
      /\ \A i \in 1 .. l : t[i] = s[i]
  BY <1>1, <1>2, AppendProperties
<1>4. PICK v \in [0 .. l -> Nat] :
         v[0] = 0 /\ (\A i \in 1 .. l : v[i] = v[i - 1] * b + s[i]) /\ Value(b, s) = v[l]
  <2>1. PICK v : Sums(v, b, s, l) /\ Value(b, s) = v[l]
    BY <1>1, ValueRec
  <2> QED
    BY <2>1 DEF Sums
<1>5. PICK w : w = [i \in 0 .. l + 1 |-> IF i <= l THEN v[i] ELSE v[l] * b + x]
  OBVIOUS
<1>6. v[l] \in Nat /\ v[l] * b + x \in Nat
  <2>1. v[l] \in Nat
    BY <1>4
  <2> QED
    BY <2>1
<1>7. w \in [0 .. l + 1 -> Nat]
  BY <1>4, <1>5, <1>6
<1>8. ASSUME NEW i \in 1 .. l + 1 PROVE w[i] = w[i - 1] * b + t[i]
  <2>1. CASE i \in 1 .. l
    <3>1. w[i] = v[i] /\ w[i - 1] = v[i - 1]
      BY <1>5, <2>1
    <3> QED
      BY <1>3, <1>4, <2>1, <3>1
  <2>2. CASE i = l + 1
    <3>1. w[i] = v[l] * b + x /\ w[i - 1] = v[l]
      BY <1>5, <2>2
    <3> QED
      BY <1>3, <2>2, <3>1
  <2> QED
    BY <2>1, <2>2
<1>9. w[0] = 0 /\ w[l + 1] = v[l] * b + x
  BY <1>4, <1>5
<1>10. Value(b, t) = w[l + 1]
  <2>1. PICK m : m = l + 1 /\ m = Len(t)
    BY <1>3
  <2>2. Sums(w, b, t, m)
    BY <1>7, <1>8, <1>9, <2>1 DEF Sums
  <2>3. t \in Seq(Nat)
    BY <1>3
  <2> QED
    BY <2>1, <2>2, <2>3, ValueIs
<1> QED
  BY <1>2, <1>4, <1>9, <1>10

\* Zeros in front are worth nothing.
LEMMA ValueZeros ==
    ASSUME NEW b \in Nat, NEW s \in Seq(Nat), NEW k \in Nat
    PROVE  /\ [i \in 1 .. k |-> 0] \o s \in Seq(Nat)
           /\ Len([i \in 1 .. k |-> 0] \o s) = k + Len(s)
           /\ Value(b, [i \in 1 .. k |-> 0] \o s) = Value(b, s)
<1>1. PICK l \in Nat : l = Len(s)
  OBVIOUS
<1>2. PICK z : z = [i \in 1 .. k |-> 0]
  OBVIOUS
<1>3. z \in Seq(Nat) /\ Len(z) = k /\ \A i \in 1 .. k : z[i] = 0
  BY <1>2
<1>4. PICK t : t = z \o s
  OBVIOUS
<1>5. /\ t \in Seq(Nat) /\ Len(t) = k + l
      /\ \A i \in 1 .. k + l : t[i] = IF i <= k THEN z[i] ELSE s[i - k]
  BY <1>1, <1>3, <1>4, ConcatProperties
<1>6. PICK v \in [0 .. l -> Nat] :
         v[0] = 0 /\ (\A i \in 1 .. l : v[i] = v[i - 1] * b + s[i]) /\ Value(b, s) = v[l]
  <2>1. PICK v : Sums(v, b, s, l) /\ Value(b, s) = v[l]
    BY <1>1, ValueRec
  <2> QED
    BY <2>1 DEF Sums
<1>7. PICK w : w = [i \in 0 .. k + l |-> IF i <= k THEN 0 ELSE v[i - k]]
  OBVIOUS
<1>8. w \in [0 .. k + l -> Nat]
  BY <1>6, <1>7
<1>9. ASSUME NEW i \in 1 .. k + l PROVE w[i] = w[i - 1] * b + t[i]
  <2>1. CASE i <= k
    <3>1. w[i] = 0 /\ w[i - 1] = 0 /\ t[i] = 0
      BY <1>3, <1>5, <1>7, <2>1
    <3> QED
      BY <3>1
  <2>2. CASE i = k + 1
    <3>1. w[i] = v[1] /\ w[i - 1] = 0 /\ t[i] = s[1] /\ 1 \in 1 .. l
      BY <1>5, <1>7, <2>2
    <3>2. v[1] = v[0] * b + s[1] /\ v[0] = 0
      BY <1>6, <3>1
    <3> QED
      BY <3>1, <3>2
  <2>3. CASE i > k + 1
    <3>1. PICK j \in 2 .. l : i = k + j
      <4>1. i - k \in 2 .. l /\ i = k + (i - k)
        BY <2>3
      <4> QED
        BY <4>1
    <3>2. w[i] = v[j] /\ w[i - 1] = v[j - 1] /\ t[i] = s[j]
      <4>1. i - k = j /\ (i - 1) - k = j - 1 /\ ~(i <= k) /\ ~(i - 1 <= k)
        BY <3>1
      <4>2. i \in 0 .. k + l /\ i - 1 \in 0 .. k + l
        OBVIOUS
      <4> QED
        BY <1>5, <1>7, <4>1, <4>2
    <3> QED
      BY <1>6, <3>1, <3>2
  <2> QED
    BY <2>1, <2>2, <2>3
<1>10. w[0] = 0 /\ w[k + l] = v[l]
  <2>1. w[0] = 0
    BY <1>7
  <2>2. l = 0 => w[k + l] = 0
    BY <1>7
  <2>3. l # 0 => w[k + l] = v[l]
    <3>1. (k + l) - k = l /\ (l # 0 => ~(k + l <= k)) /\ k + l \in 0 .. k + l
      OBVIOUS
    <3> QED
      BY <1>7, <3>1
  <2> QED
    BY <1>6, <2>1, <2>2, <2>3
<1>11. Value(b, t) = w[k + l]
  <2>1. PICK m : m = k + l /\ m = Len(t)
    BY <1>5
  <2>2. Sums(w, b, t, m)
    BY <1>8, <1>9, <1>10, <2>1 DEF Sums
  <2>3. t \in Seq(Nat)
    BY <1>5
  <2> QED
    BY <2>1, <2>2, <2>3, ValueIs
<1> QED
  BY <1>1, <1>2, <1>4, <1>5, <1>6, <1>10, <1>11

\* The digits of a number are worth the number.
LEMMA ValueDigits ==
    ASSUME NEW b \in Nat \ {0, 1}, NEW n \in Nat
    PROVE  Digits(b, n) \in Seq(Nat) /\ Value(b, Digits(b, n)) = n
<1>1. \A m \in Nat : Digits(b, m) \in Seq(Nat)
  <2> TAKE m \in Nat
  <2>1. Digits(b, m) \in Seq(0 .. b - 1)
    BY DigitsRec
  <2> QED
    BY <2>1
<1>2. PICK S : S = {m \in Nat : Value(b, Digits(b, m)) = m}
  OBVIOUS
<1>3. ASSUME NEW m \in Nat, \A i \in 0 .. m - 1 : i \in S PROVE m \in S
  <2>1. CASE m = 0
    BY <1>2, <2>1, DigitsRec, ValueEmpty
  <2>2. CASE m # 0
    <3>1. PICK q \in Nat, r \in 0 .. b - 1 : q = m \div b /\ r = m % b /\ m = q * b + r
      BY Division
    <3>2. q < m
      BY <2>2, <3>1, QuotientLess
    <3>3. Value(b, Digits(b, q)) = q
      BY <1>2, <1>3, <3>2
    <3>4. Digits(b, m) = Append(Digits(b, q), r)
      BY <2>2, <3>1, DigitsRec
    <3>5. Value(b, Digits(b, m)) = Value(b, Digits(b, q)) * b + r
      BY <1>1, <3>4, ValueAppend
    <3> QED
      BY <1>2, <3>1, <3>3, <3>5
  <2> QED
    BY <2>1, <2>2
<1>4. \A m \in Nat : m \in S
  BY <1>3, Induction
<1> QED
  BY <1>1, <1>2, <1>4

\* Products of naturals are natural and commute.
LEMMA Commutes == ASSUME NEW x \in Nat, NEW y \in Nat PROVE x * y = y * x /\ x * y \in Nat
OBVIOUS

\* What the constants are
LEMMA Sizes ==
    /\ Base \in Nat \ {0, 1} /\ Byte \in Nat \ {0, 1} /\ Radix \in Nat \ {0, 1}
    /\ HashDigits \in Nat \ {0, 1} /\ ChunkBase \in Nat \ {0, 1} /\ MaxSafe \in Nat \ {0, 1}
    /\ Prime \in Nat \ {0, 1} /\ N32 \in Nat \ {0, 1} /\ BodySize \in Nat /\ AuthSize \in Nat
    /\ Byte = Base * Base /\ Radix = (Byte * Byte) * (Byte * Byte)
<1>1. \A x \in Nat \ {0, 1} : x * x \in Nat \ {0, 1}
  OBVIOUS
<1>2. Base \in Nat \ {0, 1}
  BY NumeralAssumption
<1>3. Byte \in Nat \ {0, 1}
  BY <1>1, <1>2 DEF Byte
<1>4. Radix \in Nat \ {0, 1}
  <2>1. Byte * Byte \in Nat \ {0, 1}
    BY <1>1, <1>3
  <2> QED
    BY <1>1, <2>1 DEF Radix
<1> QED
  BY <1>2, <1>3, <1>4, NumeralAssumption DEF Byte, Radix

\* Two digits are worth the first times the base plus the second.
LEMMA ValueTwo ==
    ASSUME NEW b \in Nat, NEW x \in Nat, NEW y \in Nat
    PROVE  Value(b, <<x, y>>) = x * b + y
<1>1. <<x>> = Append(<<>>, x) /\ <<x, y>> = Append(<<x>>, y) /\ <<x>> \in Seq(Nat)
  OBVIOUS
<1>2. Value(b, <<x>>) = x
  <2>1. <<>> \in Seq(Nat)
    OBVIOUS
  <2>2. Value(b, <<x>>) = Value(b, <<>>) * b + x
    BY <1>1, <2>1, ValueAppend
  <2> QED
    BY <2>2, ValueEmpty
<1> QED
  BY <1>1, <1>2, ValueAppend

\* An even number of digits makes half as many bytes, worth the same.
LEMMA Bytes ==
    ASSUME NEW s \in Seq(0 .. Base - 1), NEW h \in Nat, Len(s) = 2 * h
    PROVE  /\ HexStringToArray(s) \in Seq(0 .. Byte - 1)
           /\ Len(HexStringToArray(s)) = h
           /\ Value(Byte, HexStringToArray(s)) = Value(Base, s)
<1>1. Base \in Nat \ {0, 1} /\ Byte \in Nat \ {0, 1} /\ Byte = Base * Base
  BY Sizes
<1>2. s \in Seq(Nat) /\ \A i \in 1 .. 2 * h : s[i] \in 0 .. Base - 1
  BY <1>1
<1>3. PICK a : a = HexStringToArray(s)
  OBVIOUS
<1>4. (2 * h + 1) \div 2 = h
  OBVIOUS
<1>5. a = [i \in 1 .. h |-> Value(Base, SubSeq(s, 2 * i - 1, 2 * i))]
  <2>1. \A i \in 1 .. h : (IF 2 * i <= Len(s) THEN 2 * i ELSE Len(s)) = 2 * i
    OBVIOUS
  <2> QED
    BY <1>3, <1>4, <2>1 DEF HexStringToArray
<1>6. ASSUME NEW i \in 1 .. h
      PROVE  a[i] = s[2 * i - 1] * Base + s[2 * i] /\ a[i] \in 0 .. Byte - 1
  <2>1. PICK x \in 0 .. Base - 1, y \in 0 .. Base - 1 : x = s[2 * i - 1] /\ y = s[2 * i]
    <3>1. 2 * i - 1 \in 1 .. 2 * h /\ 2 * i \in 1 .. 2 * h
      OBVIOUS
    <3> QED
      BY <1>2, <3>1
  <2>2. SubSeq(s, 2 * i - 1, 2 * i) = <<x, y>>
    <3>1. PICK t : t = SubSeq(s, 2 * i - 1, 2 * i)
      OBVIOUS
    <3>2. PICK m \in 1 .. 2 * h : m = 2 * i - 1 /\ m + 1 \in 1 .. 2 * h /\ 2 * i = m + 1
      <4>1. 2 * i - 1 \in 1 .. 2 * h /\ 2 * i \in 1 .. 2 * h
        OBVIOUS
      <4> QED
        BY <4>1
    <3>3. t \in Seq(Nat) /\ Len(t) = 2 /\ t[1] = s[m] /\ t[2] = s[m + 1]
      BY <1>2, <3>1, <3>2
    <3>4. t = <<t[1], t[2]>>
      BY <3>3
    <3> QED
      BY <2>1, <3>1, <3>2, <3>3, <3>4
  <2>3. Value(Base, <<x, y>>) = x * Base + y
    BY <1>1, ValueTwo
  <2>4. x * Base + y \in 0 .. Base * Base - 1
    <3>1. PICK d \in Nat : Base = x + 1 + d
      <4>1. Base - x - 1 \in Nat /\ Base = x + 1 + (Base - x - 1)
        BY <1>1
      <4> QED
        BY <4>1
    <3>2. d * Base \in Nat /\ x * Base \in Nat
      BY <1>1
    <3>3. Base * Base = x * Base + Base + d * Base
      BY <1>1, <3>1
    <3> QED
      BY <1>1, <3>2, <3>3
  <2> QED
    BY <1>1, <1>5, <2>1, <2>2, <2>3, <2>4
<1>7. a \in Seq(0 .. Byte - 1) /\ Len(a) = h
  BY <1>5, <1>6
<1>8. a \in Seq(Nat)
  BY <1>1, <1>7
<1>9. PICK v \in [0 .. 2 * h -> Nat] :
         /\ v[0] = 0 /\ Value(Base, s) = v[2 * h]
         /\ \A i \in 1 .. 2 * h : v[i] = v[i - 1] * Base + s[i]
  <2>1. Base \in Nat
    BY <1>1
  <2>2. PICK l \in Nat : l = 2 * h /\ l = Len(s)
    OBVIOUS
  <2>3. PICK v \in [0 .. l -> Nat] :
           v[0] = 0 /\ (\A i \in 1 .. l : v[i] = v[i - 1] * Base + s[i]) /\ Value(Base, s) = v[l]
    <3>1. PICK v : Sums(v, Base, s, l) /\ Value(Base, s) = v[l]
      BY <1>2, <2>1, <2>2, ValueRec
    <3> QED
      BY <3>1 DEF Sums
  <2> QED
    BY <2>2, <2>3
<1>10. PICK w : w = [i \in 0 .. h |-> v[2 * i]]
  OBVIOUS
<1>11. w \in [0 .. h -> Nat] /\ w[0] = 0 /\ w[h] = v[2 * h]
  BY <1>9, <1>10
<1>12. ASSUME NEW i \in 1 .. h PROVE w[i] = w[i - 1] * Byte + a[i]
  <2>1. PICK x \in Nat, y \in Nat : x = s[2 * i - 1] /\ y = s[2 * i]
    BY <1>2
  <2>2. 2 * i - 1 \in 1 .. 2 * h /\ 2 * i \in 1 .. 2 * h /\ 2 * i - 2 \in 0 .. 2 * h
        /\ 2 * i - 1 - 1 = 2 * i - 2 /\ 2 * (i - 1) = 2 * i - 2
    OBVIOUS
  <2>3. v[2 * i - 1] = v[2 * i - 2] * Base + x /\ v[2 * i] = v[2 * i - 1] * Base + y
    BY <1>9, <2>1, <2>2
  <2>4. PICK u \in Nat : u = v[2 * i - 2]
    BY <1>9, <2>2
  <2>5. v[2 * i] = u * (Base * Base) + (x * Base + y)
    <3>1. (u * Base + x) * Base + y = u * (Base * Base) + (x * Base + y)
      BY <1>1
    <3> QED
      BY <2>3, <2>4, <3>1
  <2>6. w[i] = v[2 * i] /\ w[i - 1] = u
    BY <1>10, <2>2, <2>4
  <2>7. a[i] = x * Base + y
    BY <1>6, <2>1
  <2> QED
    BY <1>1, <2>5, <2>6, <2>7
<1>13. Value(Byte, a) = w[h]
  <2>1. Byte \in Nat
    BY <1>1
  <2>2. Sums(w, Byte, a, h)
    BY <1>11, <1>12 DEF Sums
  <2> QED
    BY <1>7, <1>8, <2>1, <2>2, ValueIs
<1> QED
  BY <1>3, <1>7, <1>9, <1>11, <1>13

-----------------------------------------------------------------------------
(* How many digits.                                                        *)

\* The quotient of a larger number is not smaller.
LEMMA QuotientMonotone ==
    ASSUME NEW b \in Nat \ {0}, NEW m \in Nat, NEW n \in Nat, m <= n
    PROVE  m \div b <= n \div b
<1>1. PICK q \in Nat, r \in 0 .. b - 1 : q = m \div b /\ m = q * b + r
  BY Division
<1>2. PICK p \in Nat, t \in 0 .. b - 1 : p = n \div b /\ n = p * b + t
  BY Division
<1>3. SUFFICES ASSUME q >= p + 1 PROVE FALSE
  BY <1>1, <1>2
<1>4. PICK d \in Nat : q = p + 1 + d
  <2>1. q - p - 1 \in Nat /\ q = p + 1 + (q - p - 1)
    BY <1>3
  <2> QED
    BY <2>1
<1>5. q * b = p * b + b + d * b /\ d * b \in Nat /\ p * b \in Nat
  BY <1>4
<1> QED
  BY <1>1, <1>2, <1>5

\* A number below b * x has a quotient by b below x.
LEMMA QuotientBound ==
    ASSUME NEW b \in Nat \ {0}, NEW x \in Nat, NEW n \in Nat, n < b * x
    PROVE  n \div b < x
<1>1. PICK q \in Nat, r \in 0 .. b - 1 : q = n \div b /\ n = q * b + r
  BY Division
<1>2. SUFFICES ASSUME q >= x PROVE FALSE
  BY <1>1
<1>3. PICK d \in Nat : q = x + d
  <2>1. q - x \in Nat /\ q = x + (q - x)
    BY <1>2
  <2> QED
    BY <2>1
<1>4. q * b = b * x + d * b /\ d * b \in Nat /\ b * x \in Nat
  BY <1>3
<1> QED
  BY <1>1, <1>4

\* A number has no more digits than a greater one.
LEMMA MoreDigits ==
    ASSUME NEW b \in Nat \ {0, 1}, NEW n \in Nat, NEW m \in 0 .. n
    PROVE  Len(Digits(b, m)) <= Len(Digits(b, n))
<1>1. PICK S : S = {k \in Nat : \A i \in 0 .. k : Len(Digits(b, i)) <= Len(Digits(b, k))}
  OBVIOUS
<1>2. ASSUME NEW k \in Nat, \A j \in 0 .. k - 1 : j \in S PROVE k \in S
  <2> SUFFICES ASSUME NEW i \in 0 .. k PROVE Len(Digits(b, i)) <= Len(Digits(b, k))
    BY <1>1
  <2>1. \A j \in Nat : Digits(b, j) \in Seq(Nat) /\ Len(Digits(b, j)) \in Nat
    BY ValueDigits
  <2>2. CASE i = 0
    <3>1. Len(Digits(b, i)) = 0
      BY <2>2, DigitsRec
    <3> QED
      BY <2>1, <3>1
  <2>3. CASE i # 0
    <3>1. i \in Nat /\ k # 0 /\ i <= k
      BY <2>3
    <3>2. PICK p \in Nat, x \in Nat : p = i \div b /\ x = i % b
      BY <3>1, Division
    <3>3. PICK q \in Nat, y \in Nat : q = k \div b /\ y = k % b
      BY Division
    <3>4. q < k /\ p <= q
      BY <3>1, <3>2, <3>3, QuotientLess, QuotientMonotone
    <3>5. Len(Digits(b, p)) <= Len(Digits(b, q))
      BY <1>1, <1>2, <3>4
    <3>6. Digits(b, i) = Append(Digits(b, p), x) /\ Digits(b, k) = Append(Digits(b, q), y)
      BY <2>3, <3>1, <3>2, <3>3, DigitsRec
    <3>7. /\ Len(Digits(b, i)) = Len(Digits(b, p)) + 1
          /\ Len(Digits(b, k)) = Len(Digits(b, q)) + 1
      BY <2>1, <3>6, AppendProperties
    <3> QED
      BY <2>1, <3>5, <3>7
  <2> QED
    BY <2>2, <2>3
<1>3. \A k \in Nat : k \in S
  BY <1>2, Induction
<1> QED
  BY <1>1, <1>3

\* There is no leading zero.
LEMMA FirstDigit ==
    ASSUME NEW b \in Nat \ {0, 1}, NEW n \in Nat \ {0}
    PROVE  Len(Digits(b, n)) >= 1 /\ Digits(b, n)[1] # 0
<1>1. PICK S : S = {k \in Nat : k # 0 => Len(Digits(b, k)) >= 1 /\ Digits(b, k)[1] # 0}
  OBVIOUS
<1>2. ASSUME NEW k \in Nat, \A j \in 0 .. k - 1 : j \in S PROVE k \in S
  <2> SUFFICES ASSUME k # 0 PROVE Len(Digits(b, k)) >= 1 /\ Digits(b, k)[1] # 0
    BY <1>1
  <2>1. PICK q \in Nat, r \in Nat : q = k \div b /\ r = k % b /\ k = q * b + r
    BY Division
  <2>2. q < k
    BY <2>1, QuotientLess
  <2>3. Digits(b, q) \in Seq(Nat) /\ Digits(b, k) = Append(Digits(b, q), r)
    BY <2>1, DigitsRec, ValueDigits
  <2>4. CASE q = 0
    <3>1. r # 0 /\ Digits(b, q) = <<>>
      BY <2>1, <2>4, DigitsRec
    <3> QED
      BY <2>3, <3>1
  <2>5. CASE q # 0
    <3>1. Len(Digits(b, q)) >= 1 /\ Digits(b, q)[1] # 0
      BY <1>1, <1>2, <2>2, <2>5
    <3>2. Len(Digits(b, k)) = Len(Digits(b, q)) + 1 /\ Digits(b, k)[1] = Digits(b, q)[1]
      BY <2>3, <3>1, AppendProperties
    <3> QED
      BY <2>3, <3>1, <3>2
  <2> QED
    BY <2>4, <2>5
<1>3. \A k \in Nat : k \in S
  BY <1>2, Induction
<1> QED
  BY <1>1, <1>3

\* Below b times x there is at most one digit more than below x.
LEMMA OneDigitMore ==
    ASSUME NEW b \in Nat \ {0, 1}, NEW x \in Nat, NEW l \in Nat,
           \A k \in Nat : k < x => Len(Digits(b, k)) <= l,
           NEW n \in Nat, n < b * x
    PROVE  Len(Digits(b, n)) <= l + 1
<1>1. \A j \in Nat : Digits(b, j) \in Seq(Nat) /\ Len(Digits(b, j)) \in Nat
  BY ValueDigits
<1>2. CASE n = 0
  BY <1>2, DigitsRec
<1>3. CASE n # 0
  <2>1. PICK q \in Nat, r \in Nat : q = n \div b /\ r = n % b
    <3>1. \E q \in Nat, r \in 0 .. b - 1 : q = n \div b /\ r = n % b /\ n = q * b + r
      BY Division
    <3> QED
      BY <3>1
  <2>2. q < x
    BY <2>1, QuotientBound
  <2>3. Digits(b, n) = Append(Digits(b, q), r)
    BY <1>3, <2>1, DigitsRec
  <2>4. Len(Digits(b, n)) = Len(Digits(b, q)) + 1
    BY <1>1, <2>3, AppendProperties
  <2> QED
    BY <1>1, <2>2, <2>4
<1> QED
  BY <1>2, <1>3

\* A number below Radix has at most eight digits.
LEMMA EightDigits ==
    ASSUME NEW n \in Nat, n < Radix
    PROVE  Len(Digits(Base, n)) <= 8
<1> DEFINE Short(x, l) == \A k \in Nat : k < x => Len(Digits(Base, k)) <= l
<1>1. PICK b \in Nat \ {0, 1} : b = Base
  BY Sizes
<1>2. ASSUME NEW x \in Nat, NEW l \in Nat, Short(x, l)
      PROVE  Short(b * x, l + 1)
  BY <1>1, <1>2, OneDigitMore
<1>3. Short(1, 0)
  BY <1>1, DigitsRec
<1> HIDE DEF Short
<1>4. Short(b, 1)
  <2>1. b * 1 = b
    OBVIOUS
  <2> QED
    BY <1>2, <1>3, <2>1
<1>5. Short(b * b, 2)
  BY <1>2, <1>4
<1>6. Short(b * (b * b), 3)
  <2>1. b * b \in Nat
    OBVIOUS
  <2> QED
    BY <1>2, <1>5, <2>1
<1>7. PICK c \in Nat : c = b * (b * (b * b))
  OBVIOUS
<1>8. Short(c, 4)
  <2>1. b * (b * b) \in Nat
    OBVIOUS
  <2> QED
    BY <1>2, <1>6, <1>7, <2>1
<1>9. Short(b * c, 5)
  BY <1>2, <1>8
<1>10. Short(b * (b * c), 6)
  <2>1. b * c \in Nat
    OBVIOUS
  <2> QED
    BY <1>2, <1>9, <2>1
<1>11. Short(b * (b * (b * c)), 7)
  <2>1. b * (b * c) \in Nat
    OBVIOUS
  <2> QED
    BY <1>2, <1>10, <2>1
<1>12. Short(b * (b * (b * (b * c))), 8)
  <2>1. b * (b * (b * c)) \in Nat
    OBVIOUS
  <2> QED
    BY <1>2, <1>11, <2>1
<1>13. b * (b * (b * (b * c))) = Radix
  <2>1. c = (b * b) * (b * b)
    BY <1>7
  <2>2. b * (b * (b * (b * c))) = ((b * b) * (b * b)) * c
    OBVIOUS
  <2> QED
    BY <1>1, <2>1, <2>2 DEF Radix, Byte
<1> QED
  BY <1>12, <1>13 DEF Short

-----------------------------------------------------------------------------
(* Words of a field element, and values put behind one another.            *)

\* Reversed twice, a sequence is what it was.
LEMMA ReverseTwice ==
    ASSUME NEW S, NEW s \in Seq(S)
    PROVE  /\ Reverse(s) \in Seq(S) /\ Len(Reverse(s)) = Len(s)
           /\ Reverse(Reverse(s)) = s
<1>1. PICK l \in Nat : l = Len(s)
  OBVIOUS
<1>2. PICK r : r = [i \in 1 .. l |-> s[(l - i) + 1]]
  OBVIOUS
<1>3. Reverse(s) = r
  BY <1>1, <1>2 DEF Reverse
<1>4. \A i \in 1 .. l : (l - i) + 1 \in 1 .. l /\ s[i] \in S /\ (l - ((l - i) + 1)) + 1 = i
  BY <1>1
<1>5. r \in Seq(S) /\ Len(r) = l
  BY <1>2, <1>4
<1>6. \A i \in 1 .. l : r[(l - i) + 1] = s[i]
  BY <1>2, <1>4
<1>7. Reverse(r) = [i \in 1 .. l |-> s[i]]
  BY <1>5, <1>6 DEF Reverse
<1>8. s = [i \in 1 .. l |-> s[i]]
  BY <1>1
<1> QED
  BY <1>1, <1>3, <1>5, <1>7, <1>8

\* Zeros put in front of n's digits
LEMMA Filled ==
    ASSUME NEW b \in Nat \ {0, 1}, NEW n \in Nat, NEW d, d = Digits(b, n),
           NEW k \in Nat, NEW z, z = [i \in 1 .. k |-> 0]
    PROVE  /\ z \o d \in Seq(0 .. b - 1) /\ z \o d \in Seq(Nat)
           /\ Len(z \o d) = k + Len(d) /\ Value(b, z \o d) = n
<1>1. d \in Seq(0 .. b - 1)
  BY DigitsRec
<1>2. d \in Seq(Nat) /\ Value(b, d) = n
  BY ValueDigits
<1>3. z \o d \in Seq(Nat) /\ Len(z \o d) = k + Len(d) /\ Value(b, z \o d) = n
  BY <1>2, ValueZeros
<1>4. z \in Seq(0 .. b - 1)
  OBVIOUS
<1>5. z \o d \in Seq(0 .. b - 1)
  BY <1>1, <1>4, ConcatProperties
<1> QED
  BY <1>3, <1>5

\* A number in as many words as the field takes
LEMMA Array32 ==
    ASSUME NEW n \in 0 .. Prime
    PROVE  /\ ToArray32(n, N32) \in Seq(Nat) /\ ToArray32(n, N32) \in Seq(0 .. Radix - 1)
           /\ Len(ToArray32(n, N32)) = N32
           /\ Value(Radix, ToArray32(n, N32)) = n
<1>1. PICK b \in Nat \ {0, 1}, size \in Nat : b = Radix /\ size = N32
  BY Sizes
<1>2. n \in Nat /\ Prime \in Nat
  BY Sizes
<1>3. PICK d : d = Digits(b, n)
  OBVIOUS
<1>4. PICK k \in Nat : k = size - Len(d) /\ Len(d) \in Nat
  <2>1. Len(d) <= Len(Digits(b, Prime))
    BY <1>2, <1>3, MoreDigits
  <2>2. Len(d) \in Nat /\ Len(Digits(b, Prime)) \in Nat
    BY <1>2, <1>3, ValueDigits
  <2>3. Len(Digits(b, Prime)) <= size
    BY <1>1, NumeralAssumption
  <2> QED
    BY <2>1, <2>2, <2>3
<1>5. PICK z : z = [i \in 1 .. k |-> 0]
  OBVIOUS
<1>6. ToArray32(n, N32) = z \o d
  BY <1>1, <1>3, <1>4, <1>5 DEF ToArray32
<1>7. /\ z \o d \in Seq(0 .. b - 1) /\ z \o d \in Seq(Nat)
      /\ Len(z \o d) = k + Len(d) /\ Value(b, z \o d) = n
  BY <1>2, <1>3, <1>5, Filled
<1> QED
  BY <1>1, <1>4, <1>6, <1>7

\* What the module has in its memory of a number is the number, in the field.
LEMMA Memory ==
    ASSUME NEW n \in Nat
    PROVE  /\ SharedRWMemory(n) \in Seq(Nat) /\ Len(SharedRWMemory(n)) = N32
           /\ Value(Radix, Reverse(SharedRWMemory(n))) = n % Prime
<1>1. PICK m \in 0 .. Prime : m = n % Prime
  BY Sizes
<1>2. PICK a : a = ToArray32(m, N32)
  OBVIOUS
<1>3. a \in Seq(Nat) /\ Len(a) = N32 /\ Value(Radix, a) = m
  BY <1>2, Array32
<1>4. SharedRWMemory(n) = Reverse(a)
  BY <1>1, <1>2 DEF SharedRWMemory
<1> QED
  BY <1>1, <1>3, <1>4, ReverseTwice

\* The prime in the witness file
LEMMA PrimeWords ==
    /\ Reverse(ToArray32(Prime, N32)) \in Seq(Nat)
    /\ Len(Reverse(ToArray32(Prime, N32))) = N32
    /\ Value(Radix, Reverse(Reverse(ToArray32(Prime, N32)))) = Prime
<1>1. PICK a : a = ToArray32(Prime, N32)
  OBVIOUS
<1>2. Prime \in 0 .. Prime
  BY Sizes
<1>3. a \in Seq(Nat) /\ Len(a) = N32 /\ Value(Radix, a) = Prime
  BY <1>1, <1>2, Array32
<1> QED
  BY <1>1, <1>3, ReverseTwice

\* Arrays of arrays, one after the other
Flattening(f, S, ss, l) ==
    /\ f \in [1 .. l -> Seq(S)]
    /\ f[1] = ss[1]
    /\ \A i \in 2 .. l : f[i] = f[i - 1] \o ss[i]
    /\ FlattenSeq(ss) = f[l]

\* FlattenSeq of a nonempty sequence is a recursive function, which exists.
LEMMA FlattenRec ==
    ASSUME NEW S, NEW ss \in Seq(Seq(S)), NEW l, l = Len(ss), l # 0
    PROVE  \E f : Flattening(f, S, ss, l)
<1> DEFINE A == Seq(S)
           Solves(f) == f = [i \in 1 .. Len(ss) |-> IF i = 1 THEN ss[i] ELSE f[i - 1] \o ss[i]]
<1>1. l \in Nat /\ l # 0 /\ \A i \in 1 .. l : ss[i] \in A
  OBVIOUS
<1>2. \E f : Solves(f)
  <2>1. PICK g : g = [i \in Nat |-> IF i = 0 THEN 0 ELSE i - 1]
    OBVIOUS
  <2>2. PICK step : step = [i \in Nat |-> [x \in A |-> IF i \in 1 .. l THEN x \o ss[i] ELSE x]]
    OBVIOUS
  <2>3. Descends(g)
    BY <2>1 DEF Descends
  <2>4. Steps(step, A)
    <3>1. \A i \in Nat, x \in A : i \in 1 .. l => x \o ss[i] \in A
      BY <1>1, ConcatProperties
    <3> HIDE DEF A
    <3> QED
      BY <2>2, <3>1 DEF Steps
  <2>5. <<>> \in A
    OBVIOUS
  <2>6. PICK f : Solution(f, A, <<>>, g, step)
    <3> HIDE DEF A
    <3> QED
      BY <2>3, <2>4, <2>5, Recursion
  <2>7. ASSUME NEW i \in 1 .. l PROVE f[i] = f[i - 1] \o ss[i]
    <3> HIDE DEF A
    <3>1. i \in Nat /\ i # 0 /\ i - 1 \in Nat
      OBVIOUS
    <3>2. f[i] = step[i][f[g[i]]] /\ g[i] = i - 1 /\ f[i - 1] \in A
      BY <2>1, <2>6, <3>1 DEF Solution
    <3>3. step[i][f[i - 1]] = f[i - 1] \o ss[i]
      BY <2>2, <3>1, <3>2
    <3> QED
      BY <3>2, <3>3
  <2>8. f[0] = <<>>
    BY <2>6 DEF Solution
  <2>9. f[1] = ss[1]
    <3>1. f[1] = f[0] \o ss[1] /\ ss[1] \in A
      <4>1. 1 \in 1 .. l /\ 1 - 1 = 0
        BY <1>1
      <4> QED
        BY <1>1, <2>7, <4>1
    <3> QED
      BY <2>8, <3>1, ConcatEmptySeq
  <2>10. PICK h : h = [i \in 1 .. l |-> f[i]]
    OBVIOUS
  <2>11. ASSUME NEW i \in 1 .. l PROVE h[i] = IF i = 1 THEN ss[i] ELSE h[i - 1] \o ss[i]
    <3>1. CASE i = 1
      BY <2>9, <2>10, <3>1
    <3>2. CASE i # 1
      <4>1. i - 1 \in 1 .. l
        BY <3>2
      <4>2. h[i] = f[i] /\ h[i - 1] = f[i - 1]
        BY <2>10, <4>1
      <4> QED
        BY <2>7, <3>2, <4>2
    <3> QED
      BY <3>1, <3>2
  <2>12. Solves(h)
    BY <2>10, <2>11
  <2> QED
    BY <2>12
<1>3. PICK f : f = CHOOSE h : Solves(h)
  OBVIOUS
<1>4. Solves(f)
  BY <1>2, <1>3
<1>5. FlattenSeq(ss) = f[Len(ss)]
  BY <1>1, <1>3 DEF FlattenSeq
<1>6. f[1] = ss[1] /\ \A i \in 2 .. l : f[i] = f[i - 1] \o ss[i]
  <2>1. \A i \in 1 .. l : f[i] = IF i = 1 THEN ss[i] ELSE f[i - 1] \o ss[i]
    BY <1>4
  <2>2. 1 \in 1 .. l /\ \A i \in 2 .. l : i \in 1 .. l /\ i # 1
    BY <1>1
  <2> QED
    BY <2>1, <2>2
<1>7. ASSUME NEW i \in 1 .. l PROVE f[i] \in A
  <2>1. PICK T : T = {k \in Nat : k \in 1 .. l => f[k] \in A}
    OBVIOUS
  <2>2. ASSUME NEW k \in Nat, \A m \in 0 .. k - 1 : m \in T PROVE k \in T
    <3>1. CASE k = 1
      BY <1>1, <1>6, <2>1, <3>1
    <3>2. CASE k \in 2 .. l
      <4>1. k - 1 \in 1 .. l /\ k - 1 \in 0 .. k - 1
        BY <3>2
      <4>2. f[k - 1] \in A /\ ss[k] \in A
        BY <1>1, <2>1, <2>2, <3>2, <4>1
      <4>3. f[k - 1] \o ss[k] \in A
        BY <4>2, ConcatProperties
      <4> QED
        BY <1>6, <2>1, <3>2, <4>3
    <3>3. CASE k \notin 1 .. l
      BY <2>1, <3>3
    <3> QED
      BY <3>1, <3>2, <3>3
  <2>3. \A k \in Nat : k \in T
    BY <2>2, Induction
  <2> QED
    BY <2>1, <2>3
<1>8. f \in [1 .. l -> A]
  <2>1. f = [i \in 1 .. l |-> f[i]]
    BY <1>4
  <2> HIDE DEF A, Solves
  <2> QED
    BY <1>7, <2>1
<1> QED
  <2> HIDE DEF Solves
  <2> QED
    BY <1>5, <1>6, <1>8 DEF Flattening

\* Place j of array i of k arrays of n values is one of the k * n places.
LEMMA Place ==
    ASSUME NEW n \in Nat, NEW k \in Nat, NEW i \in 1 .. k, NEW j \in 1 .. n
    PROVE  (i - 1) * n + j \in 1 .. k * n
<1>1. PICK d \in Nat : k = (i - 1) + 1 + d
  <2>1. k - i \in Nat /\ k = (i - 1) + 1 + (k - i)
    OBVIOUS
  <2> QED
    BY <2>1
<1>2. PICK m \in Nat : m = i - 1
  OBVIOUS
<1>3. k * n = m * n + n + d * n /\ m * n \in Nat /\ d * n \in Nat
  BY <1>1, <1>2
<1> QED
  BY <1>2, <1>3

\* Arrays of one length, one after the other
Arrays(ss, S, l, n) ==
    /\ ss \in Seq(Seq(S)) /\ l = Len(ss)
    /\ \A i \in 1 .. l : Len(ss[i]) = n
Laid(v, ss, S, l, n) ==
    /\ v \in Seq(S) /\ Len(v) = l * n
    /\ \A i \in 1 .. l, j \in 1 .. n : v[(i - 1) * n + j] = ss[i][j]

\* FlattenSeq puts arrays of one length behind one another.
LEMMA FlattenUniform ==
    ASSUME NEW S, NEW ss, NEW l, NEW n \in Nat, Arrays(ss, S, l, n)
    PROVE  Laid(FlattenSeq(ss), ss, S, l, n)
<1>0. ss \in Seq(Seq(S)) /\ l = Len(ss) /\ \A i \in 1 .. l : Len(ss[i]) = n
  BY DEF Arrays
<1>1. l \in Nat /\ \A i \in 1 .. l : ss[i] \in Seq(S)
  BY <1>0
<1>2. CASE l = 0
  <2>1. FlattenSeq(ss) = ss
    BY <1>0, <1>2 DEF FlattenSeq
  <2>2. ss = <<>> /\ Len(ss) = 0
    BY <1>0, <1>2, EmptySeq
  <2>3. <<>> \in Seq(S) /\ l * n = 0
    BY <1>2
  <2> QED
    BY <1>2, <2>1, <2>2, <2>3 DEF Laid
<1>3. CASE l # 0
  <2>0. PICK f : Flattening(f, S, ss, l)
    BY <1>0, <1>3, FlattenRec
  <2>1. /\ f \in [1 .. l -> Seq(S)]
        /\ f[1] = ss[1]
        /\ \A i \in 2 .. l : f[i] = f[i - 1] \o ss[i]
        /\ FlattenSeq(ss) = f[l]
    BY <2>0 DEF Flattening
  <2>10. \A i \in 1 .. l : f[i] \in Seq(S)
    BY <2>1
  <2> DEFINE Done_(k) ==
         /\ Len(f[k]) = k * n
         /\ \A i \in 1 .. k, j \in 1 .. n : f[k][(i - 1) * n + j] = ss[i][j]
  <2>2. PICK T : T = {k \in Nat : k \in 1 .. l => Done_(k)}
    OBVIOUS
  <2>3. ASSUME NEW k \in Nat, \A m \in 0 .. k - 1 : m \in T PROVE k \in T
    <3>1. CASE k = 1
      <4>1. Len(f[1]) = n /\ 1 * n = n /\ 1 \in 1 .. l
        BY <1>0, <1>1, <1>3, <2>1
      <4>2. \A j \in 1 .. n : (1 - 1) * n + j = j
        OBVIOUS
      <4>3. \A i \in 1 .. 1 : i = 1
        OBVIOUS
      <4>4. Done_(1)
        BY <2>1, <4>1, <4>2, <4>3
      <4> HIDE DEF Done_
      <4> QED
        BY <2>2, <3>1, <4>4
    <3>2. CASE k \in 2 .. l
      <4>1. PICK m \in Nat : m = k - 1 /\ m \in 1 .. l /\ m \in 0 .. k - 1
        BY <1>1, <3>2
      <4>2. Done_(m)
        BY <2>2, <2>3, <4>1
      <4>3. PICK a \in Seq(S), c \in Seq(S) : a = f[m] /\ c = ss[k]
        <5>1. f[m] \in Seq(S) /\ k \in 1 .. l
          BY <2>10, <3>2, <4>1
        <5> QED
          BY <1>1, <5>1
      <4>4. f[k] = a \o c
        BY <2>1, <3>2, <4>1, <4>3
      <4>5. Len(a) = m * n /\ Len(c) = n
        BY <1>0, <3>2, <4>2, <4>3
      <4>6. Len(f[k]) = m * n + n
        <5>1. Len(a \o c) = Len(a) + Len(c)
          BY <4>3, ConcatProperties
        <5> QED
          BY <4>4, <4>5, <5>1
      <4>7. k * n = m * n + n /\ m * n \in Nat
        BY <4>1
      <4>8. ASSUME NEW i \in 1 .. k, NEW j \in 1 .. n
            PROVE  f[k][(i - 1) * n + j] = ss[i][j]
        <5>1. CASE i \in 1 .. m
          <6>1. PICK p \in 1 .. m * n : p = (i - 1) * n + j
            BY <5>1, Place
          <6>2. (a \o c)[p] = a[p]
            <7>1. p \in 1 .. Len(a) + Len(c) /\ p <= Len(a)
              BY <4>1, <4>5, <4>7
            <7> QED
              BY <4>3, <7>1, ConcatProperties
          <6> QED
            BY <4>2, <4>3, <4>4, <5>1, <6>1, <6>2
        <5>2. CASE i = k
          <6>1. (a \o c)[m * n + j] = c[j]
            <7>1. PICK p \in 1 .. Len(a) + Len(c) : p = m * n + j
              BY <4>5, <4>7
            <7>2. p - Len(a) = j /\ ~(p <= Len(a))
              BY <4>5, <4>7, <7>1
            <7>3. (a \o c)[p] = c[p - Len(a)]
              BY <4>3, <7>2, ConcatProperties
            <7> QED
              BY <7>1, <7>2, <7>3
          <6> QED
            BY <4>1, <4>3, <4>4, <5>2, <6>1
        <5> QED
          BY <4>1, <5>1, <5>2
      <4> QED
        BY <2>2, <4>6, <4>7, <4>8
    <3>3. CASE k \notin 1 .. l
      BY <2>2, <3>3
    <3> QED
      BY <3>1, <3>2, <3>3
  <2>4. \A k \in Nat : k \in T
    <3> HIDE DEF Done_
    <3> QED
      BY <2>3, Induction
  <2> QED
    BY <1>1, <1>3, <2>1, <2>10, <2>2, <2>4 DEF Laid
<1> QED
  BY <1>2, <1>3

\* One array is its own flattening.
LEMMA FlattenOne ==
    ASSUME NEW S, NEW s \in Seq(S)
    PROVE  FlattenSeq(<<s>>) = s
<1>1. PICK ss \in Seq(Seq(S)) : ss = <<s>> /\ Len(ss) = 1 /\ ss[1] = s
  <2>1. <<s>> \in Seq(Seq(S)) /\ Len(<<s>>) = 1 /\ <<s>>[1] = s
    OBVIOUS
  <2> QED
    BY <2>1
<1>2. PICK l : l = 1 /\ l = Len(ss) /\ l # 0
  BY <1>1
<1>3. PICK f : Flattening(f, S, ss, l)
  BY <1>2, FlattenRec
<1> QED
  BY <1>1, <1>2, <1>3 DEF Flattening

-----------------------------------------------------------------------------
(* The witness file.                                                       *)

\* The quotient and the remainder of q * b + r are q and r.
LEMMA Multiple ==
    ASSUME NEW b \in Nat \ {0}, NEW q \in Nat, NEW r \in 0 .. b - 1
    PROVE  (q * b + r) \div b = q /\ (q * b + r) % b = r
<1>1. PICK m \in Nat : m = q * b + r
  OBVIOUS
<1>2. PICK p \in Nat, t \in 0 .. b - 1 : p = m \div b /\ t = m % b /\ m = p * b + t
  BY Division
<1>3. p = q
  <2>1. ASSUME NEW x \in Nat, NEW y \in Nat, NEW u \in 0 .. b - 1, NEW v \in 0 .. b - 1,
               x * b + u = y * b + v
        PROVE  ~(x < y)
    <3> SUFFICES ASSUME x < y PROVE FALSE
      OBVIOUS
    <3>1. PICK d \in Nat : y = x + 1 + d
      <4>1. y - x - 1 \in Nat /\ y = x + 1 + (y - x - 1)
        OBVIOUS
      <4> QED
        BY <4>1
    <3>2. y * b = x * b + b + d * b /\ x * b \in Nat /\ d * b \in Nat
      BY <3>1
    <3> QED
      BY <2>1, <3>2
  <2>2. ~(p < q) /\ ~(q < p)
    BY <1>1, <1>2, <2>1
  <2> QED
    BY <2>2
<1>4. t = r
  BY <1>1, <1>2, <1>3
<1> QED
  BY <1>1, <1>2, <1>3, <1>4

\* A number below the prime stays what it is in the field.
LEMMA InField ==
    ASSUME NEW n \in 0 .. Prime - 1
    PROVE  n % Prime = n
<1>1. 0 * Prime + n = n
  BY Sizes
<1> QED
  BY <1>1, Sizes, Multiple

\* A length below Radix: the first word is the length, the second is 0.
LEMMA LengthWordsAre ==
    ASSUME NEW n \in Nat, n < Radix
    PROVE  LengthWords(n) = <<n, 0>>
<1>1. PICK d : d = Digits(Base, n)
  OBVIOUS
<1>2. d \in Seq(Nat) /\ Value(Base, d) = n /\ Len(d) <= 8 /\ Len(d) \in Nat
  BY <1>1, Sizes, ValueDigits, EightDigits
<1>3. SubSeq(d, 1, IF Len(d) < 8 THEN Len(d) ELSE 8) = d
  <2>1. PICK l \in Nat : l = Len(d) /\ l <= 8
    BY <1>2
  <2>2. (IF Len(d) < 8 THEN Len(d) ELSE 8) = l
    BY <2>1
  <2>3. SubSeq(d, 1, l) = d
    BY <1>2, <2>1
  <2> QED
    BY <2>2, <2>3
<1>4. SubSeq(d, 9, Len(d)) = <<>>
  BY <1>2, SubSeqEmpty
<1>5. Value(Base, <<>>) = 0
  BY Sizes, ValueEmpty
<1> QED
  BY <1>1, <1>2, <1>3, <1>4, <1>5 DEF LengthWords

\* Words at their place in a file
Placed(f, a, at, n) ==
    n = Len(a) /\ at + n - 1 <= Len(f) /\ \A j \in 1 .. n : f[at + j - 1] = a[j]

\* Words reads the array placed there.
LEMMA WordsAre ==
    ASSUME NEW f \in Seq(Nat), NEW a \in Seq(Nat), NEW at \in Nat \ {0}, NEW n \in Nat,
           Placed(f, a, at, n)
    PROVE  Words(f, at, n) = a
<1>1. PICK t : t = SubSeq(f, at, at + n - 1)
  OBVIOUS
<1>2. n = Len(a) /\ at + n - 1 <= Len(f) /\ \A j \in 1 .. n : f[at + j - 1] = a[j]
  BY DEF Placed
<1>3. t = [i \in 1 .. n |-> f[at + i - 1]]
  BY <1>1, <1>2
<1>4. a = [i \in 1 .. n |-> a[i]]
  BY <1>2
<1> QED
  BY <1>1, <1>2, <1>3, <1>4 DEF Words

\* A section length whose second word is 0 is read as the first.
LEMMA LengthRead ==
    ASSUME NEW f \in Seq(Nat), NEW at \in Nat \ {0}, at + 1 <= Len(f),
           NEW n \in Nat, f[at] = n, f[at + 1] = 0
    PROVE  LittleEndian(f, at, 2) = n
<1>1. PICK a \in Seq(Nat) : a = <<n, 0>> /\ Len(a) = 2 /\ a[1] = n /\ a[2] = 0
  <2>1. <<n, 0>> \in Seq(Nat) /\ Len(<<n, 0>>) = 2 /\ <<n, 0>>[1] = n /\ <<n, 0>>[2] = 0
    OBVIOUS
  <2> QED
    BY <2>1
<1>2. Words(f, at, 2) = a
  <2>1. PICK k \in Nat : k = 2 /\ k = Len(a)
    BY <1>1
  <2>2. \A j \in 1 .. k : f[at + j - 1] = a[j]
    BY <1>1, <2>1
  <2>3. at + k - 1 <= Len(f)
    BY <2>1
  <2>4. Placed(f, a, at, k)
    BY <2>1, <2>2, <2>3 DEF Placed
  <2>5. Words(f, at, k) = a
    BY <2>1, <2>4, WordsAre
  <2> QED
    BY <2>1, <2>5
<1>3. Reverse(a) = <<0, n>>
  BY <1>1 DEF Reverse
<1>4. Value(Radix, <<0, n>>) = 0 * Radix + n
  BY Sizes, ValueTwo
<1>5. 0 * Radix + n = n
  BY Sizes
<1> QED
  BY <1>2, <1>3, <1>4, <1>5 DEF LittleEndian


Joins(c, s, m, t, n) ==
    /\ c \in Seq(Nat) /\ Len(c) = m + n
    /\ \A i \in 1 .. m : c[i] = s[i]
    /\ \A j \in 1 .. n : c[m + j] = t[j]

\* A concatenation holds its two parts one behind the other.
LEMMA Joined ==
    ASSUME NEW s \in Seq(Nat), NEW t \in Seq(Nat)
    PROVE  Joins(s \o t, s, Len(s), t, Len(t))
<1>1. PICK m \in Nat, n \in Nat : m = Len(s) /\ n = Len(t)
  OBVIOUS
<1>2. s \o t \in Seq(Nat) /\ Len(s \o t) = m + n
  BY <1>1, ConcatProperties
<1>3. \A i \in 1 .. m + n : (s \o t)[i] = IF i <= m THEN s[i] ELSE t[i - m]
  BY <1>1, ConcatProperties
<1>4. ASSUME NEW j \in 1 .. n PROVE (s \o t)[m + j] = t[j]
  <2>1. m + j \in 1 .. m + n /\ ~(m + j <= m) /\ (m + j) - m = j
    BY <1>1
  <2> QED
    BY <1>3, <2>1
<1>5. ASSUME NEW i \in 1 .. m PROVE (s \o t)[i] = s[i]
  <2>1. i \in 1 .. m + n /\ i <= m
    BY <1>1
  <2> QED
    BY <1>3, <2>1
<1> QED
  BY <1>1, <1>2, <1>4, <1>5 DEF Joins

\* What is where in a witness file
Layout(f, w, l) ==
    /\ f \in Seq(Nat) /\ Len(f) = 11 + N32 + l * N32
    /\ f[5] = 8 + N8 /\ f[6] = 0 /\ f[7] = N8
    /\ Words(f, 8, N32) = Reverse(ToArray32(Prime, N32))
    /\ f[10 + N32] = N8 * l /\ f[11 + N32] = 0
    /\ \A i \in 1 .. l : Words(f, 12 + N32 + (i - 1) * N32, N32) = SharedRWMemory(w[i])

\* calculateWTNSBin writes prime and witness where the reader expects them.
LEMMA File ==
    ASSUME NEW w \in Seq(Nat), NEW l, l = Len(w), N8 * l < Radix, 8 + N8 < Radix
    PROVE  Layout(CalculateWTNSBin(w), w, l)
<1>1. PICK n \in Nat \ {0} : n = N32
  BY Sizes
<1>2. l \in Nat /\ N8 \in Nat /\ N8 * l \in Nat /\ 8 + N8 \in Nat
  BY <1>1 DEF N8
<1>3. PICK h \in Seq(Nat) : /\ h = <<Wtns, 2, 2, 1>> \o LengthWords(8 + N8) \o <<N8>>
                            /\ Len(h) = 7 /\ h[5] = 8 + N8 /\ h[6] = 0 /\ h[7] = N8
  <2>1. LengthWords(8 + N8) = <<8 + N8, 0>>
    BY <1>2, LengthWordsAre
  <2>2. PICK x \in Nat, y \in Nat : x = 8 + N8 /\ y = N8
    BY <1>2
  <2>3. PICK q \in Seq(Nat) : q = <<1, 2, 2, 1>> /\ Len(q) = 4
    <3>1. <<1, 2, 2, 1>> \in Seq(Nat) /\ Len(<<1, 2, 2, 1>>) = 4
      OBVIOUS
    <3> QED
      BY <3>1
  <2>4. PICK e \in Seq(Nat) : e = <<x, 0>> /\ Len(e) = 2 /\ e[1] = x /\ e[2] = 0
    <3>1. <<x, 0>> \in Seq(Nat) /\ Len(<<x, 0>>) = 2 /\ <<x, 0>>[1] = x /\ <<x, 0>>[2] = 0
      OBVIOUS
    <3> QED
      BY <3>1
  <2>5. PICK o \in Seq(Nat) : o = <<y>> /\ Len(o) = 1 /\ o[1] = y
    <3>1. <<y>> \in Seq(Nat) /\ Len(<<y>>) = 1 /\ <<y>>[1] = y
      OBVIOUS
    <3> QED
      BY <3>1
  <2>6. PICK r : r = q \o e /\ Joins(r, q, 4, e, 2)
    <3>1. Joins(q \o e, q, Len(q), e, Len(e))
      BY <2>3, <2>4, Joined
    <3> QED
      BY <2>3, <2>4, <3>1
  <2>7. r \in Seq(Nat) /\ Len(r) = 6 /\ r[5] = x /\ r[6] = 0
    <3>1. 1 \in 1 .. 2 /\ 2 \in 1 .. 2 /\ 4 + 1 = 5 /\ 4 + 2 = 6
      OBVIOUS
    <3> QED
      BY <2>4, <2>6, <3>1 DEF Joins
  <2>8. PICK h : h = r \o o /\ Joins(h, r, 6, o, 1)
    <3>1. Joins(r \o o, r, Len(r), o, Len(o))
      BY <2>5, <2>7, Joined
    <3> QED
      BY <2>5, <2>7, <3>1
  <2>9. h \in Seq(Nat) /\ Len(h) = 7 /\ h[5] = x /\ h[6] = 0 /\ h[7] = y
    <3>1. 1 \in 1 .. 1 /\ 6 + 1 = 7 /\ 5 \in 1 .. 6 /\ 6 \in 1 .. 6
      OBVIOUS
    <3> QED
      BY <2>5, <2>7, <2>8, <3>1 DEF Joins
  <2>10. h = <<Wtns, 2, 2, 1>> \o LengthWords(8 + N8) \o <<N8>>
    BY <2>1, <2>2, <2>3, <2>4, <2>5, <2>6, <2>8 DEF Wtns
  <2> QED
    BY <2>2, <2>9, <2>10
<1>4. PICK p \in Seq(Nat) : p = Reverse(ToArray32(Prime, N32)) /\ Len(p) = n
  BY <1>1, PrimeWords
<1>5. PICK g \in Seq(Nat) : g = <<l, 2>> /\ Len(g) = 2
  <2>1. <<l, 2>> \in Seq(Nat) /\ Len(<<l, 2>>) = 2
    BY <1>2
  <2> QED
    BY <2>1
<1>6. PICK k \in Seq(Nat) : k = LengthWords(N8 * l) /\ Len(k) = 2 /\ k[1] = N8 * l /\ k[2] = 0
  <2>1. PICK x \in Nat : x = N8 * l /\ x < Radix
    BY <1>2
  <2>2. LengthWords(x) = <<x, 0>>
    BY <2>1, LengthWordsAre
  <2>3. <<x, 0>> \in Seq(Nat) /\ Len(<<x, 0>>) = 2 /\ <<x, 0>>[1] = x /\ <<x, 0>>[2] = 0
    OBVIOUS
  <2> QED
    BY <2>1, <2>2, <2>3
<1>7. PICK ss : ss = [i \in 1 .. l |-> SharedRWMemory(w[i])]
  OBVIOUS
<1>8. \A i \in 1 .. l : ss[i] \in Seq(Nat) /\ Len(ss[i]) = n
  <2>1. \A i \in 1 .. l : w[i] \in Nat
    OBVIOUS
  <2> QED
    BY <1>1, <1>7, <2>1, Memory
<1>9. ss \in Seq(Seq(Nat)) /\ Len(ss) = l
  BY <1>2, <1>7, <1>8
<1>10. PICK v : v = FlattenSeq(ss) /\ Laid(v, ss, Nat, l, n)
  <2>1. Arrays(ss, Nat, l, n)
    BY <1>8, <1>9 DEF Arrays
  <2> QED
    BY <2>1, FlattenUniform
<1>11. v \in Seq(Nat) /\ Len(v) = l * n
       /\ \A i \in 1 .. l, j \in 1 .. n : v[(i - 1) * n + j] = ss[i][j]
  BY <1>10 DEF Laid
<1>12. PICK f : f = CalculateWTNSBin(w)
  OBVIOUS
<1>13. PICK a : a = h \o p /\ Joins(a, h, 7, p, n)
  <2>1. Joins(h \o p, h, Len(h), p, Len(p))
    BY <1>3, <1>4, Joined
  <2> QED
    BY <1>3, <1>4, <2>1
<1>14. PICK b : b = a \o g /\ Joins(b, a, 7 + n, g, 2)
  <2>1. a \in Seq(Nat) /\ Len(a) = 7 + n
    BY <1>13 DEF Joins
  <2>2. Joins(a \o g, a, Len(a), g, Len(g))
    BY <1>5, <2>1, Joined
  <2> QED
    BY <1>5, <2>1, <2>2
<1>15. PICK c : c = b \o k /\ Joins(c, b, 9 + n, k, 2)
  <2>1. b \in Seq(Nat) /\ Len(b) = 9 + n
    BY <1>14 DEF Joins
  <2> QED
    BY <1>6, <2>1, Joined
<1>16. Joins(f, c, 11 + n, v, l * n)
  <2>1. c \in Seq(Nat) /\ Len(c) = 11 + n
    BY <1>15 DEF Joins
  <2>2. Joins(c \o v, c, 11 + n, v, l * n)
    BY <1>11, <2>1, Joined
  <2>3. f = h \o p \o g \o k \o v
    <3>1. DOMAIN w = 1 .. l
      OBVIOUS
    <3> QED
      BY <1>3, <1>4, <1>5, <1>6, <1>7, <1>10, <1>12, <3>1 DEF CalculateWTNSBin
  <2> QED
    BY <1>13, <1>14, <1>15, <2>2, <2>3
<1>17. f \in Seq(Nat) /\ Len(f) = 11 + n + l * n
  BY <1>16 DEF Joins
<1>18. ASSUME NEW i \in 1 .. 7 + n PROVE f[i] = a[i]
  <2>1. i \in 1 .. 9 + n /\ i \in 1 .. 11 + n
    OBVIOUS
  <2> QED
    BY <1>14, <1>15, <1>16, <2>1 DEF Joins
<1>19. f[5] = 8 + N8 /\ f[6] = 0 /\ f[7] = N8
  <2>1. {5, 6, 7} \subseteq 1 .. 7 /\ {5, 6, 7} \subseteq 1 .. 7 + n
    OBVIOUS
  <2>2. a[5] = h[5] /\ a[6] = h[6] /\ a[7] = h[7]
    BY <1>13, <2>1 DEF Joins
  <2> QED
    BY <1>3, <1>18, <2>1, <2>2
<1>20. Words(f, 8, n) = p
  <2>1. PICK at \in Nat \ {0} : at = 8
    OBVIOUS
  <2>2. ASSUME NEW j \in 1 .. n PROVE f[at + j - 1] = p[j]
    <3>1. at + j - 1 = 7 + j /\ 7 + j \in 1 .. 7 + n
      BY <2>1
    <3>2. a[7 + j] = p[j]
      BY <1>13 DEF Joins
    <3> QED
      BY <1>18, <3>1, <3>2
  <2>3. at + n - 1 <= Len(f)
    <3>1. PICK z \in Nat : z = l * n
      BY <1>2
    <3> QED
      BY <1>17, <2>1, <3>1
  <2>4. Placed(f, p, at, n)
    BY <1>4, <2>2, <2>3 DEF Placed
  <2>5. Words(f, at, n) = p
    BY <1>17, <2>4, WordsAre
  <2> QED
    BY <2>1, <2>5
<1>21. f[10 + n] = N8 * l /\ f[11 + n] = 0
  <2>1. c[9 + n + 1] = k[1] /\ c[9 + n + 2] = k[2]
    <3>1. 1 \in 1 .. 2 /\ 2 \in 1 .. 2
      OBVIOUS
    <3> QED
      BY <1>15, <3>1 DEF Joins
  <2>2. 9 + n + 1 = 10 + n /\ 9 + n + 2 = 11 + n /\ {10 + n, 11 + n} \subseteq 1 .. 11 + n
    OBVIOUS
  <2>3. f[10 + n] = c[10 + n] /\ f[11 + n] = c[11 + n]
    BY <1>16, <2>2 DEF Joins
  <2> QED
    BY <1>6, <2>1, <2>2, <2>3
<1>22. ASSUME NEW i \in 1 .. l
       PROVE  Words(f, 12 + n + (i - 1) * n, n) = SharedRWMemory(w[i])
  <2>1. PICK x \in Nat : x = (i - 1) * n
    <3>1. i - 1 \in Nat
      OBVIOUS
    <3> QED
      BY <3>1
  <2>2. PICK at \in Nat \ {0} : at = 12 + n + x
    OBVIOUS
  <2>3. PICK s \in Seq(Nat) : s = ss[i] /\ Len(s) = n
    BY <1>8
  <2>4. \A j \in 1 .. n : x + j \in 1 .. l * n
    BY <1>2, <2>1, Place
  <2>5. ASSUME NEW j \in 1 .. n PROVE f[at + j - 1] = s[j]
    <3>1. at + j - 1 = 11 + n + (x + j)
      BY <2>2
    <3>2. f[11 + n + (x + j)] = v[x + j]
      BY <1>16, <2>4 DEF Joins
    <3> QED
      BY <1>11, <2>1, <2>3, <3>1, <3>2
  <2>6. at + n - 1 <= Len(f)
    <3>1. n \in 1 .. n
      OBVIOUS
    <3>2. x + n \in 1 .. l * n
      BY <2>4, <3>1
    <3> QED
      BY <1>2, <1>17, <2>2, <3>2
  <2>7. Placed(f, s, at, n)
    BY <2>3, <2>5, <2>6 DEF Placed
  <2>8. Words(f, at, n) = s
    BY <1>17, <2>3, <2>7, WordsAre
  <2> QED
    BY <1>7, <2>1, <2>2, <2>3, <2>8
<1> QED
  BY <1>1, <1>4, <1>12, <1>17, <1>19, <1>20, <1>21, <1>22 DEF Layout

\* The prover reads back what was written.
LEMMA ReadBack ==
    ASSUME NEW w \in Seq(0 .. Prime - 1), N8 * Len(w) < Radix, 8 + N8 < Radix,
           NEW f, f = CalculateWTNSBin(w)
    PROVE  /\ f \in Seq(Nat) /\ f # <<>>
           /\ WitnessIn(f) = w /\ PrimeIn(f) = Prime
           /\ Len(f) = Second(f) + 2 + BodyLength(f, Second(f))
<1>1. PICK n \in Nat \ {0} : n = N32
  BY Sizes
<1>2. Prime \in Nat /\ w \in Seq(Nat)
  BY Sizes
<1>3. PICK l \in Nat : l = Len(w)
  BY <1>2
<1>4. N8 = n * 4 /\ N8 \in Nat /\ N8 \div 4 = n /\ (8 + N8) \div 4 = 2 + n /\ N8 * l \in Nat
  BY <1>1 DEF N8
<1>5. (N8 * l) \div 4 = l * n
  <2>1. PICK x \in Nat : x = l * n
    BY <1>3
  <2>2. N8 * l = x * 4 + 0
    BY <1>3, <1>4, <2>1
  <2>3. (x * 4 + 0) \div 4 = x
    BY <2>1
  <2> QED
    BY <2>1, <2>2, <2>3
<1>6. Layout(f, w, l)
  BY <1>2, <1>3, File
<1>7. /\ f \in Seq(Nat) /\ Len(f) = 11 + n + l * n
      /\ f[5] = 8 + N8 /\ f[6] = 0 /\ f[7] = N8
      /\ Words(f, 8, n) = Reverse(ToArray32(Prime, N32))
      /\ f[10 + n] = N8 * l /\ f[11 + n] = 0
      /\ \A i \in 1 .. l : Words(f, 12 + n + (i - 1) * n, n) = SharedRWMemory(w[i])
  BY <1>1, <1>6 DEF Layout
<1>8. PICK m \in Nat : m = Len(f) /\ m >= 11 + n
  <2>1. PICK x \in Nat : x = l * n
    BY <1>3
  <2> QED
    BY <1>7, <2>1
<1>9. Second(f) = 9 + n
  <2>1. LittleEndian(f, 5, 2) = 8 + N8
    <3>1. PICK at \in Nat \ {0} : at = 5
      OBVIOUS
    <3>2. at + 1 <= Len(f) /\ f[at] = 8 + N8 /\ f[at + 1] = 0 /\ 8 + N8 \in Nat
      BY <1>4, <1>7, <1>8, <3>1
    <3>3. LittleEndian(f, at, 2) = 8 + N8
      BY <1>7, <3>2, LengthRead
    <3> QED
      BY <3>1, <3>3
  <2>2. BodyLength(f, 4) = 2 + n
    BY <1>4, <2>1 DEF BodyLength
  <2> QED
    BY <2>2 DEF Second
<1>10. BodyLength(f, Second(f)) = l * n
  <2>1. PICK at \in Nat \ {0} : at = 10 + n /\ at + 1 = 11 + n
    OBVIOUS
  <2>2. LittleEndian(f, at, 2) = N8 * l
    BY <1>4, <1>7, <1>8, <2>1, LengthRead
  <2>3. (9 + n) + 1 = at
    BY <2>1
  <2> QED
    BY <1>5, <1>9, <2>2, <2>3 DEF BodyLength
<1>11. PrimeIn(f) = Prime
  <2>1. PrimeIn(f) = LittleEndian(f, 8, n)
    BY <1>4, <1>7 DEF PrimeIn
  <2>2. LittleEndian(f, 8, n) = Value(Radix, Reverse(Reverse(ToArray32(Prime, N32))))
    BY <1>7 DEF LittleEndian
  <2> QED
    BY <2>1, <2>2, PrimeWords
<1>12. WitnessIn(f) = w
  <2>1. (l * n) \div n = l
    <3>1. (l * n + 0) \div n = l
      BY Multiple
    <3>2. l * n \in Nat
      OBVIOUS
    <3> QED
      BY <3>1, <3>2
  <2>2. WitnessIn(f) = [i \in 1 .. l |-> LittleEndian(f, Second(f) + 3 + (i - 1) * n, n)]
    BY <1>4, <1>7, <1>10, <2>1 DEF WitnessIn
  <2>3. ASSUME NEW i \in 1 .. l
        PROVE  LittleEndian(f, Second(f) + 3 + (i - 1) * n, n) = w[i]
    <3>1. PICK x \in Nat : x = (i - 1) * n
      <4>1. i - 1 \in Nat
        OBVIOUS
      <4> QED
        BY <4>1
    <3>2. Second(f) + 3 + (i - 1) * n = 12 + n + (i - 1) * n
      BY <1>9, <3>1
    <3>3. PICK y \in 0 .. Prime - 1 : y = w[i]
      <4>1. w[i] \in 0 .. Prime - 1
        BY <1>2, <1>3
      <4> QED
        BY <4>1
    <3>4. y \in Nat /\ y % Prime = y
      BY <1>2, InField
    <3>5. LittleEndian(f, 12 + n + (i - 1) * n, n) = Value(Radix, Reverse(SharedRWMemory(y)))
      BY <1>7, <3>3 DEF LittleEndian
    <3> QED
      BY <3>2, <3>3, <3>4, <3>5, Memory
  <2>4. w = [i \in 1 .. l |-> w[i]]
    BY <1>2, <1>3
  <2> QED
    BY <2>2, <2>3, <2>4
<1>13. Len(f) = Second(f) + 2 + BodyLength(f, Second(f))
  <2>1. PICK x \in Nat : x = l * n
    BY <1>3
  <2> QED
    BY <1>7, <1>9, <1>10, <2>1
<1>14. f # <<>>
  <2>1. Len(<<>>) = 0
    OBVIOUS
  <2> QED
    BY <1>8, <2>1
<1> QED
  BY <1>7, <1>11, <1>12, <1>13, <1>14

-----------------------------------------------------------------------------
(* Numbers as JavaScript holds them.                                       *)

\* The distance of one number from the next
Ulps(ulp) ==
    /\ ulp \in [Nat -> Nat \ {0}]
    /\ \A m \in Nat : ulp[m] = IF m < MaxSafe THEN 1 ELSE 2 * ulp[m \div 2]

Nearest(u, q, r) == u * (IF 2 * r > u \/ (2 * r = u /\ q % 2 = 1) THEN q + 1 ELSE q)

\* The function ulp in Double exists, and Double is the nearest multiple.
LEMMA DoubleRec ==
    ASSUME NEW n \in Nat
    PROVE  \E ulp : Ulps(ulp) /\ Double(n) = Nearest(ulp[n], n \div ulp[n], n % ulp[n])
<1> DEFINE Solves(f) == f = [m \in Nat |-> IF m < MaxSafe THEN 1 ELSE 2 * f[m \div 2]]
<1>1. \E f : Solves(f) /\ Ulps(f)
  <2>1. PICK A : A = Nat \ {0}
    OBVIOUS
  <2>2. PICK M \in Nat \ {0, 1} : M = MaxSafe
    BY Sizes
  <2>3. PICK g : g = [m \in Nat |-> m \div 2]
    OBVIOUS
  <2>4. PICK step : step = [m \in Nat |-> [x \in A |-> IF m < M THEN 1 ELSE 2 * x]]
    OBVIOUS
  <2>5. Descends(g)
    <3>1. \A m \in Nat : m \div 2 \in Nat /\ (m # 0 => m \div 2 < m)
      OBVIOUS
    <3> QED
      BY <2>3, <3>1 DEF Descends
  <2>6. Steps(step, A)
    <3>1. \A m \in Nat, x \in A : (IF m < M THEN 1 ELSE 2 * x) \in A
      BY <2>1
    <3> QED
      BY <2>4, <3>1 DEF Steps
  <2>7. PICK f : Solution(f, A, 1, g, step)
    <3>1. 1 \in A
      BY <2>1
    <3> QED
      BY <2>5, <2>6, <3>1, Recursion
  <2>8. f \in [Nat -> A]
    BY <2>7 DEF Solution
  <2>9. ASSUME NEW m \in Nat PROVE f[m] = IF m < M THEN 1 ELSE 2 * f[m \div 2]
    <3>1. CASE m = 0
      <4>1. f[0] = 1
        BY <2>7 DEF Solution
      <4>2. 0 < M
        OBVIOUS
      <4> QED
        BY <3>1, <4>1, <4>2
    <3>2. CASE m # 0
      <4>1. f[m] = step[m][f[g[m]]] /\ g[m] = m \div 2 /\ m \div 2 \in Nat
        BY <2>3, <2>7, <3>2 DEF Solution
      <4>2. f[m \div 2] \in A
        BY <2>8, <4>1
      <4> QED
        BY <2>4, <4>1, <4>2
    <3> QED
      BY <3>1, <3>2
  <2>10. f = [m \in Nat |-> IF m < M THEN 1 ELSE 2 * f[m \div 2]]
    BY <2>8, <2>9
  <2> QED
    BY <2>1, <2>2, <2>8, <2>9, <2>10 DEF Ulps
<1>2. PICK f : f = CHOOSE h : Solves(h)
  OBVIOUS
<1>3. Solves(f)
  BY <1>1, <1>2
<1>4. \A h : Solves(h) => h = f
  <2> SUFFICES ASSUME NEW h, Solves(h) PROVE h = f
    OBVIOUS
  <2>1. PICK S : S = {m \in Nat : h[m] = f[m]}
    OBVIOUS
  <2>2. ASSUME NEW m \in Nat, \A i \in 0 .. m - 1 : i \in S PROVE m \in S
    <3>1. h[m] = IF m < MaxSafe THEN 1 ELSE 2 * h[m \div 2]
      OBVIOUS
    <3>2. f[m] = IF m < MaxSafe THEN 1 ELSE 2 * f[m \div 2]
      BY <1>3
    <3>3. CASE m < MaxSafe
      BY <2>1, <3>1, <3>2, <3>3
    <3>4. CASE ~(m < MaxSafe)
      <4>1. m # 0 /\ m \div 2 \in 0 .. m - 1
        BY <3>4, Sizes
      <4>2. h[m \div 2] = f[m \div 2]
        BY <2>1, <2>2, <4>1
      <4> QED
        BY <2>1, <3>1, <3>2, <3>4, <4>2
    <3> QED
      BY <3>3, <3>4
  <2>3. \A m \in Nat : m \in S
    BY <2>2, Induction
  <2>4. h = [m \in Nat |-> h[m]] /\ f = [m \in Nat |-> f[m]]
    BY <1>3
  <2>5. \A m \in Nat : h[m] = f[m]
    BY <2>1, <2>3
  <2> HIDE DEF Solves
  <2> QED
    BY <2>4, <2>5
<1>5. Ulps(f)
  BY <1>1, <1>4
<1>6. Double(n) = Nearest(f[n], n \div f[n], n % f[n])
  BY <1>2 DEF Double, Nearest
<1> QED
  BY <1>5, <1>6

\* A number that is not kept as it is is far greater than that distance.
LEMMA UlpBound ==
    ASSUME NEW ulp, Ulps(ulp), NEW n \in Nat
    PROVE  /\ n < MaxSafe => ulp[n] = 1
           /\ ~(n < MaxSafe) => ulp[n] * MaxSafe <= 2 * n
<1>1. PICK M \in Nat \ {0, 1} : M = MaxSafe
  BY Sizes
<1>2. /\ \A m \in Nat : ulp[m] \in Nat \ {0}
      /\ \A m \in Nat : ulp[m] = IF m < M THEN 1 ELSE 2 * ulp[m \div 2]
  BY <1>1 DEF Ulps
<1>3. PICK S : S = {m \in Nat : m >= M => ulp[m] * M <= 2 * m}
  OBVIOUS
<1>4. ASSUME NEW m \in Nat, \A i \in 0 .. m - 1 : i \in S PROVE m \in S
  <2> SUFFICES ASSUME m >= M PROVE ulp[m] * M <= 2 * m
    BY <1>3
  <2>1. PICK h \in Nat : h = m \div 2 /\ h < m /\ 2 * h <= m
    OBVIOUS
  <2>2. PICK u \in Nat \ {0} : u = ulp[h]
    BY <1>2
  <2>3. ulp[m] = 2 * u
    BY <1>2, <2>1, <2>2
  <2>4. (2 * u) * M = 2 * (u * M) /\ u * M \in Nat
    OBVIOUS
  <2>5. CASE h < M
    <3>1. u = 1 /\ 1 * M = M
      BY <1>2, <2>2, <2>5
    <3> QED
      BY <2>3, <2>4, <3>1
  <2>6. CASE h >= M
    <3>1. u * M <= 2 * h
      BY <1>3, <1>4, <2>1, <2>2, <2>6
    <3> QED
      BY <2>1, <2>3, <2>4, <3>1
  <2> QED
    BY <2>5, <2>6
<1>5. \A m \in Nat : m \in S
  BY <1>4, Induction
<1> QED
  BY <1>1, <1>2, <1>3, <1>5

\* JavaScript keeps a number below MaxSafe, and any other but for one part in
\* MaxSafe.
LEMMA Doubles ==
    ASSUME NEW n \in Nat
    PROVE  /\ Double(n) \in Nat
           /\ n < MaxSafe => Double(n) = n
           /\ (Double(n) - n) * MaxSafe \in -n .. n
<1>1. PICK M \in Nat \ {0, 1} : M = MaxSafe
  BY Sizes
<1>2. PICK ulp : Ulps(ulp) /\ Double(n) = Nearest(ulp[n], n \div ulp[n], n % ulp[n])
  BY DoubleRec
<1>3. PICK u \in Nat \ {0} : u = ulp[n]
  BY <1>2 DEF Ulps
<1>4. PICK q \in Nat, r \in 0 .. u - 1 : q = n \div u /\ r = n % u /\ n = q * u + r
  BY Division
<1>5. PICK d \in Nat : d = Double(n)
        /\ d = u * (IF 2 * r > u \/ (2 * r = u /\ q % 2 = 1) THEN q + 1 ELSE q)
  <2>1. u * q \in Nat /\ u * (q + 1) \in Nat
    OBVIOUS
  <2> QED
    BY <1>2, <1>3, <1>4, <2>1 DEF Nearest
<1>6. PICK e \in -u .. u : e = d - n /\ 2 * e <= u /\ -u <= 2 * e
  <2>1. u * q = q * u /\ u * (q + 1) = q * u + u /\ q * u \in Nat
    OBVIOUS
  <2>2. CASE 2 * r > u \/ (2 * r = u /\ q % 2 = 1)
    <3>1. d - n = u - r
      BY <1>4, <1>5, <2>1, <2>2
    <3> QED
      BY <2>2, <3>1
  <2>3. CASE ~(2 * r > u \/ (2 * r = u /\ q % 2 = 1))
    <3>1. d - n = -r
      BY <1>4, <1>5, <2>1, <2>3
    <3>2. 2 * r <= u
      BY <2>3
    <3> QED
      BY <3>1, <3>2
  <2> QED
    BY <2>2, <2>3
<1>7. CASE n < M
  <2>1. u = 1
    BY <1>1, <1>2, <1>3, <1>7, UlpBound
  <2>2. e = 0
    BY <1>6, <2>1
  <2>3. d = n /\ (d - n) * M = 0
    BY <1>6, <2>2
  <2> QED
    BY <1>1, <1>5, <2>3
<1>8. CASE ~(n < M)
  <2>1. u * M <= 2 * n
    BY <1>1, <1>2, <1>3, <1>8, UlpBound
  <2>2. PICK x \in Nat, y \in Nat : u = 2 * e + x /\ u = y - 2 * e
    <3>1. u - 2 * e \in Nat /\ u + 2 * e \in Nat
      BY <1>6
    <3> QED
      BY <3>1
  <2>3. /\ u * M = 2 * (e * M) + x * M /\ u * M = y * M - 2 * (e * M)
        /\ x * M \in Nat /\ y * M \in Nat /\ e * M \in Int
    <3>1. u * M = 2 * (e * M) + x * M
      BY <2>2
    <3>2. u * M = y * M - 2 * (e * M)
      BY <2>2
    <3> QED
      BY <3>1, <3>2
  <2>4. e * M \in -n .. n
    BY <2>1, <2>3
  <2> QED
    BY <1>1, <1>5, <1>6, <1>8, <2>4
<1> QED
  BY <1>7, <1>8

-----------------------------------------------------------------------------
(* The signals of the circuits.                                            *)

\* Hex of a number of at most HashDigits digits has HashDigits and is worth it.
LEMMA HexIs ==
    ASSUME NEW n \in Nat, Len(Digits(Base, n)) <= HashDigits
    PROVE  /\ Hex(n) \in Seq(0 .. Base - 1) /\ Len(Hex(n)) = HashDigits
           /\ Value(Base, Hex(n)) = n
<1>1. PICK b \in Nat \ {0, 1}, size \in Nat : b = Base /\ size = HashDigits
  BY Sizes
<1>2. PICK d : d = Digits(b, n)
  OBVIOUS
<1>3. PICK k \in Nat : k = size - Len(d) /\ Len(d) \in Nat
  <2>1. Len(d) \in Nat
    BY <1>2, ValueDigits
  <2>2. Len(d) <= size
    BY <1>1, <1>2
  <2> QED
    BY <2>1, <2>2
<1>4. PICK z : z = [i \in 1 .. k |-> 0]
  OBVIOUS
<1>5. Hex(n) = z \o d
  BY <1>1, <1>2, <1>3, <1>4 DEF Hex
<1>6. z \o d \in Seq(0 .. b - 1) /\ Len(z \o d) = k + Len(d) /\ Value(b, z \o d) = n
  BY <1>2, <1>4, Filled
<1> QED
  BY <1>1, <1>3, <1>5, <1>6

\* A hash as the circuit has it: its bytes, which make the hash again
LEMMA HashBytes ==
    ASSUME NEW h \in Hashes
    PROVE  /\ HexStringToArray(Hex(h)) \in Seq(0 .. Prime - 1)
           /\ Len(HexStringToArray(Hex(h))) = HashDigits \div 2
           /\ Digest(HexStringToArray(Hex(h))) = h
<1>1. h \in Nat /\ Len(Digits(Base, h)) <= HashDigits
  BY Sizes, NumeralAssumption
<1>2. PICK s \in Seq(0 .. Base - 1) : s = Hex(h) /\ Len(s) = HashDigits /\ Value(Base, s) = h
  BY <1>1, HexIs
<1>3. PICK k \in Nat : k = HashDigits \div 2 /\ HashDigits = 2 * k
  <2>1. HashDigits \in Nat /\ HashDigits % 2 = 0
    BY NumeralAssumption
  <2> QED
    BY <2>1
<1>4. /\ HexStringToArray(s) \in Seq(0 .. Byte - 1) /\ Len(HexStringToArray(s)) = k
      /\ Value(Byte, HexStringToArray(s)) = Value(Base, s)
  BY <1>2, <1>3, Bytes
<1>5. Seq(0 .. Byte - 1) \subseteq Seq(0 .. Prime - 1)
  <2>1. Byte \in Nat /\ Prime \in Nat /\ Byte <= Prime
    BY Sizes, NumeralAssumption
  <2>2. 0 .. Byte - 1 \subseteq 0 .. Prime - 1
    BY <2>1
  <2>3. \A S, T : S \subseteq T => Seq(S) \subseteq Seq(T)
    OBVIOUS
  <2> QED
    BY <2>2, <2>3
<1> QED
  BY <1>2, <1>3, <1>4, <1>5 DEF Digest

\* input.json has signal s once, with values v.
Given(s, v) ==
    \E i \in DOMAIN input :
        /\ input[i].name = s /\ FlattenSeq(input[i].value) = v
        /\ \A j \in DOMAIN input : input[j].name = s => j = i

\* The circuit then has these values, but for multiples of the prime.
LEMMA SignalIs ==
    ASSUME NEW s, NEW v \in Seq(Nat), Given(s, v)
    PROVE  /\ Signal(s) \in Seq(0 .. Prime - 1) /\ Len(Signal(s)) = Len(v)
           /\ v \in Seq(0 .. Prime - 1) => Signal(s) = v
<1>1. PICK i \in DOMAIN input :
         /\ input[i].name = s /\ FlattenSeq(input[i].value) = v
         /\ \A j \in DOMAIN input : input[j].name = s => j = i
  BY DEF Given
<1>2. i = CHOOSE j \in DOMAIN input : input[j].name = s
  BY <1>1
<1>3. PICK l \in Nat : l = Len(v) /\ DOMAIN v = 1 .. l
  OBVIOUS
<1>4. Signal(s) = [j \in 1 .. l |-> Value(Radix, Reverse(SharedRWMemory(v[j])))]
  BY <1>1, <1>2, <1>3 DEF Signal
<1>5. \A j \in 1 .. l : v[j] \in Nat
  BY <1>3
<1>6. \A j \in 1 .. l : Value(Radix, Reverse(SharedRWMemory(v[j]))) = v[j] % Prime
  BY <1>5, Memory
<1>7. \A j \in 1 .. l : v[j] % Prime \in 0 .. Prime - 1
  BY <1>5, Sizes
<1>8. Signal(s) = [j \in 1 .. l |-> v[j] % Prime]
  BY <1>4, <1>6
<1>9. ASSUME v \in Seq(0 .. Prime - 1) PROVE Signal(s) = v
  <2>1. \A j \in 1 .. l : v[j] \in 0 .. Prime - 1
    BY <1>3, <1>9, Sizes
  <2>2. \A j \in 1 .. l : v[j] % Prime = v[j]
    BY <2>1, InField
  <2>3. v = [j \in 1 .. l |-> v[j]]
    BY <1>3
  <2> QED
    BY <1>8, <2>2, <2>3
<1>10. Signal(s) \in Seq(0 .. Prime - 1) /\ Len(Signal(s)) = l
  BY <1>7, <1>8
<1> QED
  BY <1>3, <1>9, <1>10

\* Values of signals, where they are one array
LEMMA GivenOne ==
    ASSUME NEW i \in DOMAIN input, NEW s, NEW v \in Seq(Nat), input[i] = Key(s, <<v>>),
           \A j \in DOMAIN input : input[j].name = s => j = i
    PROVE  Given(s, v)
<1>1. input[i].name = s /\ input[i].value = <<v>>
  BY DEF Key
<1>2. FlattenSeq(<<v>>) = v
  BY FlattenOne
<1> QED
  BY <1>1, <1>2 DEF Given

\* A signal that is given one field element is that element.
LEMMA SignalOne ==
    ASSUME NEW s, NEW x \in 0 .. Prime - 1, Given(s, <<x>>)
    PROVE  Signal(s) = <<x>>
<1>1. x \in Nat
  BY Sizes
<1>2. PICK v : v = <<x>>
  OBVIOUS
<1>3. v \in Seq(Nat) /\ v \in Seq(0 .. Prime - 1)
  BY <1>1, <1>2
<1> QED
  BY <1>2, <1>3, SignalIs

Names(names) ==
    /\ DOMAIN input = DOMAIN names
    /\ \A i \in DOMAIN names : input[i].name = names[i]
    /\ \A i, j \in DOMAIN names : names[i] = names[j] => i = j

\* In an input without duplicate keys a key gives its signal its value.
LEMMA GivenNamed ==
    ASSUME NEW names, Names(names), NEW i \in DOMAIN input, NEW s, NEW v \in Seq(Nat),
           input[i] = Key(s, <<v>>)
    PROVE  Given(s, v)
<1>1. names[i] = s
  BY DEF Names, Key
<1>2. \A j \in DOMAIN input : input[j].name = s => j = i
  BY <1>1 DEF Names
<1> QED
  BY <1>2, GivenOne

\* A path is a sequence of field elements, one for each level.
LEMMA PathIs ==
    ASSUME NEW p \in Paths
    PROVE  p \in Seq(0 .. Prime - 1) /\ Len(p) = Depth
<1>1. PICK d \in Nat : d = Depth
  BY NumeralAssumption
<1>2. PICK S : S = 0 .. Prime - 1 /\ Numbers \subseteq S
  BY NumeralAssumption
<1>3. p \in [1 .. d -> Numbers]
  BY <1>1, NumeralAssumption
<1>4. p \in [1 .. d -> S]
  BY <1>2, <1>3
<1>5. p \in Seq(S) /\ Len(p) = d
  BY ONLY <1>4, d \in Nat
<1> QED
  BY <1>1, <1>2, <1>5

\* What the chain and the tree say of a deposit is what the circuit has of it.
LEMMA ClaimSignals ==
    ASSUME input = ClaimInput, source \in Deposits
    PROVE  /\ Signal("eth_bridge_address") = <<source.bridge>>
           /\ Signal("eth_receiver") = <<source.receiver>>
           /\ Signal("amount") = <<source.amount>>
           /\ Signal("eth_token_address") = <<source.token>>
           /\ Signal("key") = <<source.key>>
           /\ Signal("siblings") = source.siblings
           /\ Signal("root") = <<source.root>>
<1>1. PICK names : names = <<"eth_bridge_address", "eth_receiver", "amount",
                             "eth_token_address", "key", "siblings", "root">>
  OBVIOUS
<1>2. Names(names)
  BY <1>1 DEF Names, ClaimInput, Key
<1>3. {source.bridge, source.receiver, source.amount, source.token, source.key, source.root}
         \subseteq 0 .. Prime - 1
  <2>1. /\ Hashes \subseteq 0 .. Prime - 1 /\ Heights \subseteq 0 .. Prime - 1
        /\ Numbers \subseteq 0 .. Prime - 1
    BY Sizes, NumeralAssumption
  <2> QED
    BY <2>1 DEF Deposits
<1>4. \A x \in 0 .. Prime - 1 : <<x>> \in Seq(Nat)
  BY Sizes
<1>5. DOMAIN input = 1 .. 7
  BY DEF ClaimInput
<1>6. /\ input[1] = Key("eth_bridge_address", <<<<source.bridge>>>>)
      /\ input[2] = Key("eth_receiver", <<<<source.receiver>>>>)
      /\ input[3] = Key("amount", <<<<source.amount>>>>)
      /\ input[4] = Key("eth_token_address", <<<<source.token>>>>)
      /\ input[5] = Key("key", <<<<source.key>>>>)
      /\ input[6] = Key("siblings", <<source.siblings>>)
      /\ input[7] = Key("root", <<<<source.root>>>>)
  BY DEF ClaimInput
<1>7. ASSUME NEW i \in 1 .. 7, NEW s, NEW x \in 0 .. Prime - 1, input[i] = Key(s, <<<<x>>>>)
      PROVE  Signal(s) = <<x>>
  BY <1>2, <1>4, <1>5, <1>7, GivenNamed, SignalOne
<1>8. Signal("siblings") = source.siblings
  <2>1. source.siblings \in Paths
    BY DEF Deposits
  <2>2. PICK v \in Seq(0 .. Prime - 1) : v = source.siblings
    BY <2>1, PathIs
  <2>3. v \in Seq(Nat)
    BY Sizes
  <2>4. Given("siblings", v)
    BY <1>2, <1>5, <1>6, <2>2, <2>3, GivenNamed
  <2> QED
    BY <2>2, <2>3, <2>4, SignalIs
<1> QED
  BY <1>3, <1>6, <1>7, <1>8

Padded(p, S, x, l, n) ==
    /\ p \in Seq(S)
    /\ Len(p) = IF l < n THEN n ELSE l
    /\ \A i \in 1 .. l : p[i] = x[i]
    /\ \A i \in l + 1 .. n : p[i] = 0

\* Pad keeps what there is and fills up with zeros.
LEMMA PadIs ==
    ASSUME NEW S, 0 \in S, NEW x \in Seq(S), NEW l, l = Len(x), NEW n \in Nat
    PROVE  Padded(Pad(x, n), S, x, l, n)
<1>1. l \in Nat
  OBVIOUS
<1>2. PICK k \in Nat : k = IF l < n THEN n - l ELSE 0
  <2>1. (IF l < n THEN n - l ELSE 0) \in Nat
    BY <1>1
  <2> QED
    BY <2>1
<1>3. PICK z : z = [i \in 1 .. k |-> 0]
  OBVIOUS
<1>4. z \in Seq(S) /\ Len(z) = k /\ \A i \in 1 .. k : z[i] = 0
  BY <1>3
<1>5. Pad(x, n) = x \o z
  <2>1. 1 .. n - l = 1 .. k
    BY <1>1, <1>2
  <2> QED
    BY <1>3, <2>1 DEF Pad
<1>6. /\ x \o z \in Seq(S) /\ Len(x \o z) = l + k
      /\ \A i \in 1 .. l + k : (x \o z)[i] = IF i <= l THEN x[i] ELSE z[i - l]
  BY <1>4, ConcatProperties
<1>7. \A i \in 1 .. l : i \in 1 .. l + k /\ i <= l
  BY <1>1
<1>8. \A i \in l + 1 .. n : i \in 1 .. l + k /\ ~(i <= l) /\ i - l \in 1 .. k
  BY <1>1, <1>2
<1> QED
  BY <1>1, <1>2, <1>4, <1>5, <1>6, <1>7, <1>8 DEF Padded

\* The body the circuit gets begins with the numbers of the transaction.
LEMMA TxBodyIs ==
    ASSUME source \in Transactions
    PROVE  /\ TxBody \in Seq(0 .. Prime - 1)
           /\ Len(TxBody) = IF source.body > BodySize THEN source.body ELSE BodySize
           /\ SubSeq(TxBody, 1, 3) = <<source.sender, source.bridge, source.root>>
<1> DEFINE S == 0 .. Prime - 1
<1>1. PICK a \in S, b \in S, c \in S : a = source.sender /\ b = source.bridge /\ c = source.root
  <2>1. Hashes \subseteq S /\ Numbers \subseteq S
    BY NumeralAssumption
  <2>2. source.sender \in Hashes /\ source.bridge \in Hashes /\ source.root \in Numbers
    BY DEF Transactions
  <2> QED
    BY <2>1, <2>2
<1>2. PICK k \in Nat : k = source.body - 3 /\ source.body = 3 + k
  <2>1. source.body \in Nat \ {0, 1, 2}
    <3>1. source.body \in Bodies
      BY DEF Transactions
    <3> QED
      BY <3>1, NumeralAssumption
  <2>2. source.body - 3 \in Nat /\ source.body = 3 + (source.body - 3)
    BY <2>1
  <2> QED
    BY <2>2
<1>3. 0 \in S /\ 1 \in S
  BY Sizes
<1> HIDE DEF S
<1>4. PICK x \in Seq(S) : x = <<a, b, c>> /\ Len(x) = 3 /\ x[1] = a /\ x[2] = b /\ x[3] = c
  <2>1. <<a, b, c>> \in Seq(S) /\ Len(<<a, b, c>>) = 3
    OBVIOUS
  <2> QED
    BY <2>1
<1>5. PICK y \in Seq(S) : y = [i \in 1 .. k |-> 1] /\ Len(y) = k
  <2>1. [i \in 1 .. k |-> 1] \in Seq(S) /\ Len([i \in 1 .. k |-> 1]) = k
    BY <1>3
  <2> QED
    BY <2>1
<1>6. PICK t \in Seq(S) : t = x \o y /\ Len(t) = 3 + k /\ t[1] = a /\ t[2] = b /\ t[3] = c
  <2>1. /\ x \o y \in Seq(S) /\ Len(x \o y) = 3 + k
        /\ \A i \in 1 .. 3 + k : (x \o y)[i] = IF i <= 3 THEN x[i] ELSE y[i - 3]
    BY <1>4, <1>5, ConcatProperties
  <2>2. {1, 2, 3} \subseteq 1 .. 3 + k
    OBVIOUS
  <2>3. (x \o y)[1] = x[1] /\ (x \o y)[2] = x[2] /\ (x \o y)[3] = x[3]
    BY <2>1, <2>2
  <2> QED
    BY <1>4, <2>1, <2>3
<1>7. TxBody = Pad(t, BodySize)
  BY <1>1, <1>2, <1>4, <1>5, <1>6 DEF TxBody
<1>8. PICK l \in Nat : l = Len(t) /\ l = 3 + k
  BY <1>6
<1>9. /\ Pad(t, BodySize) \in Seq(S)
      /\ Len(Pad(t, BodySize)) = IF l < BodySize THEN BodySize ELSE l
      /\ \A i \in 1 .. l : Pad(t, BodySize)[i] = t[i]
  <2>1. BodySize \in Nat
    BY Sizes
  <2>2. Padded(Pad(t, BodySize), S, t, l, BodySize)
    BY <1>3, <1>8, <2>1, PadIs
  <2> QED
    BY <2>2 DEF Padded
<1>10. PICK p : p = Pad(t, BodySize)
  OBVIOUS
<1>11. p \in Seq(S) /\ p[1] = a /\ p[2] = b /\ p[3] = c /\ Len(p) >= 3
  <2>1. {1, 2, 3} \subseteq 1 .. l
    BY <1>8
  <2>2. p[1] = a /\ p[2] = b /\ p[3] = c
    BY <1>6, <1>9, <1>10, <2>1
  <2>3. PICK n \in Nat : n = BodySize
    BY Sizes
  <2>4. Len(p) = IF l < n THEN n ELSE l
    BY <1>9, <1>10, <2>3
  <2>5. Len(p) >= 3
    BY ONLY <1>8, <2>3, <2>4, k \in Nat, l \in Nat
  <2> QED
    BY <1>9, <1>10, <2>2, <2>5
<1>12. SubSeq(p, 1, 3) = <<a, b, c>>
  <2>1. PICK q : q = SubSeq(p, 1, 3)
    OBVIOUS
  <2>2. Len(q) = 3 /\ q \in Seq(S) /\ q[1] = a /\ q[2] = b /\ q[3] = c
    BY <1>11, <2>1
  <2>3. q = <<q[1], q[2], q[3]>>
    BY <2>2
  <2> QED
    BY <2>1, <2>2, <2>3
<1>13. Len(p) = IF source.body > BodySize THEN source.body ELSE BodySize
  BY <1>2, <1>8, <1>9, <1>10, Sizes
<1> QED
  BY <1>1, <1>7, <1>9, <1>10, <1>12, <1>13 DEF S

\* What a transaction is
LEMMA TransactionIs ==
    ASSUME source \in Transactions
    PROVE  /\ source.dataHash \in Hashes /\ source.body \in Nat /\ source.auth \in Nat
           /\ source.txs \in Nat
           /\ source.key # -1 => source.key \in Nat /\ source.key \in 0 .. Prime - 1
<1>1. source.body \in Nat /\ source.auth \in Nat
  <2>1. source.body \in Bodies /\ source.auth \in Auths
    BY DEF Transactions
  <2>2. Bodies \subseteq Nat /\ Auths \subseteq Nat
    BY NumeralAssumption
  <2> QED
    BY <2>1, <2>2
<1>2. /\ source.txs \in Nat
      /\ source.key # -1 => source.key \in Nat /\ source.key \in 0 .. Prime - 1
  <2>1. source.txs \in 1 .. MaxTxs /\ source.key \in -1 .. MaxTxs - 1
    BY DEF Transactions
  <2>2. PICK m \in Nat, p \in Nat : m = MaxTxs /\ p = Prime /\ m <= p
    BY NumeralAssumption
  <2> QED
    BY <2>1, <2>2
<1>3. source.dataHash \in Hashes
  BY DEF Transactions
<1> QED
  BY <1>1, <1>2, <1>3

\* What RootInput gives the signals that go public, and the key.
LEMMA RootGiven ==
    ASSUME input = RootInput, source \in Transactions, source.key # -1
    PROVE  /\ Given("txBody", TxBody)
           /\ Given("dataHash", HexStringToArray(Hex(source.dataHash)))
           /\ Given("key", <<source.key>>)
<1>1. PICK names : names = <<"txBody", "txAuthInfos", "signatures", "key", "dataHash",
                             "siblings">>
  OBVIOUS
<1>2. Names(names)
  BY <1>1 DEF Names, RootInput, Key
<1>3. DOMAIN input = 1 .. 6
  BY DEF RootInput
<1>4. /\ input[1] = Key("txBody", <<TxBody>>)
      /\ input[4] = Key("key", <<<<source.key>>>>)
      /\ input[5] = Key("dataHash", <<HexStringToArray(Hex(source.dataHash))>>)
  BY DEF RootInput
<1>5. Seq(0 .. Prime - 1) \subseteq Seq(Nat)
  <2>1. 0 .. Prime - 1 \subseteq Nat
    BY Sizes
  <2>2. \A S, T : S \subseteq T => Seq(S) \subseteq Seq(T)
    OBVIOUS
  <2> QED
    BY <2>1, <2>2
<1>6. TxBody \in Seq(Nat)
  BY <1>5, TxBodyIs
<1>7. HexStringToArray(Hex(source.dataHash)) \in Seq(Nat)
  <2>1. source.dataHash \in Hashes
    BY DEF Transactions
  <2> QED
    BY <1>5, <2>1, HashBytes
<1>8. <<source.key>> \in Seq(Nat)
  BY TransactionIs
<1>9. Given("txBody", TxBody)
  BY <1>2, <1>3, <1>4, <1>6, GivenNamed
<1>10. Given("dataHash", HexStringToArray(Hex(source.dataHash)))
  BY <1>2, <1>3, <1>4, <1>7, GivenNamed
<1>11. Given("key", <<source.key>>)
  <2>1. PICK v \in Seq(Nat) : v = <<source.key>>
    BY <1>8
  <2>2. input[4] = Key("key", <<v>>) /\ 4 \in DOMAIN input
    BY <1>3, <1>4, <2>1
  <2>3. Given("key", v)
    BY <1>2, <2>2, GivenNamed
  <2> QED
    BY <2>1, <2>3
<1> QED
  BY <1>9, <1>10, <1>11

\* The circuit of the root gets the body, the data hash and the place of the
\* transaction.
LEMMA RootSignals ==
    ASSUME input = RootInput, source \in Transactions, source.key # -1
    PROVE  /\ Signal("txBody") = TxBody
           /\ Digest(Signal("dataHash")) = source.dataHash
           /\ Signal("key") = <<source.key>>
<1>1. source.dataHash \in Hashes
  BY DEF Transactions
<1>2. PICK v \in Seq(0 .. Prime - 1) :
         v = HexStringToArray(Hex(source.dataHash)) /\ Digest(v) = source.dataHash
  BY <1>1, HashBytes
<1>3. v \in Seq(Nat) /\ TxBody \in Seq(Nat) /\ TxBody \in Seq(0 .. Prime - 1)
  BY Sizes, TxBodyIs
<1>4. Given("txBody", TxBody) /\ Given("dataHash", v)
  BY <1>2, RootGiven
<1>5. Signal("txBody") = TxBody /\ Signal("dataHash") = v
  BY <1>3, <1>4, SignalIs
<1>6. Signal("key") = <<source.key>>
  BY TransactionIs, RootGiven, SignalOne
<1> QED
  BY <1>2, <1>5, <1>6

\* Heights are exact doubles and field elements.
LEMMA HeightsInField ==
    ASSUME NEW h \in Heights
    PROVE  h \in Nat /\ h < MaxSafe /\ h \in 0 .. Prime - 1
<1>1. PICK P \in Nat \ {0, 1}, M \in Nat \ {0, 1} : P = Prime /\ M = MaxSafe
  BY Sizes
<1>2. h \in 0 .. M - 1 /\ M <= P
  BY <1>1, NumeralAssumption
<1> QED
  BY <1>1, <1>2

\* A block time is a field element, also when rounded to a double.
LEMMA TimesInField ==
    ASSUME NEW t \in Times
    PROVE  t \in Nat /\ Double(t) \in 0 .. Prime - 1
<1>1. PICK P \in Nat \ {0, 1}, M \in Nat \ {0, 1} : P = Prime /\ M = MaxSafe
  BY Sizes
<1>2. t \in Nat /\ 2 * t <= P
  <2>1. t \in 0 .. P \div 2
    BY <1>1, NumeralAssumption
  <2> QED
    BY <2>1
<1>3. PICK d \in Nat : d = Double(t) /\ (d - t) * M <= t
  <2>1. Double(t) \in Nat /\ (Double(t) - t) * MaxSafe \in -t .. t
    BY <1>2, Doubles
  <2> QED
    BY <1>1, <1>2, <2>1
<1>4. CASE d <= t
  BY <1>1, <1>2, <1>3, <1>4
<1>5. CASE d > t
  <2>1. PICK e \in Nat : e = d - t
    BY <1>2, <1>3, <1>5
  <2>2. PICK k \in Nat : M = 2 + k
    <3>1. M - 2 \in Nat /\ M = 2 + (M - 2)
      BY <1>1
    <3> QED
      BY <3>1
  <2>3. e * M = 2 * e + e * k /\ e * k \in Nat
    BY <2>1, <2>2
  <2>4. 2 * e <= t
    BY <1>2, <1>3, <2>1, <2>3
  <2> QED
    BY <1>1, <1>2, <1>3, <2>1, <2>4
<1> QED
  BY <1>2, <1>3, <1>4, <1>5

\* A coordinate has at most three chunks.
LEMMA ThreeChunks ==
    ASSUME NEW n \in 0 .. ChunkBase * ChunkBase * ChunkBase - 1
    PROVE  Len(Digits(ChunkBase, n)) <= 3
<1> DEFINE Short(x, l) == \A k \in Nat : k < x => Len(Digits(ChunkBase, k)) <= l
<1>1. PICK b \in Nat \ {0, 1} : b = ChunkBase
  BY Sizes
<1>2. ASSUME NEW x \in Nat, NEW l \in Nat, Short(x, l)
      PROVE  Short(b * x, l + 1)
  BY <1>1, <1>2, OneDigitMore
<1>3. Short(1, 0)
  BY <1>1, DigitsRec
<1>4. n \in Nat /\ n < b * (b * b)
  <2>1. b * b * b = b * (b * b) /\ b * b * b \in Nat
    OBVIOUS
  <2>2. n \in 0 .. b * b * b - 1
    BY <1>1
  <2> QED
    BY <2>1, <2>2
<1> HIDE DEF Short
<1>5. Short(b, 1)
  <2>1. b * 1 = b
    OBVIOUS
  <2> QED
    BY <1>2, <1>3, <2>1
<1>6. Short(b * b, 2)
  BY <1>2, <1>5
<1>7. Short(b * (b * b), 3)
  <2>1. b * b \in Nat
    OBVIOUS
  <2> QED
    BY <1>2, <1>6, <2>1
<1> QED
  BY <1>4, <1>7 DEF Short

\* The chunks of a coordinate, filled up behind, weigh up to it.
LEMMA ChunksAre ==
    ASSUME NEW n \in Nat, Len(Digits(ChunkBase, n)) <= 3,
           NEW c, c = Pad(ChunkBigInt(Coordinate(n)), 3)
    PROVE  c \in Seq(0 .. Prime - 1) /\ Len(c) = 3 /\ Value(ChunkBase, Reverse(c)) = n
<1>1. PICK b \in Nat \ {0, 1} : b = ChunkBase
  BY Sizes
<1> DEFINE S == 0 .. b - 1
<1>2. 0 \in S /\ S \subseteq Nat
  OBVIOUS
<1>3. Digits(b, n) \in Seq(S) /\ Value(b, Digits(b, n)) = n
  BY DigitsRec, ValueDigits
<1> HIDE DEF S
<1>4. PICK d : d = IF n = 0 THEN <<0>> ELSE Digits(b, n)
  OBVIOUS
<1>5. d \in Seq(S) /\ Value(b, d) = n /\ Len(d) <= 3 /\ ChunkBigInt(n) = Reverse(d)
  <2>1. CASE n = 0
    <3>1. d = <<0>>
      BY <1>4, <2>1
    <3>2. d \in Seq(S) /\ Len(d) = 1 /\ d[1] = 0
      BY <1>2, <3>1
    <3>3. Reverse(d) = <<0>>
      BY <3>1, <3>2 DEF Reverse
    <3>4. Value(b, d) = 0
      <4>1. <<0>> = Append(<<>>, 0) /\ <<>> \in Seq(Nat)
        OBVIOUS
      <4>2. Value(b, Append(<<>>, 0)) = Value(b, <<>>) * b + 0
        BY <4>1, ValueAppend
      <4> QED
        BY <3>1, <4>1, <4>2, ValueEmpty
    <3>5. ChunkBigInt(n) = <<0>>
      BY <2>1 DEF ChunkBigInt
    <3> QED
      BY <2>1, <3>2, <3>3, <3>4, <3>5
  <2>2. CASE n # 0
    <3>1. Len(Digits(b, n)) <= 3
      BY <1>1
    <3>2. ChunkBigInt(n) = Reverse(Digits(b, n))
      BY <1>1, <2>2 DEF ChunkBigInt
    <3>3. d = Digits(b, n)
      BY <1>4, <2>2
    <3> QED
      BY <1>3, <3>1, <3>2, <3>3
  <2> QED
    BY <2>1, <2>2
<1>6. PICK l \in 0 .. 3 : l = Len(d)
  <2>1. d \in Seq(S) /\ Len(d) <= 3
    BY <1>5
  <2>2. PICK m \in Nat : m = Len(d)
    BY <2>1
  <2>3. m \in 0 .. 3
    BY <2>1, <2>2
  <2> QED
    BY <2>2, <2>3
<1>7. PICK k \in Nat : k = 3 - l /\ l + k = 3
  <2>1. 3 - l \in Nat /\ l + (3 - l) = 3
    OBVIOUS
  <2> QED
    BY <2>1
<1>8. PICK z \in Seq(S) : z = [i \in 1 .. k |-> 0] /\ Len(z) = k
  <2>1. [i \in 1 .. k |-> 0] \in Seq(S) /\ Len([i \in 1 .. k |-> 0]) = k
    BY <1>2
  <2> QED
    BY <2>1
<1>9. PICK x \in Seq(S) : x = Reverse(d) /\ Len(x) = l /\ \A i \in 1 .. l : x[i] = d[(l - i) + 1]
  <2>1. Reverse(d) \in Seq(S) /\ Len(Reverse(d)) = l
    BY <1>5, <1>6, ReverseTwice
  <2>2. \A i \in 1 .. l : Reverse(d)[i] = d[(l - i) + 1]
    BY <1>6 DEF Reverse
  <2> QED
    BY <2>1, <2>2
<1>10. c = x \o z
  <2>1. c = Pad(x, 3)
    BY <1>5, <1>9 DEF Coordinate
  <2> QED
    BY <1>7, <1>8, <1>9, <2>1 DEF Pad
<1>11. /\ c \in Seq(S) /\ Len(c) = 3
       /\ \A i \in 1 .. 3 : c[i] = IF i <= l THEN x[i] ELSE z[i - l]
  <2>1. /\ x \o z \in Seq(S) /\ Len(x \o z) = l + k
        /\ \A i \in 1 .. l + k : (x \o z)[i] = IF i <= l THEN x[i] ELSE z[i - l]
    BY <1>8, <1>9, ConcatProperties
  <2> QED
    BY <1>7, <1>10, <2>1
<1>12. Reverse(c) = z \o d
  <2>1. Reverse(c) = [i \in 1 .. 3 |-> c[(3 - i) + 1]]
    BY <1>11 DEF Reverse
  <2>2. PICK y \in Seq(S) : /\ y = z \o d /\ Len(y) = 3
                            /\ \A i \in 1 .. 3 : y[i] = IF i <= k THEN z[i] ELSE d[i - k]
    <3>1. /\ z \o d \in Seq(S) /\ Len(z \o d) = k + l
          /\ \A i \in 1 .. k + l : (z \o d)[i] = IF i <= k THEN z[i] ELSE d[i - k]
      BY <1>5, <1>6, <1>8, ConcatProperties
    <3>2. k + l = 3
      BY <1>6, <1>7
    <3> QED
      BY <3>1, <3>2
  <2>3. ASSUME NEW i \in 1 .. 3 PROVE c[(3 - i) + 1] = y[i]
    <3>1. PICK j \in 1 .. 3 : j = (3 - i) + 1
      OBVIOUS
    <3>2. CASE i <= k
      <4>1. ~(j <= l) /\ j - l \in 1 .. k
        BY <1>6, <1>7, <3>1, <3>2
      <4>2. z[j - l] = 0 /\ z[i] = 0
        BY <1>8, <3>2, <4>1
      <4> QED
        BY <1>11, <2>2, <3>1, <3>2, <4>1, <4>2
    <3>3. CASE ~(i <= k)
      <4>1. j \in 1 .. l /\ (l - j) + 1 = i - k
        BY <1>6, <1>7, <3>1, <3>3
      <4>2. c[j] = d[i - k]
        BY <1>9, <1>11, <4>1
      <4> QED
        BY <2>2, <3>1, <3>3, <4>2
    <3> QED
      BY <3>2, <3>3
  <2>4. y = [i \in 1 .. Len(y) |-> y[i]]
    OBVIOUS
  <2> QED
    BY <2>1, <2>2, <2>3, <2>4
<1>13. Value(b, z \o d) = n
  <2>1. d \in Seq(Nat)
    <3>1. \A T, U : T \subseteq U => Seq(T) \subseteq Seq(U)
      OBVIOUS
    <3> QED
      BY <1>2, <1>5, <3>1
  <2>2. Value(b, z \o d) = Value(b, d)
    BY <1>8, <2>1, ValueZeros
  <2> QED
    BY <1>5, <2>2
<1>14. c \in Seq(0 .. Prime - 1)
  <2>1. PICK U : U = 0 .. Prime - 1
    OBVIOUS
  <2>2. S \subseteq U
    BY <1>1, <2>1, Sizes, NumeralAssumption DEF S
  <2>3. Seq(S) \subseteq Seq(U)
    BY <2>2
  <2> QED
    BY <1>11, <2>1, <2>3
<1> QED
  BY <1>1, <1>11, <1>12, <1>13, <1>14

\* What input.json has of the points: three chunks of each coordinate
PointChunks == [i \in DOMAIN source.A |-> Pad(ChunkBigInt(Coordinate(source.A[i])), 3)]

\* Each coordinate goes as three field elements that are worth it.
LEMMA PointChunksAre ==
    ASSUME source \in Headers, NEW l, l = Len(source.A)
    PROVE  /\ l \in Nat /\ 4 * N32 * (7 + 3 * l) < Radix
           /\ Laid(FlattenSeq(PointChunks), PointChunks, 0 .. Prime - 1, l, 3)
           /\ \A i \in 1 .. l : /\ PointChunks[i] \in Seq(0 .. Prime - 1)
                                /\ Len(PointChunks[i]) = 3
                                /\ Value(ChunkBase, Reverse(PointChunks[i])) = source.A[i]
<1>1. source.A \in Points
  BY DEF Headers
<1>2. PICK C : C = 0 .. ChunkBase * ChunkBase * ChunkBase - 1
  OBVIOUS
<1>3. source.A \in Seq(C) /\ 4 * N32 * (7 + 3 * l) < Radix
  BY <1>1, <1>2, NumeralAssumption
<1>4. l \in Nat /\ DOMAIN source.A = 1 .. l
  BY <1>3
<1>5. \A i \in 1 .. l : source.A[i] \in C
  BY <1>3
<1>6. \A n \in C : n \in Nat /\ Len(Digits(ChunkBase, n)) <= 3
  <2>1. C \subseteq Nat
    <3>1. ChunkBase * ChunkBase * ChunkBase \in Nat
      <4>1. ChunkBase \in Nat
        BY Sizes
      <4> QED
        BY <4>1
    <3>2. \A x \in Nat : 0 .. x - 1 \subseteq Nat
      OBVIOUS
    <3> QED
      BY <1>2, <3>1, <3>2
  <2> QED
    BY <1>2, <2>1, ThreeChunks
<1>7. PICK U : U = 0 .. Prime - 1
  OBVIOUS
<1>8. PICK ss : ss = PointChunks
  OBVIOUS
<1>9. ss = [i \in 1 .. l |-> Pad(ChunkBigInt(Coordinate(source.A[i])), 3)]
  BY <1>4, <1>8 DEF PointChunks
<1>10. \A i \in 1 .. l : /\ ss[i] \in Seq(U) /\ Len(ss[i]) = 3
                         /\ Value(ChunkBase, Reverse(ss[i])) = source.A[i]
  <2> TAKE i \in 1 .. l
  <2>1. PICK n : n = source.A[i]
    OBVIOUS
  <2>2. n \in Nat /\ Len(Digits(ChunkBase, n)) <= 3
    BY <1>5, <1>6, <2>1
  <2>3. PICK c : c = Pad(ChunkBigInt(Coordinate(n)), 3)
    OBVIOUS
  <2>4. c \in Seq(0 .. Prime - 1) /\ Len(c) = 3 /\ Value(ChunkBase, Reverse(c)) = n
    BY <2>2, <2>3, ChunksAre
  <2>5. ss[i] = c
    BY <1>9, <2>1, <2>3
  <2> QED
    BY <1>7, <2>1, <2>4, <2>5
<1>11. Arrays(ss, U, l, 3)
  <2>1. ss \in Seq(Seq(U)) /\ Len(ss) = l
    BY <1>4, <1>9, <1>10
  <2> QED
    BY <1>10, <2>1 DEF Arrays
<1>12. Laid(FlattenSeq(ss), ss, U, l, 3)
  <2>1. PICK n \in Nat : n = 3
    OBVIOUS
  <2> QED
    BY <1>11, <2>1, FlattenUniform
<1> QED
  BY <1>3, <1>4, <1>7, <1>8, <1>10, <1>12

\* What HeaderInput gives the signals.
LEMMA HeaderGiven ==
    ASSUME input = HeaderInput, source \in Headers, source.signature # Absent
    PROVE  /\ Given("height", <<Double(source.height)>>)
           /\ Given("dataHash", HexStringToArray(Hex(source.dataHash)))
           /\ Given("parrentSiblings", HexStringToArray(Hex(source.parrentSiblings)))
           /\ Given("blockHash", HexStringToArray(Hex(source.blockHash)))
           /\ Given("blockTime", <<Double(source.blockTime)>>)
           /\ Given("pubKeys", HexStringToArray(Hex(source.pubKeys)))
           /\ Given("R8", HexStringToArray(Hex(source.signature)))
           /\ Given("PointA", FlattenSeq(PointChunks))
<1>1. PICK names : names = <<"height", "dataHash", "parrentSiblings", "blockHash",
                             "blockTime", "pubKeys", "R8", "PointA">>
  OBVIOUS
<1>2. Names(names)
  BY <1>1 DEF Names, HeaderInput, Key
<1>3. DOMAIN input = 1 .. 8
  BY DEF HeaderInput
<1>4. /\ input[1] = Key("height", <<<<Double(source.height)>>>>)
      /\ input[2] = Key("dataHash", <<HexStringToArray(Hex(source.dataHash))>>)
      /\ input[3] = Key("parrentSiblings", <<HexStringToArray(Hex(source.parrentSiblings))>>)
      /\ input[4] = Key("blockHash", <<HexStringToArray(Hex(source.blockHash))>>)
      /\ input[5] = Key("blockTime", <<<<Double(source.blockTime)>>>>)
      /\ input[6] = Key("pubKeys", <<HexStringToArray(Hex(source.pubKeys))>>)
      /\ input[7] = Key("R8", <<HexStringToArray(Hex(source.signature))>>)
      /\ input[8] = Key("PointA", PointChunks)
  BY DEF HeaderInput, PointChunks
<1>5. /\ source.dataHash \in Hashes /\ source.parrentSiblings \in Hashes
      /\ source.blockHash \in Hashes /\ source.pubKeys \in Hashes
      /\ source.height \in Heights /\ source.blockTime \in Times
      /\ source.signature \in Hashes
  <2>1. source.signature \in Signatures
    BY DEF Headers
  <2> QED
    BY <2>1, NumeralAssumption DEF Headers
<1>6. \A h \in Hashes : HexStringToArray(Hex(h)) \in Seq(Nat)
  <2>1. 0 .. Prime - 1 \subseteq Nat
    BY Sizes
  <2>2. \A S, T : S \subseteq T => Seq(S) \subseteq Seq(T)
    OBVIOUS
  <2>3. Seq(0 .. Prime - 1) \subseteq Seq(Nat)
    BY <2>1, <2>2
  <2> QED
    BY <2>3, HashBytes
<1>7. source.height \in Nat /\ source.blockTime \in Nat
  BY <1>5, HeightsInField, TimesInField
<1>8. <<Double(source.height)>> \in Seq(Nat) /\ <<Double(source.blockTime)>> \in Seq(Nat)
  <2>1. Double(source.height) \in Nat /\ Double(source.blockTime) \in Nat
    BY <1>7, Doubles
  <2> QED
    BY <2>1
<1>9. Given("PointA", FlattenSeq(PointChunks))
  <2>1. input[8].name = "PointA" /\ input[8].value = PointChunks
    BY <1>4 DEF Key
  <2>2. \A j \in DOMAIN input : input[j].name = "PointA" => j = 8
    BY <1>1, <1>2, <1>3 DEF Names
  <2> QED
    BY <1>3, <2>1, <2>2 DEF Given
<1>10. ASSUME NEW i \in 1 .. 8, NEW s, NEW v \in Seq(Nat), input[i] = Key(s, <<v>>)
       PROVE  Given(s, v)
  BY <1>2, <1>3, <1>10, GivenNamed
<1>11. ASSUME NEW i \in 1 .. 8, NEW s, NEW h \in Hashes,
              input[i] = Key(s, <<HexStringToArray(Hex(h))>>)
       PROVE  Given(s, HexStringToArray(Hex(h)))
  <2>1. PICK v \in Seq(Nat) : v = HexStringToArray(Hex(h))
    BY <1>6
  <2> QED
    BY <1>10, <1>11, <2>1
<1>12. {1, 2, 3, 4, 5, 6, 7} \subseteq 1 .. 8
  OBVIOUS
<1>13. /\ Given("dataHash", HexStringToArray(Hex(source.dataHash)))
       /\ Given("parrentSiblings", HexStringToArray(Hex(source.parrentSiblings)))
       /\ Given("blockHash", HexStringToArray(Hex(source.blockHash)))
       /\ Given("pubKeys", HexStringToArray(Hex(source.pubKeys)))
       /\ Given("R8", HexStringToArray(Hex(source.signature)))
  BY <1>4, <1>5, <1>11, <1>12
<1>14. Given("height", <<Double(source.height)>>)
  BY <1>4, <1>8, <1>10, <1>12
<1>15. Given("blockTime", <<Double(source.blockTime)>>)
  BY <1>4, <1>8, <1>10, <1>12
<1> QED
  BY <1>9, <1>13, <1>14, <1>15

\* The circuit of the header gets the values of the block header.
LEMMA HeaderSignals ==
    ASSUME input = HeaderInput, source \in Headers, source.signature # Absent
    PROVE  /\ Signal("height") = <<source.height>>
           /\ Digest(Signal("dataHash")) = source.dataHash
           /\ Digest(Signal("parrentSiblings")) = source.parrentSiblings
           /\ Digest(Signal("blockHash")) = source.blockHash
           /\ Signal("blockTime") = <<Double(source.blockTime)>>
           /\ Digest(Signal("pubKeys")) = source.pubKeys
           /\ Digest(Signal("R8")) = source.signature
           /\ Signal("PointA") = FlattenSeq(PointChunks)
<1>1. /\ source.dataHash \in Hashes /\ source.parrentSiblings \in Hashes
      /\ source.blockHash \in Hashes /\ source.pubKeys \in Hashes
      /\ source.height \in Heights /\ source.blockTime \in Times
      /\ source.signature \in Hashes
  <2>1. source.signature \in Signatures
    BY DEF Headers
  <2> QED
    BY <2>1, NumeralAssumption DEF Headers
<1>2. ASSUME NEW s, NEW h \in Hashes, Given(s, HexStringToArray(Hex(h)))
      PROVE  Digest(Signal(s)) = h
  <2>1. PICK v \in Seq(0 .. Prime - 1) : v = HexStringToArray(Hex(h)) /\ Digest(v) = h
    BY HashBytes
  <2>2. v \in Seq(Nat)
    BY Sizes
  <2>3. Given(s, v)
    BY <1>2, <2>1
  <2>4. Signal(s) = v
    BY <2>2, <2>3, SignalIs
  <2> QED
    BY <2>1, <2>4
<1>3. Signal("height") = <<source.height>>
  <2>1. source.height \in Nat /\ source.height < MaxSafe /\ source.height \in 0 .. Prime - 1
    BY <1>1, HeightsInField
  <2>2. Double(source.height) = source.height
    BY <2>1, Doubles
  <2> QED
    BY <2>1, <2>2, HeaderGiven, SignalOne
<1>4. Signal("blockTime") = <<Double(source.blockTime)>>
  BY <1>1, TimesInField, HeaderGiven, SignalOne
<1>5. Signal("PointA") = FlattenSeq(PointChunks)
  <2>1. PICK l : l = Len(source.A)
    OBVIOUS
  <2>2. PICK v \in Seq(0 .. Prime - 1) : v = FlattenSeq(PointChunks)
    BY <2>1, PointChunksAre DEF Laid
  <2>3. v \in Seq(Nat)
    BY Sizes
  <2>4. Given("PointA", v)
    BY <2>2, HeaderGiven
  <2> QED
    BY <2>2, <2>3, <2>4, SignalIs
<1> QED
  BY <1>1, <1>2, <1>3, <1>4, <1>5, HeaderGiven

-----------------------------------------------------------------------------
(* What the circuit computes.                                              *)

Built == CASE kind = "header" -> HeaderInput
           [] kind = "root"   -> RootInput
           [] kind = "claim"  -> ClaimInput

\* The validator has signed, the transaction is in its block.
Present == /\ kind = "header" => source.signature # Absent
           /\ kind = "root" => source.key # -1

More(q, S, s, x, n) ==
    q \in Seq(S) /\ Len(q) = n + 1 /\ q[n + 1] = x /\ \A i \in 1 .. n : q[i] = s[i]

\* A sequence with one value appended.
LEMMA OneMore ==
    ASSUME NEW S, NEW s \in Seq(S), NEW x \in S
    PROVE  More(s \o <<x>>, S, s, x, Len(s))
<1>1. s \o <<x>> = Append(s, x)
  OBVIOUS
<1> QED
  BY <1>1, AppendProperties DEF More

\* A request means one field element for every public signal.
LEMMA MeantIsIn ==
    ASSUME kind \in DOMAIN Fields, source \in Sources[kind]
    PROVE  /\ Meant \in Seq(0 .. Prime - 1)
           /\ Len(Meant) = Len(Fields[kind])
           /\ \A i \in DOMAIN Fields[kind] : Fields[kind][i] # "number" => Meant[i] \in Hashes
<1> DEFINE S == 0 .. Prime - 1
<1>1. /\ \A h \in Hashes : h \in S
      /\ \A h \in Heights : h \in S
      /\ \A n \in Numbers : n \in S
  <2>1. Hashes \subseteq S /\ Numbers \subseteq S
    BY NumeralAssumption
  <2> QED
    BY <2>1, HeightsInField
<1> HIDE DEF S
<1>2. CASE kind = "header"
  <2>1. source \in Headers
    BY <1>2 DEF Sources
  <2>2. Fields[kind] = <<"address", "hash", "hash", "hash", "number">>
    BY <1>2 DEF Fields
  <2>3. Meant = <<source.pubKeys, source.parrentSiblings, source.dataHash,
                  source.blockHash, source.height>>
    BY <1>2 DEF Meant
  <2>4. /\ source.pubKeys \in Hashes /\ source.parrentSiblings \in Hashes
        /\ source.dataHash \in Hashes /\ source.blockHash \in Hashes
        /\ source.height \in Heights
    BY <2>1 DEF Headers
  <2>5. Meant \in Seq(S)
    BY <1>1, <2>3, <2>4
  <2> QED
    BY <2>2, <2>3, <2>4, <2>5 DEF S
<1>3. CASE kind = "root"
  <2>1. source \in Transactions
    BY <1>3 DEF Sources
  <2>2. Fields[kind] = <<"address", "address", "number", "hash">>
    BY <1>3 DEF Fields
  <2>3. Meant = <<source.sender, source.bridge, source.root, source.dataHash>>
    BY <1>3 DEF Meant
  <2>4. /\ source.sender \in Hashes /\ source.bridge \in Hashes
        /\ source.root \in Numbers /\ source.dataHash \in Hashes
    BY <2>1 DEF Transactions
  <2>5. Meant \in Seq(S)
    BY <1>1, <2>3, <2>4
  <2> QED
    BY <2>2, <2>3, <2>4, <2>5 DEF S
<1>4. CASE kind = "claim"
  <2>1. source \in Deposits
    BY <1>4 DEF Sources
  <2>2. Fields[kind] = <<"address", "address", "number", "address", "number", "number">>
    BY <1>4 DEF Fields
  <2>3. Meant = <<source.bridge, source.receiver, source.amount,
                  source.token, source.key, source.root>>
    BY <1>4 DEF Meant
  <2>4. /\ source.bridge \in Hashes /\ source.receiver \in Hashes
        /\ source.amount \in Numbers /\ source.token \in Hashes
        /\ source.key \in Heights /\ source.root \in Numbers
    BY <2>1 DEF Deposits
  <2>5. Meant \in Seq(S)
    BY <1>1, <2>3, <2>4
  <2> QED
    BY <2>2, <2>3, <2>4, <2>5 DEF S
<1> QED
  BY <1>2, <1>3, <1>4 DEF Fields

\* The public numbers of the circuit are those the chain has.
LEMMA OutputsAreMeant ==
    ASSUME kind \in DOMAIN Fields, source \in Sources[kind], input = Built, Present
    PROVE  Outputs = Meant
<1>1. CASE kind = "header"
  <2>1. source \in Headers /\ input = HeaderInput /\ source.signature # Absent
    BY <1>1 DEF Sources, Built, Present
  <2>2. PICK a, b, c, d, e : /\ a = source.pubKeys /\ b = source.parrentSiblings
                             /\ c = source.dataHash /\ d = source.blockHash
                             /\ e = source.height
    OBVIOUS
  <2>3. Outputs = <<a, b, c, d>> \o <<e>>
    BY <1>1, <2>1, <2>2, HeaderSignals DEF Outputs
  <2>4. <<a, b, c, d>> \o <<e>> = <<a, b, c, d, e>>
    <3>1. PICK S : S = {a, b, c, d, e}
      OBVIOUS
    <3>2. <<a, b, c, d>> \in Seq(S) /\ e \in S
      BY <3>1
    <3>3. PICK s \in Seq(S) : s = <<a, b, c, d>> /\ Len(s) = 4
      BY <3>2
    <3>4. PICK q : q = s \o <<e>> /\ More(q, S, s, e, 4)
      BY <3>2, <3>3, OneMore
    <3>5. q \in Seq(S) /\ Len(q) = 5 /\ q[1] = a /\ q[2] = b /\ q[3] = c /\ q[4] = d /\ q[5] = e
      BY <3>3, <3>4 DEF More
    <3>6. q = <<q[1], q[2], q[3], q[4], q[5]>>
      BY <3>5
    <3> QED
      BY <3>3, <3>4, <3>5, <3>6
  <2> QED
    BY <1>1, <2>2, <2>3, <2>4 DEF Meant
<1>2. CASE kind = "root"
  <2>1. source \in Transactions /\ input = RootInput /\ source.key # -1
    BY <1>2 DEF Sources, Built, Present
  <2>2. PICK a, b, c, d : /\ a = source.sender /\ b = source.bridge
                          /\ c = source.root /\ d = source.dataHash
    OBVIOUS
  <2>3. Outputs = <<a, b, c>> \o <<d>>
    BY <1>2, <2>1, <2>2, RootSignals, TxBodyIs DEF Outputs
  <2>4. <<a, b, c>> \o <<d>> = <<a, b, c, d>>
    <3>1. PICK S : S = {a, b, c, d}
      OBVIOUS
    <3>2. <<a, b, c>> \in Seq(S) /\ d \in S
      BY <3>1
    <3>3. PICK s \in Seq(S) : s = <<a, b, c>> /\ Len(s) = 3
      BY <3>2
    <3>4. PICK q : q = s \o <<d>> /\ More(q, S, s, d, 3)
      BY <3>2, <3>3, OneMore
    <3>5. q \in Seq(S) /\ Len(q) = 4 /\ q[1] = a /\ q[2] = b /\ q[3] = c /\ q[4] = d
      BY <3>3, <3>4 DEF More
    <3>6. q = <<q[1], q[2], q[3], q[4]>>
      BY <3>5
    <3> QED
      BY <3>3, <3>4, <3>5, <3>6
  <2> QED
    BY <1>2, <2>2, <2>3, <2>4 DEF Meant
<1>3. CASE kind = "claim"
  <2>1. source \in Deposits /\ input = ClaimInput
    BY <1>3 DEF Sources, Built
  <2>2. PICK a, b, c, d, e, f : /\ a = source.bridge /\ b = source.receiver
                                /\ c = source.amount /\ d = source.token
                                /\ e = source.key /\ f = source.root
    OBVIOUS
  <2>3. Outputs = <<a>> \o <<b>> \o <<c>> \o <<d>> \o <<e>> \o <<f>>
    BY <1>3, <2>1, <2>2, ClaimSignals DEF Outputs
  <2>4. <<a>> \o <<b>> \o <<c>> \o <<d>> \o <<e>> \o <<f>> = <<a, b, c, d, e, f>>
    <3>1. PICK S : S = {a, b, c, d, e, f}
      OBVIOUS
    <3>2. a \in S /\ b \in S /\ c \in S /\ d \in S /\ e \in S /\ f \in S
      BY <3>1
    <3>3. PICK s \in Seq(S) : s = <<a>> /\ Len(s) = 1 /\ s[1] = a
      <4>1. <<a>> \in Seq(S) /\ Len(<<a>>) = 1 /\ <<a>>[1] = a
        BY <3>2
      <4> QED
        BY <4>1
    <3>4. PICK q : q = s \o <<b>> /\ More(q, S, s, b, 1)
      BY <3>2, <3>3, OneMore
    <3>5. q \in Seq(S) /\ Len(q) = 2 /\ q[1] = a /\ q[2] = b
      BY <3>3, <3>4 DEF More
    <3>6. PICK t : t = q \o <<c>> /\ More(t, S, q, c, 2)
      BY <3>2, <3>5, OneMore
    <3>7. t \in Seq(S) /\ Len(t) = 3 /\ t[1] = a /\ t[2] = b /\ t[3] = c
      BY <3>5, <3>6 DEF More
    <3>8. PICK u : u = t \o <<d>> /\ More(u, S, t, d, 3)
      BY <3>2, <3>7, OneMore
    <3>9. u \in Seq(S) /\ Len(u) = 4 /\ u[1] = a /\ u[2] = b /\ u[3] = c /\ u[4] = d
      BY <3>7, <3>8 DEF More
    <3>10. PICK v : v = u \o <<e>> /\ More(v, S, u, e, 4)
      BY <3>2, <3>9, OneMore
    <3>11. /\ v \in Seq(S) /\ Len(v) = 5
           /\ v[1] = a /\ v[2] = b /\ v[3] = c /\ v[4] = d /\ v[5] = e
      BY <3>9, <3>10 DEF More
    <3>12. PICK w : w = v \o <<f>> /\ More(w, S, v, f, 5)
      BY <3>2, <3>11, OneMore
    <3>13. /\ w \in Seq(S) /\ Len(w) = 6
           /\ w[1] = a /\ w[2] = b /\ w[3] = c /\ w[4] = d /\ w[5] = e /\ w[6] = f
      BY <3>11, <3>12 DEF More
    <3>14. w = <<w[1], w[2], w[3], w[4], w[5], w[6]>>
      BY <3>13
    <3> QED
      BY <3>3, <3>4, <3>6, <3>8, <3>10, <3>12, <3>13, <3>14
  <2> QED
    BY <1>3, <2>2, <2>3, <2>4 DEF Meant
<1> QED
  BY <1>1, <1>2, <1>3 DEF Fields

\* Arrays of three chunks behind one another make the point they were made of.
LEMMA PointsBack ==
    ASSUME source \in Headers
    PROVE  PointOf(FlattenSeq(PointChunks)) = source.A
<1>1. PICK U : U = 0 .. Prime - 1
  OBVIOUS
<1>2. PICK l \in Nat : l = Len(source.A) /\ DOMAIN source.A = 1 .. l
  <2>1. source.A \in Points
    BY DEF Headers
  <2>2. source.A \in Seq(0 .. ChunkBase * ChunkBase * ChunkBase - 1)
    BY <2>1, NumeralAssumption
  <2> QED
    BY <2>2
<1>3. PICK v : v = FlattenSeq(PointChunks)
  OBVIOUS
<1>4. /\ v \in Seq(U) /\ Len(v) = l * 3
      /\ \A i \in 1 .. l, j \in 1 .. 3 : v[(i - 1) * 3 + j] = PointChunks[i][j]
      /\ \A i \in 1 .. l : /\ PointChunks[i] \in Seq(U) /\ Len(PointChunks[i]) = 3
                           /\ Value(ChunkBase, Reverse(PointChunks[i])) = source.A[i]
  BY <1>1, <1>2, <1>3, PointChunksAre DEF Laid
<1>5. Len(v) \div 3 = l
  <2>1. (l * 3) \div 3 = l
    BY ONLY l \in Nat
  <2> QED
    BY <1>4, <2>1
<1>6. ASSUME NEW i \in 1 .. l
      PROVE  SubSeq(v, 3 * (i - 1) + 1, 3 * (i - 1) + 3) = PointChunks[i]
  <2>1. PICK k \in Nat : k = 3 * (i - 1) /\ k + 3 <= l * 3 /\ (i - 1) * 3 = k
    <3>1. 3 * (i - 1) \in Nat /\ 3 * (i - 1) + 3 <= l * 3 /\ (i - 1) * 3 = 3 * (i - 1)
      BY <1>2
    <3> QED
      BY <3>1
  <2>2. PICK q : q = SubSeq(v, k + 1, k + 3)
    OBVIOUS
  <2>3. q = [j \in 1 .. 3 |-> v[k + j]]
    <3>0. k + 3 <= Len(v)
      BY <1>4, <2>1
    <3>1. q = [j \in 1 .. (k + 3) - (k + 1) + 1 |-> v[k + 1 + j - 1]]
      BY <1>4, <2>2, <3>0
    <3>2. (k + 3) - (k + 1) + 1 = 3 /\ \A j \in 1 .. 3 : k + 1 + j - 1 = k + j
      OBVIOUS
    <3> QED
      BY <3>1, <3>2
  <2>4. ASSUME NEW j \in 1 .. 3 PROVE v[k + j] = PointChunks[i][j]
    <3>1. v[(i - 1) * 3 + j] = PointChunks[i][j]
      BY <1>4
    <3> QED
      BY <2>1, <3>1
  <2>5. PointChunks[i] = [j \in 1 .. 3 |-> PointChunks[i][j]]
    <3>1. PICK c \in Seq(U) : c = PointChunks[i] /\ Len(c) = 3
      BY <1>4
    <3>2. c = [j \in 1 .. 3 |-> c[j]]
      BY <3>1
    <3> QED
      BY <3>1, <3>2
  <2> QED
    BY <2>1, <2>2, <2>3, <2>4, <2>5
<1>7. PointOf(v) = [i \in 1 .. l |-> source.A[i]]
  <2>1. PointOf(v) = [i \in 1 .. l |->
           Value(ChunkBase, Reverse(SubSeq(v, 3 * (i - 1) + 1, 3 * (i - 1) + 3)))]
    BY <1>5 DEF PointOf
  <2> QED
    BY <1>4, <1>6, <2>1
<1>8. source.A = [i \in 1 .. l |-> source.A[i]]
  <2>1. source.A \in Points
    BY DEF Headers
  <2>2. source.A \in Seq(0 .. ChunkBase * ChunkBase * ChunkBase - 1)
    BY <2>1, NumeralAssumption
  <2> QED
    BY <1>2, <2>2
<1> QED
  BY <1>3, <1>7, <1>8

\* The private numbers of the circuit are those of the chain, the block and the
\* tree.
LEMMA HiddenIsMeant ==
    ASSUME kind \in DOMAIN Fields, source \in Sources[kind], input = Built, Present
    PROVE  Hidden = MeantHidden
<1>1. CASE kind = "header"
  <2>1. source \in Headers /\ input = HeaderInput /\ source.signature # Absent
    BY <1>1 DEF Sources, Built, Present
  <2>2. Signal("blockTime")[1] = Double(source.blockTime)
    <3>1. Signal("blockTime") = <<Double(source.blockTime)>>
      BY <2>1, HeaderSignals
    <3> QED
      BY <3>1
  <2>3. PointOf(Signal("PointA")) = source.A
    BY <2>1, HeaderSignals, PointsBack
  <2>4. Digest(Signal("R8")) = source.signature
    BY <2>1, HeaderSignals
  <2> QED
    BY <1>1, <2>2, <2>3, <2>4 DEF Hidden, MeantHidden
<1>2. CASE kind = "root"
  <2>1. source \in Transactions /\ input = RootInput /\ source.key # -1
    BY <1>2 DEF Sources, Built, Present
  <2>2. Signal("key") = <<source.key>>
    BY <2>1, RootSignals
  <2> QED
    BY <1>2, <2>2 DEF Hidden, MeantHidden
<1>3. CASE kind = "claim"
  <2>1. source \in Deposits /\ input = ClaimInput
    BY <1>3 DEF Sources, Built
  <2>2. Signal("siblings") = source.siblings
    BY <2>1, ClaimSignals
  <2> QED
    BY <1>3, <2>2 DEF Hidden, MeantHidden
<1> QED
  BY <1>1, <1>2, <1>3 DEF Fields

\* One, then m, then r
Parts(w, S, x, m, r, k, n) ==
    /\ w \in Seq(S) /\ Len(w) = 1 + k + n
    /\ SubSeq(w, 2, 1 + k) = m
    /\ \A i \in 1 .. n : w[1 + k + i] = r[i]

\* The parts of a concatenation of one value and two sequences.
LEMMA PartsAre ==
    ASSUME NEW S, NEW x \in S, NEW m \in Seq(S), NEW r \in Seq(S),
           NEW k, k = Len(m), NEW n, n = Len(r)
    PROVE  Parts(<<x>> \o m \o r, S, x, m, r, k, n)
<1>1. k \in Nat /\ n \in Nat
  OBVIOUS
<1>2. PICK s \in Seq(S) : s = <<x>> /\ Len(s) = 1
  <2>1. <<x>> \in Seq(S) /\ Len(<<x>>) = 1
    OBVIOUS
  <2> QED
    BY <2>1
<1>3. PICK t : t = s \o m
  OBVIOUS
<1>4. t \in Seq(S) /\ Len(t) = 1 + k
      /\ \A i \in 1 .. 1 + k : t[i] = IF i <= 1 THEN s[i] ELSE m[i - 1]
  BY <1>2, <1>3, ConcatProperties
<1>5. PICK w : w = t \o r
  OBVIOUS
<1>6. w \in Seq(S) /\ Len(w) = (1 + k) + n
      /\ \A i \in 1 .. (1 + k) + n : w[i] = IF i <= 1 + k THEN t[i] ELSE r[i - (1 + k)]
  <2>1. PICK l \in Nat : l = 1 + k /\ l = Len(t)
    <3>1. 1 + k \in Nat
      BY <1>1
    <3> QED
      BY <1>4, <3>1
  <2>2. /\ t \o r \in Seq(S) /\ Len(t \o r) = l + n
        /\ \A i \in 1 .. l + n : (t \o r)[i] = IF i <= l THEN t[i] ELSE r[i - l]
    <3>1. t \in Seq(S)
      BY <1>4
    <3>2. /\ t \o r \in Seq(S) /\ Len(t \o r) = Len(t) + Len(r)
          /\ \A i \in 1 .. Len(t) + Len(r) :
                (t \o r)[i] = IF i <= Len(t) THEN t[i] ELSE r[i - Len(t)]
      BY <3>1, ConcatProperties
    <3> QED
      BY <2>1, <3>2
  <2> QED
    BY <1>5, <2>1, <2>2
<1>7. ASSUME NEW i \in 1 .. k PROVE w[i + 1] = m[i]
  <2>1. PICK j \in Nat : /\ j = i + 1 /\ j \in 1 .. (1 + k) + n /\ j \in 1 .. 1 + k
                         /\ j <= 1 + k /\ ~(j <= 1) /\ j - 1 = i
    <3>1. /\ i + 1 \in Nat /\ i + 1 \in 1 .. (1 + k) + n /\ i + 1 \in 1 .. 1 + k
          /\ i + 1 <= 1 + k /\ ~(i + 1 <= 1) /\ (i + 1) - 1 = i
      BY <1>1
    <3> QED
      BY <3>1
  <2> QED
    BY <1>4, <1>6, <2>1
<1>8. SubSeq(w, 2, 1 + k) = m
  <2>1. PICK q : q = SubSeq(w, 2, 1 + k)
    OBVIOUS
  <2>2. 1 + k <= Len(w) /\ 1 + k \in Nat
    BY <1>1, <1>6
  <2>3. q = [i \in 1 .. k |-> w[i + 1]]
    <3>1. q = [i \in 1 .. (1 + k) - 2 + 1 |-> w[2 + i - 1]]
      BY <1>6, <2>1, <2>2
    <3>2. (1 + k) - 2 + 1 = k /\ \A i \in 1 .. k : 2 + i - 1 = i + 1
      BY <1>1
    <3> QED
      BY <3>1, <3>2
  <2>4. m = [i \in 1 .. k |-> m[i]]
    OBVIOUS
  <2> QED
    BY <1>7, <2>1, <2>3, <2>4
<1>9. ASSUME NEW i \in 1 .. n PROVE w[1 + k + i] = r[i]
  <2>1. PICK j \in Nat : /\ j = 1 + k + i /\ j \in 1 .. (1 + k) + n
                         /\ ~(j <= 1 + k) /\ j - (1 + k) = i
    <3>1. /\ 1 + k + i \in Nat /\ 1 + k + i \in 1 .. (1 + k) + n
          /\ ~(1 + k + i <= 1 + k) /\ (1 + k + i) - (1 + k) = i
      BY <1>1
    <3> QED
      BY <3>1
  <2> QED
    BY <1>6, <2>1
<1>10. <<x>> \o m \o r = w
  BY <1>2, <1>3, <1>5
<1> QED
  BY <1>6, <1>8, <1>9, <1>10 DEF Parts

\* What the proof keeps private: the block time and the points
Private == IF kind = "header" THEN <<Double(source.blockTime)>> \o FlattenSeq(PointChunks)
           ELSE <<>>

\* The witness is 1, what is meant and the private signals; its file is short.
LEMMA WitnessIs ==
    ASSUME kind \in DOMAIN Fields, source \in Sources[kind], input = Built, Present
    PROVE  /\ Parts(Witness, 0 .. Prime - 1, 1, Meant, Private, Len(Meant), Len(Private))
           /\ N8 * Len(Witness) < Radix /\ 8 + N8 < Radix
<1> DEFINE S == 0 .. Prime - 1
<1>1. 1 \in S
  BY Sizes
<1>2. PICK n \in Nat \ {0, 1} : n = N32 /\ N8 = 4 * n /\ 28 * n < Radix
  <2>1. PICK n \in Nat \ {0, 1} : n = N32
    BY Sizes
  <2>2. n * 4 = 4 * n /\ 4 * n * 7 = 28 * n
    OBVIOUS
  <2>3. 4 * N32 * 7 < Radix
    BY NumeralAssumption
  <2> QED
    BY <2>1, <2>2, <2>3 DEF N8
<1>3. Witness = <<1>> \o Meant \o Private
  <2>1. CASE kind = "header"
    BY <2>1, OutputsAreMeant, HeaderSignals DEF Witness, Private, Built, Sources, Present
  <2>2. CASE kind # "header"
    BY <2>2, OutputsAreMeant DEF Witness, Private
  <2> QED
    BY <2>1, <2>2
<1>4. Meant \in Seq(S) /\ Len(Meant) = Len(Fields[kind])
  BY MeantIsIn
<1>5. /\ Private \in Seq(S)
      /\ 4 * (n * (1 + Len(Meant) + Len(Private))) < Radix
  <2>1. CASE kind = "header"
    <3>1. source \in Headers
      BY <2>1 DEF Sources
    <3>2. Len(Meant) = 5
      BY <1>4, <2>1 DEF Fields
    <3>3. PICK l \in Nat : /\ 4 * n * (7 + 3 * l) < Radix
                           /\ FlattenSeq(PointChunks) \in Seq(S)
                           /\ Len(FlattenSeq(PointChunks)) = l * 3
      <4>1. PICK l : l = Len(source.A)
        OBVIOUS
      <4> QED
        BY <1>2, <3>1, <4>1, PointChunksAre DEF Laid
    <3>4. PICK p \in Seq(S) : p = <<Double(source.blockTime)>> /\ Len(p) = 1
      <4>1. Double(source.blockTime) \in S
        BY <3>1, TimesInField DEF Headers
      <4> HIDE DEF S
      <4>2. /\ <<Double(source.blockTime)>> \in Seq(S)
            /\ Len(<<Double(source.blockTime)>>) = 1
        BY <4>1
      <4> QED
        BY <4>2
    <3>5. Private \in Seq(S) /\ Len(Private) = 1 + l * 3
      <4> HIDE DEF S
      <4> QED
        BY <2>1, <3>3, <3>4, ConcatProperties DEF Private
    <3>6. 1 + Len(Meant) + Len(Private) = 7 + 3 * l
      BY <3>2, <3>5
    <3>7. PICK x \in Nat : x = 7 + 3 * l
      OBVIOUS
    <3>8. 4 * (n * x) = 4 * n * x
      OBVIOUS
    <3> QED
      BY <3>3, <3>5, <3>6, <3>7, <3>8
  <2>2. CASE kind # "header"
    <3>1. Private = <<>>
      BY <2>2 DEF Private
    <3>2. Private \in Seq(S) /\ Len(Private) = 0
      BY <3>1
    <3>3. Len(Meant) = 4 \/ Len(Meant) = 6
      BY <1>4, <2>2 DEF Fields
    <3>4. PICK x \in Nat : x = 1 + Len(Meant) + Len(Private) /\ (x = 5 \/ x = 7)
      <4>1. PICK x : x = 1 + Len(Meant) + Len(Private)
        OBVIOUS
      <4>2. Len(Private) = 0
        BY <3>2
      <4>3. x = 5 \/ x = 7
        <5>1. PICK y \in {4, 6} : y = Len(Meant)
          BY <3>3
        <5>2. x = 1 + y + 0
          BY <4>1, <4>2, <5>1
        <5> QED
          BY <5>2
      <4> QED
        BY <4>1, <4>3
    <3>5. Radix \in Nat
      BY Sizes
    <3>6. 4 * (n * x) < Radix
      BY <1>2, <3>4, <3>5
    <3> QED
      BY <3>2, <3>4, <3>6
  <2> QED
    BY <2>1, <2>2
<1>6. Parts(Witness, S, 1, Meant, Private, Len(Meant), Len(Private))
  <2> HIDE DEF S
  <2> QED
    BY <1>1, <1>3, <1>4, <1>5, PartsAre
<1>7. Len(Witness) = 1 + Len(Meant) + Len(Private) /\ Len(Witness) \in Nat
  BY <1>6 DEF Parts
<1>8. N8 * Len(Witness) = 4 * (n * Len(Witness))
  BY <1>2, <1>7
<1>9. 8 + N8 < Radix
  BY <1>2, Sizes
<1> QED
  BY <1>5, <1>6, <1>7, <1>8, <1>9

-----------------------------------------------------------------------------
(* The inductive invariant.                                                *)

\* The circuit takes the input.
Taken == Settable /\ Holds(kind, Outputs, Hidden)

Inv ==
    /\ kind \in DOMAIN Fields /\ source \in Sources[kind]
    /\ input # <<>> => input = Built /\ Present
    /\ wtns # <<>> => input # <<>> /\ wtns = CalculateWTNSBin(Witness)
    /\ public # <<>> => /\ wtns # <<>>
                        /\ public = SubSeq(WitnessIn(wtns), 2, 1 + Len(Fields[kind]))
    /\ outcome \in {"none", "panicked", "threw", "sent", "refused"}
    /\ outcome = "panicked" => input = <<>> /\ ~Present
    /\ outcome = "threw" => input # <<>> /\ ~Taken
    /\ outcome \in {"sent", "refused"} => public # <<>> /\ call = GetProof
    /\ outcome = "refused" => ~Encodable(call)

\* The invariant holds at the start.
LEMMA InvInit == Init => Inv
BY DEF Init, Inv

\* What is computed from the input stays when the input does.
LEMMA Unchanged ==
    UNCHANGED <<kind, source, input>> =>
        /\ Witness' = Witness /\ Built' = Built
        /\ Taken' = Taken /\ Present' = Present
<1> SUFFICES ASSUME UNCHANGED <<kind, source, input>>
             PROVE  /\ Witness' = Witness /\ Built' = Built
                    /\ Taken' = Taken /\ Present' = Present
  OBVIOUS
<1>1. Outputs' = Outputs /\ Hidden' = Hidden /\ Settable' = Settable
  BY DEF Outputs, Hidden, Settable, Signal, Signals
<1>2. Witness' = Witness
  BY <1>1 DEF Witness, Signal
<1>3. Built' = Built
  BY DEF Built, HeaderInput, RootInput, ClaimInput, TxBody
<1>4. Taken' = Taken
  BY <1>1 DEF Taken
<1>5. Present' = Present
  BY DEF Present
<1> QED
  BY <1>2, <1>3, <1>4, <1>5

\* An input that is built is that of the kind, and nothing is made of it yet.
LEMMA InvInput ==
    ASSUME Inv, Present, input = <<>>, input' = Built,
           UNCHANGED <<kind, source, wtns, public, call, outcome>>
    PROVE  Inv'
<1>1. Built' = Built
  BY DEF Built, HeaderInput, RootInput, ClaimInput, TxBody
<1>2. Present'
  BY DEF Present
<1>3. wtns = <<>> /\ public = <<>> /\ outcome = "none"
  BY DEF Inv
<1> QED
  BY <1>1, <1>2, <1>3 DEF Inv

\* A panic leaves no input.
LEMMA InvPanic ==
    ASSUME Inv, ~Present, input = <<>>, outcome = "none", outcome' = "panicked",
           UNCHANGED <<kind, source, input, wtns, public, call>>
    PROVE  Inv'
<1>1. ~Present'
  BY DEF Present
<1>2. wtns = <<>> /\ public = <<>>
  BY DEF Inv
<1> QED
  BY <1>1, <1>2 DEF Inv

\* Every step keeps the invariant.
LEMMA InvNext == Inv /\ [Next]_vars => Inv'
<1> SUFFICES ASSUME Inv, [Next]_vars PROVE Inv'
  OBVIOUS
<1>1. CASE GenBlockHeaderInput
  <2>1. kind = "header" /\ input = <<>> /\ source.signature # Absent /\ input' = HeaderInput
        /\ UNCHANGED <<kind, source, wtns, public, call, outcome>>
    BY <1>1 DEF GenBlockHeaderInput
  <2>2. Present /\ input' = Built
    BY <2>1 DEF Present, Built
  <2> QED
    BY <2>1, <2>2, InvInput
<1>2. CASE GetDepositTreeInput
  <2>1. /\ kind = "root" /\ input = <<>> /\ outcome = "none"
        /\ UNCHANGED <<kind, source, wtns, public, call>>
    BY <1>2 DEF GetDepositTreeInput
  <2>2. CASE source.key # -1 /\ input' = RootInput /\ UNCHANGED outcome
    <3>1. Present /\ input' = Built
      BY <2>1, <2>2 DEF Present, Built
    <3> QED
      BY <2>1, <2>2, <3>1, InvInput
  <2>3. CASE source.key = -1 /\ outcome' = "panicked" /\ UNCHANGED input
    <3>1. ~Present
      BY <2>1, <2>3 DEF Present
    <3> QED
      BY <2>1, <2>3, <3>1, InvPanic
  <2> QED
    BY <1>2, <2>2, <2>3 DEF GetDepositTreeInput
<1>3. CASE GenClaimInput
  <2>1. kind = "claim" /\ input = <<>> /\ input' = ClaimInput
        /\ UNCHANGED <<kind, source, wtns, public, call, outcome>>
    BY <1>3 DEF GenClaimInput
  <2>2. Present /\ input' = Built
    BY <2>1 DEF Present, Built
  <2> QED
    BY <2>1, <2>2, InvInput
<1>4. CASE GenerateWitness
  <2>1. /\ input # <<>> /\ wtns = <<>> /\ outcome = "none"
        /\ UNCHANGED <<kind, source, input, public, call>>
    BY <1>4 DEF GenerateWitness
  <2>2. Witness' = Witness /\ Built' = Built /\ Taken' = Taken /\ Present' = Present
    BY <2>1, Unchanged
  <2>3. public = <<>>
    BY <2>1 DEF Inv
  <2>4. CASE Taken
    <3>1. wtns' = CalculateWTNSBin(Witness) /\ outcome' = outcome
      BY <1>4, <2>4 DEF GenerateWitness, Taken
    <3> QED
      BY <2>1, <2>2, <2>3, <3>1 DEF Inv
  <2>5. CASE ~Taken
    <3>1. outcome' = "threw" /\ wtns' = wtns
      BY <1>4, <2>5 DEF GenerateWitness, Taken
    <3> QED
      BY <2>1, <2>2, <2>3, <2>5, <3>1 DEF Inv
  <2> QED
    BY <2>4, <2>5
<1>5. CASE Prove
  <2>1. /\ wtns # <<>> /\ public = <<>>
        /\ public' = SubSeq(WitnessIn(wtns), 2, 1 + Len(Fields[kind]))
        /\ UNCHANGED <<kind, source, input, wtns, call, outcome>>
    BY <1>5 DEF Prove
  <2>2. Witness' = Witness /\ Built' = Built /\ Taken' = Taken /\ Present' = Present
    BY <2>1, Unchanged
  <2>3. outcome \notin {"sent", "refused"}
    BY <2>1 DEF Inv
  <2> QED
    BY <2>1, <2>2, <2>3 DEF Inv
<1>6. CASE Call
  <2>1. /\ public # <<>> /\ outcome = "none" /\ call' = GetProof
        /\ outcome' = IF Encodable(GetProof) THEN "sent" ELSE "refused"
        /\ UNCHANGED <<kind, source, input, wtns, public>>
    BY <1>6 DEF Call
  <2>2. Witness' = Witness /\ Built' = Built /\ Taken' = Taken /\ Present' = Present
    BY <2>1, Unchanged
  <2>3. GetProof' = GetProof
    BY <2>1 DEF GetProof
  <2>4. Encodable(call)' = Encodable(GetProof)
    BY <2>1 DEF Encodable
  <2> QED
    BY <2>1, <2>2, <2>3, <2>4 DEF Inv
<1>7. CASE UNCHANGED vars
  <2>1. UNCHANGED <<kind, source, input, wtns, public, call, outcome>>
    BY <1>7 DEF vars
  <2>2. Witness' = Witness /\ Built' = Built /\ Taken' = Taken /\ Present' = Present
    BY <2>1, Unchanged
  <2>3. GetProof' = GetProof /\ Encodable(call)' = Encodable(call)
    BY <2>1 DEF GetProof, Encodable
  <2> QED
    BY <2>1, <2>2, <2>3 DEF Inv
<1>8. CASE VerifyBlockPanics
  <2>1. /\ kind = "header" /\ input = <<>> /\ outcome = "none"
        /\ source.signature = Absent /\ outcome' = "panicked"
        /\ UNCHANGED <<kind, source, input, wtns, public, call>>
    BY <1>8 DEF VerifyBlockPanics
  <2>2. ~Present
    BY <2>1 DEF Present
  <2> QED
    BY <2>1, <2>2, InvPanic
<1> QED
  BY <1>1, <1>2, <1>3, <1>4, <1>5, <1>6, <1>7, <1>8 DEF Next, Done

\* The invariant holds always.
LEMMA InvAlways == Spec => []Inv
<1> QED
  BY InvInit, InvNext, PTL DEF Spec

\* The file, once it is written
LEMMA FileOf ==
    ASSUME Inv, wtns # <<>>
    PROVE  /\ Parts(Witness, 0 .. Prime - 1, 1, Meant, Private, Len(Meant), Len(Private))
           /\ WitnessIn(wtns) = Witness /\ PrimeIn(wtns) = Prime
           /\ Len(wtns) = Second(wtns) + 2 + BodyLength(wtns, Second(wtns))
<1>1. kind \in DOMAIN Fields /\ source \in Sources[kind] /\ input = Built
      /\ Present /\ wtns = CalculateWTNSBin(Witness)
  BY DEF Inv
<1>2. /\ Parts(Witness, 0 .. Prime - 1, 1, Meant, Private, Len(Meant), Len(Private))
      /\ N8 * Len(Witness) < Radix /\ 8 + N8 < Radix
  BY <1>1, WitnessIs
<1>3. Witness \in Seq(0 .. Prime - 1)
  BY <1>2 DEF Parts
<1> QED
  BY <1>1, <1>2, <1>3, ReadBack

\* public.json holds what the request means.
LEMMA PublicIsMeant ==
    ASSUME Inv, public # <<>>
    PROVE  public = Meant
<1>1. wtns # <<>> /\ public = SubSeq(WitnessIn(wtns), 2, 1 + Len(Fields[kind]))
  BY DEF Inv
<1>2. SubSeq(Witness, 2, 1 + Len(Meant)) = Meant /\ WitnessIn(wtns) = Witness
  BY <1>1, FileOf DEF Parts
<1>3. Len(Meant) = Len(Fields[kind])
  BY MeantIsIn DEF Inv
<1> QED
  BY <1>1, <1>2, <1>3

-----------------------------------------------------------------------------
(* The theorems.                                                           *)

\* The prover finds in every witness file what the circuit computed, and
\* nothing else (calculateWTNSBin).
THEOREM FileCorrect == Spec => []FileReadsBack
<1>1. Inv => FileReadsBack
  BY FileOf DEF FileReadsBack
<1> QED
  BY <1>1, InvAlways, PTL

\* A number as getProof.js spells it, padded and not
LEMMA SpeltOut ==
    ASSUME NEW n \in Hashes, NEW x, x = BigNumberToHexString(n)
    PROVE  /\ Value(Base, x) = n
           /\ Value(Base, ConvertHexStringToAddress(x)) = n
           /\ Len(ConvertHexStringToAddress(x)) = HashDigits
           /\ Len(x) # HashDigits => Hex(n)[1] = 0
<1>1. PICK b \in Nat \ {0, 1}, size \in Nat \ {0, 1} : b = Base /\ size = HashDigits
  BY Sizes
<1>2. n \in Nat /\ Len(Digits(b, n)) <= size
  BY <1>1, Sizes, NumeralAssumption
<1>3. PICK d : d = Digits(b, n)
  OBVIOUS
<1>4. d \in Seq(Nat) /\ Value(b, d) = n /\ Len(d) <= size
  BY <1>2, <1>3, ValueDigits
<1>5. PICK l \in Nat : l = Len(d)
  BY <1>4
<1>6. x \in Seq(Nat) /\ Value(b, x) = n /\ Len(x) <= size
  <2>1. CASE n = 0
    <3>1. x = <<0>>
      BY <2>1 DEF BigNumberToHexString
    <3>2. x \in Seq(Nat) /\ Len(x) = 1
      BY <3>1
    <3>3. Value(b, x) = 0
      <4>1. <<0>> = Append(<<>>, 0) /\ <<>> \in Seq(Nat)
        OBVIOUS
      <4>2. Value(b, Append(<<>>, 0)) = Value(b, <<>>) * b + 0
        BY <4>1, ValueAppend
      <4> QED
        BY <3>1, <4>1, <4>2, ValueEmpty
    <3> QED
      BY <2>1, <3>2, <3>3
  <2>2. CASE n # 0
    BY <1>1, <1>3, <1>4, <2>2 DEF BigNumberToHexString
  <2> QED
    BY <2>1, <2>2
<1>7. PICK k \in Nat : k = size - Len(x) /\ k + Len(x) = size
  <2>1. PICK m \in Nat : m = Len(x)
    BY <1>6
  <2>2. size - m \in Nat /\ (size - m) + m = size
    BY <1>6, <2>1
  <2> QED
    BY <2>1, <2>2
<1>8. PICK z : z = [i \in 1 .. k |-> 0]
  OBVIOUS
<1>9. ConvertHexStringToAddress(x) = z \o x
  BY <1>1, <1>7, <1>8 DEF ConvertHexStringToAddress
<1>10. Len(z \o x) = k + Len(x) /\ Value(b, z \o x) = n
  BY <1>6, <1>8, ValueZeros
<1>11. ASSUME Len(x) # size PROVE Hex(n)[1] = 0
  <2>1. l < size
    <3>1. CASE n = 0
      BY <1>3, <1>5, <3>1, DigitsRec
    <3>2. CASE n # 0
      <4>1. x = d
        BY <1>1, <1>3, <3>2 DEF BigNumberToHexString
      <4> QED
        BY <1>4, <1>5, <1>11, <4>1
    <3> QED
      BY <3>1, <3>2
  <2>2. PICK j \in Nat : j = size - l /\ j >= 1
    <3>1. size - l \in Nat /\ size - l >= 1
      BY <2>1
    <3> QED
      BY <3>1
  <2>3. PICK y \in Seq(Nat) : y = [i \in 1 .. j |-> 0] /\ Len(y) = j
    <3>1. [i \in 1 .. j |-> 0] \in Seq(Nat) /\ Len([i \in 1 .. j |-> 0]) = j
      OBVIOUS
    <3> QED
      BY <3>1
  <2>4. Hex(n) = y \o d
    BY <1>1, <1>3, <1>5, <2>2, <2>3 DEF Hex
  <2>5. (y \o d)[1] = y[1]
    <3>1. \A i \in 1 .. Len(y) + Len(d) :
           (y \o d)[i] = IF i <= Len(y) THEN y[i] ELSE d[i - Len(y)]
      BY <1>4, <2>3, ConcatProperties
    <3>2. 1 \in 1 .. Len(y) + Len(d) /\ 1 <= Len(y)
      BY <1>5, <2>2, <2>3
    <3> QED
      BY <3>1, <3>2
  <2>6. y[1] = 0
    BY <2>2, <2>3
  <2> QED
    BY <2>4, <2>5, <2>6
<1> QED
  BY <1>1, <1>6, <1>7, <1>9, <1>10, <1>11

\* The arguments of a call
LEMMA Arguments ==
    ASSUME Inv, outcome \in {"sent", "refused"}
    PROVE  /\ call = [i \in DOMAIN Fields[kind] |-> Argument(Fields[kind][i], Meant[i])]
           /\ \A i \in DOMAIN Fields[kind] :
                 /\ Fields[kind][i] \in {"address", "hash", "number"}
                 /\ Fields[kind][i] # "number" => Meant[i] \in Hashes
<1>1. public = Meant /\ call = GetProof
  BY PublicIsMeant DEF Inv
<1>2. kind \in DOMAIN Fields /\ source \in Sources[kind]
  BY DEF Inv
<1>3. \A i \in DOMAIN Fields[kind] : Fields[kind][i] # "number" => Meant[i] \in Hashes
  BY <1>2, MeantIsIn
<1>4. \A i \in DOMAIN Fields[kind] : Fields[kind][i] \in {"address", "hash", "number"}
  BY <1>2 DEF Fields
<1> QED
  BY <1>1, <1>3, <1>4 DEF GetProof

\* What a call says is what the chain says, field by field: hex strings, bytes,
\* signals, words of the witness file, public numbers and arguments agree
\* (input generators, witness_calculator.js, getProof.js).
THEOREM SentCorrect == Spec => []SentIsMeant
<1>1. ASSUME Inv PROVE SentIsMeant
  <2> SUFFICES ASSUME outcome = "sent", NEW i \in DOMAIN call
               PROVE  (IF Fields[kind][i] = "number" THEN call[i][1] ELSE Value(Base, call[i]))
                         = Meant[i]
    BY DEF SentIsMeant
  <2>1. /\ i \in DOMAIN Fields[kind]
        /\ call[i] = Argument(Fields[kind][i], Meant[i])
        /\ Fields[kind][i] \in {"address", "hash", "number"}
        /\ Fields[kind][i] # "number" => Meant[i] \in Hashes
    BY <1>1, Arguments
  <2>2. CASE Fields[kind][i] = "number"
    <3>1. call[i] = <<Meant[i]>>
      BY <2>1, <2>2 DEF Argument
    <3> QED
      BY <2>2, <3>1
  <2>3. CASE Fields[kind][i] = "hash"
    <3>1. call[i] = BigNumberToHexString(Meant[i])
      BY <2>1, <2>3 DEF Argument
    <3> QED
      BY <2>1, <2>3, <3>1, SpeltOut
  <2>4. CASE Fields[kind][i] = "address"
    <3>1. call[i] = ConvertHexStringToAddress(BigNumberToHexString(Meant[i]))
      BY <2>1, <2>4 DEF Argument
    <3> QED
      BY <2>1, <2>4, <3>1, SpeltOut
  <2> QED
    BY <2>1, <2>2, <2>3, <2>4
<1> QED
  BY <1>1, InvAlways, PTL

\* The prover finds the coordinates of every point, three chunks each, and the
\* block time but for one part in MaxSafe (chunkBigInt, pad, flatArray,
\* toArray32, calculateWTNSBin).
THEOREM PointsCorrect == Spec => []PointsArrive
<1>1. ASSUME Inv, wtns # <<>>, kind = "header"
      PROVE  LET w == WitnessIn(wtns)
                 first == 2 + Len(Fields[kind])
                 at(i) == first + 1 + 3 * (i - 1)
             IN  /\ PrimeIn(wtns) = Prime
                 /\ Len(w) = first + 3 * Len(source.A)
                 /\ \A i \in DOMAIN source.A :
                       Value(ChunkBase, Reverse(SubSeq(w, at(i), at(i) + 2))) = source.A[i]
                 /\ (w[first] - source.blockTime) * MaxSafe \in
                       -source.blockTime .. source.blockTime
  <2>1. source \in Headers
    BY <1>1 DEF Inv, Sources
  <2>2. Len(Fields[kind]) = 5 /\ 2 + Len(Fields[kind]) = 7
    BY <1>1 DEF Fields
  <2>3. Len(Meant) = 5
    BY <1>1, <2>2, MeantIsIn DEF Inv
  <2>4. PICK U : U = 0 .. Prime - 1 /\ U \subseteq Nat
    BY Sizes
  <2>5. PICK l : l = Len(source.A)
    OBVIOUS
  <2>6. /\ l \in Nat
        /\ Laid(FlattenSeq(PointChunks), PointChunks, U, l, 3)
        /\ \A i \in 1 .. l : /\ PointChunks[i] \in Seq(U) /\ Len(PointChunks[i]) = 3
                             /\ Value(ChunkBase, Reverse(PointChunks[i])) = source.A[i]
    BY <2>1, <2>4, <2>5, PointChunksAre
  <2>7. PICK v : v = FlattenSeq(PointChunks)
    OBVIOUS
  <2>8. v \in Seq(U) /\ Len(v) = l * 3
        /\ \A i \in 1 .. l, j \in 1 .. 3 : v[(i - 1) * 3 + j] = PointChunks[i][j]
    BY <2>6, <2>7 DEF Laid
  <2>9. PICK t \in U : t = Double(source.blockTime)
    BY <2>1, <2>4, TimesInField DEF Headers
  <2>10. PICK p : p = <<t>> \o v /\ Len(p) = 1 + l * 3 /\ p[1] = t
                  /\ \A i \in 1 .. l * 3 : p[1 + i] = v[i]
    <3>1. PICK s \in Seq(U) : s = <<t>> /\ Len(s) = 1 /\ s[1] = t
      <4>1. <<t>> \in Seq(U) /\ Len(<<t>>) = 1 /\ <<t>>[1] = t
        OBVIOUS
      <4> QED
        BY <4>1
    <3>2. s \in Seq(Nat) /\ v \in Seq(Nat)
      <4>1. \A S, T : S \subseteq T => Seq(S) \subseteq Seq(T)
        OBVIOUS
      <4>2. U \subseteq Nat
        BY <2>4
      <4>3. Seq(U) \subseteq Seq(Nat)
        BY ONLY <4>1, <4>2
      <4> QED
        BY <2>8, <4>3
    <3>3. Joins(s \o v, s, Len(s), v, Len(v))
      BY <3>2, Joined
    <3>4. Joins(s \o v, s, 1, v, l * 3)
      BY <2>8, <3>1, <3>3
    <3>5. 1 \in 1 .. 1
      OBVIOUS
    <3> QED
      BY <3>1, <3>4, <3>5 DEF Joins
  <2>11. Private = p
    BY <1>1, <2>7, <2>9, <2>10 DEF Private
  <2>12. PICK w : w = WitnessIn(wtns)
    OBVIOUS
  <2>13. /\ PrimeIn(wtns) = Prime
         /\ w \in Seq(U) /\ Len(w) = 1 + 5 + (1 + l * 3)
         /\ \A i \in 1 .. 1 + l * 3 : w[1 + 5 + i] = p[i]
    BY <1>1, <2>3, <2>4, <2>10, <2>11, <2>12, FileOf DEF Parts
  <2>14. w[7] = Double(source.blockTime)
    <3>1. 1 \in 1 .. 1 + l * 3 /\ 1 + 5 + 1 = 7
      BY <2>6
    <3> QED
      BY <2>9, <2>10, <2>13, <3>1
  <2>15. (w[7] - source.blockTime) * MaxSafe \in -source.blockTime .. source.blockTime
    BY <2>1, <2>14, TimesInField, Doubles DEF Headers
  <2>16. Len(w) = 7 + 3 * l
    BY <2>6, <2>13
  <2>17. ASSUME NEW i \in 1 .. l
         PROVE  SubSeq(w, 7 + 1 + 3 * (i - 1), 7 + 1 + 3 * (i - 1) + 2) = PointChunks[i]
    <3>1. PICK k \in Nat : k = 3 * (i - 1) /\ k + 3 <= 3 * l /\ (i - 1) * 3 = k
      <4>1. 3 * (i - 1) \in Nat /\ 3 * (i - 1) + 3 <= 3 * l /\ (i - 1) * 3 = 3 * (i - 1)
        BY <2>6
      <4> QED
        BY <4>1
    <3>2. ASSUME NEW j \in 1 .. 3 PROVE w[7 + k + j] = PointChunks[i][j]
      <4>1. PICK m \in Nat : m = k + j /\ m \in 1 .. l * 3 /\ 1 + m \in 1 .. 1 + l * 3
        <5>1. k + j \in Nat /\ k + j \in 1 .. l * 3 /\ 1 + (k + j) \in 1 .. 1 + l * 3
          BY <2>6, <3>1
        <5> QED
          BY <5>1
      <4>2. w[1 + 5 + (1 + m)] = p[1 + m] /\ p[1 + m] = v[m]
        BY <2>10, <2>13, <4>1
      <4>3. v[m] = PointChunks[i][j]
        BY <2>8, <3>1, <4>1
      <4>4. 1 + 5 + (1 + m) = 7 + k + j
        BY <4>1
      <4> QED
        BY <4>2, <4>3, <4>4
    <3>3. PICK q : q = SubSeq(w, 8 + k, 8 + k + 2)
      OBVIOUS
    <3>4. 8 + k + 2 <= Len(w)
      BY <2>6, <2>16, <3>1
    <3>5. q = [j \in 1 .. 3 |-> w[7 + k + j]]
      <4>1. q = [j \in 1 .. (8 + k + 2) - (8 + k) + 1 |-> w[8 + k + j - 1]]
        BY <2>13, <3>3, <3>4
      <4>2. (8 + k + 2) - (8 + k) + 1 = 3 /\ \A j \in 1 .. 3 : 8 + k + j - 1 = 7 + k + j
        OBVIOUS
      <4> QED
        BY <4>1, <4>2
    <3>6. PointChunks[i] = [j \in 1 .. 3 |-> PointChunks[i][j]]
      BY <2>6
    <3>7. 7 + 1 + 3 * (i - 1) = 8 + k /\ 7 + 1 + 3 * (i - 1) + 2 = 8 + k + 2
      BY <3>1
    <3> QED
      BY <3>2, <3>3, <3>5, <3>6, <3>7
  <2>18. DOMAIN source.A = 1 .. l
    <3>1. source.A \in Points
      BY <2>1 DEF Headers
    <3> QED
      BY <2>5, <3>1, NumeralAssumption
  <2>19. \A i \in DOMAIN source.A :
            Value(ChunkBase, Reverse(SubSeq(w, 7 + 1 + 3 * (i - 1), 7 + 1 + 3 * (i - 1) + 2)))
               = source.A[i]
    BY <2>6, <2>17, <2>18
  <2>20. Len(w) = 7 + 3 * Len(source.A)
    BY <2>5, <2>16
  <2> QED
    BY <2>2, <2>12, <2>13, <2>15, <2>19, <2>20
<1>2. Inv => PointsArrive
  BY <1>1 DEF PointsArrive
<1> QED
  BY <1>2, InvAlways, PTL
-----------------------------------------------------------------------------
(* Why a proof fails.                                                      *)

\* The left half of a tree is smaller than the tree.
Splits(split) ==
    /\ split \in [Nat -> Nat]
    /\ \A m \in Nat : split[m] = IF m <= 2 THEN 1 ELSE 2 * split[(m + 1) \div 2]
    /\ \A m \in Nat : m >= 2 => split[m] \in 1 .. m - 1

\* The function split in Aunts exists.
LEMMA SplitRec ==
    \E split : split = [m \in Nat |-> IF m <= 2 THEN 1 ELSE 2 * split[(m + 1) \div 2]]
<1>1. PICK g : g = [m \in Nat |-> IF m <= 2 THEN 0 ELSE (m + 1) \div 2]
  OBVIOUS
<1>2. PICK step : step = [m \in Nat |-> [x \in Nat |-> IF m <= 2 THEN 1 ELSE 2 * x]]
  OBVIOUS
<1>3. \A m \in Nat : (m + 1) \div 2 \in Nat /\ (m > 2 => (m + 1) \div 2 < m)
  OBVIOUS
<1>4. Descends(g)
  <2>1. \A m \in Nat : g[m] = IF m <= 2 THEN 0 ELSE (m + 1) \div 2
    BY <1>1
  <2>2. \A m \in Nat : g[m] \in Nat
    BY <1>3, <2>1
  <2>3. \A m \in Nat \ {0} : g[m] < m
    BY <1>3, <2>1
  <2>4. g \in [Nat -> Nat]
    BY <1>1, <2>2
  <2> QED
    BY <2>3, <2>4 DEF Descends
<1>5. Steps(step, Nat)
  <2>1. \A m, x \in Nat : (IF m <= 2 THEN 1 ELSE 2 * x) \in Nat
    OBVIOUS
  <2> QED
    BY <1>2, <2>1 DEF Steps
<1>6. PICK f : Solution(f, Nat, 1, g, step)
  BY <1>4, <1>5, Recursion
<1>7. f \in [Nat -> Nat] /\ f[0] = 1 /\ \A m \in Nat \ {0} : f[m] = step[m][f[g[m]]]
  BY <1>6 DEF Solution
<1>8. ASSUME NEW m \in Nat PROVE f[m] = IF m <= 2 THEN 1 ELSE 2 * f[(m + 1) \div 2]
  <2>1. CASE m = 0
    BY <1>7, <2>1
  <2>2. CASE m # 0
    <3>1. PICK k \in Nat : k = g[m]
      BY <1>4 DEF Descends
    <3>2. f[m] = step[m][f[k]] /\ f[k] \in Nat
      BY <1>7, <2>2, <3>1
    <3>3. f[m] = IF m <= 2 THEN 1 ELSE 2 * f[k]
      BY <1>2, <3>2
    <3>4. m > 2 => k = (m + 1) \div 2
      BY <1>1, <3>1
    <3> QED
      BY <3>3, <3>4
  <2> QED
    BY <2>1, <2>2
<1>9. f = [m \in Nat |-> IF m <= 2 THEN 1 ELSE 2 * f[(m + 1) \div 2]]
  BY <1>7, <1>8
<1> QED
  BY <1>9

\* It cuts a tree in two smaller ones.
LEMMA SplitIs ==
    ASSUME NEW split,
           split = [m \in Nat |-> IF m <= 2 THEN 1 ELSE 2 * split[(m + 1) \div 2]]
    PROVE  Splits(split)
<1>1. \A m \in Nat : split[m] = IF m <= 2 THEN 1 ELSE 2 * split[(m + 1) \div 2]
  OBVIOUS
<1>2. PICK S : S = {m \in Nat : split[m] \in Nat /\ (m >= 2 => split[m] \in 1 .. m - 1)}
  OBVIOUS
<1>3. ASSUME NEW m \in Nat, \A i \in 0 .. m - 1 : i \in S PROVE m \in S
  <2>1. CASE m <= 2
    <3>1. split[m] = 1
      BY <1>1, <2>1
    <3> QED
      BY <1>2, <2>1, <3>1
  <2>2. CASE m > 2
    <3>1. PICK h \in Nat : h = (m + 1) \div 2 /\ h >= 2 /\ h <= m - 1 /\ 2 * h <= m + 1
      <4>1. /\ (m + 1) \div 2 \in Nat /\ (m + 1) \div 2 >= 2
            /\ (m + 1) \div 2 <= m - 1 /\ 2 * ((m + 1) \div 2) <= m + 1
        BY <2>2
      <4> QED
        BY <4>1
    <3>2. h \in 0 .. m - 1
      BY <3>1
    <3>3. split[h] \in 1 .. h - 1
      BY <1>2, <1>3, <3>1, <3>2
    <3>4. split[m] = 2 * split[h]
      BY <1>1, <2>2, <3>1
    <3> QED
      BY <1>2, <3>1, <3>3, <3>4
  <2> QED
    BY <2>1, <2>2
<1>4. \A m \in Nat : m \in S
  BY <1>3, Induction
<1>5. \A m \in Nat : split[m] \in Nat /\ (m >= 2 => split[m] \in 1 .. m - 1)
  BY <1>2, <1>4
<1>6. split \in [Nat -> Nat]
  BY <1>5
<1> QED
  BY <1>1, <1>5, <1>6 DEF Splits

\* Row m of the counts, from those in F
Row(F, split, m) ==
    [i \in Nat |-> IF m <= 1 THEN 0
                   ELSE 1 + IF i < split[m] THEN F[split[m]][i]
                            ELSE F[m - split[m]][i - split[m]]]

\* The function count in Aunts exists, although it asks for two earlier values:
\* f[n] is a table that is right up to n.
LEMMA CountRec ==
    ASSUME NEW split, Splits(split)
    PROVE  \E count : count = [m \in Nat |-> Row(count, split, m)]
<1>1. PICK R : R = [Nat -> Nat]
  OBVIOUS
<1>2. PICK A : A = [Nat -> R]
  OBVIOUS
<1>3. PICK a \in A : a = [k \in Nat |-> [i \in Nat |-> 0]]
  <2>1. [k \in Nat |-> [i \in Nat |-> 0]] \in A
    BY <1>1, <1>2
  <2> QED
    BY <2>1
<1>4. PICK g : g = [n \in Nat |-> IF n = 0 THEN 0 ELSE n - 1]
  OBVIOUS
<1>5. PICK step : step = [n \in Nat |-> [F \in A |->
                             [k \in Nat |-> IF k = n THEN Row(F, split, n) ELSE F[k]]]]
  OBVIOUS
<1>6. ASSUME NEW F \in A, NEW m \in Nat PROVE Row(F, split, m) \in R
  <2>1. ASSUME NEW i \in Nat
        PROVE  (IF m <= 1 THEN 0
                ELSE 1 + IF i < split[m] THEN F[split[m]][i]
                         ELSE F[m - split[m]][i - split[m]]) \in Nat
    <3>1. CASE m <= 1
      BY <3>1
    <3>2. CASE m > 1
      <4>1. PICK s \in 1 .. m - 1 : s = split[m]
        BY <3>2 DEF Splits
      <4>2. s \in Nat /\ m - s \in Nat /\ (~(i < s) => i - s \in Nat)
        BY <4>1
      <4>3. \A k \in Nat, j \in Nat : F[k][j] \in Nat
        BY <1>1, <1>2
      <4>4. (IF i < s THEN F[s][i] ELSE F[m - s][i - s]) \in Nat
        BY <4>2, <4>3
      <4> QED
        BY <3>2, <4>1, <4>4
    <3> QED
      BY <3>1, <3>2
  <2> QED
    BY <1>1, <2>1 DEF Row
<1>7. Descends(g)
  <2>1. \A n \in Nat : g[n] = IF n = 0 THEN 0 ELSE n - 1
    BY <1>4
  <2>2. g \in [Nat -> Nat]
    BY <1>4
  <2> QED
    BY <2>1, <2>2 DEF Descends
<1>8. Steps(step, A)
  <2>1. \A n \in Nat, F \in A : [k \in Nat |-> IF k = n THEN Row(F, split, n) ELSE F[k]] \in A
    BY <1>2, <1>6
  <2> QED
    BY <1>5, <2>1 DEF Steps
<1>9. PICK f : Solution(f, A, a, g, step)
  BY <1>7, <1>8, Recursion
<1>10. f \in [Nat -> A] /\ f[0] = a /\ \A n \in Nat \ {0} : f[n] = step[n][f[g[n]]]
  BY <1>9 DEF Solution
<1>11. ASSUME NEW n \in Nat \ {0}
       PROVE  /\ n - 1 \in Nat /\ f[n - 1] \in A
              /\ f[n] = [k \in Nat |-> IF k = n THEN Row(f[n - 1], split, n) ELSE f[n - 1][k]]
  <2>1. g[n] = n - 1 /\ n - 1 \in Nat
    BY <1>4
  <2>2. f[n - 1] \in A
    BY <1>10, <2>1
  <2>3. f[n] = step[n][f[n - 1]]
    BY <1>10, <2>1
  <2> QED
    BY <1>5, <2>1, <2>2, <2>3
<1>12. \A n \in Nat : \A k \in 0 .. n : f[n][k] = f[k][k]
  <2>1. PICK S : S = {n \in Nat : \A k \in 0 .. n : f[n][k] = f[k][k]}
    OBVIOUS
  <2>2. ASSUME NEW n \in Nat, \A i \in 0 .. n - 1 : i \in S PROVE n \in S
    <3>1. ASSUME NEW k \in 0 .. n, k # n PROVE f[n][k] = f[k][k]
      <4>1. n \in Nat \ {0} /\ n - 1 \in 0 .. n - 1 /\ k \in 0 .. n - 1 /\ k \in Nat
        BY <3>1
      <4>2. f[n] = [j \in Nat |-> IF j = n THEN Row(f[n - 1], split, n) ELSE f[n - 1][j]]
        BY <1>11, <4>1
      <4>3. f[n][k] = f[n - 1][k]
        BY <3>1, <4>1, <4>2
      <4>4. f[n - 1][k] = f[k][k]
        BY <2>1, <2>2, <4>1
      <4> QED
        BY <4>3, <4>4
    <3> QED
      BY <2>1, <3>1
  <2>3. \A n \in Nat : n \in S
    BY <2>2, Induction
  <2> QED
    BY <2>1, <2>3
<1>13. PICK count : count = [n \in Nat |-> f[n][n]]
  OBVIOUS
<1>14. count \in [Nat -> R]
  <2>1. \A n \in Nat : f[n][n] \in R
    BY <1>2, <1>10
  <2> QED
    BY <1>13, <2>1
<1>15. ASSUME NEW m \in Nat PROVE count[m] = Row(count, split, m)
  <2>1. CASE m = 0
    <3>1. count[m] = [i \in Nat |-> 0]
      BY <1>3, <1>10, <1>13, <2>1
    <3> QED
      BY <2>1, <3>1 DEF Row
  <2>2. ASSUME m # 0 PROVE count[m] = Row(f[m - 1], split, m)
    <3>1. f[m] = [k \in Nat |-> IF k = m THEN Row(f[m - 1], split, m) ELSE f[m - 1][k]]
      BY <1>11, <2>2
    <3> QED
      BY <1>13, <3>1
  <2>3. CASE m = 1
    <3>1. count[m] = Row(f[m - 1], split, m)
      BY <2>2, <2>3
    <3> QED
      BY <2>3, <3>1 DEF Row
  <2>4. CASE m > 1
    <3>1. count[m] = Row(f[m - 1], split, m)
      BY <2>2, <2>4
    <3>2. PICK s \in 1 .. m - 1 : s = split[m]
      BY <2>4 DEF Splits
    <3>3. /\ m - 1 \in Nat /\ s \in Nat /\ m - s \in Nat
          /\ s \in 0 .. m - 1 /\ m - s \in 0 .. m - 1
      BY <2>4, <3>2
    <3>4. f[m - 1][s] = count[s] /\ f[m - 1][m - s] = count[m - s]
      BY <1>12, <1>13, <3>3
    <3> QED
      BY <3>1, <3>2, <3>4 DEF Row
  <2> QED
    BY <2>1, <2>3, <2>4
<1>16. count = [m \in Nat |-> Row(count, split, m)]
  BY <1>14, <1>15
<1> QED
  BY <1>16

\* Aunts is what its two functions say.
LEMMA AuntsRec ==
    ASSUME NEW n \in Nat, NEW key \in Nat
    PROVE  \E split, count : /\ Splits(split)
                             /\ count = [m \in Nat |-> Row(count, split, m)]
                             /\ Aunts(n, key) = count[n][key]
<1> DEFINE IsSplit(s) == s = [m \in Nat |-> IF m <= 2 THEN 1 ELSE 2 * s[(m + 1) \div 2]]
           IsCount(c, s) == c = [m \in Nat |-> Row(c, s, m)]
<1>1. PICK split : split = CHOOSE s : IsSplit(s)
  OBVIOUS
<1>2. IsSplit(split)
  BY <1>1, SplitRec
<1>3. Splits(split)
  BY <1>2, SplitIs
<1>4. PICK count : count = CHOOSE c : IsCount(c, split)
  OBVIOUS
<1>5. \E c : IsCount(c, split)
  BY <1>3, CountRec
<1>6. IsCount(count, split)
  <2> HIDE DEF IsCount
  <2> QED
    BY <1>4, <1>5
<1>7. Aunts(n, key) = count[n][key]
  BY <1>1, <1>4 DEF Aunts, Row
<1> QED
  BY <1>3, <1>6, <1>7

\* In a block of at most four transactions a leaf has at most two aunts.
LEMMA FewAunts ==
    ASSUME NEW n \in Nat, n <= 4, NEW key \in Nat
    PROVE  Aunts(n, key) \in 0 .. 2
<1>1. PICK split, count : /\ Splits(split)
                          /\ count = [m \in Nat |-> Row(count, split, m)]
                          /\ Aunts(n, key) = count[n][key]
  BY AuntsRec
<1>2. \A m \in Nat : count[m] = Row(count, split, m)
  BY <1>1
<1>3. ASSUME NEW m \in Nat, NEW i \in Nat
      PROVE  /\ m <= 1 => count[m][i] = 0
             /\ m > 1 => count[m][i] = 1 + IF i < split[m] THEN count[split[m]][i]
                                           ELSE count[m - split[m]][i - split[m]]
  <2>1. count[m][i] = Row(count, split, m)[i]
    BY <1>2
  <2> QED
    BY <2>1 DEF Row
<1>4. split[2] = 1 /\ split[3] = 2 /\ split[4] = 2
  <2>1. \A m \in Nat : split[m] = IF m <= 2 THEN 1 ELSE 2 * split[(m + 1) \div 2]
    BY <1>1 DEF Splits
  <2>2. (3 + 1) \div 2 = 2 /\ (4 + 1) \div 2 = 2
    OBVIOUS
  <2>3. split[2] = 1
    BY <2>1
  <2>4. split[3] = 2 * split[2] /\ split[4] = 2 * split[2]
    BY <2>1, <2>2
  <2> QED
    BY <2>3, <2>4
<1>5. \A i \in Nat : count[0][i] = 0 /\ count[1][i] = 0
  BY <1>3
<1>6. ASSUME NEW i \in Nat PROVE count[2][i] = 1
  <2>1. count[2][i] = 1 + IF i < 1 THEN count[1][i] ELSE count[1][i - 1]
    BY <1>3, <1>4
  <2>2. ~(i < 1) => i - 1 \in Nat
    OBVIOUS
  <2> QED
    BY <1>5, <2>1, <2>2
<1>7. ASSUME NEW i \in Nat PROVE count[3][i] \in 0 .. 2
  <2>1. count[3][i] = 1 + IF i < 2 THEN count[2][i] ELSE count[1][i - 2]
    BY <1>3, <1>4
  <2>2. ~(i < 2) => i - 2 \in Nat
    OBVIOUS
  <2> QED
    BY <1>5, <1>6, <2>1, <2>2
<1>8. ASSUME NEW i \in Nat PROVE count[4][i] \in 0 .. 2
  <2>1. count[4][i] = 1 + IF i < 2 THEN count[2][i] ELSE count[2][i - 2]
    BY <1>3, <1>4
  <2>2. ~(i < 2) => i - 2 \in Nat
    OBVIOUS
  <2> QED
    BY <1>6, <2>1, <2>2
<1>9. n = 0 \/ n = 1 \/ n = 2 \/ n = 3 \/ n = 4
  OBVIOUS
<1> QED
  BY <1>1, <1>5, <1>6, <1>7, <1>8, <1>9

\* An input whose keys are the signals, each with as many values, is taken.
LEMMA Settles ==
    ASSUME NEW names, Names(names),
           \A i \in DOMAIN names : /\ names[i] \in DOMAIN Signals
                                   /\ Len(FlattenSeq(input[i].value)) = Signals[names[i]],
           \A s \in DOMAIN Signals : \E i \in DOMAIN names : names[i] = s
    PROVE  Settable
<1>1. DOMAIN input = DOMAIN names /\ \A i \in DOMAIN names : input[i].name = names[i]
  BY DEF Names
<1> QED
  BY <1>1 DEF Settable

\* One value is one value.
LEMMA OneValue == \A x \in Nat : Len(FlattenSeq(<<<<x>>>>)) = 1
<1> TAKE x \in Nat
<1>1. PICK v : v = <<x>>
  OBVIOUS
<1>2. v \in Seq(Nat) /\ Len(v) = 1
  BY <1>1
<1>3. FlattenSeq(<<v>>) = v
  BY <1>2, FlattenOne
<1> QED
  BY <1>1, <1>2, <1>3

\* The circuit of the claim has a signal for all of every deposit.
LEMMA ClaimSettable ==
    ASSUME kind = "claim", input = ClaimInput, source \in Deposits
    PROVE  Settable
<1>1. PICK names : names = <<"eth_bridge_address", "eth_receiver", "amount",
                             "eth_token_address", "key", "siblings", "root">>
  OBVIOUS
<1>2. Names(names)
  BY <1>1 DEF Names, ClaimInput, Key
<1>3. {source.bridge, source.receiver, source.amount, source.token, source.key, source.root}
         \subseteq Nat
  <2>1. Hashes \subseteq Nat /\ Heights \subseteq Nat /\ Numbers \subseteq Nat
    BY Sizes, NumeralAssumption
  <2> QED
    BY <2>1 DEF Deposits
<1>4. Signals = [eth_bridge_address |-> 1, eth_receiver |-> 1, amount |-> 1,
                 eth_token_address |-> 1, key |-> 1, siblings |-> Depth, root |-> 1]
  BY DEF Signals
<1>5. DOMAIN names = 1 .. 7
  BY <1>1
<1>6. \A i \in 1 .. 7 : i # 6 => \E x \in Nat : input[i].value = <<<<x>>>>
  BY <1>3 DEF ClaimInput, Key
<1>7. \A i \in 1 .. 7 : i # 6 => Len(FlattenSeq(input[i].value)) = 1
  BY <1>6, OneValue
<1>8. Len(FlattenSeq(input[6].value)) = Depth
  <2>1. PICK v \in Seq(0 .. Prime - 1) : v = source.siblings /\ Len(v) = Depth
    <3>1. source.siblings \in Paths
      BY DEF Deposits
    <3> QED
      BY <3>1, PathIs
  <2>2. input[6].value = <<v>>
    BY <2>1 DEF ClaimInput, Key
  <2>3. FlattenSeq(<<v>>) = v
    BY FlattenOne
  <2> QED
    BY <2>1, <2>2, <2>3
<1>9. /\ \A i \in 1 .. 7 : names[i] \in DOMAIN Signals
      /\ \A i \in 1 .. 7 : i # 6 => Signals[names[i]] = 1
      /\ Signals[names[6]] = Depth
  BY <1>1, <1>4
<1>10. \A i \in 1 .. 7 : Len(FlattenSeq(input[i].value)) = Signals[names[i]]
  BY <1>7, <1>8, <1>9
<1>11. \A s \in DOMAIN Signals : \E i \in 1 .. 7 : names[i] = s
  <2>1. /\ names[1] = "eth_bridge_address" /\ names[2] = "eth_receiver"
        /\ names[3] = "amount" /\ names[4] = "eth_token_address"
        /\ names[5] = "key" /\ names[6] = "siblings" /\ names[7] = "root"
    BY <1>1
  <2>2. {1, 2, 3, 4, 5, 6, 7} \subseteq 1 .. 7
    OBVIOUS
  <2> QED
    BY <1>4, <2>1, <2>2
<1> QED
  BY <1>2, <1>5, <1>9, <1>10, <1>11, Settles

\* The circuit of the root takes a transaction of at most its lengths from a
\* block of at most four.
LEMMA RootSettable ==
    ASSUME kind = "root", input = RootInput, source \in Transactions,
           source.body <= BodySize, source.auth <= AuthSize, source.txs <= 4,
           source.key # -1
    PROVE  Settable
<1>1. PICK names : names = <<"txBody", "txAuthInfos", "signatures", "key", "dataHash",
                             "siblings">>
  OBVIOUS
<1>2. Names(names)
  BY <1>1 DEF Names, RootInput, Key
<1>3. PICK bytes \in Nat : bytes = HashDigits \div 2
  <2>1. HashDigits \div 2 \in Nat
    BY Sizes
  <2> QED
    BY <2>1
<1>4. Signals = [txBody |-> BodySize, txAuthInfos |-> AuthSize, signatures |-> SigSize,
                 key |-> 1, dataHash |-> bytes, siblings |-> 2]
  BY <1>3 DEF Signals
<1>5. DOMAIN names = 1 .. 6
  BY <1>1
<1>6. /\ source.dataHash \in Hashes /\ source.body \in Nat /\ source.auth \in Nat
      /\ source.txs \in Nat /\ source.key \in Nat
  BY TransactionIs
<1>7. \A v \in Seq(0 .. Prime - 1) : FlattenSeq(<<v>>) = v
  BY FlattenOne
<1>8. Len(FlattenSeq(<<TxBody>>)) = BodySize
  <2>1. TxBody \in Seq(0 .. Prime - 1) /\ Len(TxBody) = BodySize
    <3>1. BodySize \in Nat
      BY Sizes
    <3>2. ~(source.body > BodySize)
      BY <1>6, <3>1
    <3> QED
      BY <3>2, TxBodyIs
  <2> QED
    BY <1>7, <2>1
<1>9. Len(FlattenSeq(<<Pad([i \in 1 .. source.auth |-> 1], AuthSize)>>)) = AuthSize
  <2>1. PICK x \in Seq(Nat), l \in Nat : /\ x = [i \in 1 .. source.auth |-> 1]
                                         /\ l = Len(x) /\ l = source.auth
    <3>1. PICK k \in Nat : k = source.auth
      BY <1>6
    <3>2. [i \in 1 .. k |-> 1] \in Seq(Nat) /\ Len([i \in 1 .. k |-> 1]) = k
      OBVIOUS
    <3> QED
      BY <3>1, <3>2
  <2>2. AuthSize \in Nat
    BY Sizes
  <2>3. Padded(Pad(x, AuthSize), Nat, x, l, AuthSize)
    BY <2>1, <2>2, PadIs
  <2>4. PICK p \in Seq(Nat) : p = Pad(x, AuthSize) /\ Len(p) = AuthSize
    <3>1. l <= AuthSize
      BY <2>1
    <3>2. (IF l < AuthSize THEN AuthSize ELSE l) = AuthSize
      BY <2>2, <3>1
    <3>3. Pad(x, AuthSize) \in Seq(Nat) /\ Len(Pad(x, AuthSize)) = AuthSize
      BY <2>3, <3>2 DEF Padded
    <3> QED
      BY <3>3
  <2>5. FlattenSeq(<<p>>) = p
    BY <2>4, FlattenOne
  <2> QED
    BY <2>1, <2>4, <2>5
<1>10. Len(FlattenSeq(<<<<source.key>>>>)) = 1
  BY <1>6, OneValue
<1>11. Len(FlattenSeq(<<HexStringToArray(Hex(source.dataHash))>>)) = bytes
  <2>1. PICK v \in Seq(0 .. Prime - 1) :
           v = HexStringToArray(Hex(source.dataHash)) /\ Len(v) = bytes
    BY <1>3, <1>6, HashBytes
  <2> QED
    BY <1>7, <2>1
<1>12. Len(FlattenSeq(<<Siblings(Aunts(source.txs, source.key))>>)) = 2
  <2>1. PICK a \in 0 .. 2 : a = Aunts(source.txs, source.key)
    BY <1>6, FewAunts
  <2>2. (IF a < 2 THEN 2 ELSE a) = 2
    BY <2>1
  <2>3. PICK v \in Seq(Nat) : v = Siblings(a) /\ Len(v) = 2
    <3>1. Siblings(a) = [i \in 1 .. 2 |-> IF i <= 2 - a THEN 0 ELSE 1]
      BY <2>2 DEF Siblings
    <3>2. \A i \in 1 .. 2 : (IF i <= 2 - a THEN 0 ELSE 1) \in Nat
      OBVIOUS
    <3>3. Siblings(a) \in Seq(Nat) /\ Len(Siblings(a)) = 2
      BY <3>1, <3>2
    <3> QED
      BY <3>3
  <2>4. FlattenSeq(<<v>>) = v
    BY <2>3, FlattenOne
  <2> QED
    BY <2>1, <2>3, <2>4
<1>13. Len(FlattenSeq(<<[i \in 1 .. SigSize |-> 1]>>)) = SigSize
  <2>1. PICK k \in Nat : k = SigSize
    BY NumeralAssumption
  <2>2. PICK v : v = [i \in 1 .. k |-> 1]
    OBVIOUS
  <2>3. v \in Seq(Nat) /\ Len(v) = k
    BY <2>2
  <2>4. FlattenSeq(<<v>>) = v
    BY <2>3, FlattenOne
  <2> QED
    BY <2>1, <2>2, <2>3, <2>4
<1>14. /\ input[1].value = <<TxBody>>
       /\ input[2].value = <<Pad([i \in 1 .. source.auth |-> 1], AuthSize)>>
       /\ input[3].value = <<[i \in 1 .. SigSize |-> 1]>>
       /\ input[4].value = <<<<source.key>>>>
       /\ input[5].value = <<HexStringToArray(Hex(source.dataHash))>>
       /\ input[6].value = <<Siblings(Aunts(source.txs, source.key))>>
  BY DEF RootInput, Key
<1>15. /\ names[1] = "txBody" /\ names[2] = "txAuthInfos" /\ names[3] = "signatures"
       /\ names[4] = "key" /\ names[5] = "dataHash" /\ names[6] = "siblings"
  BY <1>1
<1>16. \A i \in 1 .. 6 : i = 1 \/ i = 2 \/ i = 3 \/ i = 4 \/ i = 5 \/ i = 6
  OBVIOUS
<1>17. \A i \in 1 .. 6 : /\ names[i] \in DOMAIN Signals
                         /\ Len(FlattenSeq(input[i].value)) = Signals[names[i]]
  <2>1. /\ Len(FlattenSeq(input[1].value)) = BodySize
        /\ Len(FlattenSeq(input[2].value)) = AuthSize
        /\ Len(FlattenSeq(input[3].value)) = SigSize
        /\ Len(FlattenSeq(input[4].value)) = 1 /\ Len(FlattenSeq(input[5].value)) = bytes
        /\ Len(FlattenSeq(input[6].value)) = 2
    BY <1>8, <1>9, <1>10, <1>11, <1>12, <1>13, <1>14
  <2>2. /\ Signals[names[1]] = BodySize /\ Signals[names[2]] = AuthSize
        /\ Signals[names[3]] = SigSize /\ Signals[names[4]] = 1
        /\ Signals[names[5]] = bytes /\ Signals[names[6]] = 2
    BY <1>4, <1>15
  <2>3. \A i \in 1 .. 6 : names[i] \in DOMAIN Signals
    BY <1>4, <1>15, <1>16
  <2> QED
    BY <1>16, <2>1, <2>2, <2>3
<1>18. \A s \in DOMAIN Signals : \E i \in 1 .. 6 : names[i] = s
  <2>1. {1, 2, 3, 4, 5, 6} \subseteq 1 .. 6
    OBVIOUS
  <2> QED
    BY <1>4, <1>15, <2>1
<1> QED
  BY <1>2, <1>5, <1>17, <1>18, Settles

\* The circuit of the header has a signal for all of every header.
LEMMA HeaderSettable ==
    ASSUME kind = "header", input = HeaderInput, source \in Headers, source.signature # Absent
    PROVE  Settable
<1>1. PICK names : names = <<"height", "dataHash", "parrentSiblings", "blockHash",
                             "blockTime", "pubKeys", "R8", "PointA">>
  OBVIOUS
<1>2. Names(names)
  BY <1>1 DEF Names, HeaderInput, Key
<1>3. PICK bytes \in Nat : bytes = HashDigits \div 2
  <2>1. HashDigits \div 2 \in Nat
    BY Sizes
  <2> QED
    BY <2>1
<1>4. PICK l \in Nat : l = Len(source.A) /\ l * 3 = 3 * l
  <2>1. PICK l : l = Len(source.A)
    OBVIOUS
  <2>2. l \in Nat
    BY <2>1, PointChunksAre
  <2> QED
    BY <2>1, <2>2
<1>5. Signals = [height |-> 1, dataHash |-> bytes, parrentSiblings |-> bytes,
                 blockHash |-> bytes, blockTime |-> 1, pubKeys |-> bytes,
                 R8 |-> bytes, PointA |-> l * 3]
  BY <1>3, <1>4 DEF Signals
<1>6. DOMAIN names = 1 .. 8
  BY <1>1
<1>7. /\ source.dataHash \in Hashes /\ source.parrentSiblings \in Hashes
      /\ source.blockHash \in Hashes /\ source.pubKeys \in Hashes
      /\ source.height \in Heights /\ source.blockTime \in Times
      /\ source.signature \in Hashes
  <2>1. source.signature \in Signatures
    BY DEF Headers
  <2> QED
    BY <2>1, NumeralAssumption DEF Headers
<1>8. \A h \in Hashes : Len(FlattenSeq(<<HexStringToArray(Hex(h))>>)) = bytes
  <2> TAKE h \in Hashes
  <2>1. PICK v \in Seq(0 .. Prime - 1) : v = HexStringToArray(Hex(h)) /\ Len(v) = bytes
    BY <1>3, HashBytes
  <2>2. FlattenSeq(<<v>>) = v
    BY <2>1, FlattenOne
  <2> QED
    BY <2>1, <2>2
<1>9. /\ Len(FlattenSeq(<<<<Double(source.height)>>>>)) = 1
      /\ Len(FlattenSeq(<<<<Double(source.blockTime)>>>>)) = 1
  <2>1. source.height \in Nat /\ source.blockTime \in Nat
    BY <1>7, HeightsInField, TimesInField
  <2>2. Double(source.height) \in Nat /\ Double(source.blockTime) \in Nat
    BY <2>1, Doubles
  <2> QED
    BY <2>2, OneValue
<1>10. Len(FlattenSeq(PointChunks)) = l * 3
  BY <1>4, PointChunksAre DEF Laid
<1>11. /\ input[1].value = <<<<Double(source.height)>>>>
       /\ input[2].value = <<HexStringToArray(Hex(source.dataHash))>>
       /\ input[3].value = <<HexStringToArray(Hex(source.parrentSiblings))>>
       /\ input[4].value = <<HexStringToArray(Hex(source.blockHash))>>
       /\ input[5].value = <<<<Double(source.blockTime)>>>>
       /\ input[6].value = <<HexStringToArray(Hex(source.pubKeys))>>
       /\ input[7].value = <<HexStringToArray(Hex(source.signature))>>
       /\ input[8].value = PointChunks
  BY DEF HeaderInput, Key, PointChunks
<1>12. /\ names[1] = "height" /\ names[2] = "dataHash" /\ names[3] = "parrentSiblings"
       /\ names[4] = "blockHash" /\ names[5] = "blockTime" /\ names[6] = "pubKeys"
       /\ names[7] = "R8" /\ names[8] = "PointA"
  BY <1>1
<1>13. \A i \in 1 .. 8 :
          i = 1 \/ i = 2 \/ i = 3 \/ i = 4 \/ i = 5 \/ i = 6 \/ i = 7 \/ i = 8
  OBVIOUS
<1>14. /\ Len(FlattenSeq(input[1].value)) = 1 /\ Len(FlattenSeq(input[2].value)) = bytes
       /\ Len(FlattenSeq(input[3].value)) = bytes /\ Len(FlattenSeq(input[4].value)) = bytes
       /\ Len(FlattenSeq(input[5].value)) = 1 /\ Len(FlattenSeq(input[6].value)) = bytes
       /\ Len(FlattenSeq(input[7].value)) = bytes
       /\ Len(FlattenSeq(input[8].value)) = l * 3
  BY <1>7, <1>8, <1>9, <1>10, <1>11
<1>15. \A i \in 1 .. 8 : /\ names[i] \in DOMAIN Signals
                         /\ Len(FlattenSeq(input[i].value)) = Signals[names[i]]
  <2>1. /\ Signals[names[1]] = 1 /\ Signals[names[2]] = bytes /\ Signals[names[3]] = bytes
        /\ Signals[names[4]] = bytes /\ Signals[names[5]] = 1 /\ Signals[names[6]] = bytes
        /\ Signals[names[7]] = bytes /\ Signals[names[8]] = l * 3
    BY <1>5, <1>12
  <2>2. \A i \in 1 .. 8 : names[i] \in DOMAIN Signals
    BY <1>5, <1>12, <1>13
  <2> QED
    BY <1>13, <1>14, <2>1, <2>2
<1>16. \A s \in DOMAIN Signals : \E i \in 1 .. 8 : names[i] = s
  <2>1. {1, 2, 3, 4, 5, 6, 7, 8} \subseteq 1 .. 8
    OBVIOUS
  <2> QED
    BY <1>5, <1>12, <2>1
<1> QED
  BY <1>2, <1>6, <1>15, <1>16, Settles

\* A script panics only over an absent signature or a transaction that is not in
\* its block; the witness calculator throws only when the circuit's assertion is
\* wrong of the numbers meant or a transaction does not fit into the circuit; a
\* call is refused only for a hash that begins with the digit 0 (main.go,
\* deposit_tree.go, witness_calculator.js, bigNumberToHexString).
THEOREM FailuresCorrect == Spec => []FailsForKnownReason
<1>0. ASSUME Inv, outcome = "panicked"
      PROVE  \/ kind = "header" /\ source.signature = Absent
             \/ kind = "root" /\ source.key = -1
  BY <1>0 DEF Inv, Present
<1>1. ASSUME Inv, outcome = "threw"
      PROVE  \/ ~Holds(kind, Meant, MeantHidden)
             \/ /\ kind = "root"
                /\ source.body > BodySize \/ source.auth > AuthSize \/ source.txs > 4
  <2>1. /\ kind \in DOMAIN Fields /\ source \in Sources[kind] /\ input = Built
        /\ Present /\ ~Taken
    BY <1>1 DEF Inv
  <2> SUFFICES ASSUME Holds(kind, Meant, MeantHidden)
               PROVE  /\ kind = "root"
                      /\ source.body > BodySize \/ source.auth > AuthSize \/ source.txs > 4
    OBVIOUS
  <2>2. ~Settable
    <3>1. Outputs = Meant /\ Hidden = MeantHidden
      BY <2>1, OutputsAreMeant, HiddenIsMeant
    <3>2. Holds(kind, Outputs, Hidden)
      BY <3>1
    <3> QED
      BY <2>1, <3>2 DEF Taken
  <2>3. kind # "header"
    <3>1. SUFFICES ASSUME kind = "header" PROVE FALSE
      OBVIOUS
    <3>2. input = HeaderInput /\ source \in Headers /\ source.signature # Absent
      BY <2>1, <3>1 DEF Built, Sources, Present
    <3> QED
      BY <2>2, <3>1, <3>2, HeaderSettable
  <2>4. kind # "claim"
    <3>1. SUFFICES ASSUME kind = "claim" PROVE FALSE
      OBVIOUS
    <3>2. input = ClaimInput /\ source \in Deposits
      BY <2>1, <3>1 DEF Built, Sources
    <3> QED
      BY <2>2, <3>1, <3>2, ClaimSettable
  <2>5. kind = "root"
    BY <2>1, <2>3, <2>4 DEF Fields
  <2>6. input = RootInput /\ source \in Transactions /\ source.key # -1
    BY <2>1, <2>5 DEF Built, Sources, Present
  <2>7. ~(source.body <= BodySize /\ source.auth <= AuthSize /\ source.txs <= 4)
    BY <2>2, <2>5, <2>6, RootSettable
  <2>8. /\ source.body \in Nat /\ source.auth \in Nat /\ source.txs \in Nat
        /\ BodySize \in Nat /\ AuthSize \in Nat
    <3>1. source.body \in Nat /\ source.auth \in Nat /\ source.txs \in Nat
      BY <2>6, TransactionIs
    <3> QED
      BY <3>1, Sizes
  <2> QED
    BY <2>5, <2>7, <2>8
<1>2. ASSUME Inv, outcome = "refused"
      PROVE  \E i \in DOMAIN call : Fields[kind][i] = "hash" /\ Hex(Meant[i])[1] = 0
  <2>1. PICK i \in DOMAIN call : Fields[kind][i] # "number" /\ Len(call[i]) # HashDigits
    BY <1>2 DEF Inv, Encodable
  <2>2. /\ call[i] = Argument(Fields[kind][i], Meant[i])
        /\ Fields[kind][i] \in {"address", "hash", "number"}
        /\ Meant[i] \in Hashes
    BY <1>2, <2>1, Arguments
  <2>3. Fields[kind][i] # "address"
    <3>1. SUFFICES ASSUME Fields[kind][i] = "address" PROVE FALSE
      OBVIOUS
    <3>2. call[i] = ConvertHexStringToAddress(BigNumberToHexString(Meant[i]))
      BY <2>2, <3>1 DEF Argument
    <3> QED
      BY <2>1, <2>2, <3>2, SpeltOut
  <2>4. Fields[kind][i] = "hash"
    BY <2>1, <2>2, <2>3
  <2>5. call[i] = BigNumberToHexString(Meant[i])
    BY <2>2, <2>4 DEF Argument
  <2>6. Hex(Meant[i])[1] = 0
    BY <2>1, <2>2, <2>5, SpeltOut
  <2> QED
    BY <2>4, <2>6
<1>3. Inv => FailsForKnownReason
  BY <1>0, <1>1, <1>2 DEF FailsForKnownReason
<1> QED
  BY <1>3, InvAlways, PTL
=============================================================================
