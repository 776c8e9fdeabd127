------------------------ MODULE CoinSelectionProofs -------------------------
(***************************************************************************)
(* Proofs about CoinSelection, for every set of coins and senders, all     *)
(* requests, fees and sizes.                                               *)
(*                                                                         *)
(* A sum over a sequence is a recursive function.  Induction goes by the   *)
(* least number that is not in a set of numbers (UpTo); what a sum is over *)
(* a longer sequence, a sequence without one element, and the same         *)
(* elements in another order, follows from its partial sums.               *)
(***************************************************************************)
EXTENDS CoinSelection, SequenceTheorems, FiniteSetTheorems, WellFoundedInduction, TLAPS

-----------------------------------------------------------------------------
(* Induction over numbers. *)

LEMMA LeastNumber ==
    ASSUME NEW S \in SUBSET Nat, S # {}
    PROVE  \E x \in S : \A y \in S : x <= y
<1>1. PICK x \in S : \A y \in S : <<y, x>> \notin OpToRel(<, Nat)
  BY NatLessThanWellFounded, WFMin
<1>2. \A y \in S : ~(y < x)
  BY <1>1 DEF OpToRel
<1> QED
  BY <1>2

LEMMA UpTo ==
    ASSUME NEW P \in SUBSET Nat, 0 \in P, \A n \in P : n + 1 \in P
    PROVE  P = Nat
<1> SUFFICES ASSUME Nat \ P # {} PROVE FALSE
  OBVIOUS
<1>1. PICK x \in Nat \ P : \A y \in Nat \ P : x <= y
  BY LeastNumber
<1>2. x # 0 /\ x - 1 \in Nat /\ ~(x <= x - 1)
  BY <1>1
<1>3. x - 1 \in P
  BY <1>1, <1>2
<1>4. (x - 1) + 1 \in P
  BY <1>3
<1> QED
  BY <1>1, <1>4

-----------------------------------------------------------------------------
(* Partial sums. *)

Partial(f, s, n) ==
    /\ f \in [0..n -> Nat] /\ f[0] = 0
    /\ \A i \in 1..n : f[i] = f[i - 1] + s[i]

LEMMA PartialExists ==
    ASSUME NEW s \in Seq(Nat)
    PROVE  \E f : Partial(f, s, Len(s))
<1> DEFINE P == {n \in Nat : n <= Len(s) => \E f : Partial(f, s, n)}
<1>1. 0 \in P
  <2>1. Partial([i \in 0..0 |-> 0], s, 0)
    BY DEF Partial
  <2> QED
    BY <2>1
<1>2. ASSUME NEW n \in P PROVE n + 1 \in P
  <2> SUFFICES ASSUME n + 1 <= Len(s) PROVE \E f : Partial(f, s, n + 1)
    OBVIOUS
  <2>1. n \in Nat /\ Len(s) \in Nat /\ n <= Len(s) /\ s[n + 1] \in Nat
    OBVIOUS
  <2>2. PICK f : Partial(f, s, n)
    BY <2>1
  <2> DEFINE g == [i \in 0..(n + 1) |-> IF i = n + 1 THEN f[n] + s[n + 1] ELSE f[i]]
  <2>3. f[n] \in Nat /\ \A i \in 0..n : f[i] \in Nat
    BY <2>1, <2>2 DEF Partial
  <2>4. g \in [0..(n + 1) -> Nat]
    BY <2>1, <2>3
  <2>5. g[0] = 0
    BY <2>1, <2>2 DEF Partial
  <2>6. ASSUME NEW i \in 1..(n + 1) PROVE g[i] = g[i - 1] + s[i]
    <3>1. CASE i = n + 1
      BY <2>1, <3>1
    <3>2. CASE i # n + 1
      <4>1. i \in 1..n /\ i - 1 \in 0..n /\ i \in 0..(n + 1) /\ i - 1 \in 0..(n + 1) /\ i - 1 # n + 1
        BY <2>1, <3>2
      <4>2. f[i] = f[i - 1] + s[i]
        BY <2>2, <4>1 DEF Partial
      <4> QED
        BY <3>2, <4>1, <4>2
    <3> QED
      BY <3>1, <3>2
  <2>7. Partial(g, s, n + 1)
    BY <2>4, <2>5, <2>6 DEF Partial
  <2> QED
    BY <2>7
<1> HIDE DEF P
<1>3. P = Nat
  <2>1. P \in SUBSET Nat
    BY DEF P
  <2> QED
    BY <1>1, <1>2, <2>1, UpTo
<1>4. Len(s) \in P /\ Len(s) <= Len(s)
  BY <1>3
<1> QED
  BY <1>4 DEF P

\* Partial sums of the same numbers are the same.
Agree(f, s, n, g, t, m, k) ==
    /\ n \in Nat /\ m \in Nat /\ k \in Nat /\ k <= n /\ k <= m
    /\ Partial(f, s, n) /\ Partial(g, t, m)
    /\ \A i \in 1..k : s[i] = t[i]

LEMMA PartialUnique ==
    ASSUME NEW f, NEW s, NEW n, NEW g, NEW t, NEW m, NEW k, Agree(f, s, n, g, t, m, k)
    PROVE  f[k] = g[k]
<1> USE DEF Agree
<1> DEFINE P == {i \in Nat : i <= k => f[i] = g[i]}
<1>1. 0 \in P
  BY DEF Partial
<1>2. ASSUME NEW i \in P PROVE i + 1 \in P
  <2> SUFFICES ASSUME i + 1 <= k PROVE f[i + 1] = g[i + 1]
    OBVIOUS
  <2>1. i \in Nat /\ i + 1 \in 1..k /\ i + 1 \in 1..n /\ i + 1 \in 1..m /\ (i + 1) - 1 = i
    OBVIOUS
  <2>2. f[i + 1] = f[i] + s[i + 1] /\ g[i + 1] = g[i] + t[i + 1]
    BY <2>1 DEF Partial
  <2>3. f[i] = g[i] /\ s[i + 1] = t[i + 1]
    BY <2>1
  <2> QED
    BY <2>2, <2>3
<1> HIDE DEF P
<1>3. P = Nat
  <2>1. P \in SUBSET Nat
    BY DEF P
  <2> QED
    BY <1>1, <1>2, <2>1, UpTo
<1> QED
  BY <1>3 DEF P

\* The total is the last of the partial sums.
LEMMA TotalIsPartial ==
    ASSUME NEW s \in Seq(Nat)
    PROVE  \E f : Partial(f, s, Len(s)) /\ Total(s) = f[Len(s)]
<1> DEFINE D(f) == f = [i \in 0..Len(s) |-> IF i = 0 THEN 0 ELSE f[i - 1] + s[i]]
           h == CHOOSE f : D(f)
<1>1. Len(s) \in Nat
  OBVIOUS
<1>2. Total(s) = h[Len(s)]
  BY DEF Total
<1>3. PICK f : Partial(f, s, Len(s))
  BY PartialExists
<1>4. D(f)
  <2>1. f \in [0..Len(s) -> Nat]
    BY <1>3 DEF Partial
  <2>2. \A i \in 0..Len(s) : f[i] = IF i = 0 THEN 0 ELSE f[i - 1] + s[i]
    BY <1>3 DEF Partial
  <2> QED
    BY <2>1, <2>2
<1>5. D(h)
  BY <1>4
<1>6. \A i \in 0..Len(s) : h[i] = IF i = 0 THEN 0 ELSE h[i - 1] + s[i]
  BY <1>5
<1>7. h[Len(s)] = f[Len(s)]
  <2> DEFINE P == {i \in Nat : i <= Len(s) => h[i] = f[i]}
  <2> HIDE DEF h
  <2>1. 0 \in P
    BY <1>1, <1>3, <1>6 DEF Partial
  <2>2. ASSUME NEW i \in P PROVE i + 1 \in P
    <3> SUFFICES ASSUME i + 1 <= Len(s) PROVE h[i + 1] = f[i + 1]
      OBVIOUS
    <3>1. i \in Nat /\ i + 1 \in 1..Len(s) /\ i + 1 \in 0..Len(s) /\ (i + 1) - 1 = i /\ i + 1 # 0
      BY <1>1
    <3>2. h[i + 1] = h[i] + s[i + 1]
      BY <1>6, <3>1
    <3>3. f[i + 1] = f[i] + s[i + 1]
      BY <1>3, <3>1 DEF Partial
    <3>4. h[i] = f[i]
      BY <1>1, <3>1
    <3> QED
      BY <3>2, <3>3, <3>4
  <2> HIDE DEF P
  <2>3. P = Nat
    <3>1. P \in SUBSET Nat
      BY DEF P
    <3> QED
      BY <2>1, <2>2, <3>1, UpTo
  <2> QED
    BY <1>1, <2>3 DEF P
<1> HIDE DEF h
<1> QED
  BY <1>2, <1>3, <1>7

LEMMA TotalIsNat == ASSUME NEW s \in Seq(Nat) PROVE Total(s) \in Nat
<1>1. Len(s) \in 0..Len(s)
  OBVIOUS
<1> QED
  BY <1>1, TotalIsPartial DEF Partial

LEMMA TotalOfNone == Total(<<>>) = 0
<1>1. <<>> \in Seq(Nat) /\ Len(<<>>) = 0
  OBVIOUS
<1> QED
  BY <1>1, TotalIsPartial DEF Partial

\* t is s with one more number at the end.
LEMMA TotalOfLonger ==
    ASSUME NEW s \in Seq(Nat), NEW t \in Seq(Nat), Len(t) = Len(s) + 1,
           \A i \in 1..Len(s) : t[i] = s[i]
    PROVE  Total(t) = Total(s) + t[Len(t)]
<1> DEFINE n == Len(s)
<1>1. n \in Nat /\ n + 1 \in Nat /\ n + 1 \in 1..(n + 1) /\ (n + 1) - 1 = n
  OBVIOUS
<1>2. PICK f : Partial(f, s, n) /\ Total(s) = f[n]
  BY TotalIsPartial
<1>3. PICK g : Partial(g, t, n + 1) /\ Total(t) = g[n + 1]
  BY TotalIsPartial
<1>4. g[n + 1] = g[n] + t[n + 1]
  BY <1>1, <1>3 DEF Partial
<1>5. g[n] = f[n]
  <2>1. n <= n /\ n <= n + 1 /\ \A i \in 1..n : s[i] = t[i]
    BY <1>1
  <2> HIDE DEF n
  <2>2. Agree(f, s, n, g, t, n + 1, n)
    BY <1>1, <1>2, <1>3, <2>1 DEF Agree
  <2>3. f[n] = g[n]
    BY <2>2, PartialUnique
  <2> QED
    BY <2>3
<1> QED
  BY <1>2, <1>3, <1>4, <1>5

LEMMA Reordered == \A x, y, z \in Nat : (x + z) + y = (x + y) + z
OBVIOUS

\* r is s without what is at j.
LEMMA TotalOfShorter ==
    ASSUME NEW s \in Seq(Nat), NEW r \in Seq(Nat), NEW j \in 1..Len(s), Len(r) = Len(s) - 1,
           \A i \in 1..Len(r) : r[i] = IF i < j THEN s[i] ELSE s[i + 1]
    PROVE  Total(s) = Total(r) + s[j]
<1> DEFINE n == Len(r)
<1>1. n \in Nat /\ Len(s) = n + 1 /\ j \in 1..(n + 1) /\ s[j] \in Nat /\ j \in Nat
  OBVIOUS
<1>0. \A i \in 1..n : r[i] \in Nat
  BY ElementOfSeq
<1>2. PICK f : Partial(f, s, n + 1) /\ Total(s) = f[n + 1]
  BY <1>1, TotalIsPartial
<1>3. PICK g : Partial(g, r, n) /\ Total(r) = g[n]
  BY TotalIsPartial
<1> HIDE DEF n
<1> DEFINE P == {i \in Nat : i <= n => /\ (i < j => f[i] = g[i])
                                      /\ (i + 1 >= j => f[i + 1] = g[i] + s[j])}
<1>4. \A i \in 1..n : i < j => r[i] = s[i]
  BY <1>1 DEF n
<1>5. \A i \in 1..n : i >= j => r[i] = s[i + 1]
  BY <1>1 DEF n
<1>6. \A i \in 0..n : f[i] \in Nat /\ g[i] \in Nat /\ f[i + 1] = f[i] + s[i + 1]
  <2> TAKE i \in 0..n
  <2>1. i \in 0..(n + 1) /\ i + 1 \in 1..(n + 1) /\ (i + 1) - 1 = i
    BY <1>1
  <2> QED
    BY <1>2, <1>3, <2>1 DEF Partial
<1>7. 0 \in P
  <2>1. f[0] = 0 /\ g[0] = 0
    BY <1>2, <1>3 DEF Partial
  <2>2. 0 + 1 >= j => j = 1 /\ f[0 + 1] = s[j]
    BY <1>1, <1>6, <2>1
  <2>3. g[0] + s[j] = s[j]
    BY <1>1, <2>1
  <2> QED
    BY <2>1, <2>2, <2>3
<1>8. ASSUME NEW i \in P PROVE i + 1 \in P
  <2> SUFFICES ASSUME i + 1 <= n
               PROVE  /\ (i + 1 < j => f[i + 1] = g[i + 1])
                      /\ ((i + 1) + 1 >= j => f[(i + 1) + 1] = g[i + 1] + s[j])
    OBVIOUS
  <2>1. i \in Nat /\ i \in 0..n /\ i + 1 \in 1..n /\ i + 1 \in 0..n /\ (i + 1) - 1 = i
    BY <1>1
  <2>2. g[i + 1] = g[i] + r[i + 1]
    BY <1>3, <2>1 DEF Partial
  <2>3. f[i + 1] = f[i] + s[i + 1] /\ f[(i + 1) + 1] = f[i + 1] + s[(i + 1) + 1]
    BY <1>6, <2>1
  <2>4. (i < j => f[i] = g[i]) /\ (i + 1 >= j => f[i + 1] = g[i] + s[j])
    BY <1>1, <2>1
  <2>5. CASE i + 1 < j
    <3>1. f[i + 1] = g[i + 1]
      BY <1>1, <1>4, <2>1, <2>2, <2>3, <2>4, <2>5
    <3>2. (i + 1) + 1 >= j => (i + 1) + 1 = j
      BY <1>1, <2>1, <2>5
    <3> QED
      BY <2>3, <3>1, <3>2
  <2>6. CASE i + 1 >= j
    <3>1. r[i + 1] = s[(i + 1) + 1]
      BY <1>5, <2>1, <2>6
    <3>2. f[(i + 1) + 1] = (g[i] + s[j]) + r[i + 1]
      BY <2>3, <2>4, <2>6, <3>1
    <3>3. g[i] \in Nat /\ r[i + 1] \in Nat /\ s[j] \in Nat
      BY <1>0, <1>1, <1>6, <2>1
    <3>4. (g[i] + s[j]) + r[i + 1] = (g[i] + r[i + 1]) + s[j]
      BY <3>3, Reordered
    <3>5. f[(i + 1) + 1] = g[i + 1] + s[j]
      BY <2>2, <3>2, <3>4
    <3> QED
      BY <1>1, <2>1, <2>6, <3>5
  <2> QED
    BY <1>1, <2>1, <2>5, <2>6
<1>9. n \in P /\ n <= n /\ n + 1 >= j
  <2>1. P \in SUBSET Nat
    OBVIOUS
  <2> HIDE DEF P
  <2>2. P = Nat
    BY <1>7, <1>8, <2>1, UpTo
  <2> QED
    BY <1>1, <2>2
<1> QED
  BY <1>2, <1>3, <1>9

-----------------------------------------------------------------------------
(* What coins are worth, in any order. *)

LEMMA WorthTyped ==
    ASSUME NEW s \in Seq(Coin)
    PROVE  /\ [i \in DOMAIN s |-> Value[s[i]]] \in Seq(Nat)
           /\ Len([i \in DOMAIN s |-> Value[s[i]]]) = Len(s)
           /\ \A i \in 1..Len(s) : [k \in DOMAIN s |-> Value[s[k]]][i] = Value[s[i]] /\ Value[s[i]] \in Nat
           /\ Worth(s) \in Nat
<1> DEFINE v == [i \in DOMAIN s |-> Value[s[i]]]
<1>1. DOMAIN s = 1..Len(s) /\ Len(s) \in Nat
  OBVIOUS
<1>2. \A i \in 1..Len(s) : Value[s[i]] \in Nat
  BY CoinAssumption DEF CoinAssumption, Amount
<1>3. v \in Seq(Nat) /\ Len(v) = Len(s) /\ \A i \in 1..Len(s) : v[i] = Value[s[i]]
  BY <1>1, <1>2
<1> HIDE DEF v
<1>4. Total(v) \in Nat
  BY <1>3, TotalIsNat
<1>5. Worth(s) = Total(v)
  BY DEF Worth, v
<1> QED
  BY <1>2, <1>3, <1>4, <1>5 DEF v

LEMMA WorthOfNone == Worth(<<>>) = 0
<1>1. [i \in DOMAIN <<>> |-> Value[<<>>[i]]] = <<>>
  OBVIOUS
<1> QED
  BY <1>1, TotalOfNone DEF Worth

\* r is the sequence s of coins without the one at j.
IsCut(s, j, r) ==
    /\ s \in Seq(Coin) /\ r \in Seq(Coin) /\ j \in 1..Len(s) /\ Len(s) = Len(r) + 1
    /\ \A i \in 1..Len(r) : r[i] = IF i < j THEN s[i] ELSE s[i + 1]

LEMMA CutExists ==
    ASSUME NEW s, NEW j, s \in Seq(Coin), j \in 1..Len(s)
    PROVE  \E r : IsCut(s, j, r)
<1> DEFINE n == Len(s) - 1
           r == [i \in 1..n |-> IF i < j THEN s[i] ELSE s[i + 1]]
<1>1. n \in Nat /\ Len(s) = n + 1
  OBVIOUS
<1>2. \A i \in 1..n : (IF i < j THEN s[i] ELSE s[i + 1]) \in Coin
  OBVIOUS
<1>3. r \in Seq(Coin) /\ Len(r) = n /\ \A i \in 1..n : r[i] = IF i < j THEN s[i] ELSE s[i + 1]
  BY <1>1, <1>2
<1> HIDE DEF n, r
<1>4. IsCut(s, j, r)
  BY <1>1, <1>3 DEF IsCut
<1> QED
  BY <1>4

LEMMA WorthOfShorter ==
    ASSUME NEW s, NEW j, NEW r, IsCut(s, j, r)
    PROVE  Worth(s) = Worth(r) + Value[s[j]]
<1> DEFINE v == [i \in DOMAIN s |-> Value[s[i]]]
           w == [i \in DOMAIN r |-> Value[r[i]]]
<1>0. s \in Seq(Coin) /\ r \in Seq(Coin) /\ j \in 1..Len(s) /\ Len(s) = Len(r) + 1
  BY DEF IsCut
<1>1. v \in Seq(Nat) /\ Len(v) = Len(s) /\ \A i \in 1..Len(s) : v[i] = Value[s[i]]
  BY <1>0, WorthTyped
<1>2. w \in Seq(Nat) /\ Len(w) = Len(r) /\ \A i \in 1..Len(r) : w[i] = Value[r[i]]
  BY <1>0, WorthTyped
<1>3. Worth(s) = Total(v) /\ Worth(r) = Total(w)
  BY DEF Worth
<1> HIDE DEF v, w
<1>4. ASSUME NEW i \in 1..Len(w) PROVE w[i] = IF i < j THEN v[i] ELSE v[i + 1]
  <2>1. i \in 1..Len(r) /\ i \in 1..Len(s) /\ i + 1 \in 1..Len(s)
    BY <1>0, <1>2
  <2>2. r[i] = IF i < j THEN s[i] ELSE s[i + 1]
    BY <2>1 DEF IsCut
  <2> QED
    BY <1>1, <1>2, <2>1, <2>2
<1>5. j \in 1..Len(v) /\ Len(w) = Len(v) - 1
  BY <1>0, <1>1, <1>2
<1>6. Total(v) = Total(w) + v[j]
  BY <1>1, <1>2, <1>4, <1>5, TotalOfShorter
<1> QED
  BY <1>0, <1>1, <1>3, <1>6

\* s and t list the same coins, each once.
SameCoins(s, t) ==
    /\ s \in Seq(Coin) /\ t \in Seq(Coin) /\ Len(s) = Len(t)
    /\ \A i, j \in 1..Len(s) : s[i] = s[j] => i = j
    /\ \A i, j \in 1..Len(t) : t[i] = t[j] => i = j
    /\ \A i \in 1..Len(s) : \E j \in 1..Len(t) : t[j] = s[i]

\* The rest of two such sequences, once the same coin is cut from both.
LEMMA CutsAreSame ==
    ASSUME NEW u, NEW v, NEW m, NEW j, NEW a, NEW b, SameCoins(u, v), v[j] = u[m],
           m = Len(u), IsCut(u, m, a), IsCut(v, j, b)
    PROVE  SameCoins(a, b)
<1> DEFINE n == Len(a)
           old(i) == IF i < j THEN i ELSE i + 1
<1>1. /\ n \in Nat /\ m = n + 1 /\ m \in 1..Len(u) /\ j \in 1..Len(v) /\ j \in Int
      /\ Len(b) = n /\ Len(u) = n + 1 /\ Len(v) = n + 1
      /\ a \in Seq(Coin) /\ b \in Seq(Coin)
  <2>1. a \in Seq(Coin) /\ b \in Seq(Coin) /\ Len(u) = Len(a) + 1 /\ Len(v) = Len(b) + 1 /\ j \in 1..Len(v)
    BY DEF IsCut
  <2>2. Len(u) = Len(v)
    BY DEF SameCoins
  <2>3. Len(a) \in Nat /\ Len(b) \in Nat
    BY <2>1, LenProperties
  <2> QED
    BY <2>1, <2>2, <2>3
<1>2. \A i \in 1..n : a[i] = u[i] /\ i \in 1..Len(u) /\ i # m
  BY <1>1 DEF IsCut
<1>3. \A i \in 1..n : old(i) \in 1..Len(v) /\ old(i) # j
  BY <1>1
<1>4. \A i \in 1..n : b[i] = v[old(i)]
  BY <1>1 DEF IsCut
<1>5. \A i, k \in 1..n : old(i) = old(k) => i = k
  BY <1>1
<1>6. \A k \in 1..Len(v) : k # j => \E i \in 1..n : old(i) = k
  <2> TAKE k \in 1..Len(v)
  <2> HAVE k # j
  <2>1. CASE k < j
    <3>1. k \in 1..n /\ old(k) = k
      BY <1>1, <2>1
    <3> QED
      BY <3>1
  <2>2. CASE k > j
    <3>1. k - 1 \in 1..n /\ old(k - 1) = k
      BY <1>1, <2>2
    <3> QED
      BY <3>1
  <2> QED
    BY <1>1, <2>1, <2>2
<1> HIDE DEF n, old
<1>7. \A i, k \in 1..n : a[i] = a[k] => i = k
  BY <1>2 DEF SameCoins
<1>8. \A i, k \in 1..n : b[i] = b[k] => i = k
  <2> TAKE i, k \in 1..n
  <2> HAVE b[i] = b[k]
  <2>1. v[old(i)] = v[old(k)]
    BY <1>4
  <2>2. old(i) = old(k)
    BY <1>3, <2>1 DEF SameCoins
  <2> QED
    BY <1>5, <2>2
<1>9. \A i \in 1..n : \E k \in 1..n : b[k] = a[i]
  <2> TAKE i \in 1..n
  <2>1. PICK k \in 1..Len(v) : v[k] = u[i]
    BY <1>2 DEF SameCoins
  <2>2. u[i] # u[m]
    BY <1>1, <1>2 DEF SameCoins
  <2>3. PICK l \in 1..n : old(l) = k
    BY <1>6, <2>1, <2>2
  <2> QED
    BY <1>2, <1>4, <2>1, <2>3
<1> QED
  BY <1>1, <1>7, <1>8, <1>9 DEF SameCoins, n

LEMMA SameWorth ==
    ASSUME NEW s, NEW t, SameCoins(s, t)
    PROVE  Worth(s) = Worth(t)
<1> DEFINE P == {n \in Nat : \A u, v \in Seq(Coin) : SameCoins(u, v) /\ Len(u) = n => Worth(u) = Worth(v)}
<1>1. 0 \in P
  <2> SUFFICES ASSUME NEW u \in Seq(Coin), NEW v \in Seq(Coin), SameCoins(u, v), Len(u) = 0
               PROVE  Worth(u) = Worth(v)
    OBVIOUS
  <2>1. Len(v) = 0
    BY DEF SameCoins
  <2>2. u = <<>> /\ v = <<>>
    BY <2>1, EmptySeq
  <2> QED
    BY <2>2
<1>2. ASSUME NEW n \in P PROVE n + 1 \in P
  <2> SUFFICES ASSUME NEW u \in Seq(Coin), NEW v \in Seq(Coin), SameCoins(u, v), Len(u) = n + 1
               PROVE  Worth(u) = Worth(v)
    OBVIOUS
  <2> DEFINE m == Len(u)
  <2>1. n \in Nat /\ m \in 1..Len(u) /\ m = n + 1
    OBVIOUS
  <2>2. PICK j \in 1..Len(v) : v[j] = u[m]
    BY <2>1 DEF SameCoins
  <2>3. PICK a : IsCut(u, m, a)
    BY <2>1, CutExists
  <2>4. PICK b : IsCut(v, j, b)
    BY CutExists
  <2>5. SameCoins(a, b)
    BY <2>2, <2>3, <2>4, CutsAreSame
  <2>6. a \in Seq(Coin) /\ b \in Seq(Coin) /\ Len(a) = n
    BY <2>1, <2>3, <2>4 DEF IsCut
  <2>7. Worth(a) = Worth(b)
    BY <2>5, <2>6
  <2>8. Worth(u) = Worth(a) + Value[u[m]] /\ Worth(v) = Worth(b) + Value[v[j]]
    BY <2>3, <2>4, WorthOfShorter
  <2> QED
    BY <2>2, <2>7, <2>8
<1> HIDE DEF P
<1>3. P = Nat
  <2>1. P \in SUBSET Nat
    BY DEF P
  <2> QED
    BY <1>1, <1>2, <2>1, UpTo
<1>4. s \in Seq(Coin) /\ t \in Seq(Coin) /\ Len(s) \in P
  BY <1>3 DEF SameCoins
<1> QED
  BY <1>4 DEF P

\* The worth of a set of coins is that of any sequence of them.
LEMMA WorthOfSet ==
    ASSUME NEW t \in Seq(Coin), IsInjective(t)
    PROVE  Worth(SetToSeq({t[i] : i \in 1..Len(t)})) = Worth(t)
<1> DEFINE n == Len(t)
           S == {t[i] : i \in 1..n}
           s == SetToSeq(S)
<1>1. n \in Nat /\ DOMAIN t = 1..n /\ S \subseteq Coin
  OBVIOUS
<1>2. t \in [1..n -> S] /\ \A x \in S : \E i \in 1..n : t[i] = x
  BY <1>1
<1> HIDE DEF n, S
<1>3. ExistsBijection(1..n, S)
  BY <1>2 DEF ExistsBijection, Bijection, Injection, Surjection
<1>4. Cardinality(S) = n
  BY <1>1, <1>3, FS_CountingElements
<1>5. s \in [1..n -> S] /\ IsInjective(s)
  BY <1>2, <1>4 DEF SetToSeq
<1> HIDE DEF s
<1>6. s \in Seq(Coin) /\ Len(s) = n
  BY <1>1, <1>5
<1>7. \A i, j \in 1..n : s[i] = s[j] => i = j
  BY <1>5 DEF IsInjective
<1>8. \A i, j \in 1..n : t[i] = t[j] => i = j
  BY <1>1 DEF IsInjective
<1>9. \A i \in 1..n : \E j \in 1..n : t[j] = s[i]
  BY <1>2, <1>5
<1>10. Len(t) = n
  BY DEF n
<1>11. SameCoins(s, t)
  BY <1>6, <1>7, <1>8, <1>9, <1>10 DEF SameCoins
<1> QED
  BY <1>11, SameWorth DEF s, S, n

-----------------------------------------------------------------------------
(* The invariant. *)

Frame == [outputs : Seq(Amount), fee : Amount, balance : Nat]
Tx == [inputs : SUBSET Coin, outputs : Seq(Amount), change : Nat]

\* The nested calls of a sender: each but the newest was short of funds when it made
\* a smaller call, and the oldest asks for what the sender asked for.
Stack(q) ==
    /\ q \in Seq(Frame)
    /\ \A i \in 2..Len(q) : q[i].balance < Due(q[i]) /\ Due(q[i - 1]) < Due(q[i])
    /\ q # <<>> => q[Len(q)].outputs \in Requests

\* What the newest call returns, and what the sender has in the end.
Result(q, isReturning, tx) ==
    /\ isReturning => q # <<>>
    /\ tx # NoTx =>
        /\ isReturning => FeeForTx(tx) = q[1].fee /\ tx.outputs = q[1].outputs
        /\ q = <<>> => tx.outputs \in Requests

CoinsInv == utxos \in Seq(Coin) /\ IsInjective(utxos) /\ unseen \subseteq Coin \ Range(utxos)
SenderTyped ==
    /\ calls \in [Sender -> Seq(Frame)]
    /\ returning \in [Sender -> BOOLEAN]
    /\ draft \in [Sender -> Tx]
SenderInv == \A s \in Sender : Stack(calls[s]) /\ Result(calls[s], returning[s], draft[s])
Inv == CoinsInv /\ SenderTyped /\ SenderInv

-----------------------------------------------------------------------------
(* The amounts of a call. *)

\* r is the sequence s of amounts with less at the end: x is missing.
IsLess(s, r, x) ==
    /\ s \in Seq(Amount) /\ r \in Seq(Amount) /\ x \in Amount /\ s # <<>>
    /\ \/ /\ Len(r) = Len(s) - 1 /\ x = s[Len(s)]
          /\ \A i \in 1..Len(r) : r[i] = s[i]
       \/ /\ Len(r) = Len(s) /\ r[Len(s)] = s[Len(s)] - x
          /\ \A i \in 1..(Len(s) - 1) : r[i] = s[i]

LEMMA AmountsAreNumbers == ASSUME NEW s \in Seq(Amount) PROVE s \in Seq(Nat) /\ Total(s) \in Nat
<1>1. s \in Seq(Nat)
  BY DEF Amount
<1> QED
  BY <1>1, TotalIsNat

LEMMA TotalOfLess ==
    ASSUME NEW s, NEW r, NEW x, IsLess(s, r, x)
    PROVE  Total(r) = Total(s) - x
<1> DEFINE n == Len(s) - 1
           u == [i \in 1..n |-> s[i]]
<1>1. s \in Seq(Nat) /\ r \in Seq(Nat) /\ x \in Nat /\ s # <<>>
  BY AmountsAreNumbers DEF IsLess, Amount
<1>2. n \in Nat /\ Len(s) = n + 1 /\ s[n + 1] \in Nat
  BY <1>1, EmptySeq
<1>3. u \in Seq(Nat) /\ Len(u) = n /\ \A i \in 1..n : u[i] = s[i]
  BY <1>1, <1>2
<1> HIDE DEF u, n
<1>4. Total(s) = Total(u) + s[n + 1]
  BY <1>1, <1>2, <1>3, TotalOfLonger
<1>5. Total(u) \in Nat /\ Total(s) \in Nat
  BY <1>1, <1>3, TotalIsNat
<1>6. CASE Len(r) = n /\ x = s[n + 1] /\ \A i \in 1..n : r[i] = s[i]
  <2>1. r = u
    BY <1>1, <1>3, <1>6, SeqEqual
  <2> QED
    BY <1>2, <1>4, <1>5, <1>6, <2>1
<1>7. CASE Len(r) = n + 1 /\ r[n + 1] = s[n + 1] - x /\ \A i \in 1..n : r[i] = s[i]
  <2>1. Total(r) = Total(u) + r[n + 1]
    BY <1>1, <1>2, <1>3, <1>7, TotalOfLonger
  <2> QED
    BY <1>1, <1>2, <1>4, <1>5, <1>7, <2>1
<1>8. (Len(s) - 1 = n) /\ Len(s) = n + 1
  BY <1>2
<1> QED
  BY <1>6, <1>7, <1>8 DEF IsLess

LEMMA DueIsPositive == ASSUME NEW f \in Frame PROVE Due(f) \in Amount /\ Total(f.outputs) \in Nat
<1>1. f.outputs \in Seq(Amount) /\ f.fee \in Amount
  BY DEF Frame
<1>2. Total(f.outputs) \in Nat
  BY <1>1, AmountsAreNumbers
<1> QED
  BY <1>1, <1>2 DEF Due, Amount

LEMMA CallIsFrame ==
    ASSUME NEW outputs \in Seq(Amount), NEW fee \in Nat
    PROVE  /\ Call(outputs, fee) \in Frame /\ Call(outputs, fee).outputs = outputs
           /\ Call(outputs, fee).fee = IF fee = 0 THEN 1 ELSE fee
BY DEF Call, Frame, Amount

\* The smaller call asks for less.
LEMMA SmallerIsLess ==
    ASSUME NEW f \in Frame, NEW b \in Nat, b < Due(f), f.outputs # <<>>
    PROVE  Smaller(f, b) \in Frame /\ Due(Smaller(f, b)) < Due(f)
<1> DEFINE s == f.outputs
           k == Len(s)
           missing == Due(f) - b
           c == Smaller(f, b)
<1>1. s \in Seq(Amount) /\ f.fee \in Amount /\ f.fee \in Nat /\ f.fee # 0 /\ s # <<>>
  BY DEF Frame, Amount
<1>2. k \in Nat /\ k \in 1..k /\ s[k] \in Amount
  BY <1>1, EmptySeq
<1>3. missing \in Amount
  BY DueIsPositive DEF Amount
<1>4. \E r, x : IsLess(s, r, x) /\ c = Call(r, f.fee)
  <2>1. CASE s[k] > missing + MinOutputAmount
    <3> DEFINE r == [s EXCEPT ![k] = @ - missing]
    <3>1. s[k] - missing \in Amount
      BY <1>2, <1>3, <2>1 DEF MinOutputAmount, Amount
    <3>2. r \in Seq(Amount) /\ Len(r) = k /\ r[k] = s[k] - missing /\ \A i \in 1..(k - 1) : r[i] = s[i]
      BY <1>1, <1>2, <3>1
    <3>3. c = Call(r, f.fee)
      BY <2>1 DEF Smaller
    <3> HIDE DEF r, missing, c, s
    <3>4. IsLess(s, r, missing)
      BY <1>1, <1>3, <3>2 DEF IsLess
    <3> QED
      BY <3>3, <3>4
  <2>2. CASE ~(s[k] > missing + MinOutputAmount)
    <3> DEFINE r == Front(s)
    <3>1. r \in Seq(Amount) /\ Len(r) = k - 1 /\ \A i \in 1..(k - 1) : r[i] = s[i]
      BY <1>1, <1>2 DEF Front
    <3>2. c = Call(r, f.fee)
      BY <2>2 DEF Smaller
    <3> HIDE DEF r, missing, c, s
    <3>3. IsLess(s, r, s[k])
      BY <1>1, <1>2, <3>1 DEF IsLess
    <3> QED
      BY <3>2, <3>3
  <2> QED
    BY <2>1, <2>2
<1> HIDE DEF c, s, missing
<1>5. PICK r, x : IsLess(s, r, x) /\ c = Call(r, f.fee)
  BY <1>4
<1>6. r \in Seq(Amount) /\ x \in Nat /\ x > 0 /\ Total(r) = Total(s) - x
  <2>1. r \in Seq(Amount) /\ x \in Amount
    BY <1>5 DEF IsLess
  <2>2. Total(r) = Total(s) - x
    BY <1>5, TotalOfLess
  <2> QED
    BY <2>1, <2>2 DEF Amount
<1>7. c \in Frame /\ c.outputs = r /\ c.fee = f.fee
  BY <1>1, <1>5, <1>6, CallIsFrame
<1>8. Total(s) \in Nat
  BY <1>1, AmountsAreNumbers
<1>9. Due(c) = Total(r) + f.fee /\ Due(f) = Total(s) + f.fee
  BY <1>7 DEF Due, s
<1>10. Due(c) < Due(f)
  BY <1>1, <1>6, <1>8, <1>9
<1> QED
  BY <1>7, <1>10 DEF c

-----------------------------------------------------------------------------
(* The stack of a sender. *)

LEMMA StackCreate ==
    ASSUME NEW request \in Requests, NEW fee \in Fees
    PROVE  Stack(<<Call(request, fee)>>)
<1> DEFINE c == Call(request, fee)
           q == <<c>>
<1>1. c \in Frame /\ c.outputs = request
  BY CoinAssumption, CallIsFrame DEF CoinAssumption
<1> HIDE DEF c
<1>2. q \in Seq(Frame) /\ Len(q) = 1 /\ q[1] = c
  BY <1>1
<1>3. 2..Len(q) = {} /\ q[Len(q)].outputs \in Requests
  BY <1>1, <1>2
<1> HIDE DEF q
<1>4. Stack(q)
  BY <1>2, <1>3 DEF Stack
<1> QED
  BY <1>4 DEF q, c

LEMMA StackTail ==
    ASSUME NEW q, Stack(q), q # <<>>
    PROVE  /\ Stack(Tail(q)) /\ Len(q) \in Nat /\ Len(q) >= 1
           /\ q[1] = Head(q) /\ q[1] \in Frame
           /\ Tail(q) # <<>> => /\ Head(Tail(q)) \in Frame
                                /\ Head(Tail(q)).balance < Due(Head(Tail(q)))
           /\ Tail(q) = <<>> => q[1].outputs \in Requests
<1> DEFINE r == Tail(q)
<1>1. q \in Seq(Frame) /\ Len(q) \in Nat /\ Len(q) >= 1
  BY EmptySeq DEF Stack
<1>2. r \in Seq(Frame) /\ Len(r) = Len(q) - 1 /\ \A i \in 1..Len(r) : r[i] = q[i + 1]
  BY <1>1, HeadTailProperties
<1>3. q[1] = Head(q) /\ q[1] \in Frame
  BY <1>1
<1> HIDE DEF r
<1>4. ASSUME NEW i \in 2..Len(r) PROVE r[i].balance < Due(r[i]) /\ Due(r[i - 1]) < Due(r[i])
  <2>1. i \in 1..Len(r) /\ i - 1 \in 1..Len(r) /\ (i - 1) + 1 = i /\ i + 1 \in 2..Len(q) /\ (i + 1) - 1 = i
    BY <1>1, <1>2
  <2>2. r[i] = q[i + 1] /\ r[i - 1] = q[i]
    BY <1>2, <2>1
  <2>3. q[i + 1].balance < Due(q[i + 1]) /\ Due(q[(i + 1) - 1]) < Due(q[i + 1])
    BY <2>1 DEF Stack
  <2> QED
    BY <2>1, <2>2, <2>3
<1>5. r # <<>> => Len(r) \in 1..Len(r) /\ r[Len(r)] = q[Len(q)] /\ 2 \in 2..Len(q) /\ r[1] = q[2]
  BY <1>1, <1>2, EmptySeq
<1>6. Stack(r)
  BY <1>2, <1>4, <1>5 DEF Stack
<1>7. r # <<>> => Head(r) = r[1] /\ r[1] \in Frame /\ r[1].balance < Due(r[1])
  <2> SUFFICES ASSUME r # <<>> PROVE Head(r) = r[1] /\ r[1] \in Frame /\ r[1].balance < Due(r[1])
    OBVIOUS
  <2>1. r[1] = Head(r) /\ r[1] \in Frame
    BY <1>2, HeadTailProperties
  <2>2. q[2].balance < Due(q[2])
    BY <1>5 DEF Stack
  <2> QED
    BY <1>5, <2>1, <2>2
<1>8. r = <<>> => q[1].outputs \in Requests
  <2>1. r = <<>> => Len(q) = 1
    BY <1>1, <1>2
  <2> QED
    BY <2>1 DEF Stack
<1> QED
  BY <1>1, <1>3, <1>6, <1>7, <1>8 DEF r

LEMMA StackSmaller ==
    ASSUME NEW q, Stack(q), q # <<>>, q[1].outputs # <<>>, NEW b \in Nat, b < Due(q[1])
    PROVE  Stack(<<Smaller(q[1], b), [q[1] EXCEPT !.balance = b]>> \o Tail(q))
<1> DEFINE c == Smaller(q[1], b)
           f == [q[1] EXCEPT !.balance = b]
           r == Tail(q)
           top == <<c, f>>
           p == top \o r
<1>1. q \in Seq(Frame) /\ Len(q) \in Nat /\ Len(q) >= 1 /\ q[1] \in Frame
  BY StackTail DEF Stack
<1>2. c \in Frame /\ Due(c) < Due(q[1])
  BY <1>1, SmallerIsLess
<1>3. f \in Frame /\ f.outputs = q[1].outputs /\ f.fee = q[1].fee /\ f.balance = b
  BY <1>1 DEF Frame
<1>4. Due(f) = Due(q[1])
  BY <1>3 DEF Due
<1>5. r \in Seq(Frame) /\ Len(r) = Len(q) - 1 /\ \A i \in 1..Len(r) : r[i] = q[i + 1]
  BY <1>1, HeadTailProperties
<1> HIDE DEF c, f, r
<1>6. top \in Seq(Frame) /\ Len(top) = 2 /\ top[1] = c /\ top[2] = f
  BY <1>2, <1>3
<1> HIDE DEF top
<1>7. /\ p \in Seq(Frame) /\ Len(p) = 2 + Len(r)
      /\ \A i \in 1..(2 + Len(r)) : p[i] = IF i <= 2 THEN top[i] ELSE r[i - 2]
  <2>1. /\ top \o r \in Seq(Frame) /\ Len(top \o r) = Len(top) + Len(r)
        /\ \A i \in 1..(Len(top) + Len(r)) :
             (top \o r)[i] = IF i <= Len(top) THEN top[i] ELSE r[i - Len(top)]
    BY <1>5, <1>6, ConcatProperties
  <2> QED
    BY <1>6, <2>1
<1> HIDE DEF p
<1>8. Len(p) = Len(q) + 1 /\ p[1] = c /\ p[2] = f
  BY <1>1, <1>5, <1>6, <1>7
<1>9. ASSUME NEW i \in 3..Len(p) PROVE p[i] = q[i - 1]
  <2>1. i \in 1..(2 + Len(r)) /\ ~(i <= 2) /\ i - 2 \in 1..Len(r) /\ (i - 2) + 1 = i - 1
    BY <1>1, <1>5, <1>7
  <2> QED
    BY <1>5, <1>7, <2>1
<1>10. ASSUME NEW i \in 2..Len(p) PROVE p[i].balance < Due(p[i]) /\ Due(p[i - 1]) < Due(p[i])
  <2>1. CASE i = 2
    BY <1>2, <1>3, <1>4, <1>8, <2>1
  <2>2. CASE i = 3
    <3>1. 3 \in 3..Len(p) /\ 2 \in 2..Len(q) /\ p[3] = q[2]
      BY <1>1, <1>8, <1>9, <2>2
    <3>2. q[2].balance < Due(q[2]) /\ Due(q[1]) < Due(q[2])
      BY <3>1 DEF Stack
    <3> QED
      BY <1>4, <1>8, <2>2, <3>1, <3>2
  <2>3. CASE i > 3
    <3>1. i \in 3..Len(p) /\ i - 1 \in 3..Len(p) /\ i - 1 \in 2..Len(q)
      BY <1>1, <1>8, <2>3
    <3>2. p[i] = q[i - 1] /\ p[i - 1] = q[(i - 1) - 1]
      BY <1>9, <3>1
    <3>3. q[i - 1].balance < Due(q[i - 1]) /\ Due(q[(i - 1) - 1]) < Due(q[i - 1])
      BY <3>1 DEF Stack
    <3> QED
      BY <3>2, <3>3
  <2> QED
    BY <1>1, <1>8, <2>1, <2>2, <2>3
<1>11. p[Len(p)].outputs \in Requests
  <2>1. q[Len(q)].outputs \in Requests
    BY DEF Stack
  <2>2. CASE Len(q) = 1
    BY <1>3, <1>8, <2>1, <2>2
  <2>3. CASE Len(q) > 1
    <3>1. Len(p) \in 3..Len(p) /\ Len(p) - 1 = Len(q)
      BY <1>1, <1>8, <2>3
    <3> QED
      BY <1>9, <2>1, <3>1
  <2> QED
    BY <1>1, <2>2, <2>3
<1>12. Stack(p)
  BY <1>7, <1>10, <1>11 DEF Stack
<1> QED
  BY <1>12 DEF p, top, r, f, c

-----------------------------------------------------------------------------
(* The set of unspent outputs and the transaction made of it. *)

LEMMA FirstCoins ==
    ASSUME NEW u \in Seq(Coin), IsInjective(u), NEW n \in 0..Len(u)
    PROVE  /\ SubSeq(u, 1, n) \in Seq(Coin) /\ IsInjective(SubSeq(u, 1, n))
           /\ Len(SubSeq(u, 1, n)) = n /\ \A i \in 1..n : SubSeq(u, 1, n)[i] = u[i]
           /\ Worth(SubSeq(u, 1, n)) \in Nat
<1> DEFINE t == SubSeq(u, 1, n)
<1>1. n \in Nat /\ \A i \in 1..n : i \in 1..Len(u) /\ u[i] \in Coin
  OBVIOUS
<1>2. t \in Seq(Coin) /\ Len(t) = n /\ \A i \in 1..n : t[i] = u[i]
  BY <1>1
<1> HIDE DEF t
<1>3. DOMAIN t = 1..n /\ DOMAIN u = 1..Len(u)
  BY <1>2
<1>4. IsInjective(t)
  BY <1>1, <1>2, <1>3 DEF IsInjective
<1>5. Worth(t) \in Nat
  BY <1>2, WorthTyped
<1> QED
  BY <1>2, <1>4, <1>5 DEF t

LEMMA BuiltIsBalanced ==
    ASSUME CoinsInv, NEW f \in Frame, NEW n \in 0..Len(utxos), NEW tx, tx = Transaction(f, n)
    PROVE  tx \in Tx /\ (tx # NoTx => FeeForTx(tx) = f.fee /\ tx.outputs = f.outputs)
<1> DEFINE t == SubSeq(utxos, 1, n)
           b == Worth(t)
           S == {utxos[i] : i \in 1..n}
<1>1. /\ t \in Seq(Coin) /\ IsInjective(t) /\ Len(t) = n /\ b \in Nat
      /\ \A i \in 1..n : t[i] = utxos[i]
  BY FirstCoins DEF CoinsInv
<1>2. S = {t[i] : i \in 1..Len(t)} /\ S \subseteq Coin
  BY <1>1
<1>3. Worth(SetToSeq(S)) = b
  BY <1>1, <1>2, WorthOfSet
<1>4. /\ f.outputs \in Seq(Amount) /\ f.fee \in Nat /\ Total(f.outputs) \in Nat
      /\ Due(f) = Total(f.outputs) + f.fee
  BY DueIsPositive DEF Frame, Amount, Due
<1>5. NoTx \in Tx
  BY EmptySeq DEF NoTx, Tx
<1>6. CASE f.outputs = <<>> \/ b < Due(f)
  <2>1. tx = NoTx
    BY <1>6 DEF Transaction
  <2> QED
    BY <1>5, <2>1
<1>7. CASE ~(f.outputs = <<>> \/ b < Due(f))
  <2>1. tx = [inputs |-> S, outputs |-> f.outputs, change |-> Change(f, b)]
    BY <1>7 DEF Transaction
  <2> HIDE DEF S, b
  <2>2. Change(f, b) = b - Due(f) /\ Change(f, b) \in Nat
    BY <1>1, <1>4, <1>7 DEF Change, MinOutputAmount
  <2>3. tx.inputs = S /\ tx.outputs = f.outputs /\ tx.change = b - Due(f) /\ tx \in Tx
    BY <1>2, <1>4, <2>1, <2>2 DEF Tx
  <2>4. FeeForTx(tx) = (b - Total(f.outputs)) - (b - Due(f))
    BY <1>3, <2>3 DEF FeeForTx
  <2>5. (b - Total(f.outputs)) - (b - Due(f)) = f.fee
    BY <1>1, <1>4
  <2> QED
    BY <2>3, <2>4, <2>5
<1> QED
  BY <1>6, <1>7

\* The loop stops at an input of the UTXO set; if it stops there because the
\* transaction is too large, what it took before does not pay for the call.
LEMMA LastInputFacts ==
    ASSUME CoinsInv, NEW f \in Frame
    PROVE  /\ LastInput(f) \in 0..Len(utxos)
           /\ utxos # <<>> /\ TooLarge(f, LastInput(f)) =>
                /\ LastInput(f) - 1 \in 0..Len(utxos)
                /\ Worth(SubSeq(utxos, 1, LastInput(f) - 1)) < Due(f)
<1> DEFINE breaks == {n \in 1..Len(utxos) : TooLarge(f, n) \/ Enough(f, n)}
           n == LastInput(f)
<1>1. utxos \in Seq(Coin) /\ IsInjective(utxos) /\ Len(utxos) \in Nat
  BY DEF CoinsInv
<1>2. n = IF breaks = {} THEN Len(utxos) ELSE CHOOSE x \in breaks : \A m \in breaks : x <= m
  BY DEF LastInput
<1>3. breaks \in SUBSET Nat /\ breaks \subseteq 1..Len(utxos)
  BY <1>1
<1>4. \A x \in 1..Len(utxos) : TooLarge(f, x) \/ Enough(f, x) => x \in breaks
  OBVIOUS
<1> HIDE DEF breaks, n
<1>5. breaks # {} => n \in breaks /\ \A m \in breaks : n <= m
  BY <1>2, <1>3, LeastNumber
<1>6. n \in 0..Len(utxos)
  <2>1. CASE breaks = {}
    BY <1>1, <1>2, <2>1
  <2>2. CASE breaks # {}
    <3>1. n \in 1..Len(utxos)
      BY <1>3, <1>5, <2>2
    <3> QED
      BY <1>1, <3>1
  <2> QED
    BY <2>1, <2>2
<1>7. ASSUME utxos # <<>>, TooLarge(f, n)
      PROVE  n - 1 \in 0..Len(utxos) /\ Worth(SubSeq(utxos, 1, n - 1)) < Due(f)
  <2>1. Len(utxos) \in 1..Len(utxos)
    BY <1>1, <1>7, EmptySeq
  <2>2. n \in breaks /\ n \in 1..Len(utxos) /\ \A m \in breaks : n <= m
    BY <1>2, <1>3, <1>4, <1>5, <1>7, <2>1
  <2>3. n - 1 \in 0..Len(utxos) /\ n - 1 \in Nat /\ ~(n <= n - 1)
    BY <1>1, <2>2
  <2>4. n - 1 \notin breaks
    BY <2>2, <2>3
  <2> DEFINE b == Worth(SubSeq(utxos, 1, n - 1))
  <2>5. b \in Nat /\ Due(f) \in Nat /\ Due(f) > 0
    BY <1>1, <2>3, FirstCoins, DueIsPositive DEF Amount
  <2>6. CASE n - 1 = 0
    <3>1. SubSeq(utxos, 1, n - 1) = <<>>
      BY <2>6, SubSeqEmpty
    <3> QED
      BY <2>3, <2>5, <2>6, <3>1, WorthOfNone
  <2>7. CASE n - 1 # 0
    <3>1. n - 1 \in 1..Len(utxos)
      BY <1>1, <2>2, <2>7
    <3>2. ~ Enough(f, n - 1)
      BY <1>4, <2>4, <3>1
    <3>3. ~(b >= Due(f) + 0)
      BY <3>2 DEF Enough, MinOutputAmount
    <3> HIDE DEF b
    <3>4. b < Due(f)
      BY <2>5, <3>3
    <3> QED
      BY <2>3, <3>4 DEF b
  <2> QED
    BY <2>6, <2>7
<1> QED
  BY <1>6, <1>7 DEF n

\* What is left of the UTXO set when a transaction spends some of it.
Left(f, u, spent, n) ==
    /\ f[0] = <<>>
    /\ \A i \in 0..n : f[i] \in Seq(Coin)
    /\ \A i \in 1..n : f[i] = IF u[i] \in spent THEN f[i - 1] ELSE Append(f[i - 1], u[i])

LEMMA LeftExists ==
    ASSUME NEW u \in Seq(Coin), NEW spent
    PROVE  \E f : DOMAIN f = 0..Len(u) /\ f = [i \in 0..Len(u) |-> f[i]] /\ Left(f, u, spent, Len(u))
<1> DEFINE Good(f, n) == f \in [0..n -> Seq(Coin)] /\ Left(f, u, spent, n)
           P == {n \in Nat : n <= Len(u) => \E f : Good(f, n)}
<1>1. 0 \in P
  <2> DEFINE f == [i \in 0..0 |-> <<>>]
  <2>1. f \in [0..0 -> Seq(Coin)] /\ f[0] = <<>> /\ \A i \in 0..0 : f[i] \in Seq(Coin)
    OBVIOUS
  <2>2. 1..0 = {}
    OBVIOUS
  <2> HIDE DEF f
  <2>3. Good(f, 0)
    BY <2>1, <2>2 DEF Left
  <2> QED
    BY <2>3
<1>2. ASSUME NEW n \in P PROVE n + 1 \in P
  <2> SUFFICES ASSUME n + 1 <= Len(u) PROVE \E f : Good(f, n + 1)
    OBVIOUS
  <2>1. n \in Nat /\ Len(u) \in Nat /\ n <= Len(u) /\ u[n + 1] \in Coin
    OBVIOUS
  <2>2. PICK f : Good(f, n)
    BY <2>1
  <2> DEFINE x == IF u[n + 1] \in spent THEN f[n] ELSE Append(f[n], u[n + 1])
             g == [i \in 0..(n + 1) |-> IF i = n + 1 THEN x ELSE f[i]]
  <2>3. \A i \in 0..n : f[i] \in Seq(Coin)
    BY <2>2 DEF Left
  <2>4. x \in Seq(Coin)
    <3>1. f[n] \in Seq(Coin)
      BY <2>1, <2>3
    <3> QED
      BY <2>1, <3>1
  <2>5. x = IF u[n + 1] \in spent THEN f[n] ELSE Append(f[n], u[n + 1])
    OBVIOUS
  <2> HIDE DEF x
  <2>6. g \in [0..(n + 1) -> Seq(Coin)] /\ \A i \in 0..(n + 1) : g[i] \in Seq(Coin)
    BY <2>1, <2>3, <2>4
  <2>7. g[0] = <<>>
    BY <2>1, <2>2 DEF Left
  <2>8. g[n + 1] = x /\ \A i \in 0..n : g[i] = f[i]
    BY <2>1
  <2> HIDE DEF g
  <2>9. ASSUME NEW i \in 1..(n + 1)
        PROVE  g[i] = IF u[i] \in spent THEN g[i - 1] ELSE Append(g[i - 1], u[i])
    <3>1. CASE i = n + 1
      <4>1. i - 1 = n /\ n \in 0..n
        BY <2>1, <3>1
      <4> QED
        BY <2>5, <2>8, <3>1, <4>1
    <3>2. CASE i # n + 1
      <4>1. i \in 1..n /\ i - 1 \in 0..n /\ i \in 0..n
        BY <2>1, <3>2
      <4>2. f[i] = IF u[i] \in spent THEN f[i - 1] ELSE Append(f[i - 1], u[i])
        BY <2>2, <4>1 DEF Left
      <4> QED
        BY <2>8, <4>1, <4>2
    <3> QED
      BY <3>1, <3>2
  <2>10. Good(g, n + 1)
    BY <2>6, <2>7, <2>9 DEF Left
  <2> QED
    BY <2>10
<1> HIDE DEF P
<1>3. P = Nat
  <2>1. P \in SUBSET Nat
    BY DEF P
  <2> QED
    BY <1>1, <1>2, <2>1, UpTo
<1>4. Len(u) \in P /\ Len(u) <= Len(u)
  BY <1>3
<1>5. PICK f : Good(f, Len(u))
  BY <1>4 DEF P
<1> QED
  BY <1>5

LEMMA WithoutIsLeft ==
    ASSUME NEW u \in Seq(Coin), NEW spent
    PROVE  \E f : Left(f, u, spent, Len(u)) /\ Without(u, spent) = f[Len(u)]
<1> DEFINE D(f) == f = [i \in 0..Len(u) |->
                           IF i = 0 THEN <<>>
                           ELSE IF u[i] \in spent THEN f[i - 1] ELSE Append(f[i - 1], u[i])]
           h == CHOOSE f : D(f)
<1>1. Len(u) \in Nat
  OBVIOUS
<1>2. Without(u, spent) = h[Len(u)]
  BY DEF Without
<1>3. PICK f : f = [i \in 0..Len(u) |-> f[i]] /\ Left(f, u, spent, Len(u))
  BY LeftExists
<1>4. D(f)
  <2>1. \A i \in 0..Len(u) : f[i] = IF i = 0 THEN <<>>
                                   ELSE IF u[i] \in spent THEN f[i - 1] ELSE Append(f[i - 1], u[i])
    <3> TAKE i \in 0..Len(u)
    <3>1. CASE i = 0
      BY <1>3, <3>1 DEF Left
    <3>2. CASE i # 0
      <4>1. i \in 1..Len(u)
        BY <1>1, <3>2
      <4>2. f[i] = IF u[i] \in spent THEN f[i - 1] ELSE Append(f[i - 1], u[i])
        BY <1>3, <4>1 DEF Left
      <4> QED
        BY <3>2, <4>2
    <3> QED
      BY <3>1, <3>2
  <2> QED
    BY <1>3, <2>1
<1>5. D(h)
  BY <1>4
<1>6. \A i \in 0..Len(u) : h[i] = IF i = 0 THEN <<>>
                                 ELSE IF u[i] \in spent THEN h[i - 1] ELSE Append(h[i - 1], u[i])
  BY <1>5
<1> HIDE DEF h
<1> DEFINE P == {i \in Nat : i <= Len(u) => h[i] = f[i]}
<1>7. 0 \in P
  BY <1>1, <1>3, <1>6 DEF Left
<1>8. ASSUME NEW i \in P PROVE i + 1 \in P
  <2> SUFFICES ASSUME i + 1 <= Len(u) PROVE h[i + 1] = f[i + 1]
    OBVIOUS
  <2>1. i \in Nat /\ i + 1 \in 1..Len(u) /\ i + 1 \in 0..Len(u) /\ (i + 1) - 1 = i /\ i + 1 # 0
    BY <1>1
  <2>2. h[i + 1] = IF u[i + 1] \in spent THEN h[i] ELSE Append(h[i], u[i + 1])
    BY <1>6, <2>1
  <2>3. f[i + 1] = IF u[i + 1] \in spent THEN f[i] ELSE Append(f[i], u[i + 1])
    BY <1>3, <2>1 DEF Left
  <2>4. h[i] = f[i]
    BY <1>1, <2>1
  <2> QED
    BY <2>2, <2>3, <2>4
<1>9. h[Len(u)] = f[Len(u)]
  <2>1. P \in SUBSET Nat
    OBVIOUS
  <2> HIDE DEF P
  <2>2. P = Nat
    BY <1>7, <1>8, <2>1, UpTo
  <2> QED
    BY <1>1, <2>2 DEF P
<1> QED
  BY <1>2, <1>3, <1>9

\* What is left are coins of the UTXO set, each once.
LEMMA WithoutFacts ==
    ASSUME NEW u \in Seq(Coin), IsInjective(u), NEW spent
    PROVE  /\ Without(u, spent) \in Seq(Coin) /\ IsInjective(Without(u, spent))
           /\ Range(Without(u, spent)) \subseteq Range(u)
<1> PICK f : Left(f, u, spent, Len(u)) /\ Without(u, spent) = f[Len(u)]
  BY WithoutIsLeft
<1> DEFINE Among(n, r) == \A i \in 1..Len(r) : \E j \in 1..n : r[i] = u[j]
           Different(r) == \A i, j \in 1..Len(r) : r[i] = r[j] => i = j
           P == {n \in Nat : n <= Len(u) => Among(n, f[n]) /\ Different(f[n])}
<1>1. Len(u) \in Nat /\ \A i, j \in 1..Len(u) : u[i] = u[j] => i = j
  BY DEF IsInjective
<1>2. 0 \in P
  <2>1. f[0] = <<>> /\ 1..Len(<<>>) = {}
    BY DEF Left
  <2> QED
    BY <2>1
<1>3. ASSUME NEW n \in P PROVE n + 1 \in P
  <2> HIDE DEF Among, Different
  <2> SUFFICES ASSUME n + 1 <= Len(u) PROVE Among(n + 1, f[n + 1]) /\ Different(f[n + 1])
    OBVIOUS
  <2> USE DEF Among, Different
  <2>1. /\ n \in Nat /\ n \in 0..Len(u) /\ n + 1 \in 1..Len(u) /\ (n + 1) - 1 = n
        /\ 1..n \subseteq 1..(n + 1) /\ n + 1 \in 1..(n + 1) /\ n + 1 \notin 1..n
        /\ 1..n \subseteq 1..Len(u)
    BY <1>1
  <2> DEFINE r == f[n]
             t == f[n + 1]
             x == u[n + 1]
  <2>2. r \in Seq(Coin) /\ x \in Coin /\ (t = r \/ t = Append(r, x))
    <3>1. f[n] \in Seq(Coin) /\ u[n + 1] \in Coin
      BY <2>1 DEF Left
    <3>2. f[n + 1] = IF u[n + 1] \in spent THEN f[(n + 1) - 1] ELSE Append(f[(n + 1) - 1], u[n + 1])
      BY <2>1 DEF Left
    <3> QED
      BY <2>1, <3>1, <3>2
  <2>3. Among(n, r) /\ Different(r)
    BY <1>1, <2>1
  <2> HIDE DEF r, t, x
  <2>4. CASE t = r
    <3>1. Among(n + 1, t)
      BY <2>1, <2>3, <2>4
    <3> QED
      BY <2>3, <2>4, <3>1 DEF t
  <2>5. CASE t = Append(r, x)
    <3>1. /\ Len(r) \in Nat /\ Len(t) = Len(r) + 1 /\ t[Len(r) + 1] = x
          /\ \A i \in 1..Len(r) : t[i] = r[i]
      BY <2>2, <2>5
    <3>2. \A i \in 1..Len(t) : i \in 1..Len(r) \/ i = Len(r) + 1
      BY <3>1
    <3>3. \A i \in 1..Len(r) : r[i] # x
      <4> TAKE i \in 1..Len(r)
      <4>1. PICK j \in 1..n : r[i] = u[j]
        BY <2>3
      <4> QED
        BY <1>1, <2>1, <4>1 DEF x
    <3>4. Among(n + 1, t)
      <4> SUFFICES ASSUME NEW i \in 1..Len(t) PROVE \E j \in 1..(n + 1) : t[i] = u[j]
        OBVIOUS
      <4>1. CASE i \in 1..Len(r)
        BY <2>1, <2>3, <3>1, <4>1
      <4>2. CASE i = Len(r) + 1
        BY <2>1, <3>1, <4>2 DEF x
      <4> QED
        BY <3>2, <4>1, <4>2
    <3>5. Different(t)
      <4> SUFFICES ASSUME NEW i \in 1..Len(t), NEW j \in 1..Len(t), t[i] = t[j] PROVE i = j
        OBVIOUS
      <4>1. CASE i \in 1..Len(r) /\ j \in 1..Len(r)
        BY <2>3, <3>1, <4>1
      <4>2. CASE i = Len(r) + 1 \/ j = Len(r) + 1
        BY <3>1, <3>2, <3>3, <4>2
      <4> QED
        BY <3>2, <4>1, <4>2
    <3> QED
      BY <3>4, <3>5 DEF t
  <2> QED
    BY <2>2, <2>4, <2>5
<1> HIDE DEF P
<1>4. P = Nat
  <2>1. P \in SUBSET Nat
    BY DEF P
  <2> QED
    BY <1>2, <1>3, <2>1, UpTo
<1> DEFINE w == Without(u, spent)
<1>5. Len(u) \in P /\ Len(u) <= Len(u) /\ Len(u) \in 0..Len(u)
  BY <1>1, <1>4
<1>6. w \in Seq(Coin) /\ Among(Len(u), w) /\ Different(w)
  BY <1>5 DEF P, Left
<1> HIDE DEF w
<1>7. DOMAIN w = 1..Len(w) /\ DOMAIN u = 1..Len(u)
  BY <1>6
<1>8. IsInjective(w)
  BY <1>6, <1>7 DEF IsInjective
<1>9. Range(w) \subseteq Range(u)
  BY <1>6, <1>7 DEF Range
<1> QED
  BY <1>6, <1>8, <1>9 DEF w

\* A coin that comes at place i.
LEMMA InsertFacts ==
    ASSUME NEW u \in Seq(Coin), IsInjective(u), NEW c \in Coin, c \notin Range(u),
           NEW i \in 1..(Len(u) + 1)
    PROVE  /\ InsertAt(u, i, c) \in Seq(Coin) /\ IsInjective(InsertAt(u, i, c))
           /\ Range(InsertAt(u, i, c)) \subseteq Range(u) \cup {c}
<1> DEFINE a == SubSeq(u, 1, i - 1)
           b == SubSeq(u, i, Len(u))
           m == a \o <<c>>
           t == m \o b
<1>1. Len(u) \in Nat /\ i \in Int /\ i - 1 \in Nat /\ DOMAIN u = 1..Len(u)
  OBVIOUS
<1>2. \A k \in 1..(i - 1) : u[k] \in Coin
  BY <1>1
<1>3. a \in Seq(Coin) /\ Len(a) = i - 1 /\ \A k \in 1..(i - 1) : a[k] = u[k]
  BY <1>1, <1>2
<1>4. \A k \in i..Len(u) : u[k] \in Coin
  BY <1>1
<1>5. b \in Seq(Coin) /\ Len(b) = Len(u) - i + 1
  BY <1>1, <1>4
<1>6. \A k \in 1..(Len(u) - i + 1) : b[k] = u[k + i - 1]
  BY <1>1, <1>4
<1> HIDE DEF a, b
<1>7. /\ m \in Seq(Coin) /\ Len(m) = i /\ m[i] = c
      /\ \A k \in 1..(i - 1) : m[k] = u[k]
  BY <1>1, <1>3
<1> HIDE DEF m
<1>8. t \in Seq(Coin) /\ Len(t) = Len(u) + 1 /\ \A k \in 1..i : t[k] = m[k]
  BY <1>1, <1>5, <1>7
<1>9. \A k \in (i + 1)..(Len(u) + 1) : t[k] = u[k - 1]
  <2> TAKE k \in (i + 1)..(Len(u) + 1)
  <2>1. k - i \in 1..(Len(u) - i + 1) /\ (k - i) + i - 1 = k - 1 /\ k \in 1..(Len(m) + Len(b)) /\ ~(k <= Len(m))
    BY <1>1, <1>5, <1>7
  <2>2. t[k] = b[k - Len(m)]
    BY <1>5, <1>7, <2>1
  <2>3. b[k - i] = u[k - 1]
    BY <1>6, <2>1
  <2> QED
    BY <1>7, <2>2, <2>3
<1> HIDE DEF t
<1>10. /\ t[i] = c /\ i \in 1..Len(t)
       /\ \A k \in 1..Len(t) : k < i => t[k] = u[k] /\ k \in 1..Len(u)
       /\ \A k \in 1..Len(t) : k > i => t[k] = u[k - 1] /\ k - 1 \in 1..Len(u)
       /\ \A k \in 1..Len(t) : k < i \/ k = i \/ k > i
  BY <1>1, <1>7, <1>8, <1>9
<1>11. \A k \in 1..Len(u) : u[k] # c
  BY <1>1 DEF Range
<1>12. \A k, l \in 1..Len(u) : u[k] = u[l] => k = l
  BY <1>1 DEF IsInjective
<1>13. \A k, l \in 1..Len(t) : t[k] = t[l] => k = l
  <2> SUFFICES ASSUME NEW k \in 1..Len(t), NEW l \in 1..Len(t), t[k] = t[l] PROVE k = l
    OBVIOUS
  <2>1. CASE k < i
    BY <1>1, <1>10, <1>11, <1>12, <2>1
  <2>2. CASE k = i
    BY <1>1, <1>10, <1>11, <2>2
  <2>3. CASE k > i
    BY <1>1, <1>10, <1>11, <1>12, <2>3
  <2> QED
    BY <1>10, <2>1, <2>2, <2>3
<1>14. DOMAIN t = 1..Len(t)
  BY <1>8
<1>15. IsInjective(t) /\ Range(t) \subseteq Range(u) \cup {c}
  <2>1. IsInjective(t)
    BY <1>13, <1>14 DEF IsInjective
  <2>2. \A k \in 1..Len(u) : u[k] \in Range(u)
    BY <1>1 DEF Range
  <2>3. ASSUME NEW k \in 1..Len(t) PROVE t[k] \in Range(u) \cup {c}
    BY <1>10, <2>2
  <2>4. \A x \in Range(t) : \E k \in 1..Len(t) : x = t[k]
    BY <1>14 DEF Range
  <2> QED
    BY <2>1, <2>3, <2>4
<1>16. InsertAt(u, i, c) = t
  BY DEF InsertAt, t, m, a, b
<1> QED
  BY <1>8, <1>15, <1>16

-----------------------------------------------------------------------------
(* The steps. *)

LEMMA NoTxTyped == NoTx \in Tx
BY EmptySeq DEF NoTx, Tx

LEMMA InitInv == Init => Inv
<1> SUFFICES ASSUME Init PROVE Inv
  OBVIOUS
<1>1. CoinsInv
  <2>1. utxos = <<>> /\ unseen = Coin /\ <<>> \in Seq(Coin) /\ DOMAIN <<>> = {}
    BY EmptySeq DEF Init
  <2>2. IsInjective(utxos) /\ Range(utxos) = {}
    BY <2>1 DEF IsInjective, Range
  <2> QED
    BY <2>1, <2>2 DEF CoinsInv
<1>2. <<>> \in Seq(Frame) /\ Len(<<>>) = 0
  BY EmptySeq
<1>3. SenderTyped
  BY <1>2, NoTxTyped DEF Init, SenderTyped
<1>4. 2..Len(<<>>) = {}
  BY <1>2
<1>5. Stack(<<>>) /\ Result(<<>>, FALSE, NoTx)
  BY <1>2, <1>4 DEF Stack, Result
<1>6. SenderInv
  BY <1>5 DEF Init, SenderInv
<1> QED
  BY <1>1, <1>3, <1>6 DEF Inv

\* One sender s changes its calls and what they return.
Changes(s, q, isReturning, tx) ==
    /\ calls' = [calls EXCEPT ![s] = q]
    /\ returning' = [returning EXCEPT ![s] = isReturning]
    /\ draft' = [draft EXCEPT ![s] = tx]

LEMMA SenderStep ==
    ASSUME Inv, NEW s \in Sender, NEW q, NEW isReturning \in BOOLEAN, NEW tx \in Tx,
           Changes(s, q, isReturning, tx), Stack(q), Result(q, isReturning, tx)
    PROVE  SenderTyped' /\ SenderInv'
<1>1. q \in Seq(Frame)
  BY DEF Stack
<1>2. SenderTyped'
  BY <1>1 DEF Inv, SenderTyped, Changes
<1>3. ASSUME NEW o \in Sender
      PROVE  Stack(calls'[o]) /\ Result(calls'[o], returning'[o], draft'[o])
  <2>1. CASE o = s
    <3>1. calls'[s] = q /\ returning'[s] = isReturning /\ draft'[s] = tx
      BY DEF Inv, SenderTyped, Changes
    <3> QED
      BY <2>1, <3>1
  <2>2. CASE o # s
    <3>1. calls'[o] = calls[o] /\ returning'[o] = returning[o] /\ draft'[o] = draft[o]
      BY <2>2 DEF Inv, SenderTyped, Changes
    <3> QED
      BY <3>1 DEF Inv, SenderInv
  <2> QED
    BY <2>1, <2>2
<1> QED
  BY <1>2, <1>3 DEF SenderInv

LEMMA SenderFacts ==
    ASSUME Inv, NEW s \in Sender
    PROVE  /\ Stack(calls[s]) /\ Result(calls[s], returning[s], draft[s])
           /\ returning[s] \in BOOLEAN /\ draft[s] \in Tx
           /\ calls = [calls EXCEPT ![s] = calls[s]]
           /\ returning = [returning EXCEPT ![s] = returning[s]]
           /\ draft = [draft EXCEPT ![s] = draft[s]]
BY DEF Inv, SenderTyped, SenderInv

LEMMA CreateInv ==
    ASSUME Inv, NEW s \in Sender, NEW request \in Requests, NEW fee \in Fees, Create(s, request, fee)
    PROVE  Inv'
<1> DEFINE q == <<Call(request, fee)>>
<1>1. CoinsInv'
  BY DEF Inv, CoinsInv, Create
<1>2. Stack(q)
  BY StackCreate
<1>3. q # <<>>
  OBVIOUS
<1> HIDE DEF q
<1>4. Changes(s, q, returning[s], draft[s])
  BY SenderFacts DEF Create, Changes, q
<1>5. Result(q, returning[s], draft[s])
  BY <1>3 DEF Result, Create
<1>6. SenderTyped' /\ SenderInv'
  BY <1>2, <1>4, <1>5, SenderFacts, SenderStep
<1> QED
  BY <1>1, <1>6 DEF Inv

LEMMA BuildInv == ASSUME Inv, NEW s \in Sender, Build(s) PROVE Inv'
<1> DEFINE q == calls[s]
           f == Head(q)
           n == LastInput(f)
           tx == IF n > 0 /\ TooLarge(f, n) THEN NoTx ELSE Transaction(f, n)
<1>1. CoinsInv /\ CoinsInv'
  BY DEF Inv, CoinsInv, Build
<1>2. q # <<>> /\ Stack(q)
  BY SenderFacts DEF Build
<1>3. f = q[1] /\ f \in Frame
  BY <1>2, StackTail
<1>4. n \in 0..Len(utxos)
  BY <1>1, <1>3, LastInputFacts
<1>5. tx \in Tx /\ (tx # NoTx => FeeForTx(tx) = f.fee /\ tx.outputs = f.outputs)
  <2>1. CASE n > 0 /\ TooLarge(f, n)
    BY <2>1, NoTxTyped
  <2>2. CASE ~(n > 0 /\ TooLarge(f, n))
    <3>1. tx = Transaction(f, n)
      BY <2>2
    <3> HIDE DEF tx, n, f
    <3> QED
      BY <1>1, <1>3, <1>4, <3>1, BuiltIsBalanced
  <2> QED
    BY <2>1, <2>2
<1>6. draft' = [draft EXCEPT ![s] = tx] /\ returning' = [returning EXCEPT ![s] = TRUE] /\ calls' = calls
  BY DEF Build
<1> HIDE DEF tx, n, f
<1>7. Changes(s, q, TRUE, tx)
  BY <1>6, SenderFacts DEF Changes
<1>8. Result(q, TRUE, tx)
  BY <1>2, <1>3, <1>5 DEF Result
<1> HIDE DEF q
<1>9. SenderTyped' /\ SenderInv'
  BY <1>2, <1>5, <1>7, <1>8, SenderStep
<1> QED
  BY <1>1, <1>9 DEF Inv

LEMMA BuildSmallerInv == ASSUME Inv, NEW s \in Sender, BuildSmaller(s) PROVE Inv'
<1> DEFINE q == calls[s]
           f == Head(q)
           n == LastInput(f)
           b == Worth(SubSeq(utxos, 1, n - 1))
           p == <<Smaller(f, b), [f EXCEPT !.balance = b]>> \o Tail(q)
<1>1. CoinsInv /\ CoinsInv'
  BY DEF Inv, CoinsInv, BuildSmaller
<1>2. q # <<>> /\ Stack(q) /\ Tail(q) \in Seq(Frame)
  BY SenderFacts, StackTail DEF BuildSmaller, Stack
<1>3. f = q[1] /\ f \in Frame
  BY <1>2, StackTail
<1>4. utxos # <<>> /\ TooLarge(f, n) /\ f.outputs # <<>> /\ ~ returning[s]
  BY DEF BuildSmaller
<1>5. n - 1 \in 0..Len(utxos) /\ b < Due(f)
  BY <1>1, <1>3, <1>4, LastInputFacts
<1>6. b \in Nat
  BY <1>1, <1>5, FirstCoins DEF CoinsInv
<1>7. calls' = [calls EXCEPT ![s] = p] /\ returning' = returning /\ draft' = draft
  BY DEF BuildSmaller
<1> HIDE DEF n, b
<1>8. Stack(p)
  BY <1>2, <1>3, <1>4, <1>5, <1>6, StackSmaller
<1>9. p # <<>>
  <2>1. Smaller(f, b) \in Frame /\ [f EXCEPT !.balance = b] \in Frame
    BY <1>3, <1>4, <1>5, <1>6, SmallerIsLess DEF Frame
  <2> DEFINE top == <<Smaller(f, b), [f EXCEPT !.balance = b]>>
  <2>2. top \in Seq(Frame) /\ Len(top) = 2
    BY <2>1
  <2> HIDE DEF top
  <2>3. Len(top \o Tail(q)) = 2 + Len(Tail(q)) /\ Len(Tail(q)) \in Nat
    <3> DEFINE r == Tail(q)
    <3>1. r \in Seq(Frame)
      BY <1>2
    <3> HIDE DEF r
    <3>2. Len(top \o r) = Len(top) + Len(r)
      BY <2>2, <3>1, ConcatProperties
    <3>3. Len(r) \in Nat
      BY <3>1, LenProperties
    <3> QED
      BY <2>2, <3>2, <3>3 DEF r
  <2>4. p = top \o Tail(q)
    BY DEF top
  <2> HIDE DEF p
  <2>5. Len(p) # 0
    BY <2>3, <2>4
  <2> QED
    BY <2>5
<1> HIDE DEF p
<1>10. Changes(s, p, FALSE, draft[s])
  BY <1>4, <1>7, SenderFacts DEF Changes
<1>11. Result(p, FALSE, draft[s])
  BY <1>9 DEF Result
<1>12. SenderTyped' /\ SenderInv'
  BY <1>8, <1>10, <1>11, SenderFacts, SenderStep
<1> QED
  BY <1>1, <1>12 DEF Inv

LEMMA ReturnInv == ASSUME Inv, NEW s \in Sender, Return(s) PROVE Inv'
<1> DEFINE q == calls[s]
           outer == Tail(q)
           tx == IF outer # <<>> /\ Head(outer).balance < Due(Head(outer)) THEN NoTx ELSE draft[s]
           more == outer # <<>>
<1>1. CoinsInv'
  BY DEF Inv, CoinsInv, Return
<1>2. returning[s] /\ Stack(q) /\ Result(q, returning[s], draft[s]) /\ draft[s] \in Tx
  BY SenderFacts DEF Return
<1>3. q # <<>>
  BY <1>2 DEF Result
<1>4. /\ Stack(outer)
      /\ outer # <<>> => Head(outer).balance < Due(Head(outer))
      /\ outer = <<>> => q[1].outputs \in Requests
  BY <1>2, <1>3, StackTail
<1>5. calls' = [calls EXCEPT ![s] = outer] /\ returning' = [returning EXCEPT ![s] = more]
  BY DEF Return
<1>6. draft' = [draft EXCEPT ![s] = tx]
  BY DEF Return
<1>7. tx \in Tx /\ more \in BOOLEAN /\ (outer # <<>> => tx = NoTx) /\ (outer = <<>> => tx = draft[s])
  BY <1>2, <1>4, NoTxTyped
<1>8. draft[s] # NoTx => draft[s].outputs = q[1].outputs
  BY <1>2 DEF Result
<1> HIDE DEF tx
<1>9. Changes(s, outer, more, tx)
  BY <1>5, <1>6 DEF Changes
<1>10. Result(outer, more, tx)
  BY <1>4, <1>7, <1>8 DEF Result
<1> HIDE DEF outer, more, q
<1>11. SenderTyped' /\ SenderInv'
  BY <1>4, <1>7, <1>9, <1>10, SenderStep
<1> QED
  BY <1>1, <1>11 DEF Inv

LEMMA RegisterInv == ASSUME Inv, NEW s \in Sender, Register(s) PROVE Inv'
<1>1. CoinsInv'
  <2>1. utxos \in Seq(Coin) /\ IsInjective(utxos) /\ unseen \subseteq Coin \ Range(utxos) /\ unseen' = unseen
    BY DEF Inv, CoinsInv, Register
  <2>2. CASE utxos' = utxos
    BY <2>1, <2>2 DEF CoinsInv
  <2>3. CASE utxos' = Without(utxos, draft[s].inputs)
    <3>1. utxos' \in Seq(Coin) /\ IsInjective(utxos') /\ Range(utxos') \subseteq Range(utxos)
      BY <2>1, <2>3, WithoutFacts
    <3> QED
      BY <2>1, <3>1 DEF CoinsInv
  <2> QED
    BY <2>2, <2>3 DEF Register
<1>2. Changes(s, calls[s], returning[s], NoTx)
  BY SenderFacts DEF Changes, Register
<1>3. Result(calls[s], returning[s], NoTx)
  BY SenderFacts DEF Result
<1>4. SenderTyped' /\ SenderInv'
  BY <1>2, <1>3, SenderFacts, SenderStep, NoTxTyped
<1> QED
  BY <1>1, <1>4 DEF Inv

LEMMA ReceiveInv == ASSUME Inv, NEW c \in Coin, Receive(c) PROVE Inv'
<1>1. CoinsInv'
  <2>1. /\ utxos \in Seq(Coin) /\ IsInjective(utxos) /\ unseen \subseteq Coin \ Range(utxos)
        /\ c \in unseen /\ c \notin Range(utxos) /\ unseen' = unseen \ {c}
    BY DEF Inv, CoinsInv, Receive
  <2>2. PICK i \in 1..(Len(utxos) + 1) : utxos' = InsertAt(utxos, i, c)
    BY DEF Receive
  <2>3. utxos' \in Seq(Coin) /\ IsInjective(utxos') /\ Range(utxos') \subseteq Range(utxos) \cup {c}
    BY <2>1, <2>2, InsertFacts
  <2> QED
    BY <2>1, <2>3 DEF CoinsInv
<1>2. calls' = calls /\ returning' = returning /\ draft' = draft
  BY DEF Receive
<1>3. SenderTyped' /\ SenderInv'
  BY <1>2 DEF Inv, SenderTyped, SenderInv
<1> QED
  BY <1>1, <1>3 DEF Inv

LEMMA StepInv == Inv /\ [Next]_vars => Inv'
<1> SUFFICES ASSUME Inv, [Next]_vars PROVE Inv'
  OBVIOUS
<1>1. ASSUME NEW s \in Sender, NEW request \in Requests, NEW fee \in Fees, Create(s, request, fee) PROVE Inv'
  BY <1>1, CreateInv
<1>2. ASSUME NEW s \in Sender, Build(s) PROVE Inv'
  BY <1>2, BuildInv
<1>3. ASSUME NEW s \in Sender, BuildSmaller(s) PROVE Inv'
  BY <1>3, BuildSmallerInv
<1>4. ASSUME NEW s \in Sender, Return(s) PROVE Inv'
  BY <1>4, ReturnInv
<1>5. ASSUME NEW s \in Sender, Register(s) PROVE Inv'
  BY <1>5, RegisterInv
<1>6. ASSUME NEW c \in Coin, Receive(c) PROVE Inv'
  BY <1>6, ReceiveInv
<1>7. CASE UNCHANGED vars
  BY <1>7 DEF vars, Inv, CoinsInv, SenderTyped, SenderInv
<1> QED
  BY <1>1, <1>2, <1>3, <1>4, <1>5, <1>6, <1>7 DEF Next

LEMMA Invariance == Spec => []Inv
<1>1. Init => Inv
  BY InitInv
<1>2. Inv /\ [Next]_vars => Inv'
  BY StepInv
<1> QED
  BY <1>1, <1>2, PTL DEF Spec

-----------------------------------------------------------------------------
(* The theorems. *)

\* The UTXO set lists coins, each once and none of them still to come; what callers
\* ask for and get are amounts above 0, so that no call of BRWalletCreateTxForOutputs
\* reduces an output to nothing.
THEOREM CallsTyped == Spec => []TypeOK
<1>1. Inv => TypeOK
  <2> SUFFICES ASSUME Inv PROVE TypeOK
    OBVIOUS
  <2>1. ASSUME NEW s \in Sender, NEW i \in DOMAIN calls[s]
        PROVE  calls[s][i].outputs \in Seq(Amount) /\ calls[s][i].fee \in Amount /\ calls[s][i].balance \in Nat
    <3>1. calls[s] \in Seq(Frame)
      BY DEF Inv, SenderTyped
    <3>2. calls[s][i] \in Frame
      BY <3>1
    <3> QED
      BY <3>2 DEF Frame
  <2>2. ASSUME NEW s \in Sender PROVE IsTransaction(draft[s])
    BY DEF Inv, SenderTyped, Tx, IsTransaction
  <2> QED
    BY <2>1, <2>2 DEF Inv, CoinsInv, SenderTyped, TypeOK
<1> QED
  BY <1>1, Invariance, PTL

\* The recursion of BRWalletCreateTxForOutputs asks for less in each nested call,
\* whatever other threads make of the UTXO set while the lock is released.
THEOREM RecursionEnds == Spec => []DueFalls
<1>1. Inv => DueFalls
  BY DEF Inv, SenderInv, Stack, DueFalls
<1> QED
  BY <1>1, Invariance, PTL

\* A transaction that a caller got pays exactly the fee of the call that built it, and
\* its outputs are those the caller asked for.
THEOREM DraftsBalance == Spec => []DraftIsBalanced
<1>1. Inv => DraftIsBalanced
  <2> SUFFICES ASSUME Inv, NEW s \in Sender, draft[s] # NoTx
               PROVE  /\ returning[s] => FeeForTx(draft[s]) = Head(calls[s]).fee
                      /\ calls[s] = <<>> => draft[s].outputs \in Requests
    BY DEF DraftIsBalanced
  <2>1. Stack(calls[s]) /\ Result(calls[s], returning[s], draft[s])
    BY SenderFacts
  <2>2. returning[s] => calls[s] # <<>> /\ FeeForTx(draft[s]) = calls[s][1].fee
    BY <2>1 DEF Result
  <2>3. calls[s] # <<>> => Head(calls[s]) = calls[s][1]
    BY <2>1, StackTail
  <2> QED
    BY <2>1, <2>2, <2>3 DEF Result
<1> QED
  BY <1>1, Invariance, PTL
=============================================================================
