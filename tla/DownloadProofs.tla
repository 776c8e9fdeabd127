--------------------------- MODULE DownloadProofs ---------------------------
(***************************************************************************)
(* Proofs about Download, for every chain, any payments, peers, filters,   *)
(* and failures.                                                           *)
(***************************************************************************)
EXTENDS Download, FiniteSetTheorems, WellFoundedInduction, TLAPS

-----------------------------------------------------------------------------
(* Induction over numbers. *)

LEMMA LeastNumber ==
    ASSUME NEW S \in SUBSET Nat, S # {}
    PROVE  \E x \in S : \A y \in S : x <= y
<1>1. PICK x \in S : \A y \in S : <<y, x>> \notin OpToRel(<, Nat)
  BY NatLessThanWellFounded, WFMin
<1>2. \A y \in S : ~(y < x)
  BY <1>1 DEF OpToRel
<1> QED
  BY <1>2

LEMMA UpTo ==
    ASSUME NEW P \in SUBSET Nat, 0 \in P, \A n \in P : n + 1 \in P
    PROVE  P = Nat
<1> SUFFICES ASSUME Nat \ P # {} PROVE FALSE
  OBVIOUS
<1>1. PICK x \in Nat \ P : \A y \in Nat \ P : x <= y
  BY LeastNumber
<1>2. x # 0 /\ x - 1 \in Nat /\ ~(x <= x - 1)
  BY <1>1
<1>3. x - 1 \in P
  BY <1>1, <1>2
<1>4. (x - 1) + 1 \in P
  BY <1>3
<1> QED
  BY <1>1, <1>4

LEMMA MaxIsElement ==
    ASSUME NEW n \in Nat, NEW S \in SUBSET (0..n), S # {}
    PROVE  Max(S) \in S /\ \A y \in S : y <= Max(S)
<1> DEFINE T == {n - x : x \in S}
<1>1. T \in SUBSET Nat /\ T # {}
  <2>1. \A x \in S : n - x \in Nat
    OBVIOUS
  <2>2. \A v \in T : v \in Nat
    BY <2>1
  <2>3. PICK x \in S : TRUE
    OBVIOUS
  <2>4. n - x \in T
    BY <2>3
  <2> QED
    BY <2>2, <2>4
<1>2. PICK u \in T : \A v \in T : u <= v
  BY <1>1, LeastNumber
<1>3. PICK x \in S : u = n - x
  BY <1>2
<1>4. \A y \in S : x >= y
  <2> TAKE y \in S
  <2>1. n - y \in T
    OBVIOUS
  <2>2. n - x <= n - y
    BY <1>2, <1>3, <2>1
  <2> QED
    BY <2>2
<1> QED
  BY <1>3, <1>4 DEF Max

LEMMA MinIsElement ==
    ASSUME NEW S \in SUBSET Nat, S # {}
    PROVE  Min(S) \in S
  BY LeastNumber DEF Min

-----------------------------------------------------------------------------
(* The sequences of the model. *)

\* u is made of what is in the parts of s; f flattens the first m parts one after another.
IsOf(u, s, T) ==
    /\ u \in Seq(T)
    /\ \A k \in DOMAIN u : \E j \in DOMAIN s : \E l \in DOMAIN s[j] : u[k] = s[j][l]
Flattens(f, s, m) ==
    /\ DOMAIN f = 1..m
    /\ \A i \in 1..m : f[i] = IF i = 1 THEN s[i] ELSE f[i - 1] \o s[i]

LEMMA JoinedParts ==
    ASSUME NEW T, NEW s, NEW u, NEW v, IsOf(u, s, T), IsOf(v, s, T)
    PROVE  IsOf(u \o v, s, T)
<1>1. u \o v \in Seq(T) /\ u \in Seq(T) /\ v \in Seq(T)
  BY DEF IsOf
<1>2. ASSUME NEW k \in DOMAIN (u \o v)
      PROVE  \E j \in DOMAIN s : \E l \in DOMAIN s[j] : (u \o v)[k] = s[j][l]
  <2>1. CASE k \in DOMAIN u
    <3>1. (u \o v)[k] = u[k]
      BY <1>1, <2>1
    <3> QED
      BY <2>1, <3>1 DEF IsOf
  <2>2. CASE k \notin DOMAIN u
    <3>1. (u \o v)[k] = v[k - Len(u)] /\ k - Len(u) \in DOMAIN v
      BY <1>1, <1>2, <2>2
    <3> QED
      BY <3>1 DEF IsOf
  <2> QED
    BY <2>1, <2>2
<1> QED
  BY <1>1, <1>2 DEF IsOf

LEMMA FlatteningExists ==
    ASSUME NEW n \in Nat, NEW s
    PROVE  \E f : Flattens(f, s, n)
<1> DEFINE P == {m \in Nat : \E f : Flattens(f, s, m)}
<1>1. 0 \in P
  <2>1. Flattens([i \in 1..0 |-> s], s, 0)
    BY DEF Flattens
  <2> QED
    BY <2>1
<1>2. ASSUME NEW m \in P PROVE m + 1 \in P
  <2>1. m \in Nat
    OBVIOUS
  <2>2. PICK f : Flattens(f, s, m)
    OBVIOUS
  <2> DEFINE x == IF m = 0 THEN s[1] ELSE f[m] \o s[m + 1]
             g == [i \in 1..(m + 1) |-> IF i = m + 1 THEN x ELSE f[i]]
  <2> HIDE DEF x
  <2>3. DOMAIN g = 1..(m + 1) /\ g[m + 1] = x /\ \A i \in 1..m : g[i] = f[i]
    BY <2>1
  <2> HIDE DEF g
  <2>4. ASSUME NEW i \in 1..(m + 1) PROVE g[i] = IF i = 1 THEN s[i] ELSE g[i - 1] \o s[i]
    <3>1. CASE i = m + 1 /\ m = 0
      BY <2>3, <3>1 DEF x
    <3>2. CASE i = m + 1 /\ m # 0
      <4>1. i # 1 /\ i - 1 \in 1..m /\ i - 1 = m
        BY <2>1, <3>2
      <4> QED
        BY <2>3, <3>2, <4>1 DEF x
    <3>3. CASE i # m + 1
      <4>1. i \in 1..m /\ g[i] = f[i]
        BY <2>1, <2>3, <3>3
      <4>2. f[i] = IF i = 1 THEN s[i] ELSE f[i - 1] \o s[i]
        BY <2>2, <4>1 DEF Flattens
      <4>3. i # 1 => i - 1 \in 1..m
        BY <2>1, <4>1
      <4>4. i # 1 => g[i - 1] = f[i - 1]
        BY <2>3, <4>3
      <4> QED
        BY <4>1, <4>2, <4>4
    <3> QED
      BY <3>1, <3>2, <3>3
  <2>5. Flattens(g, s, m + 1)
    BY <2>3, <2>4 DEF Flattens
  <2> QED
    BY <2>1, <2>5
<1> HIDE DEF P
<1>3. P = Nat
  <2>1. P \in SUBSET Nat
    BY DEF P
  <2> QED
    BY <1>1, <1>2, <2>1, UpTo
<1> QED
  BY <1>3 DEF P

\* What is in a flattened sequence is in one of its parts.
LEMMA FlattenParts ==
    ASSUME NEW T, NEW s \in Seq(Seq(T))
    PROVE  IsOf(FlattenSeq(s), s, T)
<1> DEFINE n == Len(s)
           D(f) == f = [i \in 1..n |-> IF i = 1 THEN s[i] ELSE f[i - 1] \o s[i]]
           h == CHOOSE f : D(f)
<1>1. n \in Nat /\ DOMAIN s = 1..n /\ \A i \in 1..n : s[i] \in Seq(T)
  OBVIOUS
<1>2. CASE n = 0
  <2>1. FlattenSeq(s) = s /\ s = <<>>
    BY <1>2 DEF FlattenSeq
  <2> QED
    BY <2>1 DEF IsOf
<1>3. CASE n # 0
  <2>1. FlattenSeq(s) = h[n]
    BY <1>3 DEF FlattenSeq
  <2>2. PICK f : Flattens(f, s, n)
    BY <1>1, FlatteningExists
  <2>3. D([i \in 1..n |-> f[i]])
    <3> DEFINE g == [i \in 1..n |-> f[i]]
    <3>1. DOMAIN g = 1..n /\ \A i \in 1..n : g[i] = f[i]
      OBVIOUS
    <3>2. \A i \in 1..n : i # 1 => i - 1 \in 1..n
      BY <1>1
    <3>3. \A i \in 1..n : g[i] = IF i = 1 THEN s[i] ELSE g[i - 1] \o s[i]
      BY <2>2, <3>1, <3>2 DEF Flattens
    <3> QED
      BY <3>3
  <2>4. D(h)
    BY <2>3
  <2>5. \A i \in 1..n : h[i] = IF i = 1 THEN s[i] ELSE h[i - 1] \o s[i]
    BY <2>4
  <2>6. \A i \in 1..n : IsOf(s[i], s, T)
    BY <1>1 DEF IsOf
  <2> HIDE DEF h
  <2> DEFINE Q == {m \in Nat : m <= n /\ m > 0 => IsOf(h[m], s, T)}
  <2>7. 0 \in Q
    OBVIOUS
  <2>8. ASSUME NEW m \in Q PROVE m + 1 \in Q
    <3> SUFFICES ASSUME m + 1 <= n PROVE IsOf(h[m + 1], s, T)
      OBVIOUS
    <3>1. m \in Nat /\ m + 1 \in 1..n /\ (m + 1) - 1 = m
      BY <1>1
    <3>2. CASE m = 0
      BY <2>5, <2>6, <3>1, <3>2
    <3>3. CASE m # 0
      <4>1. IsOf(h[m], s, T) /\ m + 1 # 1
        BY <1>1, <3>1, <3>3
      <4>2. h[m + 1] = h[m] \o s[m + 1]
        BY <2>5, <3>1, <4>1
      <4> QED
        BY <2>6, <3>1, <4>1, <4>2, JoinedParts
    <3> QED
      BY <3>2, <3>3
  <2> HIDE DEF Q
  <2>9. Q = Nat
    <3>1. Q \in SUBSET Nat
      BY DEF Q
    <3> QED
      BY <2>7, <2>8, <3>1, UpTo
  <2>10. n \in Q
    BY <1>1, <2>9
  <2> QED
    BY <1>1, <1>3, <2>1, <2>10 DEF Q
<1> QED
  BY <1>2, <1>3

LEMMA EndOf ==
    ASSUME NEW s \in Seq(Nat), NEW a \in 1..(Len(s) + 1)
    PROVE  SubSeq(s, a, Len(s)) \in Seq(Nat) /\ Range(SubSeq(s, a, Len(s))) \subseteq Range(s)
<1> DEFINE u == SubSeq(s, a, Len(s))
<1>1. Len(s) \in Nat /\ DOMAIN s = 1..Len(s)
  OBVIOUS
<1>2. u \in Seq(Nat) /\ Len(u) = Len(s) - a + 1 /\ DOMAIN u = 1..(Len(s) - a + 1)
  BY <1>1
<1>3. \A i \in DOMAIN u : u[i] = s[i + a - 1] /\ i + a - 1 \in DOMAIN s
  BY <1>1, <1>2
<1> QED
  BY <1>2, <1>3 DEF Range

\* A list of hashes is trimmed to one of its ends.
Trims(f, n) ==
    /\ DOMAIN f = 0..n
    /\ \A k \in 0..n : f[k] = IF k <= MaxKnown THEN k ELSE f[k - k \div 3]

LEMMA Third == ASSUME NEW k \in Nat, k >= 3 PROVE k - k \div 3 \in 0..(k - 1)
  OBVIOUS

LEMMA TrimmingExists ==
    ASSUME NEW n \in Nat
    PROVE  \E f : Trims(f, n)
<1> DEFINE P == {m \in Nat : \E f : Trims(f, m)}
<1>1. 0 \in P
  <2> DEFINE g == [i \in 0..0 |-> 0]
  <2>1. DOMAIN g = 0..0 /\ \A k \in 0..0 : g[k] = k /\ k <= MaxKnown
    BY NumberAssumption
  <2>2. Trims(g, 0)
    BY <2>1 DEF Trims
  <2> QED
    BY <2>2
<1>2. ASSUME NEW m \in P PROVE m + 1 \in P
  <2>1. m \in Nat
    OBVIOUS
  <2>2. PICK f : Trims(f, m)
    OBVIOUS
  <2> DEFINE x == IF m + 1 <= MaxKnown THEN m + 1 ELSE f[(m + 1) - (m + 1) \div 3]
             g == [i \in 0..(m + 1) |-> IF i = m + 1 THEN x ELSE f[i]]
  <2> HIDE DEF x
  <2>3. DOMAIN g = 0..(m + 1) /\ g[m + 1] = x /\ \A i \in 0..m : g[i] = f[i]
    BY <2>1
  <2> HIDE DEF g
  <2>4. \A k \in 0..(m + 1) : ~(k <= MaxKnown) => k - k \div 3 \in 0..(k - 1)
    BY <2>1, Third, NumberAssumption
  <2>5. ASSUME NEW k \in 0..(m + 1) PROVE g[k] = IF k <= MaxKnown THEN k ELSE g[k - k \div 3]
    <3>1. CASE k = m + 1
      <4>1. ~(k <= MaxKnown) => k - k \div 3 \in 0..m
        BY <2>1, <2>4, <3>1
      <4>2. ~(k <= MaxKnown) => g[k - k \div 3] = f[k - k \div 3]
        BY <2>3, <4>1
      <4> QED
        BY <2>3, <3>1, <4>2 DEF x
    <3>2. CASE k # m + 1
      <4>1. k \in 0..m /\ g[k] = f[k]
        BY <2>1, <2>3, <3>2
      <4>2. f[k] = IF k <= MaxKnown THEN k ELSE f[k - k \div 3]
        BY <2>2, <4>1 DEF Trims
      <4>3. ~(k <= MaxKnown) => k - k \div 3 \in 0..m
        BY <2>1, <2>4, <4>1
      <4>4. ~(k <= MaxKnown) => g[k - k \div 3] = f[k - k \div 3]
        BY <2>3, <4>3
      <4> QED
        BY <4>1, <4>2, <4>4
    <3> QED
      BY <3>1, <3>2
  <2>6. Trims(g, m + 1)
    BY <2>3, <2>5 DEF Trims
  <2> QED
    BY <2>1, <2>6
<1> HIDE DEF P
<1>3. P = Nat
  <2>1. P \in SUBSET Nat
    BY DEF P
  <2> QED
    BY <1>1, <1>2, <2>1, UpTo
<1> QED
  BY <1>3 DEF P

LEMMA TrimmedIsEnd ==
    ASSUME NEW s \in Seq(Nat)
    PROVE  Trimmed(s) \in Seq(Nat) /\ Range(Trimmed(s)) \subseteq Range(s)
<1> DEFINE n == Len(s)
           D(f) == f = [k \in 0..n |-> IF k <= MaxKnown THEN k ELSE f[k - k \div 3]]
           h == CHOOSE f : D(f)
<1>1. n \in Nat
  OBVIOUS
<1>2. Trimmed(s) = SubSeq(s, n - h[n] + 1, n)
  BY DEF Trimmed
<1>3. PICK f : Trims(f, n)
  BY <1>1, TrimmingExists
<1>4. \A k \in 0..n : ~(k <= MaxKnown) => k - k \div 3 \in 0..(k - 1)
  BY <1>1, Third, NumberAssumption
<1>5. D([k \in 0..n |-> f[k]])
  <2> DEFINE g == [k \in 0..n |-> f[k]]
  <2>1. DOMAIN g = 0..n /\ \A k \in 0..n : g[k] = f[k]
    OBVIOUS
  <2>2. \A k \in 0..n : ~(k <= MaxKnown) => k - k \div 3 \in 0..n
    BY <1>1, <1>4
  <2>3. \A k \in 0..n : g[k] = IF k <= MaxKnown THEN k ELSE g[k - k \div 3]
    BY <1>3, <2>1, <2>2 DEF Trims
  <2> QED
    BY <2>3
<1>6. D(h)
  BY <1>5
<1>7. \A k \in 0..n : h[k] = IF k <= MaxKnown THEN k ELSE h[k - k \div 3]
  BY <1>6
<1> HIDE DEF h
<1>8. \A k \in 0..n : h[k] \in 0..k
  <2> DEFINE B == {k \in 0..n : h[k] \notin 0..k}
  <2> SUFFICES ASSUME B # {} PROVE FALSE
    OBVIOUS
  <2>1. B \in SUBSET Nat
    BY <1>1
  <2>2. PICK k \in B : \A l \in B : k <= l
    BY <2>1, LeastNumber
  <2>3. k \in 0..n /\ h[k] \notin 0..k
    BY <2>2
  <2>4. ~(k <= MaxKnown)
    BY <1>1, <1>7, <2>3
  <2>5. k - k \div 3 \in 0..(k - 1) /\ h[k] = h[k - k \div 3]
    BY <1>4, <1>7, <2>3, <2>4
  <2>6. k - k \div 3 \in 0..n /\ ~(k <= k - k \div 3)
    BY <1>1, <2>3, <2>5
  <2>7. h[k - k \div 3] \in 0..(k - k \div 3)
    BY <2>2, <2>6
  <2> QED
    BY <1>1, <2>3, <2>5, <2>7
<1>9. h[n] \in 0..n
  BY <1>1, <1>8
<1>10. n - h[n] + 1 \in 1..(n + 1)
  BY <1>1, <1>9
<1> QED
  BY <1>2, <1>10, EndOf

-----------------------------------------------------------------------------
(* Payments and filters. *)

\* What is paid in one block has a bound, and so has what is paid in all blocks.
LEMMA SeqIsBounded ==
    ASSUME NEW s \in Seq(Nat)
    PROVE  \E b \in Nat : \A i \in DOMAIN s : s[i] <= b
<1> DEFINE P == {m \in Nat : m <= Len(s) => \E b \in Nat : \A i \in 1..m : s[i] <= b}
<1>1. 0 \in P
  OBVIOUS
<1>2. ASSUME NEW m \in P PROVE m + 1 \in P
  <2> SUFFICES ASSUME m + 1 <= Len(s) PROVE \E b \in Nat : \A i \in 1..(m + 1) : s[i] <= b
    OBVIOUS
  <2>1. m \in Nat /\ Len(s) \in Nat /\ s[m + 1] \in Nat /\ \A i \in 1..m : s[i] \in Nat
    OBVIOUS
  <2>2. PICK b \in Nat : \A i \in 1..m : s[i] <= b
    BY <2>1
  <2>3. \A i \in 1..(m + 1) : s[i] <= b + s[m + 1]
    BY <2>1, <2>2
  <2>4. b + s[m + 1] \in Nat
    BY <2>1
  <2> QED
    BY <2>3, <2>4
<1> HIDE DEF P
<1>3. P = Nat
  <2>1. P \in SUBSET Nat
    BY DEF P
  <2> QED
    BY <1>1, <1>2, <2>1, UpTo
<1>4. Len(s) \in Nat /\ Len(s) <= Len(s) /\ DOMAIN s = 1..Len(s)
  OBVIOUS
<1>5. Len(s) \in P
  BY <1>3, <1>4
<1> QED
  BY <1>4, <1>5 DEF P

LEMMA PaysAreNumbers ==
    ASSUME NEW h \in Blocks
    PROVE  /\ Pays[h] \in Seq(Nat) /\ Pays[h] \in Seq(Nat \ {0})
           /\ \A i \in DOMAIN Pays[h] : Pays[h][i] \in Txs /\ Pays[h][i] \in Nat
  BY ChainAssumption DEF Txs

LEMMA TxsAreBounded == \E n \in Nat : Txs \subseteq 0..n
<1> DEFINE P == {m \in Nat : m <= Top =>
                    \E b \in Nat : \A h \in 1..m : \A i \in DOMAIN Pays[h] : Pays[h][i] <= b}
<1>1. 0 \in P
  OBVIOUS
<1>2. ASSUME NEW m \in P PROVE m + 1 \in P
  <2> SUFFICES ASSUME m + 1 <= Top
               PROVE  \E b \in Nat : \A h \in 1..(m + 1) : \A i \in DOMAIN Pays[h] : Pays[h][i] <= b
    OBVIOUS
  <2>1. m \in Nat /\ Top \in Nat /\ m + 1 \in Blocks /\ 1..m \subseteq Blocks
    BY ChainAssumption DEF Blocks
  <2>2. PICK b \in Nat : \A h \in 1..m : \A i \in DOMAIN Pays[h] : Pays[h][i] <= b
    BY <2>1
  <2>3. PICK c \in Nat : \A i \in DOMAIN Pays[m + 1] : Pays[m + 1][i] <= c
    BY <2>1, PaysAreNumbers, SeqIsBounded
  <2>4. ASSUME NEW h \in 1..(m + 1), NEW i \in DOMAIN Pays[h] PROVE Pays[h][i] <= b + c
    <3>1. h \in Blocks
      BY <2>1
    <3>2. Pays[h][i] \in Nat
      BY <3>1, PaysAreNumbers
    <3>3. CASE h = m + 1
      <4>1. Pays[h][i] <= c
        BY <2>3, <3>3
      <4> QED
        BY <3>2, <4>1
    <3>4. CASE h # m + 1
      <4>1. h \in 1..m
        BY <2>1, <3>4
      <4>2. Pays[h][i] <= b
        BY <2>2, <4>1
      <4> QED
        BY <3>2, <4>2
    <3> QED
      BY <3>3, <3>4
  <2>5. b + c \in Nat
    OBVIOUS
  <2> QED
    BY <2>4, <2>5
<1> HIDE DEF P
<1>3. P = Nat
  <2>1. P \in SUBSET Nat
    BY DEF P
  <2> QED
    BY <1>1, <1>2, <2>1, UpTo
<1>4. Top \in Nat /\ Top <= Top
  BY ChainAssumption
<1>5. PICK b \in Nat : \A h \in 1..Top : \A i \in DOMAIN Pays[h] : Pays[h][i] <= b
  BY <1>3, <1>4 DEF P
<1>6. Txs \subseteq 0..b
  <2> SUFFICES ASSUME NEW t \in Txs PROVE t \in 0..b
    OBVIOUS
  <2>1. PICK h \in Blocks : \E i \in DOMAIN Pays[h] : t = Pays[h][i]
    BY DEF Txs
  <2>2. PICK i \in DOMAIN Pays[h] : t = Pays[h][i]
    BY <2>1
  <2> QED
    BY <1>5, <2>2, PaysAreNumbers DEF Blocks
<1> QED
  BY <1>6

LEMMA UsedIsLast ==
    ASSUME NEW txs \in SUBSET Txs
    PROVE  Used(txs) \in Nat /\ \A t \in txs : t \in Nat /\ t <= Used(txs)
<1>1. PICK n \in Nat : Txs \subseteq 0..n
  BY TxsAreBounded
<1>2. txs \cup {0} \in SUBSET (0..n) /\ txs \cup {0} # {}
  BY <1>1
<1> HIDE DEF Txs
<1>3. Max(txs \cup {0}) \in txs \cup {0} /\ \A y \in txs \cup {0} : y <= Max(txs \cup {0})
  BY <1>2, MaxIsElement
<1>4. Used(txs) = Max(txs \cup {0})
  BY DEF Used
<1>5. Used(txs) \in 0..n
  BY <1>2, <1>3, <1>4
<1>6. \A t \in txs : t \in 0..n /\ t <= Used(txs)
  BY <1>2, <1>3, <1>4
<1> QED
  BY <1>5, <1>6

\* A transaction is in one block.
LEMMA BlockOfTx ==
    ASSUME NEW t \in Txs
    PROVE  /\ BlockOf(t) \in Blocks /\ t \in Range(Pays[BlockOf(t)])
           /\ \A h \in Blocks : t \in Range(Pays[h]) => h = BlockOf(t)
<1>1. \E h \in Blocks : \E i \in DOMAIN Pays[h] : Pays[h][i] = t
  BY DEF Txs
<1>2. BlockOf(t) \in Blocks /\ \E i \in DOMAIN Pays[BlockOf(t)] : Pays[BlockOf(t)][i] = t
  BY <1>1 DEF BlockOf
<1> QED
  BY <1>2, PaidOnce DEF Range

LEMMA MatchedTxs ==
    ASSUME NEW h \in Blocks, NEW f
    PROVE  Matched(h, f) \subseteq Txs /\ \A t \in Matched(h, f) : t <= f /\ BlockOf(t) = h
<1>1. Matched(h, f) \subseteq Txs
  BY PaysAreNumbers DEF Matched, Range
<1> QED
  BY <1>1, BlockOfTx DEF Matched

\* When everything before a block is registered, a filter that is a gap limit ahead
\* matches everything in it.
LEMMA FilterMatchesAll ==
    ASSUME NEW h \in Blocks, NEW f \in Nat, NEW txs \in SUBSET Txs,
           \A g \in 1..(h - 1) : Range(Pays[g]) \subseteq txs,
           Matched(h, f) \subseteq txs,
           Used(txs) + Gap <= f
    PROVE  Range(Pays[h]) \subseteq txs /\ Matched(h, f) = Range(Pays[h])
<1> DEFINE s == Pays[h]
           Before(i) == {s[j] : j \in 1..(i - 1)} \cup UNION {{Pays[g][j] : j \in DOMAIN Pays[g]} : g \in 1..(h - 1)}
           P == {i \in Nat : \A j \in 1..i : j \in DOMAIN s => s[j] \in txs}
<1>1. s \in Seq(Nat) /\ \A i \in DOMAIN s : s[i] \in Txs /\ s[i] \in Nat
  BY PaysAreNumbers
<1>2. Used(txs) \in Nat /\ \A t \in txs : t \in Nat /\ t <= Used(txs)
  BY UsedIsLast
<1>3. 0 \in P
  OBVIOUS
<1>4. ASSUME NEW i \in P PROVE i + 1 \in P
  <2>1. i \in Nat /\ i + 1 \in Nat /\ \A j \in 1..i : j \in DOMAIN s => s[j] \in txs
    OBVIOUS
  <2> SUFFICES ASSUME i + 1 \in DOMAIN s PROVE s[i + 1] \in txs
    BY <2>1
  <2>2. s[i + 1] <= Gap + Max({0} \cup {s[j] : j \in 1..((i + 1) - 1)}
            \cup UNION {{Pays[g][j] : j \in DOMAIN Pays[g]} : g \in 1..(h - 1)})
    BY GapAssumption
  <2> DEFINE B == {0} \cup {s[j] : j \in 1..((i + 1) - 1)}
            \cup UNION {{Pays[g][j] : j \in DOMAIN Pays[g]} : g \in 1..(h - 1)}
  <2>3. B \subseteq {0} \cup txs
    <3>1. \A j \in 1..((i + 1) - 1) : j \in 1..i /\ j \in DOMAIN s
      BY <1>1, <2>1
    <3>2. \A g \in 1..(h - 1) : \A j \in DOMAIN Pays[g] : Pays[g][j] \in txs
      BY DEF Range
    <3> QED
      BY <2>1, <3>1, <3>2
  <2>4. PICK n \in Nat : Txs \subseteq 0..n
    BY TxsAreBounded
  <2>5. 0 \in B
    OBVIOUS
  <2> HIDE DEF B
  <2>6. B \in SUBSET (0..n) /\ B # {}
    BY <2>3, <2>4, <2>5
  <2>7. Max(B) \in B
    BY <2>6, MaxIsElement
  <2>8. Max(B) \in {0} \cup txs
    BY <2>3, <2>7
  <2>9. Max(B) \in Nat /\ Max(B) <= Used(txs)
    BY <1>2, <2>8
  <2>10. s[i + 1] \in Nat /\ s[i + 1] <= Gap + Max(B)
    BY <1>1, <2>2 DEF B
  <2>11. s[i + 1] <= f
    BY <1>2, <2>9, <2>10, NumberAssumption
  <2>12. s[i + 1] \in Matched(h, f)
    BY <2>11 DEF Matched, Range
  <2> QED
    BY <2>12
<1> HIDE DEF P
<1>5. P = Nat
  <2>1. P \in SUBSET Nat
    BY DEF P
  <2> QED
    BY <1>3, <1>4, <2>1, UpTo
<1>6. \A i \in DOMAIN s : s[i] \in txs
  <2> TAKE i \in DOMAIN s
  <2>1. i \in Nat /\ i \in 1..i
    BY <1>1
  <2> QED
    BY <1>5, <2>1 DEF P
<1>7. Range(Pays[h]) \subseteq txs
  BY <1>6 DEF Range
<1>8. \A t \in Range(Pays[h]) : t <= f
  BY <1>2, <1>7, NumberAssumption
<1> QED
  BY <1>7, <1>8 DEF Matched
-----------------------------------------------------------------------------
(* The order of the messages of a connection. *)

\* s asks for block h before its i-th message; s brings the merkleblock of h before it.
Asks(s, h, i)   == \E j \in 1..(i - 1) : s[j].type = "getdata" /\ h \in Range(s[j].blocks)
Brings(s, h, i) == \E j \in 1..(i - 1) : s[j].type = "merkleblock" /\ s[j].blocks[1] = h
Tells(s, h, i)  == \E j \in 1..(i - 1) : s[j].type = "inv" /\ h \in Range(s[j].blocks)
End(s) == Len(s) + 1

\* A transaction that is announced is in a block that nobody has spoken of yet.
IsAhead(t, i, known, is, os) ==
    LET h == BlockOf(t)
    IN  /\ h \notin Range(known)
        /\ ~ Asks(os, h, End(os)) /\ ~ Brings(is, h, End(is)) /\ ~ Tells(is, h, i)
Ahead(c, is, os) ==
    \A i \in DOMAIN is : is[i].type = "inv" =>
        \A t \in is[i].txs \ c.seen : IsAhead(t, i, c.known, is, os)

\* A transaction that is known from an inv arrives before its block does.
Arrives(t, is) ==
    \E i \in DOMAIN is : is[i].type = "tx" /\ t \in is[i].txs /\ ~ Brings(is, BlockOf(t), i)
Requested(t, os) ==
    \E i \in DOMAIN os : os[i].type = "getdata" /\ t \in os[i].txs /\ ~ Asks(os, BlockOf(t), i)
IsOnItsWay(t, c, is, os) ==
    \/ Arrives(t, is)
    \/ ~ Brings(is, BlockOf(t), End(is)) /\ (c.open => Requested(t, os))
SeenComes(c, is, os, txs) == \A t \in c.seen \ txs : IsOnItsWay(t, c, is, os)

-----------------------------------------------------------------------------
(* What is said and kept of blocks and transactions. *)

\* A block is a header or what its filter has matched.
IsBlock(b, g) ==
    /\ b \in BlockType
    /\ b.filter = None => b.txs = {}
    /\ b.filter # None => b.height \in Blocks /\ b.filter <= g /\ b.txs = Matched(b.height, b.filter)

Types == {"inv", "getblocks", "getheaders", "headers", "getdata", "merkleblock", "tx", "filterload",
          "ping", "pong"}
Callbacks == {"updateFilterPingDone", "updateFilterLoadDone", "updateFilterRerequestDone"}
Call == {<<>>} \cup (Callbacks \X Peer)
MessageType == [type : Types, blocks : Seq(Nat), txs : SUBSET Txs, call : Call]
RemoteType == [filter : Nat, continue : Nat, told : SUBSET Txs]

\* A message to a peer that has b blocks, of a wallet with g addresses.
IsSent(m, b, g) ==
    /\ m.type \in {"getblocks", "getheaders", "filterload"} => m.blocks # <<>>
    /\ m.type = "filterload" => m.blocks[1] <= g
    /\ m.type = "getdata" => Range(m.blocks) \subseteq 1..b /\ \A t \in m.txs : t <= g

\* A message from such a peer.
IsReply(m, b, g) ==
    /\ m.type \in {"inv", "headers"} => Range(m.blocks) \subseteq 1..b
    /\ m.type = "inv" => \/ m.txs = {}
                         \/ m.blocks = <<>> /\ \E t \in Txs : t <= g /\ m.txs = {t}
    /\ m.type = "merkleblock" =>
          /\ Len(m.blocks) = 2 /\ m.blocks[1] \in 1..b /\ m.blocks[2] <= g
          /\ m.txs = Matched(m.blocks[1], m.blocks[2])
    /\ m.type \in {"inv", "tx"} => m.call = <<>>

ContextType ==
    [connected : BOOLEAN, open : BOOLEAN, last : 0..Top, sentFilter : BOOLEAN, known : Seq(Nat),
     newest : Nat, block : BlockType, missing : SUBSET Txs, seen : SUBSET Txs, update : BOOLEAN,
     relay : Seq(BlockType)]

IsContext(c, b, g, txs) ==
    /\ c \in ContextType
    /\ Range(c.known) \subseteq 1..b
    /\ \A t \in c.seen : t <= g
    /\ IsBlock(c.block, g) /\ c.missing \subseteq c.block.txs /\ c.block.txs \ c.missing \subseteq txs
    /\ c.missing = {} => c.block = NoBlock
    /\ \A i \in DOMAIN c.relay : IsBlock(c.relay[i], g) /\ c.relay[i].txs \subseteq txs

\* A connection: its context, the messages in and out, the filter of the peer.
IsConnection(c, is, os, r, b, g, txs) ==
    /\ IsContext(c, b, g, txs)
    /\ is \in Seq(MessageType) /\ \A i \in DOMAIN is : IsReply(is[i], b, g)
    /\ os \in Seq(MessageType) /\ \A i \in DOMAIN os : IsSent(os[i], b, g)
    /\ r.filter \in 0..g
    /\ ~ c.open => Len(is) <= 1
    /\ ~ c.connected => c = NoContext /\ is = <<>> /\ os = <<>>
    /\ Ahead(c, is, os)
    /\ SeenComes(c, is, os, txs)

Connections ==
    \A p \in Peer : IsConnection(ctx[p], in[p], out[p], remote[p], best[p], generated, registered)

Typed ==
    /\ lastBlock \in 0..Top /\ estimated \in 0..Top /\ lastOrphan \in 0..Top
    /\ filter \in Nat \cup {None} /\ generated \in Nat
    /\ downloadPeer \in Peer \cup {None}
    /\ registered \subseteq Txs /\ confirmed \subseteq registered
    /\ ctx \in [Peer -> ContextType]
    /\ in \in [Peer -> Seq(MessageType)] /\ out \in [Peer -> Seq(MessageType)]
    /\ best \in [Peer -> 0..Top]
    /\ remote \in [Peer -> RemoteType]
    /\ stray \in BOOLEAN

\* bloomFilter is ahead of the addresses in use, and orphans were matched with one that exists.
FilterIsAhead == filter # None => filter <= generated /\ Used(registered) + Gap <= filter
OrphansAreBlocks == \A o \in orphans : IsBlock(o, generated) /\ o.txs \subseteq registered
DownloadPeerIsConnected == downloadPeer # None => ctx[downloadPeer].connected

IInv ==
    /\ Typed /\ FilterIsAhead /\ OrphansAreBlocks /\ DownloadPeerIsConnected
    /\ Connections
    /\ NoTxMissed

-----------------------------------------------------------------------------
(* Messages that are appended and taken. *)

LEMMA Joined ==
    ASSUME NEW s \in Seq(MessageType), NEW u \in Seq(MessageType)
    PROVE  /\ s \o u \in Seq(MessageType) /\ Len(s \o u) = Len(s) + Len(u)
           /\ \A i \in 1..Len(s) : (s \o u)[i] = s[i]
           /\ \A i \in 1..Len(s \o u) :
                i \notin 1..Len(s) => i - Len(s) \in 1..Len(u) /\ (s \o u)[i] = u[i - Len(s)]
           /\ \A i \in 1..Len(u) :
                i + Len(s) \in 1..Len(s \o u) /\ (s \o u)[i + Len(s)] = u[i]
  OBVIOUS

LEMMA Rest ==
    ASSUME NEW s \in Seq(MessageType), s # <<>>
    PROVE  /\ Tail(s) \in Seq(MessageType) /\ Len(s) \in Nat \ {0} /\ Len(Tail(s)) = Len(s) - 1
           /\ s[1] \in MessageType /\ Head(s) = s[1]
           /\ \A i \in 1..Len(Tail(s)) : Tail(s)[i] = s[i + 1] /\ i + 1 \in 1..Len(s)
           /\ \A i \in 1..Len(s) : i # 1 => i - 1 \in 1..Len(Tail(s)) /\ Tail(s)[i - 1] = s[i]
  OBVIOUS

LEMMA JoinedOrder ==
    ASSUME NEW s \in Seq(MessageType), NEW u \in Seq(MessageType), NEW h, NEW i \in 1..End(s)
    PROVE  /\ Asks(s \o u, h, i) <=> Asks(s, h, i)
           /\ Brings(s \o u, h, i) <=> Brings(s, h, i)
           /\ Tells(s \o u, h, i) <=> Tells(s, h, i)
<1>1. Len(s) \in Nat /\ \A j \in 1..(i - 1) : j \in 1..Len(s)
  BY DEF End
<1>2. \A j \in 1..(i - 1) : (s \o u)[j] = s[j]
  BY <1>1, Joined
<1> QED
  BY <1>2 DEF Asks, Brings, Tells

LEMMA JoinedEnd ==
    ASSUME NEW s \in Seq(MessageType), NEW u \in Seq(MessageType), NEW h
    PROVE  /\ Asks(s \o u, h, End(s \o u)) <=> Asks(s, h, End(s)) \/ Asks(u, h, End(u))
           /\ Brings(s \o u, h, End(s \o u)) <=> Brings(s, h, End(s)) \/ Brings(u, h, End(u))
<1>1. Len(s) \in Nat /\ Len(u) \in Nat /\ Len(s \o u) = Len(s) + Len(u)
  BY Joined
<1>2. /\ 1..(End(s \o u) - 1) = 1..Len(s \o u)
      /\ 1..(End(s) - 1) = 1..Len(s) /\ 1..(End(u) - 1) = 1..Len(u)
  BY <1>1 DEF End
<1> DEFINE w == s \o u
<1>3. \A j \in 1..Len(s) : j \in 1..Len(w) /\ w[j] = s[j]
  BY <1>1, Joined
<1>4. \A j \in 1..Len(u) : \E k \in 1..Len(w) : w[k] = u[j]
  <2> TAKE j \in 1..Len(u)
  <2>1. j + Len(s) \in 1..Len(w) /\ w[j + Len(s)] = u[j]
    BY Joined
  <2> QED
    BY <2>1
<1>5. \A j \in 1..Len(w) : (j \in 1..Len(s) /\ w[j] = s[j]) \/ \E k \in 1..Len(u) : w[j] = u[k]
  BY <1>1, Joined
<1>6. 1..(End(w) - 1) = 1..Len(w)
  BY <1>2
<1> HIDE DEF w
<1>7. Asks(w, h, End(w)) <=> Asks(s, h, End(s)) \/ Asks(u, h, End(u))
  BY <1>2, <1>3, <1>4, <1>5, <1>6 DEF Asks
<1>8. Brings(w, h, End(w)) => Brings(s, h, End(s)) \/ Brings(u, h, End(u))
  BY <1>2, <1>5, <1>6 DEF Brings
<1>9. Brings(s, h, End(s)) => Brings(w, h, End(w))
  BY <1>2, <1>3, <1>6 DEF Brings
<1>10. Brings(u, h, End(u)) => Brings(w, h, End(w))
  BY <1>2, <1>4, <1>6 DEF Brings
<1> QED
  BY <1>7, <1>8, <1>9, <1>10 DEF w

LEMMA RestOrder ==
    ASSUME NEW s \in Seq(MessageType), s # <<>>, NEW h, NEW i \in 1..End(Tail(s))
    PROVE  /\ Asks(Tail(s), h, i) => Asks(s, h, i + 1)
           /\ Brings(Tail(s), h, i) => Brings(s, h, i + 1)
           /\ Tells(Tail(s), h, i) => Tells(s, h, i + 1)
           /\ i + 1 \in 1..End(s) /\ End(Tail(s)) + 1 = End(s)
           /\ s[1].type = "getdata" /\ h \in Range(s[1].blocks) => Asks(s, h, i + 1)
           /\ s[1].type = "merkleblock" /\ s[1].blocks[1] = h => Brings(s, h, i + 1)
           /\ s[1].type = "inv" /\ h \in Range(s[1].blocks) => Tells(s, h, i + 1)
<1>1. Len(s) \in Nat \ {0} /\ Len(Tail(s)) = Len(s) - 1 /\ i \in Nat \ {0}
  BY Rest DEF End
<1>2. \A j \in 1..(i - 1) : j + 1 \in 1..((i + 1) - 1) /\ Tail(s)[j] = s[j + 1]
  <2>1. \A j \in 1..(i - 1) : j \in 1..Len(Tail(s)) /\ j + 1 \in 1..((i + 1) - 1)
    BY <1>1 DEF End
  <2> QED
    BY <2>1, Rest
<1>3. 1 \in 1..((i + 1) - 1)
  BY <1>1
<1>4. i + 1 \in 1..End(s) /\ End(Tail(s)) + 1 = End(s)
  BY <1>1 DEF End
<1>5. /\ Asks(Tail(s), h, i) => Asks(s, h, i + 1)
      /\ s[1].type = "getdata" /\ h \in Range(s[1].blocks) => Asks(s, h, i + 1)
  BY <1>2, <1>3 DEF Asks
<1>6. /\ Brings(Tail(s), h, i) => Brings(s, h, i + 1)
      /\ s[1].type = "merkleblock" /\ s[1].blocks[1] = h => Brings(s, h, i + 1)
  BY <1>2, <1>3 DEF Brings
<1>7. /\ Tells(Tail(s), h, i) => Tells(s, h, i + 1)
      /\ s[1].type = "inv" /\ h \in Range(s[1].blocks) => Tells(s, h, i + 1)
  BY <1>2, <1>3 DEF Tells
<1> QED
  BY <1>4, <1>5, <1>6, <1>7

-----------------------------------------------------------------------------
(* What keeps the order. *)

\* A getdata that is sent asks for blocks that are known.
AsksKnown(ms, known) ==
    \A i \in DOMAIN ms : ms[i].type = "getdata" => Range(ms[i].blocks) \subseteq Range(known)

LEMMA AheadSends ==
    ASSUME NEW c, NEW is, NEW os \in Seq(MessageType), NEW ms \in Seq(MessageType),
           Ahead(c, is, os), AsksKnown(ms, c.known)
    PROVE  Ahead(c, is, os \o ms)
<1> SUFFICES ASSUME NEW i \in DOMAIN is, is[i].type = "inv", NEW t \in is[i].txs \ c.seen
             PROVE  IsAhead(t, i, c.known, is, os \o ms)
  BY DEF Ahead
<1> DEFINE h == BlockOf(t)
<1>1. h \notin Range(c.known) /\ ~Asks(os, h, End(os)) /\ ~Brings(is, h, End(is)) /\ ~Tells(is, h, i)
  BY DEF Ahead, IsAhead
<1>2. ~Asks(ms, h, End(ms))
  <2>1. \A j \in 1..(End(ms) - 1) : j \in DOMAIN ms
    BY DEF End
  <2> QED
    BY <1>1, <2>1 DEF Asks, AsksKnown
<1>3. ~Asks(os \o ms, h, End(os \o ms))
  BY <1>1, <1>2, JoinedEnd
<1> QED
  BY <1>1, <1>3 DEF IsAhead

LEMMA SeenSends ==
    ASSUME NEW c, NEW is, NEW os \in Seq(MessageType), NEW ms \in Seq(MessageType), NEW txs,
           SeenComes(c, is, os, txs)
    PROVE  SeenComes(c, is, os \o ms, txs)
<1> SUFFICES ASSUME NEW t \in c.seen \ txs, Requested(t, os) PROVE Requested(t, os \o ms)
  BY DEF SeenComes, IsOnItsWay
<1>1. PICK i \in DOMAIN os : os[i].type = "getdata" /\ t \in os[i].txs /\ ~Asks(os, BlockOf(t), i)
  BY DEF Requested
<1>2. i \in 1..End(os) /\ i \in 1..Len(os) /\ Len(os) \in Nat
  BY DEF End
<1>3. (os \o ms)[i] = os[i] /\ ~Asks(os \o ms, BlockOf(t), i)
  BY <1>1, <1>2, Joined, JoinedOrder
<1>4. i \in DOMAIN (os \o ms)
  BY <1>2, Joined
<1> QED
  BY <1>1, <1>3, <1>4 DEF Requested

\* The first message is taken, and it is no inv.
LEMMA AheadTakes ==
    ASSUME NEW c, NEW is \in Seq(MessageType), is # <<>>, NEW os, Ahead(c, is, os)
    PROVE  Ahead(c, Tail(is), os)
<1> SUFFICES ASSUME NEW i \in DOMAIN Tail(is), Tail(is)[i].type = "inv", NEW t \in Tail(is)[i].txs \ c.seen
             PROVE  IsAhead(t, i, c.known, Tail(is), os)
  BY DEF Ahead
<1> DEFINE h == BlockOf(t)
<1>1. i \in 1..Len(Tail(is)) /\ Len(Tail(is)) \in Nat
  BY Rest
<1>2. Tail(is)[i] = is[i + 1] /\ i + 1 \in DOMAIN is
  BY <1>1, Rest
<1>3. h \notin Range(c.known) /\ ~Asks(os, h, End(os)) /\ ~Brings(is, h, End(is)) /\ ~Tells(is, h, i + 1)
  BY <1>2 DEF Ahead, IsAhead
<1>4. i \in 1..End(Tail(is)) /\ End(Tail(is)) \in 1..End(Tail(is))
  BY <1>1 DEF End
<1>5. ~Tells(Tail(is), h, i)
  BY <1>3, <1>4, RestOrder
<1>6. ~Brings(Tail(is), h, End(Tail(is)))
  BY <1>3, <1>4, RestOrder
<1> QED
  BY <1>3, <1>5, <1>6 DEF IsAhead

LEMMA SeenTakes ==
    ASSUME NEW c, NEW is \in Seq(MessageType), is # <<>>, NEW os, NEW txs, NEW more,
           SeenComes(c, is, os, txs), txs \subseteq more,
           is[1].type = "tx" => is[1].txs \cap c.seen \subseteq more
    PROVE  SeenComes(c, Tail(is), os, more)
<1> SUFFICES ASSUME NEW t \in c.seen \ more PROVE IsOnItsWay(t, c, Tail(is), os)
  BY DEF SeenComes
<1> DEFINE h == BlockOf(t)
<1>1. Len(Tail(is)) \in Nat /\ End(Tail(is)) \in 1..End(Tail(is))
  BY Rest DEF End
<1>2. CASE Arrives(t, is)
  <2>1. PICK i \in DOMAIN is : is[i].type = "tx" /\ t \in is[i].txs /\ ~Brings(is, h, i)
    BY <1>2 DEF Arrives
  <2>2. i # 1 /\ i \in 1..Len(is) /\ Len(is) \in Nat
    BY <2>1
  <2>3. i - 1 \in 1..Len(Tail(is)) /\ Tail(is)[i - 1] = is[i]
    BY <2>2, Rest
  <2>4. i - 1 \in 1..End(Tail(is)) /\ (i - 1) + 1 = i
    BY <1>1, <2>2, <2>3 DEF End
  <2>5. ~Brings(Tail(is), h, i - 1)
    BY <2>1, <2>4, RestOrder
  <2>6. i - 1 \in DOMAIN Tail(is)
    BY <2>3, Rest
  <2> QED
    BY <2>1, <2>3, <2>5, <2>6 DEF IsOnItsWay, Arrives
<1>3. CASE ~Arrives(t, is)
  <2>1. ~Brings(is, h, End(is)) /\ (c.open => Requested(t, os))
    BY <1>3 DEF SeenComes, IsOnItsWay
  <2>2. ~Brings(Tail(is), h, End(Tail(is)))
    BY <1>1, <2>1, RestOrder
  <2> QED
    BY <2>1, <2>2 DEF IsOnItsWay
<1> QED
  BY <1>2, <1>3

\* A merkleblock does not come before the transactions that are known.
LEMMA SeenIsThere ==
    ASSUME NEW c, NEW is \in Seq(MessageType), is # <<>>, NEW os, NEW txs,
           SeenComes(c, is, os, txs), is[1].type = "merkleblock",
           NEW t \in c.seen, BlockOf(t) = is[1].blocks[1]
    PROVE  t \in txs
<1> SUFFICES ASSUME t \notin txs PROVE FALSE
  OBVIOUS
<1> DEFINE h == BlockOf(t)
<1>1. Len(is) \in Nat \ {0} /\ 1 \in 1..(End(is) - 1)
  BY Rest DEF End
<1>2. Brings(is, h, End(is))
  BY <1>1 DEF Brings
<1>3. PICK i \in DOMAIN is : is[i].type = "tx" /\ t \in is[i].txs /\ ~Brings(is, h, i)
  BY <1>2 DEF SeenComes, IsOnItsWay, Arrives
<1>4. i # 1 /\ i \in 1..Len(is)
  BY <1>3
<1>5. 1 \in 1..(i - 1)
  BY <1>1, <1>4
<1> QED
  BY <1>3, <1>5 DEF Brings

\* The context changes in what the order does not depend on, or the socket is shut.
LEMMA AheadOfOther ==
    ASSUME NEW c, NEW d, NEW is, NEW os, Ahead(c, is, os),
           Range(d.known) \subseteq Range(c.known), c.seen \subseteq d.seen
    PROVE  Ahead(d, is, os)
  BY DEF Ahead, IsAhead

LEMMA SeenOfOther ==
    ASSUME NEW c, NEW d, NEW is, NEW os, NEW txs, SeenComes(c, is, os, txs),
           d.seen \subseteq c.seen, d.open => c.open
    PROVE  SeenComes(d, is, os, txs)
  BY DEF SeenComes, IsOnItsWay

\* The first message is an inv: what it announces becomes known, and is asked for with
\* the first message that is sent.
LEMMA AheadInv ==
    ASSUME NEW c, NEW d, NEW is \in Seq(MessageType), is # <<>>, is[1].type = "inv",
           NEW os \in Seq(MessageType), NEW ms \in Seq(MessageType), Ahead(c, is, os),
           d.seen = c.seen \cup is[1].txs,
           Range(d.known) \subseteq Range(c.known) \cup Range(is[1].blocks),
           AsksKnown(ms, is[1].blocks)
    PROVE  Ahead(d, Tail(is), os \o ms) /\ Ahead(d, Tail(is), os)
<1> SUFFICES ASSUME NEW i \in DOMAIN Tail(is), Tail(is)[i].type = "inv", NEW t \in Tail(is)[i].txs \ d.seen
             PROVE  IsAhead(t, i, d.known, Tail(is), os \o ms) /\ IsAhead(t, i, d.known, Tail(is), os)
  BY DEF Ahead
<1> DEFINE h == BlockOf(t)
<1>1. i \in 1..Len(Tail(is)) /\ Len(Tail(is)) \in Nat
  BY Rest
<1>2. Tail(is)[i] = is[i + 1] /\ i + 1 \in DOMAIN is
  BY <1>1, Rest
<1>3. h \notin Range(c.known) /\ ~Asks(os, h, End(os)) /\ ~Brings(is, h, End(is)) /\ ~Tells(is, h, i + 1)
  BY <1>2 DEF Ahead, IsAhead
<1>4. i \in 1..End(Tail(is)) /\ End(Tail(is)) \in 1..End(Tail(is))
  BY <1>1 DEF End
<1>5. ~Tells(Tail(is), h, i) /\ h \notin Range(is[1].blocks)
  BY <1>3, <1>4, RestOrder
<1>6. ~Brings(Tail(is), h, End(Tail(is)))
  BY <1>3, <1>4, RestOrder
<1>7. ~Asks(ms, h, End(ms))
  <2>1. \A j \in 1..(End(ms) - 1) : j \in DOMAIN ms
    BY DEF End
  <2> QED
    BY <1>5, <2>1 DEF Asks, AsksKnown
<1>8. ~Asks(os \o ms, h, End(os \o ms))
  BY <1>3, <1>7, JoinedEnd
<1>9. h \notin Range(d.known)
  BY <1>3, <1>5
<1> QED
  BY <1>3, <1>5, <1>6, <1>8, <1>9 DEF IsAhead

LEMMA SeenInv ==
    ASSUME NEW c, NEW d, NEW is \in Seq(MessageType), is # <<>>, is[1].type = "inv",
           NEW os \in Seq(MessageType), NEW ms \in Seq(MessageType), NEW txs,
           Ahead(c, is, os), SeenComes(c, is, os, txs),
           d.seen = c.seen \cup is[1].txs, d.open = c.open,
           is[1].txs \ c.seen # {} =>
               ms # <<>> /\ ms[1].type = "getdata" /\ ms[1].txs = is[1].txs \ c.seen
    PROVE  SeenComes(d, Tail(is), IF d.open THEN os \o ms ELSE os, txs)
<1> DEFINE to == IF d.open THEN os \o ms ELSE os
<1> SUFFICES ASSUME NEW t \in d.seen \ txs PROVE IsOnItsWay(t, d, Tail(is), to)
  BY DEF SeenComes
<1> DEFINE h == BlockOf(t)
<1>1. CASE t \in c.seen
  <2>1. SeenComes(c, Tail(is), os, txs)
    BY SeenTakes
  <2>2. SeenComes(c, Tail(is), os \o ms, txs)
    BY <2>1, SeenSends, Rest
  <2>3. SeenComes(c, Tail(is), to, txs)
    BY <2>1, <2>2
  <2>4. IsOnItsWay(t, c, Tail(is), to)
    BY <1>1, <2>3 DEF SeenComes
  <2> QED
    BY <2>4 DEF IsOnItsWay
<1>2. CASE t \notin c.seen
  <2>1. t \in is[1].txs \ c.seen /\ 1 \in DOMAIN is
    BY <1>2
  <2>2. ~Asks(os, h, End(os)) /\ ~Brings(is, h, End(is))
    BY <2>1 DEF Ahead, IsAhead
  <2>3. End(Tail(is)) \in 1..End(Tail(is))
    BY Rest DEF End
  <2>4. ~Brings(Tail(is), h, End(Tail(is)))
    BY <2>2, <2>3, RestOrder
  <2>5. ASSUME d.open PROVE Requested(t, os \o ms)
    <3> DEFINE k == 1 + Len(os)
    <3>1. ms # <<>> /\ ms[1].type = "getdata" /\ t \in ms[1].txs
      BY <2>1
    <3>2. 1 \in 1..Len(ms) /\ Len(os) \in Nat
      BY <3>1
    <3>3. k \in 1..Len(os \o ms) /\ (os \o ms)[k] = ms[1]
      BY <3>2, Joined
    <3>4. k = End(os) /\ k \in 1..End(os)
      BY <3>2 DEF End
    <3>5. ~Asks(os \o ms, h, k)
      BY <2>2, <3>4, JoinedOrder
    <3>6. k \in DOMAIN (os \o ms)
      BY <3>3, Joined
    <3> QED
      BY <3>1, <3>3, <3>5, <3>6 DEF Requested
  <2> QED
    BY <2>4, <2>5 DEF IsOnItsWay
<1> QED
  BY <1>1, <1>2

\* The peer says something by itself.
LEMMA HearsKeepsOrder ==
    ASSUME NEW c, NEW is \in Seq(MessageType), NEW os, NEW m \in MessageType, NEW txs,
           m.type = "inv", Ahead(c, is, os), SeenComes(c, is, os, txs),
           \A t \in m.txs \ c.seen : IsAhead(t, End(is), c.known, is, os)
    PROVE  Ahead(c, is \o <<m>>, os) /\ SeenComes(c, is \o <<m>>, os, txs)
<1> DEFINE ms == <<m>>
           w  == is \o ms
<1>1. ms \in Seq(MessageType) /\ Len(ms) = 1 /\ ms[1] = m
  OBVIOUS
<1>2. Len(is) \in Nat /\ End(is) \in 1..End(is) /\ End(is) = Len(is) + 1
  BY DEF End
<1>3. w \in Seq(MessageType) /\ Len(w) = Len(is) + 1 /\ w[Len(is) + 1] = m
      /\ \A i \in 1..Len(is) : w[i] = is[i]
  BY <1>1, <1>2, Joined
<1>4. \A h : ~Brings(ms, h, End(ms))
  <2>1. \A j \in 1..(End(ms) - 1) : ms[j] = m
    BY <1>1 DEF End
  <2> QED
    BY <2>1 DEF Brings
<1>5. \A h : Brings(w, h, End(w)) => Brings(is, h, End(is))
  BY <1>1, <1>4, JoinedEnd
<1>6. \A h : \A i \in 1..End(is) : /\ Brings(w, h, i) => Brings(is, h, i)
                                   /\ Tells(w, h, i) => Tells(is, h, i)
  BY <1>1, JoinedOrder
<1> HIDE DEF w
<1>7. Ahead(c, w, os)
  <2> SUFFICES ASSUME NEW i \in DOMAIN w, w[i].type = "inv", NEW t \in w[i].txs \ c.seen
               PROVE  IsAhead(t, i, c.known, w, os)
    BY DEF Ahead
  <2>1. CASE i \in 1..Len(is)
    <3>1. i \in DOMAIN is /\ w[i] = is[i] /\ i \in 1..End(is)
      BY <1>2, <1>3, <2>1
    <3>2. IsAhead(t, i, c.known, is, os)
      BY <3>1 DEF Ahead
    <3> QED
      BY <1>5, <1>6, <3>1, <3>2 DEF IsAhead
  <2>2. CASE i \notin 1..Len(is)
    <3>1. i = End(is)
      BY <1>2, <1>3, <2>2
    <3>2. IsAhead(t, End(is), c.known, is, os)
      BY <1>2, <1>3, <3>1
    <3> QED
      BY <1>2, <1>5, <1>6, <3>1, <3>2 DEF IsAhead
  <2> QED
    BY <2>1, <2>2
<1>8. SeenComes(c, w, os, txs)
  <2> SUFFICES ASSUME NEW t \in c.seen \ txs PROVE IsOnItsWay(t, c, w, os)
    BY DEF SeenComes
  <2>1. CASE Arrives(t, is)
    <3>1. PICK i \in DOMAIN is : is[i].type = "tx" /\ t \in is[i].txs /\ ~Brings(is, BlockOf(t), i)
      BY <2>1 DEF Arrives
    <3>2. i \in 1..Len(is) /\ i \in 1..End(is) /\ i \in DOMAIN w /\ w[i] = is[i]
      BY <1>2, <1>3
    <3> QED
      BY <1>6, <3>1, <3>2 DEF IsOnItsWay, Arrives
  <2>2. CASE ~Arrives(t, is)
    BY <1>5, <2>2 DEF SeenComes, IsOnItsWay
  <2> QED
    BY <2>1, <2>2
<1> QED
  BY <1>7, <1>8 DEF w

\* What a peer answers to the message m.
Answers(rs, m) ==
    /\ rs \in Seq(MessageType)
    /\ \A i \in DOMAIN rs :
          /\ rs[i].type = "inv" => rs[i].txs = {}
          /\ rs[i].type = "merkleblock" => m.type = "getdata" /\ rs[i].blocks[1] \in Range(m.blocks)
    /\ m.type = "getdata" /\ m.txs # {} => rs # <<>> /\ rs[1].type = "tx" /\ rs[1].txs = m.txs

LEMMA AnswersBring ==
    ASSUME NEW rs, NEW os \in Seq(MessageType), os # <<>>, Answers(rs, os[1]), NEW h,
           NEW i \in 1..End(Tail(os)), ~Asks(os, h, i + 1)
    PROVE  ~Brings(rs, h, End(rs)) /\ ~Asks(Tail(os), h, i)
<1>1. ~Asks(Tail(os), h, i) /\ ~(os[1].type = "getdata" /\ h \in Range(os[1].blocks))
  BY RestOrder
<1>2. rs \in Seq(MessageType) /\ \A j \in 1..(End(rs) - 1) : j \in DOMAIN rs
  BY DEF Answers, End
<1>3. ~Brings(rs, h, End(rs))
  BY <1>1, <1>2 DEF Brings, Answers
<1> QED
  BY <1>1, <1>3

LEMMA AheadAnswers ==
    ASSUME NEW c, NEW is \in Seq(MessageType), NEW os \in Seq(MessageType), os # <<>>, NEW rs,
           Answers(rs, os[1]), Ahead(c, is, os)
    PROVE  Ahead(c, is \o rs, Tail(os))
<1> DEFINE w == is \o rs
<1>1. rs \in Seq(MessageType) /\ Len(is) \in Nat
  BY DEF Answers
<1> SUFFICES ASSUME NEW i \in DOMAIN w, w[i].type = "inv", NEW t \in w[i].txs \ c.seen
             PROVE  IsAhead(t, i, c.known, w, Tail(os))
  BY DEF Ahead
<1> DEFINE h == BlockOf(t)
<1>2. i \in 1..Len(w)
  BY <1>1, Joined
<1>3. CASE i \in 1..Len(is)
  <2>1. i \in DOMAIN is /\ w[i] = is[i] /\ i \in 1..End(is) /\ End(is) \in 1..End(is)
    BY <1>1, <1>3, Joined DEF End
  <2>2. h \notin Range(c.known) /\ ~Asks(os, h, End(os)) /\ ~Brings(is, h, End(is)) /\ ~Tells(is, h, i)
    BY <2>1 DEF Ahead, IsAhead
  <2>3. End(Tail(os)) \in 1..End(Tail(os)) /\ End(Tail(os)) + 1 = End(os)
    BY Rest DEF End
  <2>4. ~Brings(rs, h, End(rs)) /\ ~Asks(Tail(os), h, End(Tail(os)))
    BY <2>2, <2>3, AnswersBring
  <2>5. ~Brings(w, h, End(w))
    BY <1>1, <2>2, <2>4, JoinedEnd
  <2>6. ~Tells(w, h, i)
    BY <1>1, <2>1, <2>2, JoinedOrder
  <2> QED
    BY <2>2, <2>4, <2>5, <2>6 DEF IsAhead
<1>4. CASE i \notin 1..Len(is)
  <2>1. i - Len(is) \in 1..Len(rs) /\ w[i] = rs[i - Len(is)]
    BY <1>1, <1>2, <1>4, Joined
  <2>2. rs[i - Len(is)].txs = {}
    BY <1>1, <2>1 DEF Answers
  <2> QED
    BY <2>1, <2>2
<1> QED
  BY <1>3, <1>4

LEMMA SeenAnswers ==
    ASSUME NEW c, NEW is \in Seq(MessageType), NEW os \in Seq(MessageType), os # <<>>, NEW rs, NEW txs,
           c.open, Answers(rs, os[1]), SeenComes(c, is, os, txs)
    PROVE  SeenComes(c, is \o rs, Tail(os), txs)
<1> DEFINE w == is \o rs
<1>1. rs \in Seq(MessageType) /\ Len(is) \in Nat
  BY DEF Answers
<1> SUFFICES ASSUME NEW t \in c.seen \ txs PROVE IsOnItsWay(t, c, w, Tail(os))
  BY DEF SeenComes
<1> DEFINE h == BlockOf(t)
<1>2. CASE Arrives(t, is)
  <2>1. PICK i \in DOMAIN is : is[i].type = "tx" /\ t \in is[i].txs /\ ~Brings(is, h, i)
    BY <1>2 DEF Arrives
  <2>2. i \in 1..Len(is) /\ i \in 1..End(is)
    BY <1>1 DEF End
  <2>3. i \in DOMAIN w /\ w[i] = is[i] /\ ~Brings(w, h, i)
    BY <1>1, <2>1, <2>2, Joined, JoinedOrder
  <2> QED
    BY <2>1, <2>3 DEF IsOnItsWay, Arrives
<1>3. CASE ~Arrives(t, is)
  <2>1. ~Brings(is, h, End(is)) /\ Requested(t, os)
    BY <1>3 DEF SeenComes, IsOnItsWay
  <2>2. PICK i \in DOMAIN os : os[i].type = "getdata" /\ t \in os[i].txs /\ ~Asks(os, h, i)
    BY <2>1 DEF Requested
  <2>3. CASE i = 1
    <3> DEFINE k == 1 + Len(is)
    <3>1. rs # <<>> /\ rs[1].type = "tx" /\ t \in rs[1].txs
      BY <2>2, <2>3 DEF Answers
    <3>2. 1 \in 1..Len(rs)
      BY <1>1, <3>1
    <3>3. k \in 1..Len(w) /\ w[k] = rs[1]
      BY <1>1, <3>2, Joined
    <3>4. k = End(is) /\ k \in 1..End(is)
      BY <1>1 DEF End
    <3>5. ~Brings(w, h, k)
      BY <1>1, <2>1, <3>4, JoinedOrder
    <3>6. k \in DOMAIN w
      BY <1>1, <3>3, Joined
    <3> QED
      BY <3>1, <3>3, <3>5, <3>6 DEF IsOnItsWay, Arrives
  <2>4. CASE i # 1
    <3>1. i \in 1..Len(os) /\ Len(os) \in Nat
      OBVIOUS
    <3>2. i - 1 \in 1..Len(Tail(os)) /\ Tail(os)[i - 1] = os[i]
      BY <2>4, <3>1, Rest
    <3>3. i - 1 \in 1..End(Tail(os)) /\ (i - 1) + 1 = i
      BY <3>1, <3>2, Rest DEF End
    <3>4. ~Brings(rs, h, End(rs)) /\ ~Asks(Tail(os), h, i - 1)
      BY <2>2, <3>3, AnswersBring
    <3>5. ~Brings(w, h, End(w))
      BY <1>1, <2>1, <3>4, JoinedEnd
    <3>6. i - 1 \in DOMAIN Tail(os)
      BY <3>2, Rest
    <3>7. Requested(t, Tail(os))
      BY <2>2, <3>2, <3>4, <3>6 DEF Requested
    <3> QED
      BY <3>5, <3>7 DEF IsOnItsWay
  <2> QED
    BY <2>3, <2>4
<1> QED
  BY <1>2, <1>3

\* The socket is shut; the message that was read is still handled, or none is.
LEMMA AheadShuts ==
    ASSUME NEW c, NEW d, NEW is \in Seq(MessageType), NEW left, NEW os, Ahead(c, is, os),
           d.known = c.known, d.seen = c.seen,
           left = <<>> \/ (is # <<>> /\ left = <<Head(is)>>)
    PROVE  Ahead(d, left, os)
<1> SUFFICES ASSUME is # <<>>, left = <<Head(is)>>, NEW i \in DOMAIN left, left[i].type = "inv",
                    NEW t \in left[i].txs \ c.seen
             PROVE  IsAhead(t, i, c.known, left, os)
  BY DEF Ahead
<1>1. i = 1 /\ left[1] = is[1] /\ 1 \in DOMAIN is /\ Len(left) = 1 /\ Len(is) \in Nat \ {0}
  OBVIOUS
<1>2. IsAhead(t, 1, c.known, is, os)
  BY <1>1 DEF Ahead
<1>3. \A j \in 1..(End(left) - 1) : j \in 1..(End(is) - 1) /\ left[j] = is[j]
  BY <1>1 DEF End
<1>4. ~Brings(left, BlockOf(t), End(left))
  BY <1>2, <1>3 DEF Brings, IsAhead
<1>5. ~Tells(left, BlockOf(t), 1)
  BY DEF Tells
<1> QED
  BY <1>1, <1>2, <1>4, <1>5 DEF IsAhead

LEMMA SeenShuts ==
    ASSUME NEW c, NEW d, NEW is \in Seq(MessageType), NEW left, NEW os, NEW txs,
           SeenComes(c, is, os, txs), d.seen = c.seen, ~d.open,
           left = <<>> \/ (is # <<>> /\ left = <<Head(is)>>)
    PROVE  SeenComes(d, left, os, txs)
<1> SUFFICES ASSUME NEW t \in c.seen \ txs PROVE Arrives(t, left) \/ ~Brings(left, BlockOf(t), End(left))
  BY DEF SeenComes, IsOnItsWay
<1> DEFINE h == BlockOf(t)
<1>1. CASE left = <<>>
  <2>1. \A j \in 1..(End(left) - 1) : FALSE
    BY <1>1 DEF End
  <2> QED
    BY <2>1 DEF Brings
<1>2. CASE is # <<>> /\ left = <<Head(is)>>
  <2>1. left[1] = is[1] /\ 1 \in DOMAIN left /\ Len(left) = 1 /\ Len(is) \in Nat \ {0}
    BY <1>2
  <2>2. \A j \in 1..(End(left) - 1) : j = 1 /\ j \in 1..(End(is) - 1) /\ left[j] = is[j]
    BY <2>1 DEF End
  <2> SUFFICES ASSUME Brings(left, h, End(left)) PROVE Arrives(t, left)
    OBVIOUS
  <2>3. 1 \in 1..(End(is) - 1) /\ is[1].type = "merkleblock" /\ is[1].blocks[1] = h
    BY <2>2 DEF Brings
  <2>4. Brings(is, h, End(is))
    BY <2>3 DEF Brings
  <2>5. PICK i \in DOMAIN is : is[i].type = "tx" /\ t \in is[i].txs /\ ~Brings(is, h, i)
    BY <2>4 DEF SeenComes, IsOnItsWay, Arrives
  <2>6. i # 1 /\ 1 \in 1..(i - 1)
    BY <2>1, <2>3, <2>5
  <2> QED
    BY <2>3, <2>5, <2>6 DEF Brings
<1> QED
  BY <1>1, <1>2

-----------------------------------------------------------------------------
(* What a step does to a connection. *)

LEMMA BlocksGrow ==
    ASSUME NEW b, NEW g \in Nat, NEW n \in Nat, g <= n, IsBlock(b, g)
    PROVE  IsBlock(b, n)
  BY DEF IsBlock, BlockType

LEMMA MessagesGrow ==
    ASSUME NEW m \in MessageType, NEW b \in Nat, NEW k \in Nat, b <= k,
           NEW g \in Nat, NEW n \in Nat, g <= n
    PROVE  /\ IsSent(m, b, g) => IsSent(m, k, n)
           /\ IsReply(m, b, g) => IsReply(m, k, n)
<1>1. m.blocks \in Seq(Nat) /\ m.txs \subseteq Txs /\ 1..b \subseteq 1..k
  BY DEF MessageType
<1>2. \A t \in Txs : t \in Nat
  BY TxsAreBounded
<1>3. IsSent(m, b, g) => IsSent(m, k, n)
  <2> SUFFICES ASSUME IsSent(m, b, g) PROVE IsSent(m, k, n)
    OBVIOUS
  <2>1. m.type = "filterload" => m.blocks[1] <= n
    <3> SUFFICES ASSUME m.type = "filterload" PROVE m.blocks[1] <= n
      OBVIOUS
    <3>1. m.blocks # <<>> /\ m.blocks[1] <= g
      BY DEF IsSent
    <3>2. m.blocks[1] \in Nat
      BY <1>1, <3>1
    <3> QED
      BY <3>1, <3>2
  <2>2. m.type = "getdata" => \A t \in m.txs : t <= n
    <3> SUFFICES ASSUME m.type = "getdata", NEW t \in m.txs PROVE t <= n
      OBVIOUS
    <3>1. t <= g /\ t \in Nat
      BY <1>1, <1>2 DEF IsSent
    <3> QED
      BY <3>1
  <2> QED
    BY <1>1, <2>1, <2>2 DEF IsSent
<1>4. IsReply(m, b, g) => IsReply(m, k, n)
  <2> SUFFICES ASSUME IsReply(m, b, g) PROVE IsReply(m, k, n)
    OBVIOUS
  <2>1. ASSUME m.type = "inv", m.txs # {}
        PROVE  m.blocks = <<>> /\ \E t \in Txs : t <= n /\ m.txs = {t}
    <3>1. PICK t \in Txs : t <= g /\ m.txs = {t}
      BY <2>1 DEF IsReply
    <3>2. t <= n
      BY <1>2, <3>1
    <3> QED
      BY <2>1, <3>1, <3>2 DEF IsReply
  <2>2. m.type = "merkleblock" => m.blocks[2] <= n
    <3> SUFFICES ASSUME m.type = "merkleblock" PROVE m.blocks[2] <= n
      OBVIOUS
    <3>1. Len(m.blocks) = 2 /\ m.blocks[2] <= g
      BY DEF IsReply
    <3>2. m.blocks[2] \in Nat
      BY <1>1, <3>1
    <3> QED
      BY <3>1, <3>2
  <2> QED
    BY <1>1, <2>1, <2>2 DEF IsReply
<1> QED
  BY <1>3, <1>4

\* The wallet and the chain of the peer grow.
LEMMA ContextGrows ==
    ASSUME NEW c, NEW b \in Nat, NEW k \in Nat, b <= k, NEW g \in Nat, NEW n \in Nat, g <= n,
           NEW txs, NEW more, txs \subseteq more, IsContext(c, b, g, txs)
    PROVE  IsContext(c, k, n, more)
<1>1. c \in ContextType /\ 1..b \subseteq 1..k
  BY DEF IsContext
<1>2. Range(c.known) \subseteq 1..k
  BY <1>1 DEF IsContext
<1>3. \A t \in c.seen : t <= n
  <2> TAKE t \in c.seen
  <2>1. t \in Txs /\ t <= g
    BY <1>1 DEF IsContext, ContextType
  <2> QED
    BY <2>1, TxsAreBounded
<1>4. IsBlock(c.block, n) /\ c.missing \subseteq c.block.txs /\ c.block.txs \ c.missing \subseteq more
  BY BlocksGrow DEF IsContext
<1>5. \A i \in DOMAIN c.relay : IsBlock(c.relay[i], n) /\ c.relay[i].txs \subseteq more
  BY BlocksGrow DEF IsContext
<1>6. c.missing = {} => c.block = NoBlock
  BY DEF IsContext
<1> QED
  BY <1>1, <1>2, <1>3, <1>4, <1>5, <1>6 DEF IsContext

LEMMA ConnectionGrows ==
    ASSUME NEW c, NEW is, NEW os, NEW r,
           NEW b \in Nat, NEW k \in Nat, b <= k, NEW g \in Nat, NEW n \in Nat, g <= n,
           NEW txs, NEW more, txs \subseteq more,
           IsConnection(c, is, os, r, b, g, txs)
    PROVE  IsConnection(c, is, os, r, k, n, more)
<1>1. IsContext(c, k, n, more)
  BY ContextGrows DEF IsConnection
<1>2. is \in Seq(MessageType) /\ os \in Seq(MessageType)
  BY DEF IsConnection
<1>3. (\A i \in DOMAIN is : IsReply(is[i], k, n)) /\ (\A i \in DOMAIN os : IsSent(os[i], k, n))
  <2>1. ASSUME NEW i \in DOMAIN is PROVE IsReply(is[i], k, n)
    <3>1. is[i] \in MessageType /\ IsReply(is[i], b, g)
      BY <1>2 DEF IsConnection
    <3> QED
      BY <3>1, MessagesGrow
  <2>2. ASSUME NEW i \in DOMAIN os PROVE IsSent(os[i], k, n)
    <3>1. os[i] \in MessageType /\ IsSent(os[i], b, g)
      BY <1>2 DEF IsConnection
    <3> QED
      BY <3>1, MessagesGrow
  <2> QED
    BY <2>1, <2>2
<1>4. r.filter \in 0..n
  BY DEF IsConnection
<1>5. SeenComes(c, is, os, more)
  BY DEF IsConnection, SeenComes
<1> QED
  BY <1>1, <1>2, <1>3, <1>4, <1>5 DEF IsConnection

\* What the manager may send at any time.
IsSending(ms, b, g, known) ==
    ms \in Seq(MessageType) /\ AsksKnown(ms, known) /\ \A i \in DOMAIN ms : IsSent(ms[i], b, g)

LEMMA Sends ==
    ASSUME NEW os \in Seq(MessageType), NEW ms \in Seq(MessageType), NEW b, NEW g,
           \A i \in DOMAIN os : IsSent(os[i], b, g), \A i \in DOMAIN ms : IsSent(ms[i], b, g)
    PROVE  os \o ms \in Seq(MessageType) /\ \A i \in DOMAIN (os \o ms) : IsSent((os \o ms)[i], b, g)
<1>1. os \o ms \in Seq(MessageType) /\ DOMAIN (os \o ms) = 1..Len(os \o ms)
      /\ DOMAIN os = 1..Len(os) /\ DOMAIN ms = 1..Len(ms)
  BY Joined
<1>2. ASSUME NEW i \in 1..Len(os \o ms) PROVE IsSent((os \o ms)[i], b, g)
  <2>1. CASE i \in 1..Len(os)
    BY <1>1, <2>1, Joined
  <2>2. CASE i \notin 1..Len(os)
    BY <1>1, <2>2, Joined
  <2> QED
    BY <2>1, <2>2
<1> QED
  BY <1>1, <1>2

LEMMA ConnectionChanges ==
    ASSUME NEW c, NEW d, NEW is, NEW os, NEW ms, NEW r, NEW b, NEW g, NEW txs,
           IsConnection(c, is, os, r, b, g, txs), IsContext(d, b, g, txs),
           d.connected \/ d = c, d.open = c.open, d.seen = c.seen,
           Range(d.known) \subseteq Range(c.known),
           IsSending(ms, b, g, d.known)
    PROVE  IsConnection(d, is, IF d.open THEN os \o ms ELSE os, r, b, g, txs)
<1> DEFINE to == IF d.open THEN os \o ms ELSE os
<1>1. is \in Seq(MessageType) /\ os \in Seq(MessageType) /\ ms \in Seq(MessageType)
  BY DEF IsConnection, IsSending
<1>2. Ahead(d, is, os) /\ SeenComes(d, is, os, txs)
  BY AheadOfOther, SeenOfOther DEF IsConnection
<1>3. Ahead(d, is, os \o ms) /\ SeenComes(d, is, os \o ms, txs)
  BY <1>1, <1>2, AheadSends, SeenSends DEF IsSending
<1>4. os \o ms \in Seq(MessageType) /\ \A i \in DOMAIN (os \o ms) : IsSent((os \o ms)[i], b, g)
  BY <1>1, Sends DEF IsConnection, IsSending
<1>5. to \in Seq(MessageType) /\ (\A i \in DOMAIN to : IsSent(to[i], b, g))
      /\ Ahead(d, is, to) /\ SeenComes(d, is, to, txs)
  BY <1>1, <1>2, <1>3, <1>4 DEF IsConnection
<1>6. ~d.open => Len(is) <= 1
  BY DEF IsConnection
<1>7. ~d.connected => d = NoContext /\ is = <<>> /\ to = <<>>
  <2> SUFFICES ASSUME ~d.connected PROVE d = NoContext /\ is = <<>> /\ to = <<>>
    OBVIOUS
  <2>1. d = NoContext /\ is = <<>> /\ os = <<>>
    BY DEF IsConnection
  <2>2. ~d.open
    BY <2>1 DEF NoContext, NewContext
  <2> QED
    BY <2>1, <2>2
<1>8. r.filter \in 0..g /\ \A i \in DOMAIN is : IsReply(is[i], b, g)
  BY DEF IsConnection
<1> HIDE DEF to
<1>9. IsConnection(d, is, to, r, b, g, txs)
  BY <1>1, <1>5, <1>6, <1>7, <1>8 DEF IsConnection
<1> QED
  BY <1>9 DEF to

\* A message is taken that is no inv.
LEMMA ConnectionTakes ==
    ASSUME NEW c, NEW is, NEW os, NEW r, NEW b \in Nat, NEW g \in Nat, NEW txs, NEW more,
           IsConnection(c, is, os, r, b, g, txs), is # <<>>, txs \subseteq more,
           is[1].type = "tx" => is[1].txs \cap c.seen \subseteq more
    PROVE  IsConnection(c, Tail(is), os, r, b, g, more)
<1>1. IsConnection(c, is, os, r, b, g, more)
  BY ConnectionGrows
<1>2. is \in Seq(MessageType)
  BY DEF IsConnection
<1>3. Ahead(c, Tail(is), os) /\ SeenComes(c, Tail(is), os, more)
  BY <1>2, AheadTakes, SeenTakes DEF IsConnection
<1>4. /\ Tail(is) \in Seq(MessageType) /\ \A i \in DOMAIN Tail(is) : IsReply(Tail(is)[i], b, g)
      /\ ~c.open => Len(Tail(is)) <= 1
  <2>1. /\ Tail(is) \in Seq(MessageType) /\ Len(is) \in Nat \ {0} /\ Len(Tail(is)) = Len(is) - 1
        /\ \A i \in 1..Len(Tail(is)) : Tail(is)[i] = is[i + 1] /\ i + 1 \in 1..Len(is)
    BY <1>2, Rest
  <2>2. DOMAIN is = 1..Len(is) /\ DOMAIN Tail(is) = 1..Len(Tail(is))
    BY <1>2, <2>1
  <2>3. ~c.open => Len(is) <= 1
    BY DEF IsConnection
  <2>4. \A i \in DOMAIN is : IsReply(is[i], b, g)
    BY DEF IsConnection
  <2> QED
    BY <2>1, <2>2, <2>3, <2>4
<1>5. ~c.connected => is = <<>>
  BY DEF IsConnection
<1> QED
  BY <1>1, <1>3, <1>4, <1>5 DEF IsConnection

\* An inv is taken: its blocks become known, and it is answered.
LEMMA ConnectionHasInv ==
    ASSUME NEW c, NEW d, NEW is, NEW os, NEW ms, NEW r, NEW b \in Nat, NEW g \in Nat, NEW txs,
           IsConnection(c, is, os, r, b, g, txs), is # <<>>, is[1].type = "inv",
           IsContext(d, b, g, txs), d.connected = c.connected, d.open = c.open,
           d.seen = c.seen \cup is[1].txs,
           Range(d.known) \subseteq Range(c.known) \cup Range(is[1].blocks),
           IsSending(ms, b, g, is[1].blocks),
           is[1].txs \ c.seen # {} =>
               ms # <<>> /\ ms[1].type = "getdata" /\ ms[1].txs = is[1].txs \ c.seen
    PROVE  IsConnection(d, Tail(is), IF d.open THEN os \o ms ELSE os, r, b, g, txs)
<1> DEFINE to == IF d.open THEN os \o ms ELSE os
<1>1. is \in Seq(MessageType) /\ os \in Seq(MessageType) /\ ms \in Seq(MessageType)
  BY DEF IsConnection, IsSending
<1>2. c.connected
  BY DEF IsConnection
<1>3. IsConnection(c, Tail(is), os, r, b, g, txs)
  BY ConnectionTakes
<1>4. SeenComes(d, Tail(is), to, txs)
  BY <1>1, SeenInv DEF IsConnection
<1>5. Ahead(d, Tail(is), os \o ms) /\ Ahead(d, Tail(is), os)
  BY <1>1, AheadInv DEF IsConnection, IsSending
<1>6. Ahead(d, Tail(is), to)
  BY <1>5
<1>7. os \o ms \in Seq(MessageType) /\ \A i \in DOMAIN (os \o ms) : IsSent((os \o ms)[i], b, g)
  BY <1>1, Sends DEF IsConnection, IsSending
<1>8. to \in Seq(MessageType) /\ (\A i \in DOMAIN to : IsSent(to[i], b, g))
  BY <1>1, <1>7 DEF IsConnection
<1> HIDE DEF to
<1>9. IsConnection(d, Tail(is), to, r, b, g, txs)
  BY <1>2, <1>3, <1>4, <1>6, <1>8 DEF IsConnection
<1> QED
  BY <1>9 DEF to

\* The socket is shut.
LEMMA ConnectionShuts ==
    ASSUME NEW c, NEW is, NEW os, NEW r, NEW b, NEW g, NEW txs, NEW left,
           IsConnection(c, is, os, r, b, g, txs), c.connected,
           left = <<>> \/ (is # <<>> /\ left = <<Head(is)>>)
    PROVE  IsConnection([c EXCEPT !.open = FALSE], left, os, r, b, g, txs)
<1> DEFINE d == [c EXCEPT !.open = FALSE]
<1>1. c \in ContextType /\ is \in Seq(MessageType)
  BY DEF IsConnection, IsContext
<1>2. /\ d \in ContextType /\ ~d.open /\ d.connected
      /\ d.known = c.known /\ d.seen = c.seen /\ d.block = c.block /\ d.missing = c.missing
      /\ d.relay = c.relay
  BY <1>1 DEF ContextType
<1> HIDE DEF d
<1>3. IsContext(d, b, g, txs)
  BY <1>2 DEF IsConnection, IsContext
<1>4. Ahead(d, left, os)
  BY <1>1, <1>2, AheadShuts DEF IsConnection
<1>5. SeenComes(d, left, os, txs)
  BY <1>1, <1>2, SeenShuts DEF IsConnection
<1>6. left \in Seq(MessageType) /\ Len(left) <= 1 /\ \A i \in DOMAIN left : IsReply(left[i], b, g)
  <2>1. CASE left = <<>>
    BY <2>1
  <2>2. CASE is # <<>> /\ left = <<Head(is)>>
    <3>1. is[1] \in MessageType /\ Head(is) = is[1] /\ 1 \in DOMAIN is
      BY <1>1, <2>2, Rest
    <3>2. IsReply(is[1], b, g)
      BY <3>1 DEF IsConnection
    <3> QED
      BY <2>2, <3>1, <3>2
  <2> QED
    BY <2>1, <2>2
<1>7. os \in Seq(MessageType) /\ (\A i \in DOMAIN os : IsSent(os[i], b, g)) /\ r.filter \in 0..g
  BY DEF IsConnection
<1>8. IsConnection(d, left, os, r, b, g, txs)
  BY <1>2, <1>3, <1>4, <1>5, <1>6, <1>7 DEF IsConnection
<1> QED
  BY <1>8 DEF d

LEMMA NoBlockIsBlock == ASSUME NEW g PROVE IsBlock(NoBlock, g)
<1>1. 0 \in 0..Top
  BY ChainAssumption
<1> QED
  BY <1>1 DEF IsBlock, NoBlock, Block, BlockType

\* A context that knows of nothing.
LEMMA FreshIsContext ==
    ASSUME NEW c \in ContextType, NEW b, NEW g, NEW txs,
           c.known = <<>>, c.block = NoBlock, c.missing = {}, c.seen = {}, c.relay = <<>>
    PROVE  IsContext(c, b, g, txs)
<1>1. Range(<<>>) = {} /\ DOMAIN <<>> = {}
  BY DEF Range
<1>2. NoBlock.txs = {} /\ IsBlock(NoBlock, g)
  BY NoBlockIsBlock DEF NoBlock, Block
<1> QED
  BY <1>1, <1>2 DEF IsContext

LEMMA NewContextIs ==
    ASSUME NEW b \in 0..Top
    PROVE  /\ NewContext(b) \in ContextType
           /\ NewContext(b).known = <<>> /\ NewContext(b).block = NoBlock
           /\ NewContext(b).missing = {} /\ NewContext(b).seen = {} /\ NewContext(b).relay = <<>>
           /\ NewContext(b).connected /\ NewContext(b).open /\ NewContext(b).last = b
<1>1. NoBlock \in BlockType
  BY NoBlockIsBlock DEF IsBlock
<1>2. /\ <<>> \in Seq(Nat) /\ <<>> \in Seq(BlockType) /\ {} \in SUBSET Txs
      /\ 0 \in Nat /\ TRUE \in BOOLEAN /\ FALSE \in BOOLEAN
  OBVIOUS
<1>3. NewContext(b) \in ContextType
  BY <1>1, <1>2 DEF NewContext, ContextType
<1> QED
  BY <1>3 DEF NewContext

\* A connection begins.
LEMMA ConnectionStarts ==
    ASSUME NEW c, NEW is, NEW os, NEW r, NEW b \in 0..Top, NEW g, NEW txs,
           IsConnection(c, is, os, r, b, g, txs), ~c.connected
    PROVE  IsConnection(NewContext(b), is, os, r, b, g, txs)
<1> DEFINE d == NewContext(b)
<1>1. is = <<>> /\ os = <<>> /\ r.filter \in 0..g
  BY DEF IsConnection
<1>2. IsContext(d, b, g, txs) /\ d.connected /\ d.open /\ d.seen = {}
  BY NewContextIs, FreshIsContext
<1> HIDE DEF d
<1>3. Ahead(d, <<>>, <<>>)
  BY DEF Ahead
<1>4. SeenComes(d, <<>>, <<>>, txs)
  BY <1>2 DEF SeenComes
<1>5. IsConnection(d, <<>>, <<>>, r, b, g, txs)
  BY <1>1, <1>2, <1>3, <1>4 DEF IsConnection
<1> QED
  BY <1>1, <1>5 DEF d

\* And it ends.
LEMMA ConnectionIsGone ==
    ASSUME NEW b \in Nat, NEW g \in Nat, NEW txs
    PROVE  IsConnection(NoContext, <<>>, <<>>, NoRemote, b, g, txs)
<1> DEFINE n == NewContext(0)
           c == [[n EXCEPT !.connected = FALSE] EXCEPT !.open = FALSE]
<1>1. /\ n \in ContextType /\ n.known = <<>> /\ n.block = NoBlock
      /\ n.missing = {} /\ n.seen = {} /\ n.relay = <<>>
  BY NewContextIs, ChainAssumption
<1>2. NoContext = c
  BY DEF NoContext
<1> HIDE DEF n
<1>3. IsContext(NoContext, b, g, txs)
  <2>1. /\ c \in ContextType /\ c.known = <<>> /\ c.block = NoBlock
        /\ c.missing = {} /\ c.seen = {} /\ c.relay = <<>>
    BY <1>1 DEF ContextType
  <2> HIDE DEF c
  <2> QED
    BY <1>2, <2>1, FreshIsContext
<1>4. Ahead(NoContext, <<>>, <<>>)
  BY DEF Ahead
<1>5. NoContext.seen = {} /\ NoRemote.filter \in 0..g
  BY DEF NoContext, NewContext, NoRemote
<1>6. SeenComes(NoContext, <<>>, <<>>, txs)
  BY <1>5 DEF SeenComes
<1> QED
  BY <1>3, <1>4, <1>5, <1>6 DEF IsConnection

\* The peer answers.
LEMMA ConnectionAnswers ==
    ASSUME NEW c, NEW is, NEW os, NEW r, NEW s, NEW b, NEW g, NEW txs, NEW rs,
           IsConnection(c, is, os, r, b, g, txs), c.open, os # <<>>, Answers(rs, os[1]),
           \A i \in DOMAIN rs : IsReply(rs[i], b, g), s.filter \in 0..g
    PROVE  IsConnection(c, is \o rs, Tail(os), s, b, g, txs)
<1>1. is \in Seq(MessageType) /\ os \in Seq(MessageType) /\ rs \in Seq(MessageType)
  BY DEF IsConnection, Answers
<1>2. Ahead(c, is \o rs, Tail(os)) /\ SeenComes(c, is \o rs, Tail(os), txs)
  BY <1>1, AheadAnswers, SeenAnswers DEF IsConnection
<1>3. /\ is \o rs \in Seq(MessageType) /\ DOMAIN (is \o rs) = 1..Len(is \o rs)
      /\ DOMAIN is = 1..Len(is) /\ DOMAIN rs = 1..Len(rs)
  BY <1>1, Joined
<1>4. \A i \in DOMAIN is : IsReply(is[i], b, g)
  BY DEF IsConnection
<1>5. \A i \in DOMAIN (is \o rs) : IsReply((is \o rs)[i], b, g)
  <2> SUFFICES ASSUME NEW i \in 1..Len(is \o rs) PROVE IsReply((is \o rs)[i], b, g)
    BY <1>3
  <2>1. CASE i \in 1..Len(is)
    BY <1>1, <1>3, <1>4, <2>1, Joined
  <2>2. CASE i \notin 1..Len(is)
    BY <1>1, <1>3, <2>2, Joined
  <2> QED
    BY <2>1, <2>2
<1>6. Tail(os) \in Seq(MessageType) /\ \A i \in DOMAIN Tail(os) : IsSent(Tail(os)[i], b, g)
  <2>1. /\ Tail(os) \in Seq(MessageType) /\ DOMAIN Tail(os) = 1..Len(Tail(os)) /\ DOMAIN os = 1..Len(os)
        /\ \A i \in 1..Len(Tail(os)) : Tail(os)[i] = os[i + 1] /\ i + 1 \in 1..Len(os)
    BY <1>1, Rest
  <2>2. \A i \in DOMAIN os : IsSent(os[i], b, g)
    BY DEF IsConnection
  <2> QED
    BY <2>1, <2>2
<1>7. c.connected
  BY DEF IsConnection, NoContext, NewContext
<1> QED
  BY <1>2, <1>3, <1>5, <1>6, <1>7 DEF IsConnection

\* The peer says something by itself.
LEMMA ConnectionHears ==
    ASSUME NEW c, NEW is, NEW os, NEW r, NEW s, NEW b, NEW g, NEW txs, NEW m \in MessageType,
           IsConnection(c, is, os, r, b, g, txs), c.open, m.type = "inv", IsReply(m, b, g),
           \A t \in m.txs \ c.seen : IsAhead(t, End(is), c.known, is, os), s.filter = r.filter
    PROVE  IsConnection(c, Append(is, m), os, s, b, g, txs)
<1>1. is \in Seq(MessageType)
  BY DEF IsConnection
<1>2. Append(is, m) = is \o <<m>>
  BY <1>1
<1>3. Ahead(c, is \o <<m>>, os) /\ SeenComes(c, is \o <<m>>, os, txs)
  BY <1>1, HearsKeepsOrder DEF IsConnection
<1>4. \A i \in DOMAIN is : IsReply(is[i], b, g)
  BY DEF IsConnection
<1>5. Append(is, m) \in Seq(MessageType) /\ \A i \in DOMAIN Append(is, m) : IsReply(Append(is, m)[i], b, g)
  <2>1. /\ Append(is, m) \in Seq(MessageType) /\ Len(is) \in Nat /\ DOMAIN is = 1..Len(is)
        /\ DOMAIN Append(is, m) = 1..(Len(is) + 1) /\ Append(is, m)[Len(is) + 1] = m
        /\ \A i \in 1..Len(is) : Append(is, m)[i] = is[i]
    BY <1>1
  <2>2. \A i \in DOMAIN Append(is, m) : i \in 1..Len(is) \/ i = Len(is) + 1
    BY <2>1
  <2> QED
    BY <1>4, <2>1, <2>2
<1>6. c.connected
  BY DEF IsConnection, NoContext, NewContext
<1> QED
  BY <1>2, <1>3, <1>5, <1>6 DEF IsConnection

-----------------------------------------------------------------------------
(* The messages that the manager sends. *)

LEMMA MessageIs ==
    ASSUME NEW type \in Types, NEW blocks \in Seq(Nat), NEW txs \in SUBSET Txs
    PROVE  /\ Message(type, blocks, txs) \in MessageType
           /\ Message(type, blocks, txs).type = type /\ Message(type, blocks, txs).blocks = blocks
           /\ Message(type, blocks, txs).txs = txs /\ Message(type, blocks, txs).call = <<>>
<1>1. <<>> \in Call
  BY DEF Call
<1> QED
  BY <1>1 DEF Message, MessageType

LEMMA SendingNothing == ASSUME NEW b, NEW g, NEW known PROVE IsSending(<<>>, b, g, known)
  BY DEF IsSending, AsksKnown

LEMMA SendingOne ==
    ASSUME NEW m \in MessageType, NEW b, NEW g, NEW known, IsSent(m, b, g), m.type # "getdata"
    PROVE  IsSending(<<m>>, b, g, known)
  BY DEF IsSending, AsksKnown

LEMMA SendingBoth ==
    ASSUME NEW ms, NEW ns, NEW b, NEW g, NEW known,
           IsSending(ms, b, g, known), IsSending(ns, b, g, known)
    PROVE  IsSending(ms \o ns, b, g, known)
<1> DEFINE w == ms \o ns
<1>1. ms \in Seq(MessageType) /\ ns \in Seq(MessageType)
  BY DEF IsSending
<1>2. w \in Seq(MessageType) /\ \A i \in DOMAIN w : IsSent(w[i], b, g)
  BY <1>1, Sends DEF IsSending
<1>3. \A i \in 1..Len(w) : \/ i \in DOMAIN ms /\ w[i] = ms[i]
                           \/ \E j \in DOMAIN ns : w[i] = ns[j]
  <2> TAKE i \in 1..Len(w)
  <2>1. DOMAIN ms = 1..Len(ms) /\ DOMAIN ns = 1..Len(ns)
    BY <1>1
  <2>2. CASE i \in 1..Len(ms)
    BY <1>1, <2>1, <2>2, Joined
  <2>3. CASE i \notin 1..Len(ms)
    <3>1. i - Len(ms) \in 1..Len(ns) /\ w[i] = ns[i - Len(ms)]
      BY <1>1, <2>3, Joined
    <3> QED
      BY <2>1, <3>1
  <2> QED
    BY <2>2, <2>3
<1>4. DOMAIN w = 1..Len(w)
  BY <1>2
<1> HIDE DEF w
<1>5. AsksKnown(w, known)
  BY <1>3, <1>4 DEF IsSending, AsksKnown
<1> QED
  BY <1>2, <1>5 DEF w, IsSending

LEMMA SendingGetBlocks ==
    ASSUME NEW h \in Nat, NEW b, NEW g, NEW known
    PROVE  IsSending(<<GetBlocks(h)>>, b, g, known) /\ IsSending(<<GetHeaders(h)>>, b, g, known)
<1> DEFINE hs == <<h>>
           none == {}
<1>1. /\ hs \in Seq(Nat) /\ hs # <<>> /\ none \in SUBSET Txs
      /\ "getblocks" \in Types /\ "getheaders" \in Types
  BY DEF Types
<1>2. GetBlocks(h) = Message("getblocks", hs, none) /\ GetHeaders(h) = Message("getheaders", hs, none)
  BY DEF GetBlocks, GetHeaders
<1> HIDE DEF hs, none
<1>3. /\ GetBlocks(h) \in MessageType /\ GetBlocks(h).type = "getblocks" /\ GetBlocks(h).blocks = hs
      /\ GetHeaders(h) \in MessageType /\ GetHeaders(h).type = "getheaders" /\ GetHeaders(h).blocks = hs
  BY <1>1, <1>2, MessageIs
<1>4. IsSent(GetBlocks(h), b, g) /\ IsSent(GetHeaders(h), b, g)
  BY <1>1, <1>3 DEF IsSent
<1> QED
  BY <1>3, <1>4, SendingOne

LEMMA SendingFilter ==
    ASSUME NEW f \in Nat, NEW b, NEW g \in Nat, f <= g, NEW known
    PROVE  IsSending(<<FilterLoad(f)>>, b, g, known)
<1> DEFINE fs == <<f>>
           none == {}
<1>1. fs \in Seq(Nat) /\ fs # <<>> /\ fs[1] = f /\ none \in SUBSET Txs /\ "filterload" \in Types
  BY DEF Types
<1>2. FilterLoad(f) = Message("filterload", fs, none)
  BY DEF FilterLoad
<1> HIDE DEF fs, none
<1>3. FilterLoad(f) \in MessageType /\ FilterLoad(f).type = "filterload" /\ FilterLoad(f).blocks = fs
  BY <1>1, <1>2, MessageIs
<1>4. IsSent(FilterLoad(f), b, g)
  BY <1>1, <1>3 DEF IsSent
<1> QED
  BY <1>3, <1>4, SendingOne

LEMMA SendingPing ==
    ASSUME NEW callback \in Callbacks, NEW p \in Peer, NEW b, NEW g, NEW known
    PROVE  IsSending(<<Ping(callback, p)>>, b, g, known)
<1> DEFINE hs == <<>>
           none == {}
           m == Message("ping", hs, none)
           n == [m EXCEPT !.call = <<callback, p>>]
<1>1. hs \in Seq(Nat) /\ none \in SUBSET Txs /\ "ping" \in Types
  BY DEF Types
<1>2. Ping(callback, p) = n
  BY DEF Ping
<1> HIDE DEF hs, none
<1>3. m \in MessageType /\ m.type = "ping"
  BY <1>1, MessageIs
<1>4. <<callback, p>> \in Call
  BY DEF Call
<1> HIDE DEF m
<1>5. n \in MessageType /\ n.type = "ping"
  BY <1>3, <1>4 DEF MessageType
<1> HIDE DEF n
<1>6. IsSent(n, b, g)
  BY <1>5 DEF IsSent
<1>7. IsSending(<<n>>, b, g, known)
  BY <1>5, <1>6, SendingOne
<1> QED
  BY <1>2, <1>7

LEMMA SendingGetData ==
    ASSUME NEW txs \in SUBSET Txs, NEW hs \in Seq(Nat), NEW b, NEW g, NEW known,
           \A t \in txs : t <= g, Range(hs) \subseteq 1..b, Range(hs) \subseteq Range(known)
    PROVE  IsSending(GetData(txs, hs), b, g, known)
<1> DEFINE m == Message("getdata", hs, txs)
<1>1. m \in MessageType /\ m.type = "getdata" /\ m.blocks = hs /\ m.txs = txs
  <2>1. "getdata" \in Types
    BY DEF Types
  <2> QED
    BY <2>1, MessageIs
<1> HIDE DEF m
<1>2. IsSent(m, b, g)
  BY <1>1 DEF IsSent
<1>3. IsSending(<<m>>, b, g, known)
  BY <1>1, <1>2 DEF IsSending, AsksKnown
<1>4. GetData(txs, hs) = <<>> \/ GetData(txs, hs) = <<m>>
  BY DEF GetData, m
<1> QED
  BY <1>3, <1>4, SendingNothing

-----------------------------------------------------------------------------
(* The wallet and its filters. *)

LEMMA BuiltIsAhead ==
    ASSUME Typed
    PROVE  Built \in Nat /\ generated \in Nat /\ generated <= Built /\ Used(registered) + Gap <= Built
<1>1. registered \in SUBSET Txs /\ generated \in Nat
  BY DEF Typed
<1>2. Used(registered) \in Nat
  BY <1>1, UsedIsLast
<1> QED
  BY <1>1, <1>2, NumberAssumption DEF Built, Larger

LEMMA LoadsFilter ==
    ASSUME Typed, FilterIsAhead, NEW ps, LoadFilter(ps), registered' = registered
    PROVE  /\ generated' \in Nat /\ generated <= generated' /\ filter' \in Nat \cup {None}
           /\ FilterIsAhead'
           /\ \A q : \A b : \A known : IsSending(Loaded(q, ps), b, generated', known)
           /\ ps = {} => filter' = filter
<1>1. Built \in Nat /\ generated \in Nat /\ generated <= Built /\ Used(registered) + Gap <= Built
  BY BuiltIsAhead
<1>2. filter \in Nat \cup {None}
  BY DEF Typed
<1>3. CASE ps = {}
  <2>1. generated' = generated /\ filter' = filter
    BY <1>3 DEF LoadFilter
  <2>2. \A q : Loaded(q, ps) = <<>>
    BY <1>3 DEF Loaded
  <2> QED
    BY <1>1, <1>2, <2>1, <2>2, SendingNothing DEF FilterIsAhead
<1>4. CASE ps # {}
  <2>1. generated' = Built /\ filter' = Built
    BY <1>4 DEF LoadFilter
  <2>2. ASSUME NEW q, NEW b, NEW known PROVE IsSending(Loaded(q, ps), b, generated', known)
    <3>1. IsSending(<<FilterLoad(Built)>>, b, Built, known)
      BY <1>1, SendingFilter
    <3> QED
      BY <2>1, <3>1, SendingNothing DEF Loaded
  <2> QED
    BY <1>1, <1>4, <2>1, <2>2 DEF FilterIsAhead
<1> QED
  BY <1>3, <1>4

LEMMA OrphansGrow ==
    ASSUME NEW os, NEW g \in Nat, NEW n \in Nat, g <= n, NEW txs, NEW more, txs \subseteq more,
           \A o \in os : IsBlock(o, g) /\ o.txs \subseteq txs
    PROVE  \A o \in os : IsBlock(o, n) /\ o.txs \subseteq more
  BY BlocksGrow

-----------------------------------------------------------------------------
(* A context changes and messages are sent. *)

\* d differs from c in what the order of the messages does not depend on.
IsLike(d, c) ==
    /\ d.connected = c.connected /\ d.open = c.open /\ d.seen = c.seen
    /\ Range(d.known) \subseteq Range(c.known)

LEMMA ConnectionKept ==
    ASSUME NEW c, NEW d, NEW is, NEW os, NEW ms, NEW r, NEW b, NEW g, NEW txs,
           IsConnection(c, is, os, r, b, g, txs), IsContext(d, b, g, txs),
           c.connected, IsLike(d, c), IsSending(ms, b, g, d.known)
    PROVE  IsConnection(d, is, IF d.open THEN os \o ms ELSE os, r, b, g, txs)
<1>1. d.connected
  BY DEF IsLike
<1> QED
  BY <1>1, ConnectionChanges DEF IsLike

LEMMA ConnectionSends ==
    ASSUME NEW c, NEW is, NEW os, NEW ms, NEW r, NEW b, NEW g, NEW txs,
           IsConnection(c, is, os, r, b, g, txs), IsSending(ms, b, g, c.known)
    PROVE  IsConnection(c, is, IF c.open THEN os \o ms ELSE os, r, b, g, txs)
<1>1. IsContext(c, b, g, txs)
  BY DEF IsConnection
<1> QED
  BY <1>1, ConnectionChanges

LEMMA Marks ==
    ASSUME NEW c, NEW b, NEW g, NEW txs, IsContext(c, b, g, txs), NEW v \in BOOLEAN
    PROVE  /\ IsContext([c EXCEPT !.sentFilter = v], b, g, txs) /\ IsLike([c EXCEPT !.sentFilter = v], c)
           /\ IsContext([c EXCEPT !.update = v], b, g, txs) /\ IsLike([c EXCEPT !.update = v], c)
           /\ [c EXCEPT !.sentFilter = v].known = c.known /\ [c EXCEPT !.update = v].known = c.known
<1> DEFINE d == [c EXCEPT !.sentFilter = v]
           e == [c EXCEPT !.update = v]
<1>1. c \in ContextType
  BY DEF IsContext
<1>2. /\ d \in ContextType /\ d.connected = c.connected /\ d.open = c.open /\ d.known = c.known
      /\ d.seen = c.seen /\ d.block = c.block /\ d.missing = c.missing /\ d.relay = c.relay
  BY <1>1 DEF ContextType
<1>3. /\ e \in ContextType /\ e.connected = c.connected /\ e.open = c.open /\ e.known = c.known
      /\ e.seen = c.seen /\ e.block = c.block /\ e.missing = c.missing /\ e.relay = c.relay
  BY <1>1 DEF ContextType
<1> HIDE DEF d, e
<1>4. IsContext(d, b, g, txs) /\ IsLike(d, c) /\ d.known = c.known
  BY <1>2 DEF IsContext, IsLike
<1>5. IsContext(e, b, g, txs) /\ IsLike(e, c) /\ e.known = c.known
  BY <1>3 DEF IsContext, IsLike
<1> QED
  BY <1>4, <1>5 DEF d, e

\* The types of the functions follow from what holds of each connection.
LEMMA TypesFollow ==
    ASSUME Connections', ctx' = [q \in Peer |-> ctx'[q]], in' = [q \in Peer |-> in'[q]],
           out' = [q \in Peer |-> out'[q]]
    PROVE  /\ ctx' \in [Peer -> ContextType]
           /\ in' \in [Peer -> Seq(MessageType)] /\ out' \in [Peer -> Seq(MessageType)]
<1>1. \A q \in Peer : ctx'[q] \in ContextType /\ in'[q] \in Seq(MessageType) /\ out'[q] \in Seq(MessageType)
  BY DEF Connections, IsConnection, IsContext
<1> QED
  BY <1>1

\* A connection as it is when the wallet has grown.
LEMMA EachGrows ==
    ASSUME IInv, generated' \in Nat, generated <= generated', registered \subseteq registered'
    PROVE  \A q \in Peer :
              /\ IsConnection(ctx[q], in[q], out[q], remote[q], best[q], generated', registered')
              /\ IsContext(ctx[q], best[q], generated', registered') /\ ctx[q] \in ContextType
              /\ best[q] \in 0..Top
<1> TAKE q \in Peer
<1>1. IsConnection(ctx[q], in[q], out[q], remote[q], best[q], generated, registered)
  BY DEF IInv, Connections
<1>2. best[q] \in 0..Top /\ best[q] \in Nat /\ best[q] <= best[q] /\ generated \in Nat
  BY DEF IInv, Typed
<1>3. IsConnection(ctx[q], in[q], out[q], remote[q], best[q], generated', registered')
  BY <1>1, <1>2, ConnectionGrows
<1> QED
  BY <1>2, <1>3 DEF IsConnection, IsContext

LEMMA Orphans ==
    ASSUME IInv, generated' \in Nat, generated <= generated', registered \subseteq registered',
           NEW set \in SUBSET orphans
    PROVE  \A o \in set : IsBlock(o, generated') /\ o.txs \subseteq registered'
<1>1. generated \in Nat /\ \A o \in set : IsBlock(o, generated) /\ o.txs \subseteq registered
  BY DEF IInv, Typed, OrphansAreBlocks
<1> QED
  BY <1>1, OrphansGrow

\* The connection of a peer that the step does not hear from.
IsAsBefore(q) == in'[q] = in[q] /\ remote'[q] = remote[q] /\ best'[q] = best[q]
Gets(q, ms) == out'[q] = IF ctx'[q].open THEN out[q] \o ms ELSE out[q]

LEMMA StaysConnected ==
    ASSUME IInv, generated' \in Nat, generated <= generated', registered \subseteq registered',
           NEW q \in Peer, NEW ms, IsAsBefore(q), Gets(q, ms),
           IsSending(ms, best[q], generated', ctx'[q].known),
           \/ ctx'[q] = ctx[q]
           \/ ctx[q].connected /\ IsLike(ctx'[q], ctx[q]) /\ IsContext(ctx'[q], best[q], generated', registered')
    PROVE  IsConnection(ctx'[q], in'[q], out'[q], remote'[q], best'[q], generated', registered')
<1>1. IsConnection(ctx[q], in[q], out[q], remote[q], best[q], generated', registered')
  BY EachGrows
<1>2. CASE ctx'[q] = ctx[q]
  BY <1>1, <1>2, ConnectionSends DEF IsAsBefore, Gets
<1>3. CASE /\ ctx[q].connected /\ IsLike(ctx'[q], ctx[q])
           /\ IsContext(ctx'[q], best[q], generated', registered')
  BY <1>1, <1>3, ConnectionKept DEF IsAsBefore, Gets
<1> QED
  BY <1>2, <1>3

-----------------------------------------------------------------------------
(* Connections begin. *)

\* The chain, what is registered and what is known of the past are as before.
LEMMA NothingIsMissed ==
    ASSUME IInv, UNCHANGED <<lastBlock, stray>>, registered \subseteq registered', confirmed \subseteq confirmed'
    PROVE  NoTxMissed'
  BY DEF IInv, NoTxMissed, AllRegistered

LEMMA ConnectAlsoStep ==
    ASSUME IInv, NEW p \in Peer, ~ctx[p].connected, ConnectAlso(p),
           UNCHANGED <<registered, confirmed, remote, best, failures, stray>>
    PROVE  IInv'
<1> DEFINE ps == IF lastBlock >= best[p] THEN {p} ELSE {}
           new == NewContext(best[p])
           v == ps # {}
           d == [new EXCEPT !.sentFilter = v]
<1>1. Typed /\ FilterIsAhead /\ OrphansAreBlocks /\ DownloadPeerIsConnected /\ Connections
  BY DEF IInv
<1>2. /\ LoadFilter(ps) /\ orphans' = Cleared(ps, orphans)
      /\ lastOrphan' = (IF ps = {} THEN lastOrphan ELSE 0)
      /\ ctx' = [ctx EXCEPT ![p] = d]
      /\ out' = [q \in Peer |-> IF ctx'[q].open THEN out[q] \o To(p, Loaded(p, ps))[q] ELSE out[q]]
      /\ UNCHANGED <<lastBlock, estimated, downloadPeer, in>>
  BY DEF ConnectAlso, Send
<1> HIDE DEF ps
<1>3. /\ generated' \in Nat /\ generated <= generated' /\ filter' \in Nat \cup {None}
      /\ FilterIsAhead'
      /\ \A q : \A b : \A known : IsSending(Loaded(q, ps), b, generated', known)
  BY <1>1, <1>2, LoadsFilter
<1>4. v \in BOOLEAN
  OBVIOUS
<1>5. /\ ctx \in [Peer -> ContextType] /\ in \in [Peer -> Seq(MessageType)]
      /\ out \in [Peer -> Seq(MessageType)]
  BY <1>1 DEF Typed
<1> HIDE DEF v, d
<1>6. Connections'
  <2> SUFFICES ASSUME NEW q \in Peer
               PROVE  IsConnection(ctx'[q], in'[q], out'[q], remote'[q], best'[q], generated', registered')
    BY DEF Connections
  <2>1. /\ IsConnection(ctx[q], in[q], out[q], remote[q], best[q], generated', registered)
        /\ best[q] \in 0..Top
    BY <1>3, EachGrows
  <2>2. CASE q = p
    <3>1. IsConnection(new, in[p], out[p], remote[p], best[p], generated', registered)
      BY <2>1, <2>2, ConnectionStarts
    <3>2. new.connected /\ IsContext(new, best[p], generated', registered)
      BY <2>1, <2>2, <3>1, NewContextIs DEF IsConnection
    <3>3. IsContext(d, best[p], generated', registered) /\ IsLike(d, new)
      BY <1>4, <3>2, Marks DEF d
    <3>4. IsSending(Loaded(p, ps), best[p], generated', d.known)
      BY <1>3
    <3> HIDE DEF new
    <3>5. IsConnection(d, in[p], IF d.open THEN out[p] \o Loaded(p, ps) ELSE out[p], remote[p], best[p],
                       generated', registered)
      BY <3>1, <3>2, <3>3, <3>4, ConnectionKept
    <3>6. ctx'[p] = d /\ out'[p] = IF d.open THEN out[p] \o Loaded(p, ps) ELSE out[p]
      BY <1>2, <1>5 DEF To, Nothing
    <3> QED
      BY <1>2, <2>2, <3>5, <3>6
  <2>3. CASE q # p
    <3>1. IsSending(<<>>, best[q], generated', ctx[q].known)
      BY SendingNothing
    <3>2. IsConnection(ctx[q], in[q], IF ctx[q].open THEN out[q] \o <<>> ELSE out[q], remote[q], best[q],
                       generated', registered)
      BY <2>1, <3>1, ConnectionSends
    <3>3. ctx'[q] = ctx[q] /\ out'[q] = IF ctx[q].open THEN out[q] \o <<>> ELSE out[q]
      BY <1>2, <1>5, <2>3 DEF To, Nothing
    <3> QED
      BY <1>2, <3>2, <3>3
  <2> QED
    BY <2>2, <2>3
<1>7. OrphansAreBlocks'
  <2>1. Cleared(ps, orphans) \in SUBSET orphans
    BY DEF Cleared
  <2>2. \A o \in Cleared(ps, orphans) : IsBlock(o, generated') /\ o.txs \subseteq registered'
    BY <1>3, <2>1, Orphans
  <2> QED
    BY <1>2, <2>2 DEF OrphansAreBlocks
<1>8. DownloadPeerIsConnected'
  <2> SUFFICES ASSUME downloadPeer # None PROVE ctx'[downloadPeer].connected
    BY <1>2 DEF DownloadPeerIsConnected
  <2>1. downloadPeer \in Peer /\ ctx[downloadPeer].connected
    BY <1>1 DEF DownloadPeerIsConnected, Typed
  <2> QED
    BY <1>2, <1>5, <2>1
<1>9. Typed'
  <2>1. /\ ctx' = [q \in Peer |-> ctx'[q]] /\ in' = [q \in Peer |-> in'[q]]
        /\ out' = [q \in Peer |-> out'[q]]
    BY <1>2, <1>5
  <2>2. /\ ctx' \in [Peer -> ContextType]
        /\ in' \in [Peer -> Seq(MessageType)] /\ out' \in [Peer -> Seq(MessageType)]
    BY <1>6, <2>1, TypesFollow
  <2>3. lastOrphan' \in 0..Top
    BY <1>1, <1>2, ChainAssumption DEF Typed
  <2> QED
    BY <1>1, <1>2, <1>3, <2>2, <2>3 DEF Typed
<1>10. NoTxMissed'
  BY <1>2, NothingIsMissed
<1> QED
  BY <1>3, <1>6, <1>7, <1>8, <1>9, <1>10 DEF IInv

LEMMA ConnectDownloadStep ==
    ASSUME IInv, NEW p \in Peer, NEW q \in Peer, ~ctx[p].connected, q = p \/ Connected(q),
           downloadPeer # None => ctx[downloadPeer].last < best[p],
           ConnectDownload(p, q),
           UNCHANGED <<registered, confirmed, remote, best, failures, stray>>
    PROVE  IInv'
<1> DEFINE new == NewContext(best[p])
           c == [ctx EXCEPT ![p] = new]
           behind == lastBlock < c[q].last
           others == IF behind THEN {} ELSE {x \in Peer : c[x].connected /\ c[x].open} \ {downloadPeer, q}
           former == {downloadPeer} \ {None}
           request == IF Time[lastBlock] >= Since THEN GetBlocks(lastBlock) ELSE GetHeaders(lastBlock)
           ps == others \cup {q}
           also(x) == IF x = q /\ behind THEN <<request>> ELSE <<>>
<1>1. Typed /\ FilterIsAhead /\ OrphansAreBlocks /\ DownloadPeerIsConnected /\ Connections
  BY DEF IInv
<1>2. /\ \A x \in Peer : c[x].connected /\ c[x].open => c[x].last <= c[q].last
      /\ downloadPeer' = q
      /\ estimated' = c[q].last
      /\ LoadFilter({q})
      /\ orphans' = {} /\ lastOrphan' = 0
      /\ ctx' = [x \in Peer |-> IF x \in ps THEN [c[x] EXCEPT !.sentFilter = TRUE]
                                ELSE Shut(former, c)[x]]
      /\ out' = [x \in Peer |-> IF ctx'[x].open
                                  THEN out[x] \o [y \in Peer |-> Loaded(y, ps) \o also(y)][x]
                                  ELSE out[x]]
      /\ Closing(former)
      /\ UNCHANGED lastBlock
  BY DEF ConnectDownload, Send
<1>3. /\ generated' \in Nat /\ generated <= generated' /\ filter' \in Nat \cup {None} /\ FilterIsAhead'
      /\ generated' = Built
  BY <1>1, <1>2, LoadsFilter DEF LoadFilter
<1>4. /\ ctx \in [Peer -> ContextType] /\ in \in [Peer -> Seq(MessageType)]
      /\ out \in [Peer -> Seq(MessageType)] /\ best \in [Peer -> 0..Top] /\ lastBlock \in 0..Top
      /\ downloadPeer \in Peer \cup {None} /\ None \notin Peer
  BY <1>1, NumberAssumption DEF Typed
<1>5. c \in [Peer -> ContextType]
  <2>1. new \in ContextType
    BY <1>4, NewContextIs
  <2> HIDE DEF new
  <2> QED
    BY <1>4, <2>1
<1>6. /\ c[p] = new /\ \A x \in Peer : x # p => c[x] = ctx[x]
      /\ new.connected /\ new.open /\ new.last = best[p]
  <2>1. new.connected /\ new.open /\ new.last = best[p]
    BY <1>4, NewContextIs
  <2> HIDE DEF new
  <2> QED
    BY <1>4, <2>1
<1> HIDE DEF c, new
<1>7. \A x \in Peer :
         /\ IsConnection(c[x], in[x], out[x], remote[x], best[x], generated', registered)
         /\ IsContext(c[x], best[x], generated', registered) /\ best[x] \in 0..Top
  <2> TAKE x \in Peer
  <2>1. /\ IsConnection(ctx[x], in[x], out[x], remote[x], best[x], generated', registered)
        /\ best[x] \in 0..Top
    BY <1>3, EachGrows
  <2>2. CASE x = p
    <3>1. IsConnection(new, in[p], out[p], remote[p], best[p], generated', registered)
      BY <2>1, <2>2, ConnectionStarts DEF new
    <3> QED
      BY <1>6, <2>1, <2>2, <3>1 DEF IsConnection
  <2>3. CASE x # p
    BY <1>6, <2>1, <2>3 DEF IsConnection
  <2> QED
    BY <2>2, <2>3
<1>8. q # downloadPeer /\ downloadPeer # p /\ c[q].connected /\ c[q].open
  <2>1. downloadPeer # None => ctx[downloadPeer].connected
    BY <1>1 DEF DownloadPeerIsConnected
  <2>2. downloadPeer # p
    BY <1>4, <2>1
  <2>3. c[q].connected /\ c[q].open
    BY <1>6 DEF Connected
  <2>4. ASSUME q = downloadPeer PROVE FALSE
    <3>1. c[p].last <= c[q].last
      BY <1>2, <1>6
    <3>2. ctx[q].last < best[p] /\ c[q] = ctx[q] /\ c[p].last = best[p]
      BY <1>4, <1>6, <2>2, <2>4
    <3>3. ctx[q].last \in Nat /\ best[p] \in Nat
      BY <1>4 DEF ContextType
    <3> QED
      BY <3>1, <3>2, <3>3
  <2> QED
    BY <2>2, <2>3, <2>4
<1>9. \A x \in ps : x \in Peer /\ x \notin former /\ c[x].connected /\ c[x].open
  BY <1>8
<1>10. \A x \in Peer : \/ x \notin former /\ in'[x] = in[x]
                       \/ x \in former /\ (in'[x] = <<>> \/ (in[x] # <<>> /\ in'[x] = <<Head(in[x])>>))
  <2>1. PICK late \in SUBSET former :
          in' = [x \in Peer |-> IF x \notin former THEN in[x]
                                ELSE IF x \in late /\ in[x] # <<>> THEN <<Head(in[x])>> ELSE <<>>]
    BY <1>2 DEF Closing
  <2> HIDE DEF former
  <2> TAKE x \in Peer
  <2>2. in'[x] = IF x \notin former THEN in[x]
                 ELSE IF x \in late /\ in[x] # <<>> THEN <<Head(in[x])>> ELSE <<>>
    BY <2>1
  <2>3. CASE x \notin former
    BY <2>2, <2>3
  <2>4. CASE x \in former /\ x \in late /\ in[x] # <<>>
    BY <2>2, <2>4
  <2>5. CASE x \in former /\ ~(x \in late /\ in[x] # <<>>)
    <3>1. in'[x] = <<>>
      BY <2>2, <2>5
    <3> QED
      BY <2>5, <3>1
  <2> QED
    BY <2>3, <2>4, <2>5
<1>11. /\ in' = [x \in Peer |-> in'[x]] /\ ctx' = [x \in Peer |-> ctx'[x]] /\ out' = [x \in Peer |-> out'[x]]
  BY <1>2 DEF Closing
<1>12. \A x \in Peer : out'[x] = IF ctx'[x].open THEN out[x] \o (Loaded(x, ps) \o also(x)) ELSE out[x]
  BY <1>2
<1>13. \A x \in Peer : \/ x \in ps /\ ctx'[x] = [c[x] EXCEPT !.sentFilter = TRUE]
                       \/ x \notin ps /\ x \in former /\ ctx'[x] = [c[x] EXCEPT !.open = FALSE]
                       \/ x \notin ps /\ x \notin former /\ ctx'[x] = c[x]
  BY <1>2 DEF Shut
<1>14. \A x \in Peer : \A known : IsSending(Loaded(x, ps) \o also(x), best[x], generated', known)
  <2> TAKE x \in Peer
  <2> TAKE known
  <2>1. IsSending(<<FilterLoad(Built)>>, best[x], generated', known)
    BY <1>1, <1>3, BuiltIsAhead, SendingFilter
  <2>2. IsSending(Loaded(x, ps), best[x], generated', known)
    BY <2>1, SendingNothing DEF Loaded
  <2>3. IsSending(<<request>>, best[x], generated', known)
    <3>1. lastBlock \in Nat
      BY <1>4
    <3>2. CASE Time[lastBlock] >= Since
      BY <3>1, <3>2, SendingGetBlocks
    <3>3. CASE ~(Time[lastBlock] >= Since)
      BY <3>1, <3>3, SendingGetBlocks
    <3> QED
      BY <3>2, <3>3
  <2>4. IsSending(also(x), best[x], generated', known)
    BY <2>3, SendingNothing
  <2> QED
    BY <2>2, <2>4, SendingBoth
<1> HIDE DEF ps, others, behind, also, former
<1>15. Connections'
  <2> SUFFICES ASSUME NEW x \in Peer
               PROVE  IsConnection(ctx'[x], in'[x], out'[x], remote'[x], best'[x], generated', registered')
    BY DEF Connections
  <2> DEFINE ms == Loaded(x, ps) \o also(x)
  <2>1. /\ IsConnection(c[x], in[x], out[x], remote[x], best[x], generated', registered)
        /\ IsContext(c[x], best[x], generated', registered)
    BY <1>7
  <2>2. \A known : IsSending(ms, best[x], generated', known)
    BY <1>14
  <2>3. out'[x] = IF ctx'[x].open THEN out[x] \o ms ELSE out[x]
    BY <1>12
  <2> HIDE DEF ms
  <2>4. CASE x \in ps
    <3> DEFINE d == [c[x] EXCEPT !.sentFilter = TRUE]
    <3>1. ctx'[x] = d /\ in'[x] = in[x] /\ c[x].connected
      BY <1>9, <1>10, <1>13, <2>4
    <3>2. IsContext(d, best[x], generated', registered) /\ IsLike(d, c[x])
      BY <2>1, Marks
    <3> HIDE DEF d
    <3>3. IsConnection(d, in[x], IF d.open THEN out[x] \o ms ELSE out[x], remote[x], best[x], generated', registered)
      BY <2>1, <2>2, <3>1, <3>2, ConnectionKept
    <3> QED
      BY <2>3, <3>1, <3>3
  <2>5. CASE x \notin ps /\ x \in former
    <3> DEFINE d == [c[x] EXCEPT !.open = FALSE]
    <3>1. ctx'[x] = d /\ (in'[x] = <<>> \/ (in[x] # <<>> /\ in'[x] = <<Head(in[x])>>))
      BY <1>10, <1>13, <2>5
    <3>2. c[x].connected /\ ~d.open
      BY <1>1, <1>4, <1>5, <1>6, <1>8, <2>5 DEF former, DownloadPeerIsConnected, ContextType
    <3>3. IsConnection(d, in'[x], out[x], remote[x], best[x], generated', registered)
      BY <2>1, <3>1, <3>2, ConnectionShuts
    <3> QED
      BY <2>3, <3>1, <3>2, <3>3
  <2>6. CASE x \notin ps /\ x \notin former
    <3>1. ctx'[x] = c[x] /\ in'[x] = in[x]
      BY <1>10, <1>13, <2>6
    <3>2. IsConnection(c[x], in[x], IF c[x].open THEN out[x] \o ms ELSE out[x], remote[x], best[x], generated', registered)
      BY <2>1, <2>2, ConnectionSends
    <3> QED
      BY <2>3, <3>1, <3>2
  <2> QED
    BY <2>4, <2>5, <2>6
<1>16. OrphansAreBlocks'
  BY <1>2 DEF OrphansAreBlocks
<1>17. DownloadPeerIsConnected'
  <2>1. q \in ps
    BY DEF ps
  <2>2. ctx'[q] = [c[q] EXCEPT !.sentFilter = TRUE] /\ c[q] \in ContextType
    BY <1>5, <1>13, <2>1
  <2>3. ctx'[q].connected
    BY <1>8, <2>2 DEF ContextType
  <2> QED
    BY <1>2, <2>3 DEF DownloadPeerIsConnected
<1>18. Typed'
  <2>1. /\ ctx' \in [Peer -> ContextType]
        /\ in' \in [Peer -> Seq(MessageType)] /\ out' \in [Peer -> Seq(MessageType)]
    BY <1>11, <1>15, TypesFollow
  <2>2. lastOrphan' \in 0..Top /\ estimated' \in 0..Top
    BY <1>2, <1>5, ChainAssumption DEF ContextType
  <2> QED
    BY <1>1, <1>2, <1>3, <2>1, <2>2 DEF Typed
<1>19. NoTxMissed'
  BY <1>2, NothingIsMissed
<1> QED
  BY <1>3, <1>15, <1>16, <1>17, <1>18, <1>19 DEF IInv

LEMMA ConnectStep == ASSUME IInv, NEW p \in Peer, Connect(p) PROVE IInv'
<1>1. ~ctx[p].connected /\ UNCHANGED <<registered, confirmed, remote, best, failures, stray>>
  BY DEF Connect
<1>2. CASE downloadPeer # None /\ (ctx[downloadPeer].last >= best[p] \/ lastBlock >= best[p])
  <2>1. ConnectAlso(p)
    BY <1>2 DEF Connect
  <2> QED
    BY <1>1, <2>1, ConnectAlsoStep
<1>3. CASE ~(downloadPeer # None /\ (ctx[downloadPeer].last >= best[p] \/ lastBlock >= best[p]))
  <2>1. PICK q \in Peer : (q = p \/ Connected(q)) /\ ConnectDownload(p, q)
    BY <1>3 DEF Connect
  <2>2. downloadPeer # None => ctx[downloadPeer].last < best[p]
    <3> SUFFICES ASSUME downloadPeer # None PROVE ctx[downloadPeer].last < best[p]
      OBVIOUS
    <3>1. ctx[downloadPeer].last \in Nat /\ best[p] \in Nat
      BY DEF IInv, Typed, ContextType
    <3> QED
      BY <1>3, <3>1
  <2> QED
    BY <1>1, <2>1, <2>2, ConnectDownloadStep
<1> QED
  BY <1>2, <1>3

(* And they end. *)

LEMMA GoneStep ==
    ASSUME IInv, NEW p \in Peer, Gone(p)
    PROVE  IInv'
<1>1. Typed /\ FilterIsAhead /\ OrphansAreBlocks /\ DownloadPeerIsConnected /\ Connections
  BY DEF IInv
<1>2. /\ ctx' = [ctx EXCEPT ![p] = NoContext] /\ out' = [out EXCEPT ![p] = <<>>]
      /\ in' = [in EXCEPT ![p] = <<>>] /\ remote' = [remote EXCEPT ![p] = NoRemote]
      /\ downloadPeer' = (IF downloadPeer = p THEN None ELSE downloadPeer)
      /\ UNCHANGED <<lastBlock, estimated, orphans, lastOrphan, filter, generated, registered, confirmed,
                     best, stray>>
  BY DEF Gone, manager, wallet
<1>3. /\ ctx \in [Peer -> ContextType] /\ in \in [Peer -> Seq(MessageType)]
      /\ out \in [Peer -> Seq(MessageType)] /\ remote \in [Peer -> RemoteType] /\ generated \in Nat
      /\ best \in [Peer -> 0..Top]
  BY <1>1 DEF Typed
<1>4. Connections'
  <2> SUFFICES ASSUME NEW q \in Peer
               PROVE  IsConnection(ctx'[q], in'[q], out'[q], remote'[q], best'[q], generated', registered')
    BY DEF Connections
  <2>1. CASE q = p
    <3>1. ctx'[q] = NoContext /\ in'[q] = <<>> /\ out'[q] = <<>> /\ remote'[q] = NoRemote
      BY <1>2, <1>3, <2>1
    <3>2. best'[q] \in Nat /\ generated' \in Nat
      BY <1>2, <1>3
    <3> QED
      BY <3>1, <3>2, ConnectionIsGone
  <2>2. CASE q # p
    <3>1. ctx'[q] = ctx[q] /\ in'[q] = in[q] /\ out'[q] = out[q] /\ remote'[q] = remote[q]
      BY <1>2, <1>3, <2>2
    <3> QED
      BY <1>1, <1>2, <3>1 DEF Connections
  <2> QED
    BY <2>1, <2>2
<1>5. Typed'
  <2>1. /\ ctx' = [q \in Peer |-> ctx'[q]] /\ in' = [q \in Peer |-> in'[q]]
        /\ out' = [q \in Peer |-> out'[q]] /\ remote' \in [Peer -> RemoteType]
    BY <1>2, <1>3 DEF NoRemote, RemoteType
  <2>2. /\ ctx' \in [Peer -> ContextType]
        /\ in' \in [Peer -> Seq(MessageType)] /\ out' \in [Peer -> Seq(MessageType)]
    BY <1>4, <2>1, TypesFollow
  <2> QED
    BY <1>1, <1>2, <2>1, <2>2 DEF Typed
<1>6. DownloadPeerIsConnected'
  <2> SUFFICES ASSUME downloadPeer' # None PROVE ctx'[downloadPeer'].connected
    BY DEF DownloadPeerIsConnected
  <2>1. downloadPeer' = downloadPeer /\ downloadPeer # p /\ downloadPeer \in Peer
    BY <1>1, <1>2 DEF Typed
  <2>2. ctx[downloadPeer].connected
    BY <1>1, <2>1 DEF DownloadPeerIsConnected
  <2> QED
    BY <1>2, <1>3, <2>1, <2>2
<1>7. OrphansAreBlocks' /\ FilterIsAhead'
  BY <1>1, <1>2 DEF OrphansAreBlocks, FilterIsAhead
<1>8. NoTxMissed'
  BY <1>2, NothingIsMissed
<1> QED
  BY <1>4, <1>5, <1>6, <1>7, <1>8 DEF IInv

LEMMA EndStep ==
    ASSUME IInv, NEW p \in Peer, Disconnected(p) \/ Fail(p) \/ Timeout(p)
    PROVE  IInv'
<1>1. Gone(p)
  BY DEF Disconnected, Fail, Timeout
<1> QED
  BY <1>1, GoneStep

-----------------------------------------------------------------------------
(* Messages are handled. *)

LEMMA SendsTo ==
    ASSUME Typed, NEW p \in Peer, NEW ms, Send(To(p, ms))
    PROVE  /\ out' = [q \in Peer |-> out'[q]]
           /\ out'[p] = IF ctx'[p].open THEN out[p] \o ms ELSE out[p]
           /\ \A q \in Peer : q # p => out'[q] = out[q]
<1>1. out' = [q \in Peer |-> IF ctx'[q].open THEN out[q] \o To(p, ms)[q] ELSE out[q]]
  BY DEF Send
<1>2. To(p, ms)[p] = ms /\ \A q \in Peer : q # p => To(p, ms)[q] = <<>>
  BY DEF To, Nothing
<1>3. \A q \in Peer : out[q] \o <<>> = out[q]
  <2>1. \A q \in Peer : out[q] \in Seq(MessageType)
    BY DEF Typed
  <2> QED
    BY <2>1
<1> QED
  BY <1>1, <1>2, <1>3

LEMMA EachIs ==
    ASSUME IInv
    PROVE  \A q \in Peer :
              /\ IsConnection(ctx[q], in[q], out[q], remote[q], best[q], generated, registered)
              /\ IsContext(ctx[q], best[q], generated, registered) /\ ctx[q] \in ContextType
              /\ best[q] \in 0..Top /\ best[q] \in Nat
              /\ in[q] \in Seq(MessageType) /\ out[q] \in Seq(MessageType)
              /\ \A i \in DOMAIN in[q] : IsReply(in[q][i], best[q], generated)
              /\ \A i \in DOMAIN out[q] : IsSent(out[q][i], best[q], generated)
<1> TAKE q \in Peer
<1>1. IsConnection(ctx[q], in[q], out[q], remote[q], best[q], generated, registered)
  BY DEF IInv, Connections
<1>2. best[q] \in 0..Top /\ best[q] \in Nat
  BY DEF IInv, Typed
<1> QED
  BY <1>1, <1>2 DEF IsConnection, IsContext

\* A step that changes one connection.
OneConnection(p) ==
    /\ UNCHANGED <<lastBlock, estimated, orphans, lastOrphan, filter, downloadPeer, generated,
                   registered, confirmed, best, stray>>
    /\ \A q \in Peer : q # p =>
          /\ ctx'[q] = ctx[q] /\ in'[q] = in[q] /\ out'[q] = out[q] /\ remote'[q] = remote[q]
    /\ ctx' = [q \in Peer |-> ctx'[q]] /\ in' = [q \in Peer |-> in'[q]]
    /\ out' = [q \in Peer |-> out'[q]] /\ remote' \in [Peer -> RemoteType]

LEMMA OneConnectionStep ==
    ASSUME IInv, NEW p \in Peer, OneConnection(p), ctx'[p].connected,
           IsConnection(ctx'[p], in'[p], out'[p], remote'[p], best[p], generated, registered)
    PROVE  IInv'
<1>1. Typed /\ FilterIsAhead /\ OrphansAreBlocks /\ DownloadPeerIsConnected /\ Connections
  BY DEF IInv
<1>2. Connections'
  <2> SUFFICES ASSUME NEW q \in Peer
               PROVE  IsConnection(ctx'[q], in'[q], out'[q], remote'[q], best'[q], generated', registered')
    BY DEF Connections
  <2>1. CASE q = p
    BY <2>1 DEF OneConnection
  <2>2. CASE q # p
    BY <1>1, <2>2 DEF OneConnection, Connections
  <2> QED
    BY <2>1, <2>2
<1>3. Typed'
  <2>1. /\ ctx' \in [Peer -> ContextType]
        /\ in' \in [Peer -> Seq(MessageType)] /\ out' \in [Peer -> Seq(MessageType)]
    BY <1>2, TypesFollow DEF OneConnection
  <2> QED
    BY <1>1, <2>1 DEF Typed, OneConnection
<1>4. DownloadPeerIsConnected'
  <2> SUFFICES ASSUME downloadPeer # None PROVE ctx'[downloadPeer].connected
    BY DEF OneConnection, DownloadPeerIsConnected
  <2>1. downloadPeer \in Peer /\ ctx[downloadPeer].connected
    BY <1>1 DEF Typed, DownloadPeerIsConnected
  <2> QED
    BY <2>1 DEF OneConnection
<1>5. OrphansAreBlocks' /\ FilterIsAhead'
  BY <1>1 DEF OrphansAreBlocks, FilterIsAhead, OneConnection
<1>6. NoTxMissed'
  BY NothingIsMissed DEF OneConnection
<1> QED
  BY <1>2, <1>3, <1>4, <1>5, <1>6 DEF IInv

\* What handling a message starts from.
Handles(p) ==
    /\ ctx[p].connected /\ ctx[p].relay = <<>> /\ in[p] # <<>>
    /\ UNCHANGED <<remote, best, stray>>

LEMMA RefuseStep ==
    ASSUME IInv, NEW p \in Peer, Handles(p), Refuse(p)
    PROVE  IInv'
<1>1. /\ ctx' = [ctx EXCEPT ![p].open = FALSE] /\ in' = [in EXCEPT ![p] = <<>>]
      /\ UNCHANGED <<lastBlock, estimated, orphans, lastOrphan, filter, downloadPeer, generated,
                     registered, confirmed, best, stray, out, remote>>
  BY DEF Refuse, Handles, manager, wallet
<1>2. /\ ctx \in [Peer -> ContextType] /\ in \in [Peer -> Seq(MessageType)]
      /\ out \in [Peer -> Seq(MessageType)] /\ remote \in [Peer -> RemoteType]
  BY DEF IInv, Typed
<1> DEFINE d == [ctx[p] EXCEPT !.open = FALSE]
<1>3. ctx' = [ctx EXCEPT ![p] = d] /\ d.connected
  BY <1>1, <1>2 DEF ContextType, Handles
<1>4. IsConnection(d, <<>>, out[p], remote[p], best[p], generated, registered)
  BY ConnectionShuts, EachIs DEF Handles
<1> HIDE DEF d
<1>5. ctx'[p] = d /\ in'[p] = <<>>
  BY <1>1, <1>2, <1>3
<1>6. OneConnection(p)
  BY <1>1, <1>2, <1>3 DEF OneConnection
<1> QED
  BY <1>1, <1>3, <1>4, <1>5, <1>6, OneConnectionStep

\* A message that is answered: the context of p becomes d, and ms is sent.
Becomes(p, d, ms) ==
    /\ ctx' = [ctx EXCEPT ![p] = d] /\ Received(p) /\ Send(To(p, ms))
    /\ UNCHANGED <<lastBlock, estimated, orphans, lastOrphan, filter, downloadPeer, generated,
                   registered, confirmed, best, stray, remote>>

LEMMA BecomesOne ==
    ASSUME IInv, NEW p \in Peer, NEW d, NEW ms, Becomes(p, d, ms)
    PROVE  /\ OneConnection(p) /\ ctx'[p] = d /\ in'[p] = Tail(in[p]) /\ remote'[p] = remote[p]
           /\ out'[p] = IF d.open THEN out[p] \o ms ELSE out[p]
<1>1. /\ ctx \in [Peer -> ContextType] /\ in \in [Peer -> Seq(MessageType)]
      /\ out \in [Peer -> Seq(MessageType)] /\ remote \in [Peer -> RemoteType] /\ Typed
  BY DEF IInv, Typed
<1>2. /\ out' = [q \in Peer |-> out'[q]]
      /\ out'[p] = (IF ctx'[p].open THEN out[p] \o ms ELSE out[p])
      /\ \A q \in Peer : q # p => out'[q] = out[q]
  BY <1>1, SendsTo DEF Becomes
<1>3. /\ ctx' = [q \in Peer |-> ctx'[q]] /\ ctx'[p] = d /\ \A q \in Peer : q # p => ctx'[q] = ctx[q]
      /\ in' = [q \in Peer |-> in'[q]] /\ in'[p] = Tail(in[p]) /\ \A q \in Peer : q # p => in'[q] = in[q]
  BY <1>1 DEF Becomes, Received
<1> QED
  BY <1>1, <1>2, <1>3 DEF Becomes, OneConnection

LEMMA InvStep ==
    ASSUME IInv, NEW p \in Peer, Handles(p), Head(in[p]).type = "inv", Inv(p, Head(in[p]))
    PROVE  IInv'
<1> DEFINE m == Head(in[p])
           c == ctx[p]
           single == m.blocks = <<c.newest>>
           hs == IF ~c.sentFilter \/ single THEN <<>> ELSE m.blocks
           asked == Asked(p, hs)
           more == IF Len(asked) >= Window THEN <<GetBlocks(asked[Len(asked)])>> ELSE <<>>
           new == IF Len(hs) = 1 THEN hs[1] ELSE c.newest
           known == Trimmed(c.known \o hs)
           seen == c.seen \cup m.txs
           d == [c EXCEPT !.newest = new, !.known = known, !.seen = seen]
           ms == GetData(m.txs \ c.seen, asked) \o more
<1>1. CASE NonStandard(p, Len(m.blocks))
  <2>1. Refuse(p)
    BY <1>1 DEF Inv
  <2> QED
    BY <2>1, RefuseStep
<1>2. CASE ~NonStandard(p, Len(m.blocks))
  <2>1. /\ IsConnection(c, in[p], out[p], remote[p], best[p], generated, registered)
        /\ IsContext(c, best[p], generated, registered) /\ c \in ContextType
        /\ best[p] \in Nat /\ in[p] \in Seq(MessageType) /\ out[p] \in Seq(MessageType)
        /\ generated \in Nat
    BY EachIs DEF IInv, Typed
  <2>2. m = in[p][1] /\ m \in MessageType /\ IsReply(m, best[p], generated) /\ in[p] # <<>> /\ c.connected
    <3>1. in[p] # <<>> /\ c.connected
      BY DEF Handles
    <3>2. m = in[p][1] /\ m \in MessageType /\ 1 \in DOMAIN in[p]
      BY <2>1, <3>1, Rest
    <3> QED
      BY <3>1, <3>2, EachIs
  <2>3. m.blocks \in Seq(Nat) /\ m.txs \in SUBSET Txs /\ m.type = "inv"
    BY <2>2 DEF MessageType
  <2>4. ctx' = [ctx EXCEPT ![p].newest = new, ![p].known = known, ![p].seen = seen]
        /\ Send(To(p, ms)) /\ Received(p) /\ UNCHANGED <<manager, filter, downloadPeer, wallet>>
    BY <1>2 DEF Inv
  <2>5. ctx' = [ctx EXCEPT ![p] = d]
    BY <2>4 DEF IInv, Typed
  <2> HIDE DEF m
  <2>6. /\ hs \in Seq(Nat) /\ Range(hs) \subseteq Range(m.blocks) /\ (hs = <<>> \/ hs = m.blocks)
    <3>1. Range(<<>>) = {}
      BY DEF Range
    <3> QED
      BY <2>3, <3>1
  <2>7. Range(m.blocks) \subseteq 1..best[p]
    BY <2>2, <2>3 DEF IsReply
  <2> HIDE DEF hs
  <2>8. known \in Seq(Nat) /\ Range(known) \subseteq Range(c.known) \cup Range(m.blocks)
    <3> DEFINE w == c.known \o hs
    <3>1. c.known \in Seq(Nat)
      BY <2>1 DEF ContextType
    <3>2. w \in Seq(Nat) /\ Range(w) \subseteq Range(c.known) \cup Range(hs)
      BY <2>6, <3>1 DEF Range
    <3> HIDE DEF w
    <3>3. Trimmed(w) \in Seq(Nat) /\ Range(Trimmed(w)) \subseteq Range(w)
      BY <3>2, TrimmedIsEnd
    <3>4. known = Trimmed(w)
      BY DEF w
    <3> QED
      BY <2>6, <3>2, <3>3, <3>4
  <2> HIDE DEF known
  <2>9. new \in Nat
    <3>1. c.newest \in Nat
      BY <2>1 DEF ContextType
    <3> QED
      BY <2>6, <3>1
  <2> HIDE DEF new
  <2>10. seen \in SUBSET Txs /\ \A t \in seen : t <= generated
    <3>1. c.seen \in SUBSET Txs /\ \A t \in c.seen : t <= generated
      BY <2>1 DEF ContextType, IsContext
    <3>2. \A t \in m.txs : t <= generated
      BY <2>2, <2>3 DEF IsReply
    <3> QED
      BY <2>3, <3>1, <3>2
  <2> HIDE DEF seen
  <2>11. /\ d \in ContextType /\ d.known = known /\ d.seen = seen /\ d.connected = c.connected
         /\ d.open = c.open /\ d.block = c.block /\ d.missing = c.missing /\ d.relay = c.relay
    BY <2>1, <2>8, <2>9, <2>10 DEF ContextType
  <2> HIDE DEF d
  <2>12. IsContext(d, best[p], generated, registered)
    <3>1. Range(c.known) \subseteq 1..best[p]
      BY <2>1 DEF IsContext
    <3>2. Range(d.known) \subseteq 1..best[p]
      BY <2>7, <2>8, <2>11, <3>1
    <3> QED
      BY <2>1, <2>10, <2>11, <3>2 DEF IsContext
  <2>13. asked \in Seq(Nat) /\ Range(asked) \subseteq Range(m.blocks) /\ (asked = <<>> \/ asked = m.blocks)
    <3>1. Range(<<>>) = {}
      BY DEF Range
    <3> QED
      BY <2>6, <3>1 DEF Asked
  <2> HIDE DEF asked
  <2>14. IsSending(ms, best[p], generated, m.blocks)
    <3>1. m.txs \ c.seen \in SUBSET Txs /\ \A t \in m.txs \ c.seen : t <= generated
      BY <2>3, <2>10 DEF seen
    <3>2. Range(asked) \subseteq 1..best[p]
      BY <2>7, <2>13
    <3>3. IsSending(GetData(m.txs \ c.seen, asked), best[p], generated, m.blocks)
      BY <2>13, <3>1, <3>2, SendingGetData
    <3>4. IsSending(more, best[p], generated, m.blocks)
      <4>1. CASE Len(asked) >= Window
        <5>1. asked[Len(asked)] \in Nat
          BY <2>13, <4>1, NumberAssumption
        <5>2. IsSending(<<GetBlocks(asked[Len(asked)])>>, best[p], generated, m.blocks)
          BY <5>1, SendingGetBlocks
        <5> QED
          BY <4>1, <5>2
      <4>2. CASE ~(Len(asked) >= Window)
        BY <4>2, SendingNothing
      <4> QED
        BY <4>1, <4>2
    <3> HIDE DEF more
    <3> QED
      BY <3>3, <3>4, SendingBoth
  <2>15. m.txs \ c.seen # {} => ms # <<>> /\ ms[1].type = "getdata" /\ ms[1].txs = m.txs \ c.seen
    <3> SUFFICES ASSUME m.txs \ c.seen # {}
                 PROVE  ms # <<>> /\ ms[1].type = "getdata" /\ ms[1].txs = m.txs \ c.seen
      OBVIOUS
    <3>1. PICK t \in Txs : m.blocks = <<>> /\ m.txs = {t}
      BY <2>2, <2>3 DEF IsReply
    <3>2. asked = <<>> /\ m.txs \ c.seen = {t}
      BY <2>13, <3>1
    <3>3. Cardinality({t}) = 1 /\ Len(asked) = 0
      BY <3>2, FS_Singleton
    <3>4. ~(Len(asked) >= Window) /\ ~(Cardinality({t}) + Len(asked) > MaxKnown)
      BY <3>3, NumberAssumption
    <3> DEFINE get == Message("getdata", asked, {t})
    <3>5. GetData({t}, asked) = <<get>> /\ more = <<>>
      BY <3>4 DEF GetData
    <3>6. get.type = "getdata" /\ get.txs = {t} /\ get \in MessageType
      <4>1. "getdata" \in Types /\ {t} \in SUBSET Txs
        BY DEF Types
      <4> QED
        BY <2>13, <4>1, MessageIs
    <3> HIDE DEF get
    <3>7. ms = <<get>> \o <<>>
      BY <3>2, <3>5
    <3>8. <<get>> \o <<>> = <<get>> /\ <<get>> # <<>> /\ <<get>>[1] = get
      OBVIOUS
    <3> HIDE DEF ms
    <3>9. ms # <<>> /\ ms[1] = get
      BY <3>7, <3>8
    <3> QED
      BY <3>2, <3>6, <3>9
  <2> HIDE DEF ms
  <2>16. IsConnection(d, Tail(in[p]), IF d.open THEN out[p] \o ms ELSE out[p], remote[p], best[p],
                      generated, registered)
    <3>1. d.seen = c.seen \cup m.txs
      BY <2>11 DEF seen
    <3>2. Range(d.known) \subseteq Range(c.known) \cup Range(m.blocks)
      BY <2>8, <2>11
    <3> QED
      BY <2>1, <2>2, <2>3, <2>11, <2>12, <2>14, <2>15, <3>1, <3>2, ConnectionHasInv
  <2>17. Becomes(p, d, ms)
    BY <2>4, <2>5 DEF Becomes, Handles, manager, wallet
  <2>18. /\ OneConnection(p) /\ ctx'[p] = d /\ in'[p] = Tail(in[p]) /\ remote'[p] = remote[p]
         /\ out'[p] = IF d.open THEN out[p] \o ms ELSE out[p]
    BY <2>17, BecomesOne
  <2> QED
    BY <2>2, <2>11, <2>16, <2>18, OneConnectionStep
<1> QED
  BY <1>1, <1>2

\* What is known of the message that is handled.
LEMMA FirstMessage ==
    ASSUME IInv, NEW p \in Peer, Handles(p)
    PROVE  /\ in[p] # <<>> /\ Head(in[p]) = in[p][1] /\ Head(in[p]) \in MessageType
           /\ Head(in[p]).blocks \in Seq(Nat) /\ Head(in[p]).txs \in SUBSET Txs /\ Head(in[p]).call \in Call
           /\ IsReply(Head(in[p]), best[p], generated)
           /\ ctx[p].connected /\ ctx[p].relay = <<>>
<1>1. in[p] # <<>> /\ ctx[p].connected /\ ctx[p].relay = <<>>
  BY DEF Handles
<1>2. in[p] \in Seq(MessageType)
  BY EachIs
<1>3. Head(in[p]) = in[p][1] /\ Head(in[p]) \in MessageType /\ 1 \in DOMAIN in[p]
  BY <1>1, <1>2, Rest
<1>4. IsReply(Head(in[p]), best[p], generated)
  BY <1>3, EachIs
<1> QED
  BY <1>1, <1>3, <1>4 DEF MessageType

\* A message that is neither an inv nor a transaction.
LEMMA TakenStep ==
    ASSUME IInv, NEW p \in Peer, Handles(p), in[p][1].type \notin {"inv", "tx"}, NEW d, NEW ms,
           IsContext(d, best[p], generated, registered), IsLike(d, ctx[p]),
           IsSending(ms, best[p], generated, d.known), Becomes(p, d, ms)
    PROVE  IInv'
<1>1. /\ IsConnection(ctx[p], in[p], out[p], remote[p], best[p], generated, registered)
      /\ best[p] \in Nat /\ generated \in Nat /\ in[p] # <<>> /\ ctx[p].connected
  BY EachIs, FirstMessage DEF IInv, Typed
<1>2. IsConnection(ctx[p], Tail(in[p]), out[p], remote[p], best[p], generated, registered)
  BY <1>1, ConnectionTakes
<1>3. IsConnection(d, Tail(in[p]), IF d.open THEN out[p] \o ms ELSE out[p], remote[p], best[p],
                   generated, registered)
  BY <1>1, <1>2, ConnectionKept
<1>4. /\ OneConnection(p) /\ ctx'[p] = d /\ in'[p] = Tail(in[p]) /\ remote'[p] = remote[p]
      /\ out'[p] = IF d.open THEN out[p] \o ms ELSE out[p]
  BY BecomesOne
<1>5. d.connected
  BY <1>1 DEF IsLike
<1> QED
  BY <1>3, <1>4, <1>5, OneConnectionStep

LEMMA SendsNothing ==
    ASSUME Typed, NEW p \in Peer, UNCHANGED out
    PROVE  Send(To(p, <<>>))
<1>1. out \in [Peer -> Seq(MessageType)] /\ \A q \in Peer : out[q] \in Seq(MessageType)
  BY DEF Typed
<1>2. \A q \in Peer : out[q] \o <<>> = out[q]
  BY <1>1
<1>3. \A q \in Peer : To(p, <<>>)[q] = <<>>
  BY DEF To, Nothing
<1>4. out = [q \in Peer |-> IF ctx'[q].open THEN out[q] \o To(p, <<>>)[q] ELSE out[q]]
  BY <1>1, <1>2, <1>3
<1> QED
  BY <1>4 DEF Send

\* The thread has blocks to relay.
LEMMA RelayIsContext ==
    ASSUME NEW c, NEW b, NEW g, NEW txs, IsContext(c, b, g, txs), NEW bs \in Seq(BlockType),
           \A i \in DOMAIN bs : IsBlock(bs[i], g) /\ bs[i].txs \subseteq txs
    PROVE  /\ IsContext([c EXCEPT !.relay = bs], b, g, txs) /\ IsLike([c EXCEPT !.relay = bs], c)
           /\ [c EXCEPT !.relay = bs].known = c.known
<1> DEFINE d == [c EXCEPT !.relay = bs]
<1>1. c \in ContextType
  BY DEF IsContext
<1>2. /\ d \in ContextType /\ d.connected = c.connected /\ d.open = c.open /\ d.known = c.known
      /\ d.seen = c.seen /\ d.block = c.block /\ d.missing = c.missing /\ d.relay = bs
  BY <1>1 DEF ContextType
<1> HIDE DEF d
<1>3. IsContext(d, b, g, txs) /\ IsLike(d, c) /\ d.known = c.known
  BY <1>2 DEF IsContext, IsLike
<1> QED
  BY <1>3 DEF d

LEMMA HeadersStep ==
    ASSUME IInv, NEW p \in Peer, Handles(p), Head(in[p]).type = "headers", Headers(p, Head(in[p]))
    PROVE  IInv'
<1> DEFINE m == Head(in[p])
           hs == m.blocks
           n == Len(hs)
           near == hs # <<>> /\ IsNew(hs[n])
           next == IF near THEN GetBlocks(Start(hs)) ELSE GetHeaders(hs[n])
           bs == [i \in DOMAIN hs |-> Block(hs[i], {}, None)]
           c == ctx[p]
           d == [c EXCEPT !.relay = bs]
<1>1. CASE ~near /\ n < HeaderWindow
  <2>1. Refuse(p)
    BY <1>1 DEF Headers
  <2> QED
    BY <2>1, RefuseStep
<1>2. CASE ~(~near /\ n < HeaderWindow)
  <2>1. /\ hs \in Seq(Nat) /\ IsReply(m, best[p], generated) /\ m = in[p][1] /\ m.type = "headers"
        /\ IsContext(c, best[p], generated, registered) /\ best[p] \in 0..Top
    BY FirstMessage, EachIs
  <2>2. Range(hs) \subseteq 1..best[p]
    BY <2>1 DEF IsReply
  <2>3. /\ ctx' = [ctx EXCEPT ![p].relay = bs] /\ Send(To(p, <<next>>)) /\ Received(p)
        /\ UNCHANGED <<manager, filter, downloadPeer, wallet>>
    BY <1>2 DEF Headers
  <2>4. n \in Nat \ {0} /\ hs[n] \in Nat
    <3>1. n \in Nat
      BY <2>1
    <3>2. n # 0
      BY <1>2, <2>1, <3>1, NumberAssumption
    <3> QED
      BY <2>1, <3>1, <3>2
  <2>5. Start(hs) \in Nat
    <3> DEFINE S == {i \in 2..n : IsNew(hs[i])} \cup {n + 1}
    <3>1. S \in SUBSET Nat /\ S # {} /\ \A i \in S : i - 1 \in 1..n
      BY <2>4
    <3>2. Min(S) - 1 \in 1..n
      BY <3>1, MinIsElement
    <3>3. Start(hs) = hs[Min(S) - 1]
      BY DEF Start
    <3> HIDE DEF S, hs
    <3> QED
      BY <2>1, <3>2, <3>3
  <2>6. IsSending(<<next>>, best[p], generated, d.known)
    <3>1. CASE near
      BY <2>5, <3>1, SendingGetBlocks
    <3>2. CASE ~near
      BY <2>4, <3>2, SendingGetBlocks
    <3> QED
      BY <3>1, <3>2
  <2>7. bs \in Seq(BlockType) /\ \A i \in DOMAIN bs : IsBlock(bs[i], generated) /\ bs[i].txs \subseteq registered
    <3>1. ASSUME NEW i \in DOMAIN hs
          PROVE  /\ Block(hs[i], {}, None) \in BlockType /\ IsBlock(Block(hs[i], {}, None), generated)
                 /\ Block(hs[i], {}, None).txs = {}
      <4>1. hs[i] \in 0..Top
        <5>1. hs[i] \in Range(hs) /\ Top \in Nat
          BY ChainAssumption DEF Range
        <5>2. hs[i] \in 1..best[p]
          BY <2>2, <5>1
        <5> QED
          BY <2>1, <5>1, <5>2
      <4>2. Block(hs[i], {}, None) \in BlockType
        BY <4>1 DEF Block, BlockType
      <4> QED
        BY <4>2 DEF Block, IsBlock
    <3>2. DOMAIN hs = 1..n
      BY <2>1
    <3>3. DOMAIN bs = 1..n /\ \A i \in 1..n : bs[i] = Block(hs[i], {}, None)
      BY <3>2
    <3>4. bs \in [1..n -> BlockType]
      BY <3>1, <3>2, <3>3
    <3> HIDE DEF bs, n
    <3>5. bs \in Seq(BlockType)
      BY <2>4, <3>4
    <3> QED
      BY <3>1, <3>2, <3>3, <3>5
  <2> HIDE DEF bs, next
  <2>8. IsContext(d, best[p], generated, registered) /\ IsLike(d, c)
    BY <2>1, <2>7, RelayIsContext
  <2>9. ctx' = [ctx EXCEPT ![p] = d]
    BY <2>3 DEF IInv, Typed
  <2>10. Becomes(p, d, <<next>>)
    BY <2>3, <2>9 DEF Becomes, Handles, manager, wallet
  <2> QED
    BY <2>1, <2>6, <2>8, <2>10, TakenStep
<1> QED
  BY <1>1, <1>2

LEMMA MerkleBlockStep ==
    ASSUME IInv, NEW p \in Peer, Handles(p), Head(in[p]).type = "merkleblock", MerkleBlock(p, Head(in[p]))
    PROVE  IInv'
<1> DEFINE m == Head(in[p])
           c == ctx[p]
           h == m.blocks[1]
           f == m.blocks[2]
           b == Block(h, m.txs, f)
           missing == Awaited(p, m.txs)
           block == IF missing = {} THEN NoBlock ELSE b
           relay == IF missing = {} THEN <<b>> ELSE <<>>
           d == [c EXCEPT !.missing = missing, !.block = block, !.relay = relay]
<1>1. /\ m.blocks \in Seq(Nat) /\ m.txs \in SUBSET Txs /\ m = in[p][1] /\ m.type = "merkleblock"
      /\ IsReply(m, best[p], generated)
      /\ IsContext(c, best[p], generated, registered) /\ c \in ContextType /\ best[p] \in 0..Top
  BY FirstMessage, EachIs
<1>2. h \in 1..best[p] /\ f \in Nat /\ f <= generated /\ m.txs = Matched(h, f)
  <2>1. Len(m.blocks) = 2 /\ h \in 1..best[p] /\ f <= generated /\ m.txs = Matched(h, f)
    BY <1>1 DEF IsReply
  <2>2. f \in Nat
    BY <1>1, <2>1
  <2> QED
    BY <2>1, <2>2
<1>3. h \in Blocks /\ h \in 0..Top
  <2>1. Top \in Nat /\ best[p] \in 0..Top /\ h \in 1..best[p]
    BY <1>1, <1>2, ChainAssumption
  <2> QED
    BY <2>1 DEF Blocks
<1>4. f # None
  BY <1>2, NumberAssumption
<1>5. b \in BlockType /\ IsBlock(b, generated) /\ b.txs = m.txs
  <2>1. b \in BlockType
    BY <1>1, <1>2, <1>3 DEF Block, BlockType
  <2> QED
    BY <1>2, <1>3, <1>4, <2>1 DEF Block, IsBlock
<1>6. m.txs \cap c.seen \subseteq registered
  <2> SUFFICES ASSUME NEW t \in m.txs, t \in c.seen PROVE t \in registered
    OBVIOUS
  <2>1. BlockOf(t) = h
    BY <1>2, <1>3, MatchedTxs
  <2>2. in[p] # <<>> /\ in[p] \in Seq(MessageType) /\ SeenComes(c, in[p], out[p], registered)
    BY FirstMessage, EachIs DEF IsConnection
  <2> QED
    BY <1>1, <2>1, <2>2, SeenIsThere
<1>7. missing = m.txs \ c.seen
  BY DEF Awaited
<1>8. /\ ctx' = [ctx EXCEPT ![p].missing = missing, ![p].block = block, ![p].relay = relay]
      /\ Received(p) /\ UNCHANGED <<manager, filter, downloadPeer, wallet, out>>
  BY DEF MerkleBlock
<1>9. ctx' = [ctx EXCEPT ![p] = d]
  BY <1>8 DEF IInv, Typed
<1> HIDE DEF m, b, missing, f
<1>10. relay \in Seq(BlockType) /\ block \in BlockType /\ missing \in SUBSET Txs
  BY <1>1, <1>5, <1>7, NoBlockIsBlock DEF IsBlock
<1>11. IsBlock(block, generated) /\ missing \subseteq block.txs /\ block.txs \ missing \subseteq registered
       /\ (missing = {} => block = NoBlock)
  <2>1. CASE missing = {}
    <3>1. block = NoBlock /\ NoBlock.txs = {}
      BY <2>1 DEF NoBlock, Block
    <3> QED
      BY <2>1, <3>1, NoBlockIsBlock
  <2>2. CASE missing # {}
    BY <1>5, <1>6, <1>7, <2>2
  <2> QED
    BY <2>1, <2>2
<1>12. \A i \in DOMAIN relay : IsBlock(relay[i], generated) /\ relay[i].txs \subseteq registered
  <2>1. CASE missing = {}
    <3>1. relay = <<b>> /\ b.txs \subseteq registered
      BY <1>5, <1>6, <1>7, <2>1
    <3> QED
      BY <1>5, <3>1
  <2>2. CASE missing # {}
    BY <2>2
  <2> QED
    BY <2>1, <2>2
<1> HIDE DEF relay, block
<1>13. /\ d \in ContextType /\ d.connected = c.connected /\ d.open = c.open /\ d.known = c.known
       /\ d.seen = c.seen /\ d.block = block /\ d.missing = missing /\ d.relay = relay
  BY <1>1, <1>10 DEF ContextType
<1> HIDE DEF d
<1>14. IsContext(d, best[p], generated, registered) /\ IsLike(d, c)
  BY <1>1, <1>11, <1>12, <1>13 DEF IsContext, IsLike
<1>15. Becomes(p, d, <<>>)
  <2>1. Send(To(p, <<>>))
    BY <1>8, SendsNothing DEF IInv
  <2> QED
    BY <1>8, <1>9, <2>1 DEF Becomes, Handles, manager, wallet
<1>16. IsSending(<<>>, best[p], generated, d.known)
  BY SendingNothing
<1> QED
  BY <1>1, <1>14, <1>15, <1>16, TakenStep

\* The transactions of a merkleblock exist in the wallet.
LEMMA BlockIsPaid ==
    ASSUME NEW c, NEW b, NEW g \in Nat, NEW txs, IsContext(c, b, g, txs)
    PROVE  \A t \in c.block.txs : t <= g
<1>1. IsBlock(c.block, g)
  BY DEF IsContext
<1>2. CASE c.block.filter = None
  BY <1>1, <1>2 DEF IsBlock
<1>3. CASE c.block.filter # None
  <2>1. /\ c.block.height \in Blocks /\ c.block.filter <= g /\ c.block.filter \in Nat
        /\ c.block.txs = Matched(c.block.height, c.block.filter)
    BY <1>1, <1>3 DEF IsBlock, BlockType
  <2>2. \A t \in Matched(c.block.height, c.block.filter) : t \in Txs /\ t <= c.block.filter
    BY <2>1, MatchedTxs
  <2>3. \A t \in c.block.txs : t \in Nat /\ t <= c.block.filter
    BY <2>1, <2>2, TxsAreBounded
  <2> QED
    BY <2>1, <2>3
<1> QED
  BY <1>2, <1>3

\* The transaction is taken off what is missing, and the block may be complete.
LEMMA CollectedIsContext ==
    ASSUME NEW c, NEW b, NEW g, NEW txs, NEW missing, IsContext(c, b, g, txs), c.relay = <<>>,
           missing \subseteq c.missing, c.block.txs \ missing \subseteq txs
    PROVE  /\ IsContext(Collected(c, missing), b, g, txs)
           /\ IsLike(Collected(c, missing), c)
           /\ Collected(c, missing).known = c.known
<1> DEFINE full == [c EXCEPT !.missing = {}, !.block = NoBlock, !.relay = <<c.block>>]
           part == [c EXCEPT !.missing = missing]
<1>1. /\ c \in ContextType /\ IsBlock(c.block, g) /\ c.missing \subseteq c.block.txs
      /\ (c.missing = {} => c.block = NoBlock)
  BY DEF IsContext
<1>2. NoBlock \in BlockType /\ IsBlock(NoBlock, g) /\ NoBlock.txs = {}
  BY NoBlockIsBlock DEF IsBlock, NoBlock, Block
<1>3. CASE c.block # NoBlock /\ missing = {}
  <2>1. <<c.block>> \in Seq(BlockType) /\ {} \in SUBSET Txs
    BY <1>1 DEF IsBlock
  <2>2. /\ full \in ContextType /\ full.connected = c.connected /\ full.open = c.open
        /\ full.known = c.known /\ full.seen = c.seen /\ full.block = NoBlock /\ full.missing = {}
        /\ full.relay = <<c.block>>
    BY <1>1, <1>2, <2>1 DEF ContextType
  <2> HIDE DEF full
  <2>3. \A i \in DOMAIN full.relay : IsBlock(full.relay[i], g) /\ full.relay[i].txs \subseteq txs
    BY <1>1, <1>3, <2>2
  <2>4. IsContext(full, b, g, txs) /\ IsLike(full, c)
    BY <1>2, <2>2, <2>3 DEF IsContext, IsLike
  <2>5. Collected(c, missing) = full
    BY <1>3 DEF Collected, full
  <2> QED
    BY <2>2, <2>4, <2>5
<1>4. CASE ~(c.block # NoBlock /\ missing = {})
  <2>1. missing \in SUBSET Txs
    BY <1>1 DEF ContextType
  <2>2. /\ part \in ContextType /\ part.connected = c.connected /\ part.open = c.open
        /\ part.known = c.known /\ part.seen = c.seen /\ part.block = c.block /\ part.missing = missing
        /\ part.relay = c.relay
    BY <1>1, <2>1 DEF ContextType
  <2> HIDE DEF part
  <2>3. IsContext(part, b, g, txs) /\ IsLike(part, c)
    BY <1>1, <1>4, <2>1, <2>2 DEF IsContext, IsLike
  <2>4. Collected(c, missing) = part
    BY <1>4 DEF Collected, part
  <2> QED
    BY <2>2, <2>3, <2>4
<1> QED
  BY <1>3, <1>4

LEMMA TxStep ==
    ASSUME IInv, NEW p \in Peer, Handles(p), Head(in[p]).type = "tx", Tx(p, Head(in[p]))
    PROVE  IInv'
<1> DEFINE m == Head(in[p])
           c == ctx[p]
           txs == registered \cup {t \in m.txs : t <= generated}
           outgrown == txs # registered /\ IsOutgrown(txs)
           missing == c.missing \ m.txs
           d == Collected(c, missing)
           collect == [ctx EXCEPT ![p] = d]
           was(x) == IF x = p THEN d ELSE ctx[x]
           ms(x) == IF outgrown THEN UpdatePing(x) ELSE <<>>
<1>1. Typed /\ FilterIsAhead /\ OrphansAreBlocks /\ DownloadPeerIsConnected /\ Connections
  BY DEF IInv
<1>2. /\ registered' = txs
      /\ generated' = Larger(generated, Used(txs) + Gap)
      /\ filter' = (IF outgrown THEN None ELSE filter)
      /\ ctx' = (IF outgrown THEN Marked(collect) ELSE collect)
      /\ Send([x \in Peer |-> ms(x)])
      /\ Received(p)
      /\ UNCHANGED <<lastBlock, estimated, orphans, lastOrphan, downloadPeer, confirmed, remote, best, stray>>
  BY DEF Tx, Handles, manager
<1>3. /\ m.txs \in SUBSET Txs /\ m = in[p][1] /\ m.type = "tx" /\ in[p] # <<>>
      /\ c.connected /\ c.relay = <<>>
  BY FirstMessage
<1>4. /\ ctx \in [Peer -> ContextType] /\ in \in [Peer -> Seq(MessageType)]
      /\ out \in [Peer -> Seq(MessageType)] /\ best \in [Peer -> 0..Top]
      /\ registered \in SUBSET Txs /\ generated \in Nat /\ filter \in Nat \cup {None}
      /\ downloadPeer \in Peer \cup {None} /\ None \notin Peer /\ None \notin Nat
  BY <1>1, NumberAssumption DEF Typed
<1> HIDE DEF m
<1>5. txs \in SUBSET Txs /\ registered \subseteq txs
  BY <1>3, <1>4
<1>6. Used(txs) \in Nat /\ Gap \in Nat
  BY <1>5, UsedIsLast, NumberAssumption
<1>7. generated' \in Nat /\ generated <= generated' /\ registered \subseteq registered'
  BY <1>2, <1>4, <1>5, <1>6 DEF Larger
<1>8. FilterIsAhead' /\ filter' \in Nat \cup {None}
  <2>1. CASE outgrown
    BY <1>2, <2>1 DEF FilterIsAhead
  <2>2. CASE ~outgrown
    <3>1. filter' = filter
      BY <1>2, <2>2
    <3> SUFFICES ASSUME filter # None PROVE filter <= generated' /\ Used(txs) + Gap <= filter
      BY <1>2, <1>4, <3>1 DEF FilterIsAhead
    <3>2. filter \in Nat /\ filter <= generated /\ Used(registered) + Gap <= filter
      BY <1>1, <1>4 DEF FilterIsAhead
    <3>3. filter <= generated'
      BY <1>4, <1>7, <3>2
    <3>4. Used(txs) + Gap <= filter
      <4>1. CASE txs = registered
        BY <3>2, <4>1
      <4>2. CASE ~IsOutgrown(txs)
        BY <1>6, <3>2, <4>2 DEF IsOutgrown
      <4> QED
        BY <2>2, <4>1, <4>2
    <3> QED
      BY <3>3, <3>4
  <2> QED
    BY <2>1, <2>2
<1> HIDE DEF outgrown
<1>9. \A x \in Peer : \A k \in Nat : \A known : IsSending(ms(x), k, generated', known)
  <2> TAKE x \in Peer
  <2> TAKE k \in Nat
  <2> TAKE known
  <2>1. "updateFilterPingDone" \in Callbacks
    BY DEF Callbacks
  <2>2. IsSending(<<Ping("updateFilterPingDone", x)>>, k, generated', known)
    BY <2>1, SendingPing
  <2>3. ms(x) = <<Ping("updateFilterPingDone", x)>> \/ ms(x) = <<>>
    BY DEF UpdatePing
  <2> HIDE DEF ms
  <2> QED
    BY <2>2, <2>3, SendingNothing
<1>10. /\ out' = [x \in Peer |-> out'[x]] /\ in' = [x \in Peer |-> in'[x]] /\ ctx' = [x \in Peer |-> ctx'[x]]
       /\ in'[p] = Tail(in[p]) /\ \A x \in Peer : x # p => in'[x] = in[x]
       /\ \A x \in Peer : Gets(x, ms(x))
  <2>1. out' = [x \in Peer |-> IF ctx'[x].open THEN out[x] \o [y \in Peer |-> ms(y)][x] ELSE out[x]]
    BY <1>2 DEF Send
  <2> HIDE DEF ms
  <2>2. out' = [x \in Peer |-> out'[x]] /\ \A x \in Peer : Gets(x, ms(x))
    BY <2>1 DEF Gets
  <2>3. /\ in' = [x \in Peer |-> in'[x]] /\ in'[p] = Tail(in[p])
        /\ \A x \in Peer : x # p => in'[x] = in[x]
    BY <1>2, <1>4 DEF Received
  <2>4. ctx' = [x \in Peer |-> ctx'[x]]
    <3> HIDE DEF d
    <3> QED
      BY <1>2, <1>4 DEF Marked
  <2> QED
    BY <2>2, <2>3, <2>4
<1> HIDE DEF ms
<1>11. \A x \in Peer :
          ctx'[x] = was(x) \/ (x = downloadPeer /\ ctx'[x] = [was(x) EXCEPT !.update = TRUE])
  <2> HIDE DEF d
  <2>1. collect[p] = d /\ \A x \in Peer : x # p => collect[x] = ctx[x]
    BY <1>4
  <2>2. DOMAIN collect = Peer
    BY <1>4
  <2> HIDE DEF collect
  <2>3. \A x \in Peer : ctx'[x] = collect[x] \/ (x = downloadPeer /\ ctx'[x] = [collect[x] EXCEPT !.update = TRUE])
    BY <1>2, <2>2 DEF Marked
  <2>4. \A x \in Peer : collect[x] = was(x)
    BY <2>1
  <2> HIDE DEF was
  <2> QED
    BY <2>3, <2>4
<1>12. /\ IsContext(d, best[p], generated', registered') /\ IsLike(d, c) /\ d.known = c.known
  <2>1. IsContext(c, best[p], generated, registered) /\ IsContext(c, best[p], generated', registered')
    BY <1>7, EachIs, EachGrows
  <2>2. \A t \in c.block.txs : t <= generated
    BY <1>4, <2>1, BlockIsPaid
  <2>3. c.block.txs \ c.missing \subseteq registered
    BY <2>1 DEF IsContext
  <2>4. missing \subseteq c.missing /\ c.block.txs \ missing \subseteq registered'
    BY <1>2, <2>2, <2>3
  <2>5. c.relay = <<>>
    BY <1>3
  <2> HIDE DEF c, missing
  <2> DEFINE b == best[p]
             g == generated'
             rs == registered'
  <2>6. IsContext(c, b, g, rs) /\ c.relay = <<>> /\ missing \subseteq c.missing /\ c.block.txs \ missing \subseteq rs
    BY <2>1, <2>4, <2>5
  <2> HIDE DEF b, g, rs
  <2>7. d = Collected(c, missing)
    OBVIOUS
  <2> HIDE DEF d
  <2>8. IsContext(d, b, g, rs) /\ IsLike(d, c) /\ d.known = c.known
    BY <2>6, <2>7, CollectedIsContext
  <2> QED
    BY <2>8 DEF b, g, rs
<1> HIDE DEF d, collect
<1>13. Connections'
  <2> SUFFICES ASSUME NEW x \in Peer
               PROVE  IsConnection(ctx'[x], in'[x], out'[x], remote'[x], best'[x], generated', registered')
    BY DEF Connections
  <2>1. /\ IsConnection(ctx[x], in[x], out[x], remote[x], best[x], generated', registered')
        /\ IsContext(ctx[x], best[x], generated', registered') /\ best[x] \in 0..Top
    BY <1>7, EachGrows
  <2> DEFINE k == IF x = p THEN d ELSE ctx[x]
  <2>2. IsContext(k, best[x], generated', registered') /\ IsLike(k, ctx[x]) /\ k.known = ctx[x].known
    BY <1>12, <2>1 DEF IsLike
  <2>3. ctx'[x] = k \/ (x = downloadPeer /\ ctx'[x] = [k EXCEPT !.update = TRUE])
    BY <1>11
  <2>4. k = ctx[x] \/ ctx[x].connected
    BY <1>3
  <2> HIDE DEF k
  <2>5. /\ IsContext(ctx'[x], best[x], generated', registered') /\ IsLike(ctx'[x], ctx[x])
        /\ (ctx'[x] = ctx[x] \/ ctx[x].connected)
    <3>1. CASE ctx'[x] = k
      BY <2>2, <2>4, <3>1
    <3>2. CASE x = downloadPeer /\ ctx'[x] = [k EXCEPT !.update = TRUE]
      <4>1. ctx[x].connected
        BY <1>1, <1>4, <3>2 DEF DownloadPeerIsConnected
      <4> DEFINE e == [k EXCEPT !.update = TRUE]
      <4>2. IsContext(e, best[x], generated', registered') /\ IsLike(e, k)
        BY <2>2, Marks
      <4>3. ctx'[x] = e
        BY <3>2
      <4> HIDE DEF e
      <4> QED
        BY <2>2, <4>1, <4>2, <4>3 DEF IsLike
    <3> QED
      BY <2>3, <3>1, <3>2
  <2>6. IsSending(ms(x), best[x], generated', ctx'[x].known)
    BY <1>9, <2>1
  <2>7. CASE x # p
    <3>1. IsAsBefore(x) /\ Gets(x, ms(x))
      BY <1>2, <1>10, <2>7 DEF IsAsBefore
    <3> QED
      BY <1>7, <2>5, <2>6, <3>1, StaysConnected
  <2>8. CASE x = p
    <3>1. in[p][1].txs \cap c.seen \subseteq registered'
      <4>1. \A t \in c.seen : t <= generated
        BY EachIs DEF IsContext
      <4> QED
        BY <1>2, <1>3, <4>1
    <3>2. IsConnection(c, Tail(in[p]), out[p], remote[p], best[p], generated', registered')
      BY <1>3, <1>7, <2>1, <2>8, <3>1, ConnectionTakes
    <3>3. IsConnection(ctx'[p], Tail(in[p]), IF ctx'[p].open THEN out[p] \o ms(p) ELSE out[p], remote[p], best[p],
                       generated', registered')
      BY <1>3, <2>5, <2>6, <2>8, <3>2, ConnectionKept
    <3> QED
      BY <1>2, <1>10, <2>8, <3>3 DEF Gets
  <2> QED
    BY <2>7, <2>8
<1>14. OrphansAreBlocks'
  <2>1. orphans \in SUBSET orphans
    OBVIOUS
  <2>2. \A o \in orphans : IsBlock(o, generated') /\ o.txs \subseteq registered'
    BY <1>7, <2>1, Orphans
  <2> QED
    BY <1>2, <2>2 DEF OrphansAreBlocks
<1>15. DownloadPeerIsConnected'
  <2> SUFFICES ASSUME downloadPeer # None PROVE ctx'[downloadPeer].connected
    BY <1>2 DEF DownloadPeerIsConnected
  <2>1. downloadPeer \in Peer /\ ctx[downloadPeer].connected
    BY <1>1 DEF DownloadPeerIsConnected, Typed
  <2> DEFINE x == downloadPeer
             k == IF x = p THEN d ELSE ctx[x]
  <2>2. k.connected /\ k \in ContextType
    BY <1>4, <1>12, <2>1 DEF IsLike, IsContext
  <2>3. ctx'[x] = k \/ ctx'[x] = [k EXCEPT !.update = TRUE]
    BY <1>11, <2>1
  <2> HIDE DEF k
  <2>4. [k EXCEPT !.update = TRUE].connected = k.connected
    BY <2>2 DEF ContextType
  <2> QED
    BY <2>2, <2>3, <2>4
<1>16. Typed'
  <2>1. /\ ctx' \in [Peer -> ContextType]
        /\ in' \in [Peer -> Seq(MessageType)] /\ out' \in [Peer -> Seq(MessageType)]
    BY <1>10, <1>13, TypesFollow
  <2>2. registered' \subseteq Txs /\ confirmed' \subseteq registered'
    BY <1>1, <1>2, <1>5 DEF Typed
  <2> QED
    BY <1>1, <1>2, <1>7, <1>8, <2>1, <2>2 DEF Typed
<1>17. NoTxMissed'
  BY <1>2, <1>7, NothingIsMissed
<1> QED
  BY <1>8, <1>13, <1>14, <1>15, <1>16, <1>17 DEF IInv

-----------------------------------------------------------------------------
(* Steps that send to several peers. *)

Changes(q) ==
    \/ ctx'[q] = ctx[q]
    \/ ctx[q].connected /\ IsLike(ctx'[q], ctx[q]) /\ IsContext(ctx'[q], best[q], generated', registered')

\* A message of p is handled that is neither an inv nor a transaction, or none.
Takes(p) ==
    \/ UNCHANGED in
    \/ Received(p) /\ in[p] # <<>> /\ in[p][1].type \notin {"inv", "tx"} /\ ctx[p].connected

LEMMA ConnectionsFollow ==
    ASSUME IInv, generated' \in Nat, generated <= generated', registered \subseteq registered',
           UNCHANGED <<remote, best>>, NEW p \in Peer, Takes(p), ctx' = [q \in Peer |-> ctx'[q]],
           NEW ms, Send(ms), \A q \in Peer : IsSending(ms[q], best[q], generated', ctx'[q].known),
           \A q \in Peer : Changes(q)
    PROVE  /\ Connections'
           /\ ctx' \in [Peer -> ContextType]
           /\ in' \in [Peer -> Seq(MessageType)] /\ out' \in [Peer -> Seq(MessageType)]
           /\ DownloadPeerIsConnected /\ downloadPeer' = downloadPeer => DownloadPeerIsConnected'
<1>1. in \in [Peer -> Seq(MessageType)]
  BY DEF IInv, Typed
<1>2. out' = [q \in Peer |-> out'[q]] /\ \A q \in Peer : Gets(q, ms[q])
  <2>1. out' = [q \in Peer |-> IF ctx'[q].open THEN out[q] \o ms[q] ELSE out[q]]
    BY DEF Send
  <2> QED
    BY <2>1 DEF Gets
<1>3. in' = [q \in Peer |-> in'[q]] /\ \A q \in Peer : q # p => in'[q] = in[q]
  BY <1>1 DEF Takes, Received
<1>4. Connections'
  <2> SUFFICES ASSUME NEW q \in Peer
               PROVE  IsConnection(ctx'[q], in'[q], out'[q], remote'[q], best'[q], generated', registered')
    BY DEF Connections
  <2>1. Changes(q) /\ IsSending(ms[q], best[q], generated', ctx'[q].known) /\ Gets(q, ms[q])
    BY <1>2
  <2>2. CASE in'[q] = in[q]
    <3>1. IsAsBefore(q)
      BY <2>2 DEF IsAsBefore
    <3> QED
      BY <2>1, <3>1, StaysConnected DEF Changes
  <2>3. CASE in'[q] # in[q]
    <3>1. /\ q = p /\ in'[p] = Tail(in[p]) /\ in[p] # <<>> /\ in[p][1].type # "tx"
          /\ in[p][1].type # "inv" /\ ctx[p].connected
      BY <1>1, <1>3, <2>3 DEF Takes, Received
    <3>2. /\ IsConnection(ctx[p], in[p], out[p], remote[p], best[p], generated', registered')
          /\ IsContext(ctx[p], best[p], generated', registered') /\ best[p] \in Nat
      BY EachGrows
    <3>3. IsConnection(ctx[p], Tail(in[p]), out[p], remote[p], best[p], generated', registered')
      BY <3>1, <3>2, ConnectionTakes
    <3>4. IsContext(ctx'[p], best[p], generated', registered') /\ IsLike(ctx'[p], ctx[p])
      BY <2>1, <3>1, <3>2 DEF Changes, IsLike
    <3>5. IsConnection(ctx'[p], Tail(in[p]), IF ctx'[p].open THEN out[p] \o ms[p] ELSE out[p],
                       remote[p], best[p], generated', registered')
      BY <2>1, <3>1, <3>3, <3>4, ConnectionKept
    <3> QED
      BY <2>1, <3>1, <3>5 DEF Gets
  <2> QED
    BY <2>2, <2>3
<1>5. /\ ctx' \in [Peer -> ContextType]
      /\ in' \in [Peer -> Seq(MessageType)] /\ out' \in [Peer -> Seq(MessageType)]
  BY <1>2, <1>3, <1>4, TypesFollow
<1>6. ASSUME DownloadPeerIsConnected, downloadPeer' = downloadPeer PROVE DownloadPeerIsConnected'
  <2> SUFFICES ASSUME downloadPeer # None PROVE ctx'[downloadPeer].connected
    BY <1>6 DEF DownloadPeerIsConnected
  <2>1. downloadPeer \in Peer /\ ctx[downloadPeer].connected
    BY <1>6 DEF IInv, Typed, DownloadPeerIsConnected
  <2> QED
    BY <2>1 DEF Changes, IsLike
<1> QED
  BY <1>4, <1>5, <1>6

\* A callback of the manager.
LEMMA CallbackStep ==
    ASSUME IInv, NEW p \in Peer, Handles(p), in[p][1].call # <<>>, Received(p),
           UNCHANGED <<lastBlock, estimated, downloadPeer, registered, confirmed>>,
           generated' \in Nat, generated <= generated', filter' \in Nat \cup {None}, FilterIsAhead',
           orphans' \subseteq orphans, lastOrphan' \in 0..Top, ctx' = [q \in Peer |-> ctx'[q]],
           NEW ms, Send(ms), \A q \in Peer : IsSending(ms[q], best[q], generated', ctx'[q].known),
           \A q \in Peer : Changes(q)
    PROVE  IInv'
<1>1. UNCHANGED <<remote, best, stray>> /\ registered \subseteq registered'
  BY DEF Handles
<1>2. Takes(p)
  <2>1. IsReply(in[p][1], best[p], generated) /\ in[p] # <<>> /\ ctx[p].connected
    BY FirstMessage
  <2>2. in[p][1].type \notin {"inv", "tx"}
    BY <2>1 DEF IsReply
  <2> QED
    BY <2>1, <2>2 DEF Takes
<1>3. Typed /\ DownloadPeerIsConnected
  BY DEF IInv
<1>4. /\ Connections' /\ DownloadPeerIsConnected'
      /\ ctx' \in [Peer -> ContextType]
      /\ in' \in [Peer -> Seq(MessageType)] /\ out' \in [Peer -> Seq(MessageType)]
  BY <1>1, <1>2, <1>3, ConnectionsFollow
<1>5. Typed'
  BY <1>1, <1>3, <1>4 DEF Typed
<1>6. OrphansAreBlocks'
  <2>1. \A o \in orphans' : IsBlock(o, generated') /\ o.txs \subseteq registered'
    BY <1>1, Orphans
  <2> QED
    BY <2>1 DEF OrphansAreBlocks
<1>7. NoTxMissed'
  BY <1>1, NothingIsMissed
<1> QED
  BY <1>4, <1>5, <1>6, <1>7 DEF IInv

LEMMA PingDoneStep ==
    ASSUME IInv, NEW p \in Peer, Handles(p), Head(in[p]).call # <<>>, UpdateFilterPingDone(p, Head(in[p]))
    PROVE  IInv'
<1> DEFINE m == Head(in[p])
           syncing == lastBlock < estimated
           ps == IF syncing THEN {downloadPeer} \ {None} ELSE {q \in Peer : Connected(q)}
           info(q) == IF syncing THEN m.call[2] ELSE q
           ms == [q \in Peer |-> IF q \in ps
                                   THEN Loaded(q, ps) \o <<Ping("updateFilterLoadDone", info(q))>>
                                   ELSE <<>>]
<1>1. Typed /\ FilterIsAhead /\ DownloadPeerIsConnected
  BY DEF IInv
<1>2. /\ IF ps = {} THEN filter' = None /\ UNCHANGED generated ELSE LoadFilter(ps)
      /\ orphans' = Cleared(ps, orphans)
      /\ lastOrphan' = (IF ps = {} THEN lastOrphan ELSE 0)
      /\ ctx' = [q \in Peer |-> IF q \in ps THEN [ctx[q] EXCEPT !.sentFilter = TRUE] ELSE ctx[q]]
      /\ Send(ms) /\ Received(p)
      /\ UNCHANGED <<lastBlock, estimated, downloadPeer, registered, confirmed>>
  BY DEF UpdateFilterPingDone
<1>3. /\ m = in[p][1] /\ \A q \in Peer : info(q) \in Peer
  <2>1. m = in[p][1] /\ m.call \in Call /\ m.call # <<>>
    BY FirstMessage
  <2>2. m.call[2] \in Peer
    BY <2>1 DEF Call
  <2> QED
    BY <2>1, <2>2
<1>4. \A q \in ps : q \in Peer /\ ctx[q].connected
  <2>1. downloadPeer # None => downloadPeer \in Peer /\ ctx[downloadPeer].connected
    BY <1>1 DEF Typed, DownloadPeerIsConnected
  <2> QED
    BY <2>1 DEF Connected
<1> HIDE DEF m, info, ps
<1>5. /\ generated' \in Nat /\ generated <= generated' /\ filter' \in Nat \cup {None} /\ FilterIsAhead'
      /\ \A q : \A b : \A known : IsSending(Loaded(q, ps), b, generated', known)
  <2>1. CASE ps = {}
    <3>1. filter' = None /\ generated' = generated /\ generated \in Nat
      BY <1>1, <1>2, <2>1 DEF Typed
    <3>2. \A q : Loaded(q, ps) = <<>>
      BY <2>1 DEF Loaded
    <3> QED
      BY <3>1, <3>2, SendingNothing DEF FilterIsAhead
  <2>2. CASE ps # {}
    BY <1>1, <1>2, <2>2, LoadsFilter
  <2> QED
    BY <2>1, <2>2
<1>6. ASSUME NEW q \in Peer PROVE IsSending(ms[q], best[q], generated', ctx'[q].known)
  <2>1. "updateFilterLoadDone" \in Callbacks
    BY DEF Callbacks
  <2>2. IsSending(<<Ping("updateFilterLoadDone", info(q))>>, best[q], generated', ctx'[q].known)
    BY <1>3, <2>1, SendingPing
  <2>3. IsSending(Loaded(q, ps), best[q], generated', ctx'[q].known)
    BY <1>5
  <2>4. CASE q \in ps
    BY <2>2, <2>3, <2>4, SendingBoth
  <2>5. CASE q \notin ps
    BY <2>5, SendingNothing
  <2> QED
    BY <2>4, <2>5
<1>7. ASSUME NEW q \in Peer PROVE Changes(q)
  <2>1. CASE q \in ps
    <3> DEFINE d == [ctx[q] EXCEPT !.sentFilter = TRUE]
    <3>1. ctx'[q] = d /\ ctx[q].connected
      BY <1>2, <1>4, <2>1
    <3>2. IsContext(ctx[q], best[q], generated', registered')
      BY <1>2, <1>5, EachGrows
    <3>3. IsContext(d, best[q], generated', registered') /\ IsLike(d, ctx[q])
      BY <3>2, Marks
    <3> HIDE DEF d
    <3> QED
      BY <3>1, <3>3 DEF Changes
  <2>2. CASE q \notin ps
    BY <1>2, <2>2 DEF Changes
  <2> QED
    BY <2>1, <2>2
<1>8. ctx' = [q \in Peer |-> ctx'[q]]
  BY <1>2
<1>9. orphans' \subseteq orphans /\ lastOrphan' \in 0..Top
  BY <1>1, <1>2, ChainAssumption DEF Typed, Cleared
<1>10. in[p][1].call # <<>>
  BY <1>3 DEF m
<1> HIDE DEF ms
<1> QED
  BY <1>2, <1>5, <1>6, <1>7, <1>8, <1>9, <1>10, CallbackStep

LEMMA FromIsEnd ==
    ASSUME NEW hs \in Seq(Nat), NEW h
    PROVE  From(hs, h) \in Seq(Nat) /\ Range(From(hs, h)) \subseteq Range(hs)
<1> DEFINE is == {i \in DOMAIN hs : hs[i] = h}
<1>1. CASE is = {}
  <2>1. From(hs, h) = <<>>
    BY <1>1 DEF From
  <2> QED
    BY <2>1 DEF Range
<1>2. CASE is # {}
  <2>1. Len(hs) \in Nat /\ is \in SUBSET (0..Len(hs)) /\ is \subseteq 1..Len(hs)
    OBVIOUS
  <2>2. Max(is) \in is
    BY <1>2, <2>1, MaxIsElement
  <2>3. Max(is) \in 1..(Len(hs) + 1)
    BY <2>1, <2>2
  <2>4. From(hs, h) = SubSeq(hs, Max(is), Len(hs))
    BY <1>2 DEF From
  <2> QED
    BY <2>3, <2>4, EndOf
<1> QED
  BY <1>1, <1>2

LEMMA RerequestDoneStep ==
    ASSUME IInv, NEW p \in Peer, Handles(p), Head(in[p]).call # <<>>, UpdateFilterRerequestDone(p, Head(in[p]))
    PROVE  IInv'
<1> DEFINE m == Head(in[p])
           peer == m.call[2]
<1>1. Typed /\ FilterIsAhead
  BY DEF IInv
<1>2. m = in[p][1] /\ peer \in Peer /\ in[p][1].call # <<>>
  <2>1. m = in[p][1] /\ m.call \in Call /\ m.call # <<>>
    BY FirstMessage
  <2> QED
    BY <2>1 DEF Call
<1>3. /\ UNCHANGED ctx /\ Received(p)
      /\ IF ctx[peer].update THEN UNCHANGED out ELSE Send(To(peer, <<GetBlocks(lastBlock)>>))
      /\ UNCHANGED <<lastBlock, estimated, orphans, lastOrphan, filter, downloadPeer,
                     generated, registered, confirmed>>
  BY DEF UpdateFilterRerequestDone, manager, wallet
<1> HIDE DEF m, peer
<1>4. /\ generated' \in Nat /\ generated <= generated' /\ filter' \in Nat \cup {None} /\ FilterIsAhead'
      /\ orphans' \subseteq orphans /\ lastOrphan' \in 0..Top /\ ctx' = [q \in Peer |-> ctx'[q]]
  BY <1>1, <1>3 DEF Typed, FilterIsAhead
<1>5. \A q \in Peer : Changes(q)
  BY <1>3 DEF Changes
<1>6. CASE ctx[peer].update
  <2> DEFINE ms == To(p, <<>>)
  <2>1. Send(ms)
    BY <1>1, <1>3, <1>6, SendsNothing
  <2>2. \A q \in Peer : ms[q] = <<>>
    BY DEF To, Nothing
  <2>3. \A q \in Peer : IsSending(ms[q], best[q], generated', ctx'[q].known)
    BY <2>2, SendingNothing
  <2> HIDE DEF ms
  <2> QED
    BY <1>2, <1>3, <1>4, <1>5, <2>1, <2>3, CallbackStep
<1>7. CASE ~ctx[peer].update
  <2> DEFINE ms == To(peer, <<GetBlocks(lastBlock)>>)
  <2>1. Send(ms)
    BY <1>3, <1>7
  <2>2. \A q \in Peer : ms[q] = <<>> \/ ms[q] = <<GetBlocks(lastBlock)>>
    BY <1>2 DEF To, Nothing
  <2>3. lastBlock \in Nat
    BY <1>1 DEF Typed
  <2>4. \A q \in Peer : IsSending(ms[q], best[q], generated', ctx'[q].known)
    BY <2>2, <2>3, SendingNothing, SendingGetBlocks
  <2> HIDE DEF ms
  <2> QED
    BY <1>2, <1>3, <1>4, <1>5, <2>1, <2>4, CallbackStep
<1> QED
  BY <1>6, <1>7

\* Fewer blocks are known.
LEMMA Forgotten ==
    ASSUME NEW c, NEW b, NEW g, NEW txs, IsContext(c, b, g, txs), NEW hs \in Seq(Nat),
           Range(hs) \subseteq Range(c.known)
    PROVE  /\ IsContext([c EXCEPT !.known = hs], b, g, txs) /\ IsLike([c EXCEPT !.known = hs], c)
           /\ [c EXCEPT !.known = hs].known = hs
<1> DEFINE d == [c EXCEPT !.known = hs]
<1>1. c \in ContextType
  BY DEF IsContext
<1>2. /\ d \in ContextType /\ d.connected = c.connected /\ d.open = c.open /\ d.known = hs
      /\ d.seen = c.seen /\ d.block = c.block /\ d.missing = c.missing /\ d.relay = c.relay
  BY <1>1 DEF ContextType
<1> HIDE DEF d
<1>3. IsContext(d, b, g, txs) /\ IsLike(d, c) /\ d.known = hs
  BY <1>2 DEF IsContext, IsLike
<1> QED
  BY <1>3 DEF d

\* A peer that is not connected has nothing to be unmarked.
LEMMA Unmarks ==
    ASSUME NEW c, NEW is, NEW os, NEW r, NEW b, NEW g, NEW txs, IsConnection(c, is, os, r, b, g, txs)
    PROVE  ~c.connected => [c EXCEPT !.update = FALSE] = c
<1>1. c \in ContextType /\ (~c.connected => c = NoContext)
  BY DEF IsConnection, IsContext
<1>2. NoContext.update = FALSE
  BY DEF NoContext, NewContext
<1>3. c \in ContextType /\ (~c.connected => c.update = FALSE)
  BY <1>1, <1>2
<1>4. c.update = FALSE => [c EXCEPT !.update = FALSE] = c
  BY <1>3, Zenon DEF ContextType
<1> QED
  BY <1>3, <1>4

LEMMA LoadDoneStep ==
    ASSUME IInv, NEW p \in Peer, Handles(p), Head(in[p]).call # <<>>, UpdateFilterLoadDone(p, Head(in[p]))
    PROVE  IInv'
<1> DEFINE m == Head(in[p])
           peer == m.call[2]
           again == From(ctx[downloadPeer].known, lastBlock)
           kept == IF again = <<>> THEN ctx[downloadPeer].known ELSE again
           d(q) == IF q = peer THEN [ctx[q] EXCEPT !.update = FALSE] ELSE ctx[q]
<1>1. Typed /\ FilterIsAhead /\ DownloadPeerIsConnected
  BY DEF IInv
<1>2. m = in[p][1] /\ peer \in Peer /\ in[p][1].call # <<>>
  <2>1. m = in[p][1] /\ m.call \in Call /\ m.call # <<>>
    BY FirstMessage
  <2> QED
    BY <2>1 DEF Call
<1>3. /\ IF lastBlock < estimated
           THEN /\ downloadPeer # None
                /\ ctx' = [ctx EXCEPT ![peer].update = FALSE,
                                      ![downloadPeer].known = IF again = <<>> THEN @ ELSE again]
                /\ Send(To(downloadPeer, GetData({}, again) \o <<Ping("updateFilterRerequestDone", peer)>>))
           ELSE ctx' = [ctx EXCEPT ![peer].update = FALSE] /\ UNCHANGED out
      /\ Received(p)
      /\ UNCHANGED <<lastBlock, estimated, orphans, lastOrphan, filter, downloadPeer,
                     generated, registered, confirmed>>
  BY DEF UpdateFilterLoadDone, manager, wallet
<1> HIDE DEF m, peer
<1>4. /\ generated' \in Nat /\ generated <= generated' /\ filter' \in Nat \cup {None} /\ FilterIsAhead'
      /\ orphans' \subseteq orphans /\ lastOrphan' \in 0..Top
      /\ generated' = generated /\ registered' = registered
  BY <1>1, <1>3 DEF Typed, FilterIsAhead
<1>5. ASSUME NEW q \in Peer
      PROVE  /\ IsContext(ctx[q], best[q], generated, registered)
             /\ d(q) = ctx[q] \/ (ctx[q].connected /\ IsLike(d(q), ctx[q]))
             /\ IsContext(d(q), best[q], generated, registered) /\ d(q).known = ctx[q].known
  <2>1. /\ IsConnection(ctx[q], in[q], out[q], remote[q], best[q], generated, registered)
        /\ IsContext(ctx[q], best[q], generated, registered)
    BY EachIs
  <2>2. CASE q = peer /\ ctx[q].connected
    BY <2>1, <2>2, Marks
  <2>3. CASE q = peer /\ ~ctx[q].connected
    BY <2>1, <2>3, Unmarks
  <2>4. CASE q # peer
    BY <2>1, <2>4
  <2> QED
    BY <2>2, <2>3, <2>4
<1>6. CASE lastBlock < estimated
  <2> DEFINE e == [d(downloadPeer) EXCEPT !.known = kept]
             ns == GetData({}, again) \o <<Ping("updateFilterRerequestDone", peer)>>
             ms == To(downloadPeer, ns)
  <2>1. downloadPeer \in Peer /\ ctx[downloadPeer].connected
    BY <1>1, <1>3, <1>6 DEF Typed, DownloadPeerIsConnected
  <2>2. /\ again \in Seq(Nat) /\ Range(again) \subseteq Range(ctx[downloadPeer].known)
        /\ kept \in Seq(Nat) /\ Range(kept) \subseteq Range(ctx[downloadPeer].known)
        /\ Range(again) \subseteq Range(kept) /\ Range(again) \subseteq 1..best[downloadPeer]
    <3>1. IsContext(ctx[downloadPeer], best[downloadPeer], generated, registered)
      BY <1>5, <2>1
    <3>2. /\ ctx[downloadPeer].known \in Seq(Nat)
          /\ Range(ctx[downloadPeer].known) \subseteq 1..best[downloadPeer]
      BY <3>1 DEF IsContext, ContextType
    <3>3. again \in Seq(Nat) /\ Range(again) \subseteq Range(ctx[downloadPeer].known)
      BY <3>2, FromIsEnd
    <3>4. again = <<>> => Range(again) = {}
      BY DEF Range
    <3> HIDE DEF again
    <3> QED
      BY <3>2, <3>3, <3>4
  <2>3. ctx' = [ctx EXCEPT ![peer].update = FALSE, ![downloadPeer].known = kept] /\ Send(ms)
    <3> HIDE DEF again
    <3> QED
      BY <1>1, <1>2, <1>3, <1>6, <2>1 DEF Typed, ContextType
  <2> HIDE DEF kept, again
  <2>4. ctx' = [q \in Peer |-> ctx'[q]]
    BY <1>1, <2>3 DEF Typed
  <2>5. \A q \in Peer : ctx'[q] = IF q = downloadPeer THEN e ELSE d(q)
    BY <1>1, <1>2, <2>1, <2>3 DEF Typed, ContextType
  <2>6. /\ IsContext(e, best[downloadPeer], generated, registered) /\ IsLike(e, d(downloadPeer))
        /\ e.known = kept
    <3> DEFINE x == d(downloadPeer)
    <3>1. IsContext(x, best[downloadPeer], generated, registered) /\ x.known = ctx[downloadPeer].known
      BY <1>5, <2>1
    <3> HIDE DEF x
    <3>2. /\ IsContext([x EXCEPT !.known = kept], best[downloadPeer], generated, registered)
          /\ IsLike([x EXCEPT !.known = kept], x) /\ [x EXCEPT !.known = kept].known = kept
      BY <2>2, <3>1, Forgotten
    <3> QED
      BY <3>2 DEF x
  <2>7. IsLike(e, ctx[downloadPeer])
    <3>1. d(downloadPeer) = ctx[downloadPeer] \/ IsLike(d(downloadPeer), ctx[downloadPeer])
      BY <1>5, <2>1
    <3> HIDE DEF e, d
    <3> QED
      BY <2>6, <3>1 DEF IsLike
  <2> HIDE DEF e, d
  <2>8. \A q \in Peer : Changes(q)
    <3>1. ASSUME NEW q \in Peer PROVE Changes(q)
      <4>1. CASE q = downloadPeer
        BY <1>4, <2>1, <2>5, <2>6, <2>7, <4>1 DEF Changes
      <4>2. CASE q # downloadPeer
        BY <1>4, <1>5, <2>5, <4>2 DEF Changes
      <4> QED
        BY <4>1, <4>2
    <3> QED
      BY <3>1
  <2>9. \A q \in Peer : IsSending(ms[q], best[q], generated', ctx'[q].known)
    <3> DEFINE none == {}
    <3>1. none \in SUBSET Txs /\ \A t \in none : t <= generated'
      OBVIOUS
    <3>2. "updateFilterRerequestDone" \in Callbacks
      BY DEF Callbacks
    <3> HIDE DEF none
    <3>3. IsSending(GetData(none, again), best[downloadPeer], generated', kept)
      BY <2>2, <3>1, SendingGetData
    <3>4. IsSending(<<Ping("updateFilterRerequestDone", peer)>>, best[downloadPeer], generated', kept)
      BY <1>2, <3>2, SendingPing
    <3>5. IsSending(ns, best[downloadPeer], generated', kept)
      BY <3>3, <3>4, SendingBoth DEF none
    <3> HIDE DEF ns
    <3>6. \A q \in Peer : ms[q] = IF q = downloadPeer THEN ns ELSE <<>>
      BY <2>1 DEF To, Nothing
    <3> HIDE DEF ms
    <3>7. ctx'[downloadPeer].known = kept
      BY <2>1, <2>5, <2>6
    <3>8. ASSUME NEW q \in Peer PROVE IsSending(ms[q], best[q], generated', ctx'[q].known)
      <4>1. CASE q = downloadPeer
        BY <3>5, <3>6, <3>7, <4>1
      <4>2. CASE q # downloadPeer
        BY <3>6, <4>2, SendingNothing
      <4> QED
        BY <4>1, <4>2
    <3> QED
      BY <3>8
  <2> HIDE DEF ms
  <2> QED
    BY <1>2, <1>3, <1>4, <2>3, <2>4, <2>8, <2>9, CallbackStep
<1>7. CASE ~(lastBlock < estimated)
  <2> DEFINE ms == To(p, <<>>)
  <2>1. Send(ms) /\ ctx' = [ctx EXCEPT ![peer].update = FALSE]
    BY <1>1, <1>3, <1>7, SendsNothing
  <2>2. \A q \in Peer : ms[q] = <<>>
    BY DEF To, Nothing
  <2>3. \A q \in Peer : IsSending(ms[q], best[q], generated', ctx'[q].known)
    BY <2>2, SendingNothing
  <2> HIDE DEF ms
  <2>4. ctx' = [q \in Peer |-> ctx'[q]] /\ \A q \in Peer : ctx'[q] = d(q)
    BY <1>1, <1>2, <2>1 DEF Typed, ContextType
  <2> HIDE DEF d
  <2>5. \A q \in Peer : Changes(q)
    BY <1>4, <1>5, <2>4 DEF Changes
  <2> QED
    BY <1>2, <1>3, <1>4, <2>1, <2>3, <2>4, <2>5, CallbackStep
<1> QED
  BY <1>6, <1>7

LEMMA ReceiveStep == ASSUME IInv, NEW p \in Peer, Receive(p) PROVE IInv'
<1> DEFINE m == Head(in[p])
<1>1. Handles(p)
  BY DEF Receive, Handles
<1>2. \/ Refuse(p)
      \/ m.type = "inv" /\ Inv(p, m)
      \/ m.type = "headers" /\ Headers(p, m)
      \/ m.type = "merkleblock" /\ MerkleBlock(p, m)
      \/ m.type = "tx" /\ Tx(p, m)
      \/ m.call # <<>> /\ UpdateFilterPingDone(p, m)
      \/ m.call # <<>> /\ UpdateFilterLoadDone(p, m)
      \/ m.call # <<>> /\ UpdateFilterRerequestDone(p, m)
  BY DEF Receive
<1> QED
  BY <1>1, <1>2, RefuseStep, InvStep, HeadersStep, MerkleBlockStep, TxStep, PingDoneStep, LoadDoneStep,
     RerequestDoneStep

-----------------------------------------------------------------------------
(* Blocks are relayed. *)

\* What the thread of p begins with, and the block that it relays.
Relaying(p, b, worn) ==
    /\ ctx[p].connected /\ ctx[p].relay # <<>> /\ b = Head(ctx[p].relay)
    /\ worn \in MayBeWorn(p, b)
    /\ UNCHANGED <<downloadPeer, in, remote, best>>

LEMMA RelayingIs ==
    ASSUME IInv, NEW p \in Peer, NEW b, NEW worn, Relaying(p, b, worn)
    PROVE  /\ b \in BlockType /\ IsBlock(b, generated) /\ b.txs \subseteq registered
           /\ Tail(ctx[p].relay) \in Seq(BlockType)
           /\ \A i \in DOMAIN Tail(ctx[p].relay) :
                 IsBlock(Tail(ctx[p].relay)[i], generated) /\ Tail(ctx[p].relay)[i].txs \subseteq registered
           /\ ctx[p].connected /\ Rebuilt(p, worn) \in BOOLEAN /\ ctx[p].update \in BOOLEAN
<1> DEFINE bs == ctx[p].relay
<1>1. IsContext(ctx[p], best[p], generated, registered) /\ ctx[p] \in ContextType
  BY EachIs
<1>2. bs \in Seq(BlockType) /\ bs # <<>> /\ b = Head(bs) /\ ctx[p].connected /\ ctx[p].update \in BOOLEAN
  BY <1>1 DEF Relaying, ContextType
<1>3. \A i \in DOMAIN bs : IsBlock(bs[i], generated) /\ bs[i].txs \subseteq registered
  BY <1>1 DEF IsContext
<1>4. Rebuilt(p, worn) \in BOOLEAN
  BY Zenon DEF Rebuilt
<1> HIDE DEF bs
<1>5. b = bs[1] /\ 1 \in DOMAIN bs
  BY <1>2
<1>6. b \in BlockType /\ IsBlock(b, generated) /\ b.txs \subseteq registered
  BY <1>3, <1>5 DEF IsBlock
<1>7. Tail(bs) \in Seq(BlockType) /\ \A i \in DOMAIN Tail(bs) : i + 1 \in DOMAIN bs /\ Tail(bs)[i] = bs[i + 1]
  BY <1>2
<1>8. \A i \in DOMAIN Tail(bs) : IsBlock(Tail(bs)[i], generated) /\ Tail(bs)[i].txs \subseteq registered
  BY <1>3, <1>7
<1> QED
  BY <1>2, <1>4, <1>6, <1>7, <1>8 DEF bs

\* The context of p after a block; next are the orphans that go on.
LEMMA RelayedIs ==
    ASSUME IInv, NEW p \in Peer, NEW b, NEW worn, Relaying(p, b, worn),
           generated' \in Nat, generated <= generated', registered' = registered,
           NEW next \in Seq(BlockType),
           \A i \in DOMAIN next : IsBlock(next[i], generated) /\ next[i].txs \subseteq registered
    PROVE  /\ \A q \in Peer : q # p => Relayed(p, worn, next)[q] = ctx[q]
           /\ Relayed(p, worn, next) = [q \in Peer |-> Relayed(p, worn, next)[q]]
           /\ IsContext(Relayed(p, worn, next)[p], best[p], generated', registered')
           /\ IsLike(Relayed(p, worn, next)[p], ctx[p])
           /\ Relayed(p, worn, next)[p].known = ctx[p].known
<1> DEFINE c == ctx[p]
           bs == next \o Tail(c.relay)
           u == c.update \/ Rebuilt(p, worn)
           d == [c EXCEPT !.relay = bs]
           e == [d EXCEPT !.update = u]
<1>1. /\ Tail(c.relay) \in Seq(BlockType)
      /\ \A i \in DOMAIN Tail(c.relay) :
            IsBlock(Tail(c.relay)[i], generated) /\ Tail(c.relay)[i].txs \subseteq registered
      /\ c.connected /\ Rebuilt(p, worn) \in BOOLEAN /\ c.update \in BOOLEAN
  BY RelayingIs
<1>2. /\ IsContext(c, best[p], generated', registered') /\ c \in ContextType /\ best[p] \in 0..Top
  BY EachGrows
<1>3. bs \in Seq(BlockType) /\ \A i \in DOMAIN bs : IsBlock(bs[i], generated) /\ bs[i].txs \subseteq registered
  <2> DEFINE rest == Tail(c.relay)
  <2>1. /\ rest \in Seq(BlockType)
        /\ \A i \in DOMAIN rest : IsBlock(rest[i], generated) /\ rest[i].txs \subseteq registered
    BY <1>1
  <2> HIDE DEF rest
  <2> DEFINE all == next \o rest
  <2>2. all \in Seq(BlockType)
    BY <2>1
  <2>3. \A i \in DOMAIN all : IF i \in DOMAIN next THEN all[i] = next[i]
                              ELSE i - Len(next) \in DOMAIN rest /\ all[i] = rest[i - Len(next)]
    BY <2>1
  <2> HIDE DEF all
  <2>4. \A i \in DOMAIN all : IsBlock(all[i], generated) /\ all[i].txs \subseteq registered
    BY <2>1, <2>3
  <2> QED
    BY <2>2, <2>4 DEF all, rest
<1>4. u \in BOOLEAN
  BY <1>1
<1> HIDE DEF u, bs
<1>5. \A i \in DOMAIN bs : IsBlock(bs[i], generated') /\ bs[i].txs \subseteq registered'
  <2>1. generated \in Nat
    BY DEF IInv, Typed
  <2>2. \A i \in DOMAIN bs : IsBlock(bs[i], generated')
    BY <1>3, <2>1, BlocksGrow
  <2> QED
    BY <1>3, <2>2
<1> DEFINE n == best[p]
           g == generated'
           rs == registered'
<1>6. IsContext(d, n, g, rs) /\ IsLike(d, c) /\ d.known = c.known
  <2>1. IsContext(c, n, g, rs) /\ \A i \in DOMAIN bs : IsBlock(bs[i], g) /\ bs[i].txs \subseteq rs
    BY <1>2, <1>5
  <2> HIDE DEF n, g, rs
  <2> QED
    BY <1>3, <2>1, RelayIsContext
<1> HIDE DEF d
<1>7. IsContext(e, n, g, rs) /\ IsLike(e, d) /\ e.known = d.known
  <2> HIDE DEF n, g, rs
  <2> QED
    BY <1>4, <1>6, Marks
<1>8. /\ Relayed(p, worn, next)[p] = e
      /\ \A q \in Peer : q # p => Relayed(p, worn, next)[q] = ctx[q]
      /\ Relayed(p, worn, next) = [q \in Peer |-> Relayed(p, worn, next)[q]]
  <2>1. ctx \in [Peer -> ContextType]
    BY DEF IInv, Typed
  <2>2. Relayed(p, worn, next) = [ctx EXCEPT ![p] = e]
    BY <2>1 DEF Relayed, d, u, bs, ContextType
  <2> HIDE DEF e
  <2> QED
    BY <2>1, <2>2
<1> HIDE DEF e
<1>9. IsLike(e, c)
  BY <1>6, <1>7 DEF IsLike
<1> QED
  BY <1>6, <1>7, <1>8, <1>9

\* The orphan that a block is followed by.
LEMMA OrphanIs ==
    ASSUME IInv, NEW set \in SUBSET orphans, NEW h
    PROVE  /\ OrphanAfter(h, set) \in Seq(BlockType)
           /\ \A i \in DOMAIN OrphanAfter(h, set) :
                 IsBlock(OrphanAfter(h, set)[i], generated) /\ OrphanAfter(h, set)[i].txs \subseteq registered
<1> DEFINE is == {o \in set : o.height = h + 1}
           o == CHOOSE o \in is : TRUE
<1>1. \A x \in is : x \in BlockType /\ IsBlock(x, generated) /\ x.txs \subseteq registered
  BY DEF IInv, OrphansAreBlocks, IsBlock
<1>2. CASE is = {}
  BY <1>2 DEF OrphanAfter
<1>3. CASE is # {}
  <2>1. o \in is
    BY <1>3
  <2>2. OrphanAfter(h, set) = <<o>>
    BY <1>3 DEF OrphanAfter
  <2> HIDE DEF o
  <2> QED
    BY <1>1, <2>1, <2>2
<1> QED
  BY <1>2, <1>3

LEMMA SendingRebuild ==
    ASSUME NEW p \in Peer, NEW worn, NEW b, NEW g, NEW known
    PROVE  IsSending(RebuildPing(p, worn), b, g, known)
<1>1. "updateFilterPingDone" \in Callbacks
  BY DEF Callbacks
<1>2. IsSending(<<Ping("updateFilterPingDone", p)>>, b, g, known)
  BY <1>1, SendingPing
<1> QED
  BY <1>2, SendingNothing DEF RebuildPing

\* A block goes through the thread of p, and only p is sent something.
LEMMA RelayStep ==
    ASSUME IInv, NEW p \in Peer, NEW b, NEW worn, Relaying(p, b, worn),
           UNCHANGED <<generated, registered, filter, lastBlock, stray>>,
           NEW next \in Seq(BlockType),
           \A i \in DOMAIN next : IsBlock(next[i], generated) /\ next[i].txs \subseteq registered,
           ctx' = Relayed(p, worn, next), NEW ns,
           \A known : IsSending(ns, best[p], generated, known), Send(To(p, ns)),
           confirmed \subseteq confirmed', confirmed' \subseteq registered,
           estimated' \in 0..Top, lastOrphan' \in 0..Top,
           \A o \in orphans' : IsBlock(o, generated) /\ o.txs \subseteq registered
    PROVE  IInv'
<1>1. Typed /\ FilterIsAhead /\ DownloadPeerIsConnected
  BY DEF IInv
<1>2. generated' \in Nat /\ generated <= generated'
  BY <1>1 DEF Typed
<1>3. /\ \A q \in Peer : q # p => ctx'[q] = ctx[q]
      /\ ctx' = [q \in Peer |-> ctx'[q]]
      /\ IsContext(ctx'[p], best[p], generated', registered')
      /\ IsLike(ctx'[p], ctx[p])
  BY <1>2, RelayedIs
<1>4. ctx[p].connected /\ UNCHANGED <<remote, best, in, downloadPeer>>
  BY DEF Relaying
<1>5. \A q \in Peer : Changes(q)
  BY <1>3, <1>4 DEF Changes
<1> DEFINE ms == To(p, ns)
<1>6. \A q \in Peer : ms[q] = IF q = p THEN ns ELSE <<>>
  BY DEF To, Nothing
<1>7. Send(ms)
  OBVIOUS
<1> HIDE DEF ms
<1>8. \A q \in Peer : IsSending(ms[q], best[q], generated', ctx'[q].known)
  <2>1. ASSUME NEW q \in Peer PROVE IsSending(ms[q], best[q], generated', ctx'[q].known)
    <3>1. CASE q = p
      BY <1>6, <3>1
    <3>2. CASE q # p
      BY <1>6, <3>2, SendingNothing
    <3> QED
      BY <3>1, <3>2
  <2> QED
    BY <2>1
<1>9. Takes(p)
  BY <1>4 DEF Takes
<1>10. /\ Connections' /\ DownloadPeerIsConnected'
       /\ ctx' \in [Peer -> ContextType]
       /\ in' \in [Peer -> Seq(MessageType)] /\ out' \in [Peer -> Seq(MessageType)]
  BY <1>1, <1>2, <1>3, <1>4, <1>5, <1>7, <1>8, <1>9, ConnectionsFollow
<1>11. Typed'
  BY <1>1, <1>4, <1>10 DEF Typed
<1>12. FilterIsAhead' /\ OrphansAreBlocks'
  BY <1>1 DEF FilterIsAhead, OrphansAreBlocks
<1>13. NoTxMissed'
  BY NothingIsMissed
<1> QED
  BY <1>10, <1>11, <1>12, <1>13 DEF IInv

LEMMA IgnoreStep ==
    ASSUME IInv, NEW p \in Peer, NEW b, NEW worn, Relaying(p, b, worn), Ignore(p, b, worn)
    PROVE  IInv'
<1> DEFINE none == <<>>
<1>1. /\ ctx' = Relayed(p, worn, none) /\ Send(To(p, RebuildPing(p, worn)))
      /\ UNCHANGED <<lastBlock, estimated, orphans, lastOrphan, filter, generated, registered, confirmed, stray>>
  BY DEF Ignore, manager, wallet
<1>2. none \in Seq(BlockType) /\ DOMAIN none = {}
  OBVIOUS
<1> HIDE DEF none
<1>3. Typed /\ OrphansAreBlocks
  BY DEF IInv
<1>4. /\ confirmed \subseteq confirmed' /\ confirmed' \subseteq registered
      /\ estimated' \in 0..Top /\ lastOrphan' \in 0..Top
      /\ \A o \in orphans' : IsBlock(o, generated) /\ o.txs \subseteq registered
  BY <1>1, <1>3 DEF Typed, OrphansAreBlocks
<1>5. \A known : IsSending(RebuildPing(p, worn), best[p], generated, known)
  BY SendingRebuild
<1> QED
  BY <1>1, <1>2, <1>4, <1>5, RelayStep

LEMMA KeepOrphanStep ==
    ASSUME IInv, NEW p \in Peer, NEW b, NEW worn, Relaying(p, b, worn), KeepOrphan(p, b, worn)
    PROVE  IInv'
<1> DEFINE none == <<>>
           asks == lastBlock >= ctx[p].last /\ lastOrphan \notin {b.height - 1}
           ns == RebuildPing(p, worn) \o IF asks THEN <<GetBlocks(lastBlock)>> ELSE <<>>
<1>1. /\ orphans' = {o \in orphans : o.height # b.height} \cup {b} /\ lastOrphan' = b.height
      /\ ctx' = Relayed(p, worn, none) /\ Send(To(p, ns))
      /\ UNCHANGED <<lastBlock, estimated, filter, generated, registered, confirmed, stray>>
  BY DEF KeepOrphan, wallet
<1>2. none \in Seq(BlockType) /\ DOMAIN none = {}
  OBVIOUS
<1> HIDE DEF none, asks
<1>3. Typed /\ OrphansAreBlocks
  BY DEF IInv
<1>4. b \in BlockType /\ IsBlock(b, generated) /\ b.txs \subseteq registered
  BY RelayingIs
<1>5. /\ confirmed \subseteq confirmed' /\ confirmed' \subseteq registered
      /\ estimated' \in 0..Top /\ lastOrphan' \in 0..Top
      /\ \A o \in orphans' : IsBlock(o, generated) /\ o.txs \subseteq registered
  BY <1>1, <1>3, <1>4 DEF Typed, OrphansAreBlocks, BlockType
<1>6. \A known : IsSending(ns, best[p], generated, known)
  <2>1. lastBlock \in Nat
    BY <1>3 DEF Typed
  <2>2. \A known : IsSending(IF asks THEN <<GetBlocks(lastBlock)>> ELSE <<>>, best[p], generated, known)
    BY <2>1, SendingGetBlocks, SendingNothing
  <2> QED
    BY <2>2, SendingRebuild, SendingBoth
<1> HIDE DEF ns
<1> QED
  BY <1>1, <1>2, <1>5, <1>6, RelayStep

LEMMA RepeatStep ==
    ASSUME IInv, NEW p \in Peer, NEW b, NEW worn, Relaying(p, b, worn), Repeat(p, b, worn)
    PROVE  IInv'
<1> DEFINE next == OrphanAfter(b.height, orphans)
<1>1. /\ confirmed' = confirmed \cup (b.txs \cap registered)
      /\ estimated' = Larger(estimated, b.height)
      /\ orphans' = {o \in orphans : o.height # b.height + 1}
      /\ ctx' = Relayed(p, worn, next) /\ Send(To(p, RebuildPing(p, worn)))
      /\ UNCHANGED <<lastBlock, lastOrphan, filter, generated, registered, stray>>
  BY DEF Repeat, Confirm
<1>2. /\ next \in Seq(BlockType)
      /\ \A i \in DOMAIN next : IsBlock(next[i], generated) /\ next[i].txs \subseteq registered
  BY OrphanIs
<1> HIDE DEF next
<1>3. Typed /\ OrphansAreBlocks
  BY DEF IInv
<1>4. b \in BlockType /\ IsBlock(b, generated) /\ b.txs \subseteq registered
  BY RelayingIs
<1>5. /\ confirmed \subseteq confirmed' /\ confirmed' \subseteq registered
      /\ estimated' \in 0..Top /\ lastOrphan' \in 0..Top
      /\ \A o \in orphans' : IsBlock(o, generated) /\ o.txs \subseteq registered
  BY <1>1, <1>3, <1>4 DEF Typed, OrphansAreBlocks, BlockType, Larger
<1>6. \A known : IsSending(RebuildPing(p, worn), best[p], generated, known)
  BY SendingRebuild
<1> QED
  BY <1>1, <1>2, <1>5, <1>6, RelayStep

\* The block that extends the chain leaves nothing out.
LEMMA NothingIsLeftOut ==
    ASSUME IInv, NEW p \in Peer, NEW b, NEW worn, Relaying(p, b, worn),
           ~Ignored(b), b.height = lastBlock + 1, b.filter \in {None, filter}, AllRegistered
    PROVE  \A i \in DOMAIN Pays[b.height] :
               Pays[b.height][i] \in registered /\ Pays[b.height][i] \in b.txs
<1> DEFINE h == b.height
<1>1. Typed /\ FilterIsAhead
  BY DEF IInv
<1>2. b \in BlockType /\ IsBlock(b, generated) /\ b.txs \subseteq registered
  BY RelayingIs
<1>3. h \in Blocks /\ h - 1 = lastBlock
  <2>1. Top \in Nat
    BY ChainAssumption
  <2>2. lastBlock \in 0..Top /\ h \in 0..Top
    BY <1>1, <1>2 DEF Typed, BlockType
  <2> QED
    BY <2>1, <2>2 DEF Blocks
<1>4. CASE b.filter = None
  <2>1. ~(Time[h] > Since + Drift)
    BY <1>4 DEF Ignored, IsHeader
  <2>2. Pays[h] = <<>>
    BY <1>3, <2>1, CreationAssumption
  <2> QED
    BY <2>2
<1>5. CASE b.filter # None
  <2>1. filter = b.filter /\ filter \in Nat /\ Used(registered) + Gap <= filter
    BY <1>1, <1>5 DEF Typed, FilterIsAhead
  <2>2. b.txs = Matched(h, filter)
    BY <1>2, <1>5, <2>1 DEF IsBlock
  <2>3. \A g \in 1..(h - 1) : Range(Pays[g]) \subseteq registered
    BY <1>3 DEF AllRegistered, Range
  <2>4. registered \in SUBSET Txs
    BY <1>1 DEF Typed
  <2> HIDE DEF h
  <2>5. Range(Pays[h]) \subseteq registered /\ Matched(h, filter) = Range(Pays[h])
    BY <1>2, <1>3, <2>1, <2>2, <2>3, <2>4, FilterMatchesAll
  <2>6. \A i \in DOMAIN Pays[h] : Pays[h][i] \in registered /\ Pays[h][i] \in b.txs
    BY <2>2, <2>5 DEF Range
  <2> QED
    BY <2>6 DEF h
<1> QED
  BY <1>4, <1>5

LEMMA ExtendStep ==
    ASSUME IInv, NEW p \in Peer, NEW b, NEW worn, Relaying(p, b, worn), Extend(p, b, worn)
    PROVE  IInv'
<1> DEFINE ps == IF b.height # estimated THEN {}
                 ELSE {q \in Peer : Connected(q) /\ (q = downloadPeer => worn)}
           left == Cleared(ps, orphans)
           next == OrphanAfter(b.height, left)
           c == Relayed(p, worn, next)
           ms == [q \in Peer |-> (IF q = p THEN RebuildPing(p, worn) ELSE <<>>) \o Loaded(q, ps)]
<1>1. Typed /\ FilterIsAhead /\ DownloadPeerIsConnected /\ OrphansAreBlocks /\ NoTxMissed
  BY DEF IInv
<1>2. /\ ~Ignored(b) /\ b.height = lastBlock + 1 /\ lastBlock' = b.height
      /\ estimated' = Larger(estimated, b.height)
      /\ confirmed' = confirmed \cup (b.txs \cap registered)
      /\ stray' = (stray \/ b.filter \notin {None, filter})
      /\ LoadFilter(ps)
      /\ orphans' = {o \in left : o.height # b.height + 1}
      /\ lastOrphan' = (IF ps = {} THEN lastOrphan ELSE 0)
      /\ ctx' = [q \in Peer |-> IF q \in ps THEN [c[q] EXCEPT !.sentFilter = TRUE] ELSE c[q]]
      /\ Send(ms)
      /\ registered' = registered
  BY DEF Extend, Confirm
<1>3. \A q \in ps : q \in Peer /\ ctx[q].connected
  BY DEF Connected
<1> HIDE DEF ps
<1>4. left \in SUBSET orphans
  BY DEF Cleared
<1> HIDE DEF left
<1>5. /\ next \in Seq(BlockType)
      /\ \A i \in DOMAIN next : IsBlock(next[i], generated) /\ next[i].txs \subseteq registered
  BY <1>4, OrphanIs
<1>6. /\ b \in BlockType /\ IsBlock(b, generated) /\ b.txs \subseteq registered /\ ctx[p].connected
  BY RelayingIs
<1>7. /\ generated' \in Nat /\ generated <= generated' /\ filter' \in Nat \cup {None} /\ FilterIsAhead'
      /\ \A q : \A n : \A known : IsSending(Loaded(q, ps), n, generated', known)
  BY <1>1, <1>2, LoadsFilter
<1> HIDE DEF next
<1>8. /\ \A q \in Peer : q # p => c[q] = ctx[q]
      /\ IsContext(c[p], best[p], generated', registered')
      /\ IsLike(c[p], ctx[p])
  BY <1>2, <1>5, <1>7, RelayedIs
<1> HIDE DEF c
<1>9. UNCHANGED <<remote, best, in, downloadPeer>>
  BY DEF Relaying
<1>10. ASSUME NEW q \in Peer PROVE Changes(q)
  <2> DEFINE x == c[q]
             d == [x EXCEPT !.sentFilter = TRUE]
             n == best[q]
             g == generated'
             rs == registered'
  <2>1. IsContext(ctx[q], best[q], generated', registered')
    BY <1>2, <1>7, EachGrows
  <2>2. IsContext(x, n, g, rs) /\ IsLike(x, ctx[q]) /\ (x = ctx[q] \/ ctx[q].connected)
    BY <1>6, <1>8, <2>1 DEF IsLike
  <2>3. ctx'[q] = IF q \in ps THEN d ELSE x
    BY <1>2
  <2> HIDE DEF x
  <2>4. IsContext(d, n, g, rs) /\ IsLike(d, x)
    <3> HIDE DEF n, g, rs
    <3> QED
      BY <2>2, Marks
  <2> HIDE DEF d
  <2>5. CASE q \in ps
    <3>1. IsLike(d, ctx[q])
      BY <2>2, <2>4 DEF IsLike
    <3>2. ctx[q].connected /\ ctx'[q] = d
      BY <1>3, <2>3, <2>5
    <3> QED
      BY <2>4, <3>1, <3>2 DEF Changes
  <2>6. CASE q \notin ps
    BY <2>2, <2>3, <2>6 DEF Changes
  <2> QED
    BY <2>5, <2>6
<1>11. ASSUME NEW q \in Peer PROVE IsSending(ms[q], best[q], generated', ctx'[q].known)
  <2> DEFINE k == ctx'[q].known
             g == generated'
             ns == IF q = p THEN RebuildPing(p, worn) ELSE <<>>
  <2>1. IsSending(ns, best[q], g, k)
    BY SendingRebuild, SendingNothing
  <2>2. IsSending(Loaded(q, ps), best[q], g, k)
    BY <1>7
  <2>3. ms[q] = ns \o Loaded(q, ps)
    OBVIOUS
  <2> HIDE DEF ns, g, k, ms
  <2>4. IsSending(ns \o Loaded(q, ps), best[q], g, k)
    BY <2>1, <2>2, SendingBoth
  <2> QED
    BY <2>3, <2>4 DEF g, k
<1> HIDE DEF ms
<1>12. Takes(p) /\ ctx' = [q \in Peer |-> ctx'[q]] /\ registered \subseteq registered'
  BY <1>2, <1>9 DEF Takes
<1>13. /\ Connections' /\ DownloadPeerIsConnected'
       /\ ctx' \in [Peer -> ContextType]
       /\ in' \in [Peer -> Seq(MessageType)] /\ out' \in [Peer -> Seq(MessageType)]
  BY <1>1, <1>2, <1>7, <1>9, <1>10, <1>11, <1>12, ConnectionsFollow
<1>14. lastBlock' \in 0..Top /\ estimated' \in 0..Top /\ lastOrphan' \in 0..Top /\ stray' \in BOOLEAN
  <2>1. lastBlock' \in 0..Top /\ estimated' \in 0..Top /\ lastOrphan' \in 0..Top
    BY <1>1, <1>2, <1>6, ChainAssumption DEF Typed, BlockType, Larger
  <2>2. stray' \in BOOLEAN
    BY <1>2, Zenon
  <2> QED
    BY <2>1, <2>2
<1>15. Typed'
  BY <1>1, <1>2, <1>6, <1>7, <1>9, <1>13, <1>14 DEF Typed
<1>16. OrphansAreBlocks'
  <2>1. orphans' \in SUBSET orphans
    BY <1>2, <1>4
  <2>2. \A o \in orphans' : IsBlock(o, generated') /\ o.txs \subseteq registered'
    BY <1>2, <1>7, <2>1, Orphans
  <2> QED
    BY <2>2 DEF OrphansAreBlocks
<1>17. NoTxMissed'
  <2> SUFFICES ASSUME ~stray' PROVE AllRegistered'
    BY DEF NoTxMissed
  <2>1. AllRegistered /\ b.filter \in {None, filter}
    BY <1>1, <1>2 DEF NoTxMissed
  <2>2. \A i \in DOMAIN Pays[b.height] :
            Pays[b.height][i] \in registered /\ Pays[b.height][i] \in b.txs
    BY <1>2, <2>1, NothingIsLeftOut
  <2>3. lastBlock \in Nat /\ lastBlock' = lastBlock + 1
    BY <1>1, <1>2 DEF Typed
  <2>4. \A h \in 1..lastBlock' : h = b.height \/ h \in 1..lastBlock
    BY <1>2, <2>3
  <2> QED
    BY <1>2, <2>1, <2>2, <2>4 DEF AllRegistered
<1> QED
  BY <1>7, <1>13, <1>15, <1>16, <1>17 DEF IInv

LEMMA RelayBlockStep == ASSUME IInv, NEW p \in Peer, RelayBlock(p) PROVE IInv'
<1> DEFINE b == Head(ctx[p].relay)
<1>1. PICK worn \in MayBeWorn(p, b) :
          Ignore(p, b, worn) \/ KeepOrphan(p, b, worn) \/ Extend(p, b, worn) \/ Repeat(p, b, worn)
  BY DEF RelayBlock
<1>2. Relaying(p, b, worn)
  BY DEF RelayBlock, Relaying
<1> HIDE DEF b
<1> QED
  BY <1>1, <1>2, IgnoreStep, KeepOrphanStep, ExtendStep, RepeatStep

-----------------------------------------------------------------------------
(* The remote peers. *)

\* What a peer may reply to the message m.
Fits(r, m, b, g) ==
    /\ r \in MessageType /\ IsReply(r, b, g)
    /\ r.type = "inv" => r.txs = {}
    /\ r.type = "merkleblock" => m.type = "getdata" /\ r.blocks[1] \in Range(m.blocks)
AllFit(rs, m, b, g) == rs \in Seq(MessageType) /\ \A i \in DOMAIN rs : Fits(rs[i], m, b, g)

LEMMA FitsNothing == ASSUME NEW m, NEW b, NEW g PROVE AllFit(<<>>, m, b, g)
  BY DEF AllFit

LEMMA FitsOne ==
    ASSUME NEW r, NEW m, NEW b, NEW g, Fits(r, m, b, g)
    PROVE  AllFit(<<r>>, m, b, g)
  BY DEF AllFit, Fits

LEMMA FitsBoth ==
    ASSUME NEW rs, NEW ts, NEW m, NEW b, NEW g, AllFit(rs, m, b, g), AllFit(ts, m, b, g)
    PROVE  AllFit(rs \o ts, m, b, g)
<1>1. rs \in Seq(MessageType) /\ ts \in Seq(MessageType)
  BY DEF AllFit
<1>2. /\ rs \o ts \in Seq(MessageType)
      /\ \A i \in 1..Len(rs) : (rs \o ts)[i] = rs[i]
      /\ \A i \in 1..Len(rs \o ts) :
            i \notin 1..Len(rs) => i - Len(rs) \in 1..Len(ts) /\ (rs \o ts)[i] = ts[i - Len(rs)]
  BY <1>1, Joined
<1>3. DOMAIN rs = 1..Len(rs) /\ DOMAIN ts = 1..Len(ts) /\ DOMAIN (rs \o ts) = 1..Len(rs \o ts)
  BY <1>1, <1>2
<1> DEFINE us == rs \o ts
<1> HIDE DEF us
<1>4. \A i \in DOMAIN us : Fits(us[i], m, b, g)
  BY <1>2, <1>3 DEF AllFit, us
<1> QED
  BY <1>2, <1>4 DEF AllFit, us

LEMMA FitsParts ==
    ASSUME NEW n \in Nat, NEW F, DOMAIN F = 1..n, NEW m, NEW b, NEW g,
           \A i \in 1..n : AllFit(F[i], m, b, g)
    PROVE  AllFit(FlattenSeq([i \in 1..n |-> F[i]]), m, b, g)
<1> DEFINE s == [i \in 1..n |-> F[i]]
<1>1. s \in [1..n -> Seq(MessageType)] /\ DOMAIN s = 1..n /\ \A i \in 1..n : s[i] = F[i]
  BY DEF AllFit
<1> HIDE DEF s
<1>2. s \in Seq(Seq(MessageType))
  BY <1>1
<1> DEFINE u == FlattenSeq(s)
<1>3. IsOf(u, s, MessageType)
  BY <1>2, FlattenParts
<1> HIDE DEF u
<1>4. u \in Seq(MessageType) /\ \A k \in DOMAIN u : Fits(u[k], m, b, g)
  <2>1. u \in Seq(MessageType)
    BY <1>3 DEF IsOf
  <2>2. ASSUME NEW k \in DOMAIN u PROVE Fits(u[k], m, b, g)
    <3>1. PICK j \in DOMAIN s : \E l \in DOMAIN s[j] : u[k] = s[j][l]
      BY <1>3 DEF IsOf
    <3>2. PICK l \in DOMAIN s[j] : u[k] = s[j][l]
      BY <3>1
    <3>3. AllFit(s[j], m, b, g)
      BY <1>1, <3>1
    <3> QED
      BY <3>2, <3>3 DEF AllFit
  <2> QED
    BY <2>1, <2>2
<1> QED
  BY <1>4 DEF AllFit, u, s

LEMMA LeastOfTwo ==
    ASSUME NEW a \in Int, NEW b \in Int
    PROVE  Min({a, b}) = IF a <= b THEN a ELSE b
  BY DEF Min

LEMMA LineIs ==
    ASSUME NEW h \in Nat, NEW n \in Nat, NEW b \in Nat, h + n <= b
    PROVE  Line(h, n) \in Seq(Nat) /\ Range(Line(h, n)) \subseteq 1..b
<1> DEFINE s == Line(h, n)
<1>1. DOMAIN s = 1..n /\ \A i \in 1..n : s[i] = h + i
  BY DEF Line
<1>2. s = [i \in 1..n |-> h + i]
  BY DEF Line
<1>3. s \in [1..n -> Nat]
  BY <1>2
<1>4. s \in Seq(Nat)
  BY <1>3
<1>5. \A i \in 1..n : s[i] \in 1..b
  BY <1>1
<1> HIDE DEF s
<1>6. Range(s) \subseteq 1..b
  BY <1>1, <1>5 DEF Range
<1> QED
  BY <1>4, <1>6 DEF s

LEMMA TxFits ==
    ASSUME NEW txs \in SUBSET Txs, NEW m, NEW b, NEW g
    PROVE  AllFit(<<Reply("tx", <<>>, txs)>>, m, b, g)
<1> DEFINE none == <<>>
           r == Reply("tx", none, txs)
<1>1. "tx" \in Types /\ none \in Seq(Nat)
  BY DEF Types
<1> HIDE DEF none
<1>2. r \in MessageType /\ r.type = "tx" /\ r.call = <<>>
  BY <1>1, MessageIs DEF Reply
<1> HIDE DEF r
<1>3. Fits(r, m, b, g)
  BY <1>2 DEF Fits, IsReply
<1>4. AllFit(<<r>>, m, b, g)
  BY <1>3, FitsOne
<1> QED
  BY <1>4 DEF r, none

\* An inv or a list of headers.
LEMMA BlocksFit ==
    ASSUME NEW type \in {"inv", "headers"}, NEW hs \in Seq(Nat), NEW m, NEW b, NEW g, Range(hs) \subseteq 1..b
    PROVE  AllFit(<<Reply(type, hs, {})>>, m, b, g)
<1> DEFINE none == {}
           r == Reply(type, hs, none)
<1>1. type \in Types /\ none \in SUBSET Txs
  BY DEF Types
<1>2. none = {}
  OBVIOUS
<1> HIDE DEF none
<1>3. r \in MessageType /\ r.type = type /\ r.blocks = hs /\ r.txs = none /\ r.call = <<>>
  BY <1>1, MessageIs DEF Reply
<1> HIDE DEF r
<1>4. Fits(r, m, b, g)
  BY <1>2, <1>3 DEF Fits, IsReply
<1>5. AllFit(<<r>>, m, b, g)
  BY <1>4, FitsOne
<1> QED
  BY <1>5 DEF r, none

LEMMA FilteredFits ==
    ASSUME NEW p \in Peer, NEW m, NEW h, m.type = "getdata", h \in Range(m.blocks), NEW g \in Nat,
           best[p] \in 0..Top, h \in 1..best[p], remote[p].filter \in 0..g
    PROVE  AllFit(Filtered(p, h), m, best[p], g)
<1> DEFINE f == remote[p].filter
           b == best[p]
           txs == Matched(h, f)
           hs == <<h, f>>
           r == Reply("merkleblock", hs, txs)
           tip == <<b>>
           end == IF h = remote[p].continue THEN <<Reply("inv", tip, {})>> ELSE <<>>
<1>1. h \in Blocks /\ b \in Nat /\ f \in Nat /\ f <= g /\ h \in Nat
  BY ChainAssumption DEF Blocks
<1>2. txs \in SUBSET Txs /\ "merkleblock" \in Types /\ hs \in Seq(Nat) /\ Len(hs) = 2 /\ hs[1] = h /\ hs[2] = f
  BY <1>1, MatchedTxs DEF Types
<1>3. AllFit(<<r>>, m, b, g)
  <2> HIDE DEF hs
  <2>1. r \in MessageType /\ r.type = "merkleblock" /\ r.blocks = hs /\ r.txs = txs
    BY <1>2, MessageIs DEF Reply
  <2> HIDE DEF r
  <2>2. Fits(r, m, b, g)
    BY <1>1, <1>2, <2>1 DEF Fits, IsReply
  <2> QED
    BY <2>2, FitsOne
<1>4. AllFit(Payments(h, f), m, b, g)
  <2> DEFINE n == Len(Pays[h])
             F == [i \in 1..n |-> IF Pays[h][i] <= f THEN <<Reply("tx", <<>>, {Pays[h][i]})>> ELSE <<>>]
  <2>1. n \in Nat /\ DOMAIN Pays[h] = 1..n /\ \A i \in 1..n : Pays[h][i] \in Txs
    BY <1>1, PaysAreNumbers
  <2>2. ASSUME NEW i \in 1..n PROVE AllFit(F[i], m, b, g)
    <3> DEFINE one == {Pays[h][i]}
    <3>1. one \in SUBSET Txs
      BY <2>1
    <3> HIDE DEF one
    <3>2. AllFit(<<Reply("tx", <<>>, one)>>, m, b, g) /\ AllFit(<<>>, m, b, g)
      BY <3>1, TxFits, FitsNothing
    <3>3. F[i] = <<Reply("tx", <<>>, one)>> \/ F[i] = <<>>
      BY DEF one
    <3> QED
      BY <3>2, <3>3
  <2>3. Payments(h, f) = FlattenSeq(F)
    BY <2>1 DEF Payments
  <2>4. DOMAIN F = 1..n /\ F = [i \in 1..n |-> F[i]]
    OBVIOUS
  <2> HIDE DEF F, n
  <2>5. AllFit(FlattenSeq([i \in 1..n |-> F[i]]), m, b, g)
    BY <2>1, <2>2, <2>4, FitsParts
  <2>6. FlattenSeq([i \in 1..n |-> F[i]]) = FlattenSeq(F)
    BY <2>4
  <2> QED
    BY <2>3, <2>5, <2>6
<1>5. AllFit(end, m, b, g)
  <2>1. tip \in Seq(Nat) /\ Range(tip) \subseteq 1..b
    <3>1. b \in 1..b
      BY <1>1
    <3> QED
      BY <1>1, <3>1 DEF Range
  <2>2. "inv" \in {"inv", "headers"}
    OBVIOUS
  <2> HIDE DEF tip, b
  <2>3. AllFit(<<Reply("inv", tip, {})>>, m, b, g)
    BY <2>1, <2>2, BlocksFit
  <2> QED
    BY <2>3, FitsNothing
<1>6. Filtered(p, h) = (<<r>> \o Payments(h, f)) \o end
  BY DEF Filtered
<1> HIDE DEF r, end, b, f
<1>7. AllFit(<<r>> \o Payments(h, f), m, b, g)
  BY <1>3, <1>4, FitsBoth
<1>8. AllFit((<<r>> \o Payments(h, f)) \o end, m, b, g)
  BY <1>5, <1>7, FitsBoth
<1> QED
  BY <1>6, <1>8 DEF b

\* What a peer replies, when it forgets nothing.
LEMMA RepliesFit ==
    ASSUME ~Forgets, NEW p \in Peer, NEW m \in MessageType, NEW g \in Nat, IsSent(m, best[p], g),
           best[p] \in 0..Top, remote[p].filter \in 0..g
    PROVE  AllFit(Replies(p, m), m, best[p], g) /\ Answers(Replies(p, m), m)
<1> DEFINE b == best[p]
           h == m.blocks[1]
           n(window) == Min({window, b - h})
           rs == Replies(p, m)
           begins(us) == (m.type = "getdata" /\ m.txs # {}) =>
                            (us # <<>> /\ us[1].type = "tx" /\ us[1].txs = m.txs)
<1> SUFFICES AllFit(rs, m, b, g) /\ Answers(rs, m)
  OBVIOUS
<1>1. /\ b \in Nat /\ m.blocks \in Seq(Nat) /\ m.txs \in SUBSET Txs
      /\ m.type \in Types /\ m.call \in Call
      /\ m.type \in {"getblocks", "getheaders"} => h \in Nat
  <2>1. b \in Nat /\ m.blocks \in Seq(Nat) /\ m.txs \in SUBSET Txs /\ m.type \in Types /\ m.call \in Call
    BY ChainAssumption DEF MessageType
  <2>2. m.type \in {"getblocks", "getheaders"} => m.blocks # <<>>
    BY DEF IsSent
  <2> QED
    BY <2>1, <2>2
<1>2. \A us : (AllFit(us, m, b, g) /\ begins(us)) => Answers(us, m)
  BY DEF Answers, AllFit, Fits
<1>3. CASE m.type = "getblocks"
  <2>1. rs = IF n(Window) > 0 THEN <<Reply("inv", Line(h, n(Window)), {})>> ELSE <<>>
    BY <1>3 DEF Replies
  <2>2. Window \in Nat /\ h \in Nat
    BY <1>1, <1>3, NumberAssumption
  <2>3. AllFit(rs, m, b, g)
    <3>1. n(Window) = IF Window <= b - h THEN Window ELSE b - h
      BY <1>1, <2>2, LeastOfTwo
    <3> DEFINE k == n(Window)
    <3>2. k \in Int /\ h + k <= b
      BY <1>1, <2>2, <3>1
    <3> HIDE DEF k, b, h, rs
    <3>3. CASE k > 0
      <4>1. k \in Nat
        BY <3>2, <3>3
      <4>2. Line(h, k) \in Seq(Nat) /\ Range(Line(h, k)) \subseteq 1..b
        BY <1>1, <2>2, <3>2, <4>1, LineIs
      <4>3. "inv" \in {"inv", "headers"}
        OBVIOUS
      <4>4. AllFit(<<Reply("inv", Line(h, k), {})>>, m, b, g)
        BY <4>2, <4>3, BlocksFit
      <4> QED
        BY <2>1, <3>3, <4>4 DEF k
    <3>4. CASE ~(k > 0)
      <4>1. rs = <<>>
        BY <2>1, <3>4 DEF k
      <4> QED
        BY <4>1, FitsNothing
    <3> QED
      BY <3>3, <3>4
  <2> HIDE DEF rs, b
  <2> QED
    BY <1>2, <1>3, <2>3
<1>4. CASE m.type = "getheaders"
  <2>1. rs = <<Reply("headers", Line(h, Larger(0, n(HeaderWindow))), {})>>
    BY <1>4 DEF Replies
  <2>2. HeaderWindow \in Nat /\ h \in Nat
    BY <1>1, <1>4, NumberAssumption
  <2>3. AllFit(rs, m, b, g)
    <3>1. n(HeaderWindow) = IF HeaderWindow <= b - h THEN HeaderWindow ELSE b - h
      BY <1>1, <2>2, LeastOfTwo
    <3> DEFINE k == Larger(0, n(HeaderWindow))
               hs == Line(h, k)
    <3>2. k \in Nat /\ (k = 0 \/ h + k <= b)
      BY <1>1, <2>2, <3>1 DEF Larger
    <3>3. hs \in Seq(Nat) /\ Range(hs) \subseteq 1..b
      <4> HIDE DEF k
      <4>1. CASE k = 0
        <5>1. hs = <<>>
          BY <4>1 DEF Line
        <5> QED
          BY <5>1 DEF Range
      <4>2. CASE k # 0
        <5>1. h + k <= b
          BY <3>2, <4>2
        <5> QED
          BY <1>1, <2>2, <3>2, <5>1, LineIs
      <4> QED
        BY <4>1, <4>2
    <3>4. "headers" \in {"inv", "headers"}
      OBVIOUS
    <3> HIDE DEF hs, b
    <3>5. AllFit(<<Reply("headers", hs, {})>>, m, b, g)
      BY <3>3, <3>4, BlocksFit
    <3> QED
      BY <2>1, <3>5 DEF hs, b
  <2> HIDE DEF rs, b
  <2> QED
    BY <1>2, <1>4, <2>3
<1>5. CASE m.type = "getdata"
  <2> DEFINE k == Len(m.blocks)
             F == [i \in 1..k |-> Filtered(p, m.blocks[i])]
             parts == FlattenSeq(F)
             first == IF m.txs = {} THEN <<>> ELSE <<Reply("tx", <<>>, m.txs)>>
  <2>1. Relays(p, m.txs) = m.txs
    BY DEF Relays
  <2>2. DOMAIN m.blocks = 1..k /\ k \in Nat
    BY <1>1
  <2>3. rs = first \o parts
    BY <1>5, <2>1, <2>2 DEF Replies
  <2>4. AllFit(parts, m, b, g)
    <3>1. ASSUME NEW i \in 1..k PROVE AllFit(F[i], m, b, g)
      <4> DEFINE x == m.blocks[i]
      <4>1. x \in Range(m.blocks)
        BY <2>2 DEF Range
      <4>2. x \in 1..b
        BY <1>5, <4>1 DEF IsSent
      <4>3. F[i] = Filtered(p, x)
        OBVIOUS
      <4> HIDE DEF x, F
      <4> QED
        BY <1>5, <4>1, <4>2, <4>3, FilteredFits
    <3>2. DOMAIN F = 1..k /\ F = [i \in 1..k |-> F[i]]
      OBVIOUS
    <3> HIDE DEF F, k, b
    <3>3. AllFit(FlattenSeq([i \in 1..k |-> F[i]]), m, b, g)
      BY <2>2, <3>1, <3>2, FitsParts
    <3> QED
      BY <3>2, <3>3
  <2>5. AllFit(first, m, b, g)
    BY <1>1, TxFits, FitsNothing
  <2>6. m.txs # {} => first # <<>> /\ first[1].type = "tx" /\ first[1].txs = m.txs
    BY DEF Reply, Message
  <2> HIDE DEF first, parts, b
  <2>7. AllFit(first \o parts, m, b, g)
    BY <2>4, <2>5, FitsBoth
  <2>8. m.txs # {} =>
            first \o parts # <<>> /\ (first \o parts)[1].type = "tx" /\ (first \o parts)[1].txs = m.txs
    <3>1. first \in Seq(MessageType) /\ parts \in Seq(MessageType)
      BY <2>4, <2>5 DEF AllFit
    <3>2. first # <<>> => first \o parts # <<>> /\ (first \o parts)[1] = first[1]
      BY <3>1
    <3> QED
      BY <2>6, <3>2
  <2> HIDE DEF rs
  <2> QED
    BY <1>2, <2>3, <2>7, <2>8
<1>6. CASE m.type = "ping"
  <2> DEFINE r == [m EXCEPT !.type = "pong"]
  <2>1. rs = <<r>>
    BY <1>6 DEF Replies
  <2>2. r \in MessageType /\ r.type = "pong"
    BY DEF MessageType, Types
  <2> HIDE DEF r, rs
  <2>3. Fits(r, m, b, g)
    BY <2>2 DEF Fits, IsReply
  <2>4. AllFit(rs, m, b, g)
    BY <2>1, <2>3, FitsOne
  <2> QED
    BY <1>2, <1>6, <2>4
<1>7. CASE m.type \notin {"getblocks", "getheaders", "getdata", "ping"}
  <2>1. rs = <<>>
    BY <1>7 DEF Replies
  <2> HIDE DEF rs
  <2>2. AllFit(rs, m, b, g)
    BY <2>1, FitsNothing
  <2> QED
    BY <1>2, <1>7, <2>2
<1> HIDE DEF rs, b
<1> QED
  BY <1>3, <1>4, <1>5, <1>6, <1>7

LEMMA AnswerStep == ASSUME IInv, ~Forgets, NEW p \in Peer, Answer(p) PROVE IInv'
<1> DEFINE m == Head(out[p])
           full == m.type = "getblocks" /\ best[p] - m.blocks[1] >= Window
           r == remote[p]
           filtered == IF m.type = "filterload" THEN m.blocks[1] ELSE r.filter
           continued == CASE full -> m.blocks[1] + Window
                          [] m.type = "getdata" /\ r.continue \in Range(m.blocks) -> 0
                          [] OTHER -> r.continue
           rs == Replies(p, m)
<1>1. /\ ctx[p].connected /\ ctx[p].open /\ out[p] # <<>>
      /\ in' = [in EXCEPT ![p] = @ \o rs]
      /\ remote' = [remote EXCEPT ![p].filter = IF m.type = "filterload" THEN m.blocks[1] ELSE @,
                                  ![p].continue = CASE full -> m.blocks[1] + Window
                                                    [] m.type = "getdata" /\ @ \in Range(m.blocks) -> 0
                                                    [] OTHER -> @]
      /\ out' = [out EXCEPT ![p] = Tail(@)]
      /\ UNCHANGED <<lastBlock, estimated, orphans, lastOrphan, filter, downloadPeer, generated,
                     registered, confirmed, ctx, best, stray>>
  BY DEF Answer, Connected, manager, wallet
<1>2. /\ ctx \in [Peer -> ContextType] /\ in \in [Peer -> Seq(MessageType)]
      /\ out \in [Peer -> Seq(MessageType)] /\ remote \in [Peer -> RemoteType] /\ generated \in Nat
  BY DEF IInv, Typed
<1>3. /\ IsConnection(ctx[p], in[p], out[p], r, best[p], generated, registered)
      /\ best[p] \in 0..Top /\ r.filter \in 0..generated
      /\ \A i \in DOMAIN out[p] : IsSent(out[p][i], best[p], generated)
  BY EachIs DEF IsConnection
<1>4. m = out[p][1] /\ m \in MessageType /\ IsSent(m, best[p], generated)
  <2>1. out[p] \in Seq(MessageType) /\ out[p] # <<>>
    BY <1>1, <1>2
  <2>2. m = out[p][1] /\ m \in MessageType /\ 1 \in DOMAIN out[p]
    BY <2>1
  <2> QED
    BY <1>3, <2>2
<1>5. filtered \in 0..generated /\ continued \in Nat /\ r \in RemoteType
  <2>1. m.blocks \in Seq(Nat)
    BY <1>4 DEF MessageType
  <2>2. m.type = "filterload" => m.blocks[1] \in 0..generated
    <3>1. m.type = "filterload" => m.blocks # <<>> /\ m.blocks[1] <= generated
      BY <1>4 DEF IsSent
    <3> QED
      BY <1>2, <2>1, <3>1
  <2>3. full => m.blocks[1] + Window \in Nat
    <3>1. m.type = "getblocks" => m.blocks # <<>>
      BY <1>4 DEF IsSent
    <3>2. full => m.blocks[1] \in Nat
      BY <2>1, <3>1
    <3>3. Window \in Nat
      BY NumberAssumption
    <3> HIDE DEF full, m
    <3> QED
      BY <3>2, <3>3
  <2>4. r \in RemoteType /\ r.continue \in Nat
    BY <1>2 DEF RemoteType
  <2> HIDE DEF m, full, r
  <2> QED
    BY <1>3, <2>2, <2>3, <2>4 DEF filtered, continued
<1>6. remote' = [remote EXCEPT ![p].filter = filtered, ![p].continue = continued]
  <2> HIDE DEF m, full
  <2> QED
    BY <1>1, <1>2 DEF RemoteType
<1>7. AllFit(rs, m, best[p], generated) /\ Answers(rs, m)
  <2> HIDE DEF m
  <2> QED
    BY <1>2, <1>3, <1>4, RepliesFit
<1> HIDE DEF m, full, filtered, continued, rs
<1> DEFINE s == remote'[p]
<1>8. /\ remote' \in [Peer -> RemoteType] /\ s.filter = filtered
      /\ \A q \in Peer : q # p => remote'[q] = remote[q]
  <2> DEFINE r1 == [r EXCEPT !.filter = filtered]
             r2 == [r1 EXCEPT !.continue = continued]
  <2>1. remote' = [remote EXCEPT ![p] = r2]
    BY <1>2, <1>6
  <2> HIDE DEF r
  <2>2. filtered \in Nat
    BY <1>2, <1>5
  <2>3. r1 \in RemoteType /\ r1.filter = filtered
    BY <1>5, <2>2 DEF RemoteType
  <2> HIDE DEF r1
  <2>4. r2 \in RemoteType /\ r2.filter = filtered
    BY <1>5, <2>3 DEF RemoteType
  <2> HIDE DEF r2
  <2> QED
    BY <1>2, <2>1, <2>4
<1> HIDE DEF r
<1>9. in'[p] = in[p] \o rs /\ out'[p] = Tail(out[p]) /\ ctx'[p] = ctx[p]
  BY <1>1, <1>2
<1>10. OneConnection(p)
  BY <1>1, <1>2, <1>8 DEF OneConnection
<1> HIDE DEF s
<1>11. IsConnection(ctx[p], in[p] \o rs, Tail(out[p]), s, best[p], generated, registered)
  <2>1. \A i \in DOMAIN rs : IsReply(rs[i], best[p], generated)
    BY <1>7 DEF AllFit, Fits
  <2>2. Answers(rs, out[p][1]) /\ s.filter \in 0..generated
    BY <1>4, <1>5, <1>7, <1>8
  <2> QED
    BY <1>1, <1>3, <2>1, <2>2, ConnectionAnswers DEF r
<1>12. IsConnection(ctx'[p], in'[p], out'[p], remote'[p], best[p], generated, registered)
  BY <1>9, <1>11 DEF s
<1> QED
  BY <1>1, <1>10, <1>12, OneConnectionStep

\* Nothing is said of the block after the last one.
LEMMA NothingIsSaidYet ==
    ASSUME NEW c, NEW is, NEW os, NEW r, NEW b \in Nat, NEW g, NEW txs,
           IsConnection(c, is, os, r, b, g, txs), NEW t, BlockOf(t) \in Nat, b < BlockOf(t)
    PROVE  IsAhead(t, End(is), c.known, is, os)
<1> DEFINE h == BlockOf(t)
<1>1. h \notin 1..b
  OBVIOUS
<1>2. is \in Seq(MessageType) /\ os \in Seq(MessageType) /\ Range(c.known) \subseteq 1..b
  BY DEF IsConnection, IsContext
<1>3. /\ \A i \in DOMAIN is : IsReply(is[i], b, g)
      /\ \A i \in DOMAIN os : IsSent(os[i], b, g)
  BY DEF IsConnection
<1> HIDE DEF h
<1>4. ~Asks(os, h, End(os))
  <2> SUFFICES ASSUME NEW j \in 1..(End(os) - 1), os[j].type = "getdata", h \in Range(os[j].blocks)
               PROVE  FALSE
    BY DEF Asks
  <2>1. j \in DOMAIN os
    BY <1>2 DEF End
  <2> QED
    BY <1>1, <1>3, <2>1 DEF IsSent
<1>5. ~Brings(is, h, End(is)) /\ ~Tells(is, h, End(is))
  <2>1. \A j \in 1..(End(is) - 1) : j \in DOMAIN is
    BY <1>2 DEF End
  <2> QED
    BY <1>1, <1>3, <2>1 DEF IsReply, Brings, Tells
<1> QED
  BY <1>1, <1>2, <1>4, <1>5 DEF IsAhead, h

LEMMA GrowStep == ASSUME IInv, NEW p \in Peer, Grow(p) PROVE IInv'
<1> DEFINE b == best[p]
           k == b + 1
           hs == <<k>>
           none == {}
           m == Reply("inv", hs, none)
<1>1. /\ b < Top /\ best' = [best EXCEPT ![p] = k]
      /\ in' = [in EXCEPT ![p] = IF Connected(p) THEN Append(@, m) ELSE @]
      /\ UNCHANGED <<lastBlock, estimated, orphans, lastOrphan, filter, downloadPeer, generated,
                     registered, confirmed, ctx, out, remote, stray>>
  BY DEF Grow, Says, manager, wallet
<1>2. Typed /\ FilterIsAhead /\ OrphansAreBlocks /\ DownloadPeerIsConnected /\ Top \in Nat
  BY ChainAssumption DEF IInv
<1>3. /\ in \in [Peer -> Seq(MessageType)] /\ best \in [Peer -> 0..Top] /\ generated \in Nat
  BY <1>2 DEF Typed
<1>4. /\ b \in Nat /\ k \in Nat /\ b <= k /\ k \in 0..Top /\ k \in 1..k
      /\ hs \in Seq(Nat) /\ Range(hs) \subseteq 1..k /\ none \in SUBSET Txs /\ "inv" \in Types
  <2>1. b \in Nat /\ k \in Nat /\ b <= k /\ k \in 0..Top /\ k \in 1..k
    BY <1>1, <1>2, <1>3
  <2> HIDE DEF k
  <2>2. hs \in Seq(Nat) /\ Range(hs) \subseteq 1..k
    BY <2>1 DEF Range
  <2> QED
    BY <2>1, <2>2 DEF Types
<1>5. none = {}
  OBVIOUS
<1> HIDE DEF hs, none
<1>6. /\ m \in MessageType /\ m.type = "inv" /\ m.blocks = hs /\ m.txs = none /\ m.call = <<>>
  BY <1>4, MessageIs DEF Reply
<1> HIDE DEF m, k
<1>7. IsReply(m, k, generated)
  BY <1>4, <1>5, <1>6 DEF IsReply
<1>8. IsConnection(ctx[p], in[p], out[p], remote[p], k, generated, registered)
  <2>1. IsConnection(ctx[p], in[p], out[p], remote[p], b, generated, registered)
    BY EachIs
  <2> HIDE DEF b
  <2> QED
    BY <1>3, <1>4, <2>1, ConnectionGrows
<1>9. ctx[p].open => IsConnection(ctx[p], Append(in[p], m), out[p], remote[p], k, generated, registered)
  <2>1. \A t \in m.txs \ ctx[p].seen : IsAhead(t, End(in[p]), ctx[p].known, in[p], out[p])
    BY <1>5, <1>6
  <2> QED
    BY <1>6, <1>7, <1>8, <2>1, ConnectionHears
<1>10. Connections'
  <2> SUFFICES ASSUME NEW q \in Peer
               PROVE  IsConnection(ctx'[q], in'[q], out'[q], remote'[q], best'[q], generated', registered')
    BY DEF Connections
  <2>1. IsConnection(ctx[q], in[q], out[q], remote[q], best[q], generated, registered)
    BY EachIs
  <2>2. CASE q = p /\ Connected(p)
    <3>1. in'[q] = Append(in[p], m) /\ best'[q] = k /\ ctx[p].open
      BY <1>1, <1>3, <2>2 DEF Connected
    <3> QED
      BY <1>1, <1>9, <2>2, <3>1
  <2>3. CASE q = p /\ ~Connected(p)
    <3>1. in'[q] = in[p] /\ best'[q] = k
      BY <1>1, <1>3, <2>3
    <3> QED
      BY <1>1, <1>8, <2>3, <3>1
  <2>4. CASE q # p
    <3>1. in'[q] = in[q] /\ best'[q] = best[q]
      BY <1>1, <1>3, <2>4
    <3> QED
      BY <1>1, <2>1, <3>1
  <2> QED
    BY <2>2, <2>3, <2>4
<1>11. Typed'
  <2>1. best' \in [Peer -> 0..Top] /\ in' \in [Peer -> Seq(MessageType)]
    <3>1. in[p] \in Seq(MessageType)
      BY <1>3
    <3>2. Append(in[p], m) \in Seq(MessageType)
      BY <1>6, <3>1
    <3> QED
      BY <1>1, <1>3, <1>4, <3>1, <3>2
  <2> QED
    BY <1>1, <1>2, <2>1 DEF Typed
<1>12. OrphansAreBlocks' /\ FilterIsAhead' /\ DownloadPeerIsConnected'
  BY <1>1, <1>2 DEF OrphansAreBlocks, FilterIsAhead, DownloadPeerIsConnected
<1>13. NoTxMissed'
  BY <1>1, NothingIsMissed
<1> QED
  BY <1>10, <1>11, <1>12, <1>13 DEF IInv

LEMMA AnnounceStep == ASSUME IInv, NEW p \in Peer, Announce(p) PROVE IInv'
<1>1. PICK t \in Floating \ remote[p].told :
          /\ t <= remote[p].filter /\ best[p] < BlockOf(t)
          /\ remote' = [remote EXCEPT ![p].told = @ \cup {t}]
          /\ Says(p, Reply("inv", <<>>, {t}))
  BY DEF Announce
<1> DEFINE none == <<>>
           one == {t}
           m == Reply("inv", none, one)
           r == remote[p]
           s == [r EXCEPT !.told = r.told \cup {t}]
           b == best[p]
<1>2. /\ ctx[p].connected /\ ctx[p].open
      /\ UNCHANGED <<lastBlock, estimated, orphans, lastOrphan, filter, downloadPeer, generated,
                     registered, confirmed, ctx, out, best, stray>>
  BY DEF Announce, Connected, manager, wallet
<1>3. /\ in \in [Peer -> Seq(MessageType)] /\ ctx \in [Peer -> ContextType]
      /\ out \in [Peer -> Seq(MessageType)] /\ remote \in [Peer -> RemoteType] /\ generated \in Nat
  BY DEF IInv, Typed
<1>4. t \in Txs /\ t \in Nat /\ BlockOf(t) \in Nat
  <2>1. t \in Txs
    BY ChainAssumption
  <2>2. BlockOf(t) \in Blocks
    BY <2>1, BlockOfTx
  <2>3. t \in Nat
    BY <2>1, PaysAreNumbers DEF Txs
  <2> QED
    BY <2>1, <2>2, <2>3 DEF Blocks
<1>5. in' = [in EXCEPT ![p] = Append(@, m)]
  BY <1>1, <1>2 DEF Says, Connected
<1>6. s \in RemoteType /\ s.filter = r.filter
  <2>1. r \in RemoteType
    BY <1>3
  <2>2. r.told \cup {t} \in SUBSET Txs
    BY <1>4, <2>1 DEF RemoteType
  <2> HIDE DEF r
  <2> QED
    BY <2>1, <2>2 DEF RemoteType
<1>7. /\ IsConnection(ctx[p], in[p], out[p], r, b, generated, registered)
      /\ b \in Nat /\ r.filter \in 0..generated
  BY EachIs DEF IsConnection
<1>8. none = <<>> /\ one = {t}
  OBVIOUS
<1>9. none \in Seq(Nat) /\ one \in SUBSET Txs /\ "inv" \in Types
  BY <1>4 DEF Types
<1> HIDE DEF none, one
<1>10. m \in MessageType /\ m.type = "inv" /\ m.blocks = none /\ m.txs = one /\ m.call = <<>>
  BY <1>9, MessageIs DEF Reply
<1> HIDE DEF m
<1>11. t <= generated
  BY <1>1, <1>3, <1>4, <1>7
<1>12. IsReply(m, b, generated)
  <2>1. Range(m.blocks) \subseteq 1..b
    BY <1>8, <1>10 DEF Range
  <2> QED
    BY <1>4, <1>8, <1>10, <1>11, <2>1 DEF IsReply
<1>13. \A u \in m.txs \ ctx[p].seen : IsAhead(u, End(in[p]), ctx[p].known, in[p], out[p])
  <2>1. IsAhead(t, End(in[p]), ctx[p].known, in[p], out[p])
    BY <1>1, <1>4, <1>7, NothingIsSaidYet
  <2> QED
    BY <1>8, <1>10, <2>1
<1>14. remote' = [remote EXCEPT ![p] = s]
  BY <1>1, <1>3
<1> HIDE DEF s
<1>15. IsConnection(ctx[p], Append(in[p], m), out[p], s, b, generated, registered)
  BY <1>2, <1>6, <1>7, <1>10, <1>12, <1>13, ConnectionHears
<1>16. OneConnection(p) /\ in'[p] = Append(in[p], m) /\ remote'[p] = s
  BY <1>2, <1>3, <1>5, <1>6, <1>14 DEF OneConnection
<1>17. IsConnection(ctx'[p], in'[p], out'[p], remote'[p], best[p], generated, registered)
  BY <1>2, <1>15, <1>16
<1> QED
  BY <1>2, <1>16, <1>17, OneConnectionStep

-----------------------------------------------------------------------------
(* The invariant. *)

LEMMA InitStep == Init => IInv
<1> SUFFICES ASSUME Init PROVE IInv
  OBVIOUS
<1>1. /\ lastBlock = 0 /\ estimated = 0 /\ orphans = {} /\ lastOrphan = 0
      /\ filter = None /\ downloadPeer = None
      /\ generated = Gap /\ registered = {} /\ confirmed = {}
      /\ ctx = [p \in Peer |-> NoContext]
      /\ out = [p \in Peer |-> <<>>] /\ in = [p \in Peer |-> <<>>]
      /\ remote = [p \in Peer |-> NoRemote]
      /\ best = Best /\ stray = FALSE
  BY DEF Init, Nothing
<1>2. Top \in Nat /\ Gap \in Nat /\ best \in [Peer -> 0..Top]
  BY <1>1, ChainAssumption, NumberAssumption
<1>3. Connections
  <2> SUFFICES ASSUME NEW p \in Peer
               PROVE  IsConnection(ctx[p], in[p], out[p], remote[p], best[p], generated, registered)
    BY DEF Connections
  <2>1. best[p] \in Nat
    BY <1>2
  <2>2. IsConnection(NoContext, <<>>, <<>>, NoRemote, best[p], generated, registered)
    BY <1>1, <1>2, <2>1, ConnectionIsGone
  <2> QED
    BY <1>1, <2>2
<1>4. ctx \in [Peer -> ContextType]
  <2>1. \A p \in Peer : ctx[p] \in ContextType
    BY <1>3 DEF Connections, IsConnection, IsContext
  <2>2. ctx = [p \in Peer |-> ctx[p]]
    BY <1>1
  <2> QED
    BY <2>1, <2>2
<1>5. in \in [Peer -> Seq(MessageType)] /\ out \in [Peer -> Seq(MessageType)]
  BY <1>1
<1>6. remote \in [Peer -> RemoteType]
  BY <1>1 DEF RemoteType, NoRemote
<1>7. Typed
  <2>1. /\ lastBlock \in 0..Top /\ estimated \in 0..Top /\ lastOrphan \in 0..Top
        /\ filter \in Nat \cup {None} /\ generated \in Nat
        /\ downloadPeer \in Peer \cup {None}
        /\ registered \subseteq Txs /\ confirmed \subseteq registered
    BY <1>1, <1>2
  <2>2. stray \in BOOLEAN
    BY <1>1
  <2> QED
    BY <1>2, <1>4, <1>5, <1>6, <2>1, <2>2 DEF Typed
<1>8. FilterIsAhead /\ OrphansAreBlocks /\ DownloadPeerIsConnected
  BY <1>1 DEF FilterIsAhead, OrphansAreBlocks, DownloadPeerIsConnected
<1>9. NoTxMissed
  BY <1>1 DEF NoTxMissed, AllRegistered
<1> QED
  BY <1>3, <1>7, <1>8, <1>9 DEF IInv

LEMMA NextStep == ASSUME ~Forgets PROVE IInv /\ [Next]_vars => IInv'
<1> SUFFICES ASSUME IInv, [Next]_vars PROVE IInv'
  OBVIOUS
<1>1. CASE Next
  <2>1. PICK p \in Peer :
            \/ Connect(p) \/ Disconnected(p) \/ Fail(p) \/ Timeout(p)
            \/ Receive(p) \/ RelayBlock(p) \/ Answer(p) \/ Grow(p) \/ Announce(p)
    BY <1>1 DEF Next
  <2> QED
    BY <2>1, ConnectStep, EndStep, ReceiveStep, RelayBlockStep, AnswerStep, GrowStep, AnnounceStep
<1>2. CASE UNCHANGED vars
  <2>1. /\ UNCHANGED <<lastBlock, estimated, orphans, lastOrphan, filter, downloadPeer, generated,
                       registered, confirmed, ctx, out, in>>
        /\ UNCHANGED <<remote, best, stray>>
    BY <1>2 DEF vars, manager, wallet
  <2>2. Typed' /\ FilterIsAhead' /\ OrphansAreBlocks' /\ DownloadPeerIsConnected'
    BY <2>1 DEF IInv, Typed, FilterIsAhead, OrphansAreBlocks, DownloadPeerIsConnected
  <2>3. Connections'
    BY <2>1 DEF IInv, Connections
  <2>4. NoTxMissed'
    BY <2>1, NothingIsMissed
  <2> QED
    BY <2>2, <2>3, <2>4 DEF IInv
<1> QED
  BY <1>1, <1>2

\* The types, and what a merkleblock still waits for is in it: a block is kept exactly
\* while some of its transactions are missing (_BRPeerAcceptMerkleblockMessage).
THEOREM DownloadTyped == ASSUME ~Forgets PROVE Spec => []TypeOK
<1>1. IInv => TypeOK
  <2> SUFFICES ASSUME IInv PROVE TypeOK
    OBVIOUS
  <2>1. Typed /\ OrphansAreBlocks
    BY DEF IInv
  <2>2. \A p \in Peer :
          /\ ctx[p].relay \in Seq(BlockType) /\ ctx[p].block \in BlockType
          /\ ctx[p].missing \subseteq ctx[p].block.txs
          /\ ctx[p].missing = {} => ctx[p].block = NoBlock
    BY EachIs DEF IsContext, ContextType
  <2>3. orphans \subseteq BlockType
    BY <2>1 DEF OrphansAreBlocks, IsBlock
  <2> QED
    BY <2>1, <2>2, <2>3 DEF TypeOK, Typed
<1> QED
  BY <1>1, InitStep, NextStep, PTL DEF Spec

\* No payment to the wallet is missed, for any chain, any order of messages, any number
\* of peers that fail or lag behind, and any moment at which the filter is replaced,
\* as long as each block was matched with the filter that the manager holds.
THEOREM DownloadCorrect == ASSUME ~Forgets PROVE Spec => []NoTxMissed
<1>1. IInv => NoTxMissed
  BY DEF IInv
<1> QED
  BY <1>1, InitStep, NextStep, PTL DEF Spec
=============================================================================
