-------------------------- MODULE LightNodeProofs ---------------------------
(***************************************************************************)
(* Proofs about LightNode, for every history of the account and every      *)
(* number of sends, answers and changes of order.                          *)
(*                                                                         *)
(* BlockedAreInOrder is inductive with the lists of TypeOK.  HashesDiffer  *)
(* needs to know of everything the service has sent or can send:           *)
(* what carries an identifier for a hash is a submission of this device,   *)
(* and its nonce is the one the node still holds for it, so it is known by *)
(* hash or by nonce and never entered anew.                                *)
(***************************************************************************)
EXTENDS LightNode, SequenceTheorems, FiniteSetTheorems, WellFoundedInduction, TLAPS

-----------------------------------------------------------------------------
(* Extreme elements of sets of numbers. *)

LEMMA LeastNumber ==
    ASSUME NEW S \in SUBSET Nat, S # {}
    PROVE  \E x \in S : \A y \in S : x <= y
<1>1. PICK x \in S : \A y \in S : <<y, x>> \notin OpToRel(<, Nat)
  BY NatLessThanWellFounded, WFMin
<1>2. \A y \in S : ~(y < x)
  BY <1>1 DEF OpToRel
<1> QED
  BY <1>2

LEMMA MinIsElement ==
    ASSUME NEW S \in SUBSET Nat, S # {}
    PROVE  Min(S) \in S
  BY LeastNumber DEF Min

LEMMA MaxIsElement ==
    ASSUME NEW n \in Nat, NEW S \in SUBSET (0..n), S # {}
    PROVE  Max(S) \in S /\ \A y \in S : y <= Max(S)
<1> DEFINE T == {n - x : x \in S}
<1>1. T \in SUBSET Nat /\ T # {}
  <2>1. \A x \in S : n - x \in Nat
    OBVIOUS
  <2>2. \A v \in T : v \in Nat
    BY <2>1
  <2>3. PICK x \in S : TRUE
    OBVIOUS
  <2>4. n - x \in T
    BY <2>3
  <2> QED
    BY <2>2, <2>4
<1>2. PICK u \in T : \A v \in T : u <= v
  BY <1>1, LeastNumber
<1>3. PICK x \in S : u = n - x
  BY <1>2
<1>4. \A y \in S : x >= y
  <2> TAKE y \in S
  <2>1. n - y \in T
    OBVIOUS
  <2>2. n - x <= n - y
    BY <1>2, <1>3, <2>1
  <2> QED
    BY <2>2
<1> QED
  BY <1>3, <1>4 DEF Max

-----------------------------------------------------------------------------
(* Putting in and taking out. *)

\* r is s with e put in after the first m.
PutIn(X, r, s, m, e) ==
    /\ r \in Seq(X) /\ Len(r) = Len(s) + 1
    /\ \A i \in 1..(Len(s) + 1) : r[i] = IF i <= m THEN s[i] ELSE IF i = m + 1 THEN e ELSE s[i - 1]

LEMMA InsertAtFacts ==
    ASSUME NEW X, NEW s \in Seq(X), NEW e \in X, NEW m \in 0..Len(s)
    PROVE  PutIn(X, InsertAt(s, m + 1, e), s, m, e)
<1> DEFINE a == SubSeq(s, 1, m)
           b == SubSeq(s, m + 1, Len(s))
<1>1. a \in Seq(X) /\ Len(a) = m /\ \A i \in 1..m : a[i] = s[i]
  BY SubSeqProperties
<1>2. b \in Seq(X) /\ Len(b) = Len(s) - m /\ \A i \in 1..(Len(s) - m) : b[i] = s[m + i]
  BY SubSeqProperties
<1>3. InsertAt(s, m + 1, e) = a \o <<e>> \o b
  <2>1. (m + 1) - 1 = m
    OBVIOUS
  <2> QED
    BY <2>1 DEF InsertAt
<1> HIDE DEF a, b
<1> DEFINE c == a \o <<e>>
<1>4. c \in Seq(X) /\ Len(c) = m + 1 /\ \A i \in 1..(m + 1) : c[i] = IF i <= m THEN a[i] ELSE e
  BY <1>1, ConcatProperties
<1> HIDE DEF c
<1>5. /\ c \o b \in Seq(X) /\ Len(c \o b) = Len(s) + 1
      /\ \A i \in 1..(Len(s) + 1) : (c \o b)[i] = IF i <= m + 1 THEN c[i] ELSE b[i - (m + 1)]
  BY <1>2, <1>4, ConcatProperties
<1>6. InsertAt(s, m + 1, e) = c \o b
  BY <1>3 DEF c
<1>7. ASSUME NEW i \in 1..(Len(s) + 1)
      PROVE  (c \o b)[i] = IF i <= m THEN s[i] ELSE IF i = m + 1 THEN e ELSE s[i - 1]
  <2>1. CASE i <= m
    BY <1>1, <1>4, <1>5, <2>1
  <2>2. CASE i = m + 1
    BY <1>4, <1>5, <2>2
  <2>3. CASE i > m + 1
    <3>1. i - (m + 1) \in 1..(Len(s) - m) /\ m + (i - (m + 1)) = i - 1
      BY <2>3
    <3>2. (c \o b)[i] = b[i - (m + 1)]
      BY <1>5, <2>3
    <3>3. b[i - (m + 1)] = s[m + (i - (m + 1))]
      BY <1>2, <3>1
    <3>4. ~(i <= m) /\ i # m + 1
      BY <2>3
    <3> QED
      BY <3>1, <3>2, <3>3, <3>4
  <2>4. i \in Int /\ m \in Int
    OBVIOUS
  <2>5. i <= m \/ i = m + 1 \/ i > m + 1
    BY <2>4
  <2> QED
    BY <2>1, <2>2, <2>3, <2>5, Zenon
<1> QED
  <2> DEFINE r == InsertAt(s, m + 1, e)
  <2>1. r = c \o b
    BY <1>6
  <2> HIDE DEF r
  <2>2. /\ r \in Seq(X) /\ Len(r) = Len(s) + 1
        /\ \A i \in 1..(Len(s) + 1) : r[i] = IF i <= m THEN s[i] ELSE IF i = m + 1 THEN e ELSE s[i - 1]
    BY <1>5, <1>7, <2>1
  <2> QED
    BY <2>2 DEF r, PutIn

LEMMA RemoveAtFacts ==
    ASSUME NEW X, NEW s \in Seq(X), NEW m \in 1..Len(s)
    PROVE  /\ RemoveAt(s, m) \in Seq(X)
           /\ Len(RemoveAt(s, m)) = Len(s) - 1
           /\ \A i \in 1..(Len(s) - 1) : RemoveAt(s, m)[i] = IF i < m THEN s[i] ELSE s[i + 1]
<1> DEFINE a == SubSeq(s, 1, m - 1)
           b == SubSeq(s, m + 1, Len(s))
<1>1. a \in Seq(X) /\ Len(a) = m - 1 /\ \A i \in 1..(m - 1) : a[i] = s[i]
  BY SubSeqProperties
<1>2. b \in Seq(X) /\ Len(b) = Len(s) - m /\ \A i \in 1..(Len(s) - m) : b[i] = s[m + i]
  BY SubSeqProperties
<1>3. RemoveAt(s, m) = a \o b
  BY DEF RemoveAt
<1> HIDE DEF a, b
<1>4. /\ a \o b \in Seq(X) /\ Len(a \o b) = Len(s) - 1
      /\ \A i \in 1..(Len(s) - 1) : (a \o b)[i] = IF i <= m - 1 THEN a[i] ELSE b[i - (m - 1)]
  BY <1>1, <1>2, ConcatProperties
<1>5. ASSUME NEW i \in 1..(Len(s) - 1)
      PROVE  (a \o b)[i] = IF i < m THEN s[i] ELSE s[i + 1]
  <2>1. CASE i < m
    BY <1>1, <1>4, <2>1
  <2>2. CASE i >= m
    <3>1. i - (m - 1) \in 1..(Len(s) - m) /\ m + (i - (m - 1)) = i + 1
      BY <2>2
    <3>2. (a \o b)[i] = b[i - (m - 1)]
      BY <1>4, <2>2
    <3>3. b[i - (m - 1)] = s[m + (i - (m - 1))]
      BY <1>2, <3>1
    <3>4. ~(i < m)
      BY <2>2
    <3> QED
      BY <3>1, <3>2, <3>3, <3>4
  <2>3. i \in Int /\ m \in Int
    OBVIOUS
  <2>4. i < m \/ i >= m
    BY <2>3
  <2> QED
    BY <2>1, <2>2, <2>4, Zenon
<1> QED
  BY <1>3, <1>4, <1>5

-----------------------------------------------------------------------------
(* The list of a wallet: each transaction of T once, those in blocks in order. *)

Distinct(list) == \A i, j \in 1..Len(list) : list[i] = list[j] => i = j

Holds(list, T) ==
    /\ \A i \in 1..Len(list) : list[i] \in T
    /\ \A t \in T : \E i \in 1..Len(list) : list[i] = t

InBlock(s) == s.status = "blocked"

Ordered(list, book) ==
    \A i, j \in 1..Len(list) :
        (i < j /\ InBlock(book[list[i]]) /\ InBlock(book[list[j]]))
            => book[list[i]].place <= book[list[j]].place

Good(list, T, book) ==
    list \in Seq(Nat) /\ Distinct(list) /\ Holds(list, T) /\ Ordered(list, book)

LEMMA InsertedIsGood ==
    ASSUME NEW T, NEW t \in Nat, t \notin T, NEW book, \A s \in T \cup {t} : book[s].place \in Nat,
           NEW list, Good(list, T, book)
    PROVE  Good(Inserted(list, t, book), T \cup {t}, book)
<1> DEFINE before == {i \in DOMAIN list : ~Less(book[t], book[list[i]])}
           m == Max(before \cup {0})
           r == InsertAt(list, m + 1, t)
           n == Len(list)
<1>1. list \in Seq(Nat) /\ n \in Nat /\ DOMAIN list = 1..n
  BY DEF Good
<1>2. m \in before \cup {0} /\ \A i \in before : i <= m
  <2>1. before \cup {0} \in SUBSET (0..n)
    BY <1>1
  <2>2. before \cup {0} # {}
    OBVIOUS
  <2> HIDE DEF before
  <2> QED
    BY <1>1, <2>1, <2>2, MaxIsElement
<1>3. m \in 0..n
  BY <1>1, <1>2
<1>4. \A i \in 1..n : i > m => Less(book[t], book[list[i]])
  <2> TAKE i \in 1..n
  <2> HAVE i > m
  <2> HIDE DEF m
  <2>1. i \notin before
    <3> HIDE DEF before
    <3>1. i \in before => i <= m
      BY <1>2
    <3>2. ~(i <= m)
      BY <1>1, <1>3
    <3> QED
      BY <3>1, <3>2
  <2> QED
    BY <1>1, <2>1
<1>5. m > 0 => m \in 1..n /\ ~Less(book[t], book[list[m]])
  BY <1>1, <1>2, <1>3
<1> HIDE DEF m, before
<1>0. m \in 0..Len(list) /\ t \in Nat /\ list \in Seq(Nat)
  BY <1>1, <1>3
<1>6. /\ r \in Seq(Nat) /\ Len(r) = n + 1
      /\ \A i \in 1..(n + 1) : r[i] = IF i <= m THEN list[i] ELSE IF i = m + 1 THEN t ELSE list[i - 1]
  <2>1. PutIn(Nat, InsertAt(list, m + 1, t), list, m, t)
    BY <1>0, InsertAtFacts
  <2> QED
    BY <2>1 DEF PutIn
<1>7. Inserted(list, t, book) = r
  BY DEF Inserted, m, before
<1> HIDE DEF r
\* The place in the old list of what is at i in the new one.
<1> DEFINE old(i) == IF i <= m THEN i ELSE i - 1
<1>8. \A i \in 1..(n + 1) : i # m + 1 => old(i) \in 1..n /\ r[i] = list[old(i)]
  BY <1>1, <1>3, <1>6
<1>9. \A i, j \in 1..(n + 1) : (i < j /\ i # m + 1 /\ j # m + 1) => old(i) < old(j)
  BY <1>1, <1>3
<1>10. r[m + 1] = t /\ m + 1 \in 1..(n + 1)
  BY <1>1, <1>3, <1>6
<1>11. \A i \in 1..(n + 1) : i # m + 1 => (i <= m => old(i) = i /\ i <= m) /\ (i > m + 1 => old(i) > m)
  BY <1>1, <1>3
<1> HIDE DEF old
<1>12. \A i \in 1..(n + 1) : i # m + 1 => r[i] \in T
  BY <1>8 DEF Good, Holds
<1>13. Distinct(r)
  <2> SUFFICES ASSUME NEW i \in 1..(n + 1), NEW j \in 1..(n + 1), i < j, r[i] = r[j]
               PROVE  FALSE
    BY <1>1, <1>6 DEF Distinct
  <2>1. i # m + 1 /\ j # m + 1
    BY <1>10, <1>12
  <2>2. old(i) = old(j)
    BY <1>8, <2>1 DEF Good, Distinct
  <2> QED
    BY <1>1, <1>8, <1>9, <2>1, <2>2
<1>14. Holds(r, T \cup {t})
  <2>1. \A i \in 1..(n + 1) : r[i] \in T \cup {t}
    BY <1>10, <1>12
  <2>2. ASSUME NEW s \in T PROVE \E i \in 1..(n + 1) : r[i] = s
    <3>1. PICK k \in 1..n : list[k] = s
      BY DEF Good, Holds
    <3>2. CASE k <= m
      <4>1. k \in 1..(n + 1) /\ r[k] = s
        BY <1>1, <1>6, <3>1, <3>2
      <4> QED
        BY <4>1
    <3>3. CASE k > m
      <4>1. k + 1 \in 1..(n + 1) /\ k + 1 # m + 1 /\ ~(k + 1 <= m) /\ (k + 1) - 1 = k
        BY <1>1, <1>3, <3>3
      <4>2. r[k + 1] = s
        BY <1>6, <3>1, <4>1
      <4> QED
        BY <4>1, <4>2
    <3> QED
      BY <1>1, <1>3, <3>2, <3>3
  <2> QED
    BY <1>6, <1>10, <2>1, <2>2 DEF Holds
<1>15. Ordered(r, book)
  <2> SUFFICES ASSUME NEW i \in 1..(n + 1), NEW j \in 1..(n + 1), i < j,
                      InBlock(book[r[i]]), InBlock(book[r[j]])
               PROVE  book[r[i]].place <= book[r[j]].place
    BY <1>6 DEF Ordered
  <2>1. CASE i # m + 1 /\ j # m + 1
    BY <1>8, <1>9, <2>1 DEF Good, Ordered
  <2>2. CASE i = m + 1
    <3>1. j # m + 1 /\ j > m + 1
      BY <1>1, <1>3, <2>2
    <3>2. Less(book[t], book[r[j]])
      BY <1>4, <1>8, <1>11, <3>1
    <3>3. book[t].place < book[r[j]].place
      BY <1>10, <2>2, <3>2 DEF Less, InBlock
    <3> QED
      BY <1>10, <1>12, <2>2, <3>1, <3>3
  <2>3. CASE j = m + 1
    <3>1. i # m + 1 /\ i <= m /\ m > 0 /\ old(i) = i /\ i \in 1..n
      BY <1>1, <1>3, <1>11, <2>3
    <3>2. r[i] = list[i] /\ list[i] \in T /\ list[m] \in T
      BY <1>1, <1>5, <1>8, <3>1 DEF Good, Holds
    <3>3. InBlock(book[list[m]]) /\ ~(book[t].place < book[list[m]].place)
      BY <1>5, <1>10, <2>3, <3>1 DEF Less, InBlock
    <3>4. book[list[i]].place <= book[list[m]].place
      <4>1. CASE i = m
        BY <3>2, <4>1
      <4>2. CASE i < m
        BY <1>5, <3>1, <3>2, <3>3, <4>2 DEF Good, Ordered
      <4> QED
        BY <1>3, <3>1, <4>1, <4>2
    <3> QED
      BY <1>10, <2>3, <3>2, <3>3, <3>4
  <2> QED
    BY <2>1, <2>2, <2>3
<1> QED
  BY <1>6, <1>7, <1>13, <1>14, <1>15 DEF Good

LEMMA RemovedIsGood ==
    ASSUME NEW T, NEW book, NEW list, Good(list, T, book), NEW m \in 1..Len(list)
    PROVE  Good(RemoveAt(list, m), T \ {list[m]}, book)
<1> DEFINE r == RemoveAt(list, m)
           n == Len(list)
           old(i) == IF i < m THEN i ELSE i + 1
<1>1. list \in Seq(Nat) /\ n \in Nat
  BY DEF Good
<1>2. /\ r \in Seq(Nat) /\ Len(r) = n - 1
      /\ \A i \in 1..(n - 1) : r[i] = IF i < m THEN list[i] ELSE list[i + 1]
  BY <1>1, RemoveAtFacts
<1> HIDE DEF r
<1>0. m \in 1..n
  OBVIOUS
<1>3. \A i \in 1..(n - 1) : old(i) \in 1..n /\ old(i) # m /\ r[i] = list[old(i)]
  <2> TAKE i \in 1..(n - 1)
  <2> HIDE DEF n
  <2>1. CASE i < m
    BY <1>0, <1>1, <1>2, <2>1
  <2>2. CASE ~(i < m)
    BY <1>0, <1>1, <1>2, <2>2
  <2> QED
    BY <2>1, <2>2
<1>4. \A i, j \in 1..(n - 1) : i < j => old(i) < old(j)
  BY <1>1
<1>5. \A k \in 1..n : k # m => \E i \in 1..(n - 1) : old(i) = k
  <2> TAKE k \in 1..n
  <2> HAVE k # m
  <2>1. CASE k < m
    <3>1. k \in 1..(n - 1) /\ old(k) = k
      BY <1>0, <1>1, <2>1
    <3> QED
      BY <3>1
  <2>2. CASE k > m
    <3>1. k - 1 \in 1..(n - 1) /\ old(k - 1) = k
      BY <1>1, <2>2
    <3> QED
      BY <3>1
  <2> QED
    BY <1>1, <2>1, <2>2
<1> HIDE DEF old
<1>6. Distinct(r)
  <2> SUFFICES ASSUME NEW i \in 1..(n - 1), NEW j \in 1..(n - 1), i < j, r[i] = r[j]
               PROVE  FALSE
    BY <1>1, <1>2 DEF Distinct
  <2>1. old(i) = old(j)
    BY <1>3 DEF Good, Distinct
  <2> QED
    BY <1>1, <1>3, <1>4, <2>1
<1>7. Holds(r, T \ {list[m]})
  <2>1. ASSUME NEW i \in 1..(n - 1) PROVE r[i] \in T \ {list[m]}
    <3>1. r[i] = list[old(i)] /\ old(i) \in 1..n /\ old(i) # m
      BY <1>3
    <3>2. r[i] \in T
      BY <3>1 DEF Good, Holds
    <3>3. r[i] # list[m]
      BY <1>0, <3>1 DEF Good, Distinct
    <3> QED
      BY <3>2, <3>3
  <2>2. ASSUME NEW s \in T \ {list[m]} PROVE \E i \in 1..(n - 1) : r[i] = s
    <3>1. PICK k \in 1..n : list[k] = s
      BY DEF Good, Holds
    <3>2. PICK i \in 1..(n - 1) : old(i) = k
      BY <1>5, <3>1
    <3> QED
      BY <1>3, <3>1, <3>2
  <2> QED
    BY <1>2, <2>1, <2>2 DEF Holds
<1>8. Ordered(r, book)
  <2> SUFFICES ASSUME NEW i \in 1..(n - 1), NEW j \in 1..(n - 1), i < j,
                      InBlock(book[r[i]]), InBlock(book[r[j]])
               PROVE  book[r[i]].place <= book[r[j]].place
    BY <1>2 DEF Ordered
  <2>1. r[i] = list[old(i)] /\ r[j] = list[old(j)]
    BY <1>3
  <2>2. old(i) \in 1..n /\ old(j) \in 1..n /\ old(i) < old(j)
    BY <1>3, <1>4
  <2> QED
    BY <2>1, <2>2 DEF Good, Ordered
<1> QED
  BY <1>2, <1>6, <1>7, <1>8 DEF Good, r

\* The book may change where that takes transactions out of blocks.
LEMMA StillGood ==
    ASSUME NEW T, NEW book, NEW new, NEW list, Good(list, T, book),
           \A s \in T : InBlock(new[s]) => InBlock(book[s]) /\ new[s].place = book[s].place
    PROVE  Good(list, T, new)
  BY DEF Good, Ordered, Holds

-----------------------------------------------------------------------------
(* The invariant, in parts that name the state they are about. *)

Places == {"none", "created", "read", "numbered", "sent"}

Tx == [nonce : Nat, hash : Nat \cup ForeignHash \cup {NoHash}, kind : Kind,
       status : Status, place : Nat]

\* What the service has in a block, and what it says of it in an answer.
Entry == [hash : Nat \cup ForeignHash, own : BOOLEAN, kind : Kind \cup {Unknown}, nonce : Nat]

Answered == [hash : Nat \cup ForeignHash, own : BOOLEAN, kind : Kind \cup {Unknown},
             nonce : Nat, place : Nat]

\* An identifier for a hash belongs to the transaction it identifies.
HashOK(t, book, p) ==
    /\ (p[t] # "none" => book[t].hash \in {NoHash, t})
    /\ (book[t].hash \in Nat => book[t].hash = t)

Differ(book) ==
    \A s, t \in 1..Len(book) : book[s].hash = book[t].hash => s = t \/ book[s].hash = NoHash

BookOK(book, p, h) ==
    /\ book \in Seq(Tx) /\ p \in Seq(Places) /\ h \in Seq(Nat)
    /\ Len(p) = Len(book) /\ Len(h) = Len(book)
    /\ \A t \in 1..Len(book) : HashOK(t, book, p)
    /\ Differ(book)

OfKind(k, book) == {t \in 1..Len(book) : book[t].kind = k}

ListsOK(ls, book) ==
    /\ ls \in [Kind -> Seq(Nat)]
    /\ \A k \in Kind : Good(ls[k], OfKind(k, book), book)

\* What has an identifier for a hash was sent by the node, with this nonce.
Ours(e, book, p) ==
    e.hash \in Nat =>
        /\ e.own /\ e.hash \in 1..Len(book) /\ p[e.hash] = "sent"
        /\ book[e.hash].nonce = e.nonce

ServiceOK(ch, an, book, p) ==
    /\ ch \in Seq(Entry) /\ an \in [Answer -> Seq(Answered)]
    /\ \A i \in 1..Len(ch) : Ours(ch[i], book, p)
    /\ \A a \in Answer : \A i \in 1..Len(an[a]) : Ours(an[a][i], book, p)

SentOK(ts, book, p) == \A t \in ts : t \in 1..Len(book) /\ p[t] = "sent"

Inv ==
    /\ BookOK(txs, pc, held)
    /\ ListsOK(lists, txs)
    /\ ServiceOK(chain, answers, txs, pc)
    /\ SentOK(pool, txs, pc) /\ SentOK(hashes, txs, pc)
    /\ nonce \in Nat /\ aborted \in BOOLEAN

-----------------------------------------------------------------------------
(* A new book: the same transactions with one changed, or one more. *)

\* new is book with transaction t changed.
Changed(new, book, t) ==
    /\ new \in Seq(Tx) /\ Len(new) = Len(book)
    /\ \A s \in 1..Len(book) : s # t => new[s] = book[s]

\* Whatever was sent is still sent, with the same nonce.
Later(new, q, book, p) ==
    /\ Len(book) \in Nat /\ Len(new) \in Nat /\ Len(book) <= Len(new)
    /\ \A t \in 1..Len(book) : p[t] = "sent" => q[t] = "sent" /\ new[t].nonce = book[t].nonce

LEMMA ChangedBook ==
    ASSUME NEW book \in Seq(Tx), NEW t \in 1..Len(book), NEW v \in Tx
    PROVE  Changed([book EXCEPT ![t] = v], book, t) /\ [book EXCEPT ![t] = v][t] = v
  BY ExceptSeq DEF Changed

LEMMA ServiceLater ==
    ASSUME NEW ch, NEW an, NEW book, NEW p, NEW new, NEW q,
           ServiceOK(ch, an, book, p), Later(new, q, book, p)
    PROVE  ServiceOK(ch, an, new, q)
<1>1. ASSUME NEW e, Ours(e, book, p) PROVE Ours(e, new, q)
  BY <1>1 DEF Later, Ours
<1>2. \A e : Ours(e, book, p) => Ours(e, new, q)
  BY <1>1
<1> QED
  BY <1>2 DEF ServiceOK

LEMMA SentLater ==
    ASSUME NEW ts, NEW book, NEW p, NEW new, NEW q,
           SentOK(ts, book, p), Later(new, q, book, p)
    PROVE  SentOK(ts, new, q)
  BY DEF SentOK, Later

\* The lists stay as they are when a change keeps the kind and puts nothing in
\* a block.
LEMMA ListsStay ==
    ASSUME NEW ls, NEW book, NEW new, NEW t \in 1..Len(book), ListsOK(ls, book),
           Changed(new, book, t), new[t].kind = book[t].kind,
           InBlock(new[t]) => InBlock(book[t]) /\ new[t].place = book[t].place
    PROVE  ListsOK(ls, new)
<1>1. \A s \in 1..Len(book) :
        /\ new[s].kind = book[s].kind
        /\ (InBlock(new[s]) => InBlock(book[s]) /\ new[s].place = book[s].place)
  BY DEF Changed
<1>2. ASSUME NEW k \in Kind PROVE Good(ls[k], OfKind(k, new), new)
  <2>1. OfKind(k, new) = OfKind(k, book)
    BY <1>1 DEF OfKind, Changed
  <2> DEFINE T == OfKind(k, book)
  <2>2. \A s \in T : InBlock(new[s]) => InBlock(book[s]) /\ new[s].place = book[s].place
    BY <1>1 DEF OfKind
  <2>3. Good(ls[k], T, book)
    BY DEF ListsOK
  <2> HIDE DEF T
  <2>4. Good(ls[k], T, new)
    BY <2>2, <2>3, StillGood
  <2> QED
    BY <2>1, <2>4 DEF T
<1> QED
  BY <1>2 DEF ListsOK

\* The list of its kind takes up a transaction that is appended to the book.
LEMMA ListsTakeUp ==
    ASSUME NEW ls, NEW book \in Seq(Tx), NEW s \in Tx, ListsOK(ls, book)
    PROVE  LET new == Append(book, s)
           IN  ListsOK([ls EXCEPT ![s.kind] = Inserted(@, Len(book) + 1, new)], new)
<1> DEFINE new == Append(book, s)
           t == Len(book) + 1
           ms == [ls EXCEPT ![s.kind] = Inserted(ls[s.kind], t, new)]
<1>1. /\ new \in Seq(Tx) /\ Len(new) = t /\ Len(book) \in Nat /\ new[t] = s
      /\ \A i \in 1..Len(book) : new[i] = book[i]
  OBVIOUS
<1>2. s.kind \in Kind
  BY DEF Tx
<1> HIDE DEF new
<1>3. \A k \in Kind : OfKind(k, new) = IF k = s.kind THEN OfKind(k, book) \cup {t} ELSE OfKind(k, book)
  <2> TAKE k \in Kind
  <2>1. ASSUME NEW i PROVE i \in 1..t <=> i \in 1..Len(book) \/ i = t
    BY <1>1
  <2> QED
    BY <1>1, <2>1 DEF OfKind
<1>4. ASSUME NEW k \in Kind PROVE Good(ls[k], OfKind(k, book), new)
  <2> DEFINE T == OfKind(k, book)
  <2>0. \A i \in T : new[i] = book[i]
    BY <1>1 DEF OfKind
  <2>1. \A i \in T : InBlock(new[i]) => InBlock(book[i]) /\ new[i].place = book[i].place
    BY <2>0
  <2>2. Good(ls[k], T, book)
    BY DEF ListsOK
  <2> HIDE DEF T
  <2>3. Good(ls[k], T, new)
    BY <2>1, <2>2, StillGood
  <2> QED
    BY <2>3 DEF T
<1>5. Good(Inserted(ls[s.kind], t, new), OfKind(s.kind, new), new)
  <2> DEFINE T == OfKind(s.kind, book)
             list == ls[s.kind]
  <2>1. t \in Nat /\ t \notin T
    BY <1>1 DEF OfKind
  <2>2. \A i \in T \cup {t} : new[i].place \in Nat
    <3>1. \A i \in 1..t : new[i] \in Tx
      BY <1>1
    <3>2. \A i \in T \cup {t} : i \in 1..t
      BY <1>1 DEF OfKind
    <3> QED
      BY <3>1, <3>2 DEF Tx
  <2>3. Good(list, T, new)
    BY <1>2, <1>4
  <2>4. OfKind(s.kind, new) = T \cup {t}
    BY <1>2, <1>3
  <2> HIDE DEF T, list, t
  <2>5. Good(Inserted(list, t, new), T \cup {t}, new)
    BY <2>1, <2>2, <2>3, InsertedIsGood
  <2> QED
    BY <2>4, <2>5 DEF list
<1>6. ms \in [Kind -> Seq(Nat)]
  BY <1>2, <1>5 DEF ListsOK, Good
<1>7. ASSUME NEW k \in Kind PROVE Good(ms[k], OfKind(k, new), new)
  <2>1. CASE k = s.kind
    <3>1. ms[k] = Inserted(ls[s.kind], t, new)
      BY <2>1 DEF ListsOK
    <3> QED
      BY <1>5, <2>1, <3>1
  <2>2. CASE k # s.kind
    <3>1. ms[k] = ls[k] /\ OfKind(k, new) = OfKind(k, book)
      BY <1>3, <2>2 DEF ListsOK
    <3> QED
      BY <1>4, <3>1
  <2> QED
    BY <2>1, <2>2
<1>8. ListsOK(ms, new)
  BY <1>6, <1>7 DEF ListsOK
<1> QED
  BY <1>8 DEF new

\* The list of its kind takes out a transaction and takes it up again.
LEMMA ListsMove ==
    ASSUME NEW ls, NEW book, NEW new, ListsOK(ls, book),
           NEW k \in Kind, NEW i \in 1..Len(ls[k]),
           Changed(new, book, ls[k][i]), new[ls[k][i]].kind = book[ls[k][i]].kind,
           Len(book) \in Nat
    PROVE  ListsOK([ls EXCEPT ![k] = Updated(@, i, new)], new)
<1> DEFINE list == ls[k]
           t == list[i]
           T == OfKind(k, book)
           ms == [ls EXCEPT ![k] = Updated(list, i, new)]
<1>1. Good(list, T, book)
  BY DEF ListsOK
<1>2. t \in T /\ t \in 1..Len(book) /\ t \in Nat
  BY <1>1 DEF Good, Holds, OfKind
<1>3. \A m \in Kind : OfKind(m, new) = OfKind(m, book)
  BY <1>2 DEF OfKind, Changed
<1>4. \A m \in Kind : \A s \in OfKind(m, book) : s # t => new[s] = book[s]
  BY DEF OfKind, Changed
<1>5. \A s \in T \ {t} : new[s] = book[s]
  BY <1>4
<1>6. \A s \in T : new[s].place \in Nat
  <2>1. \A s \in 1..Len(book) : new[s] \in Tx
    BY DEF Changed
  <2>2. \A s \in 1..Len(book) : new[s].place \in Nat
    BY <2>1 DEF Tx
  <2> QED
    BY <2>2 DEF OfKind
<1>7. Good(Updated(list, i, new), T, new)
  <2> DEFINE r == RemoveAt(list, i)
             R == T \ {t}
  <2>1. Good(r, R, book)
    BY <1>1, RemovedIsGood
  <2>2. t \notin R /\ R \cup {t} = T
    BY <1>2
  <2>3. \A s \in R : InBlock(new[s]) => InBlock(book[s]) /\ new[s].place = book[s].place
    BY <1>5
  <2>4. \A s \in R \cup {t} : new[s].place \in Nat
    BY <1>6, <2>2
  <2>5. Updated(list, i, new) = Inserted(r, t, new)
    BY DEF Updated
  <2> HIDE DEF r, R, T, t
  <2>6. Good(r, R, new)
    BY <2>1, <2>3, StillGood
  <2>7. Good(Inserted(r, t, new), R \cup {t}, new)
    BY <1>2, <2>2, <2>4, <2>6, InsertedIsGood
  <2> QED
    BY <2>2, <2>5, <2>7
<1>8. ms \in [Kind -> Seq(Nat)]
  BY <1>7 DEF ListsOK, Good
<1>9. ASSUME NEW m \in Kind PROVE Good(ms[m], OfKind(m, new), new)
  <2>1. CASE m = k
    BY <1>3, <1>7, <2>1 DEF ListsOK
  <2>2. CASE m # k
    <3> DEFINE M == OfKind(m, book)
    <3>1. t \notin M
      BY <1>2, <2>2 DEF OfKind
    <3>2. Good(ls[m], M, book)
      BY DEF ListsOK
    <3>3. \A s \in M : InBlock(new[s]) => InBlock(book[s]) /\ new[s].place = book[s].place
      BY <1>4, <3>1
    <3>4. ms[m] = ls[m] /\ OfKind(m, new) = M
      BY <1>3, <2>2 DEF ListsOK
    <3> HIDE DEF M, ms
    <3>5. Good(ls[m], M, new)
      BY <3>2, <3>3, StillGood
    <3> QED
      BY <3>4, <3>5
  <2> QED
    BY <2>1, <2>2
<1> QED
  BY <1>8, <1>9 DEF ListsOK

\* A transaction goes on, and gets its own identifier for a hash or keeps its hash.
Moves(t, new, q, g, book, p, h) ==
    /\ t \in 1..Len(book) /\ Changed(new, book, t) /\ new[t].hash \in {book[t].hash, t}
    /\ q \in Seq(Places) /\ Len(q) = Len(p) /\ g \in Seq(Nat) /\ Len(g) = Len(h)
    /\ \A s \in 1..Len(book) : s # t => q[s] = p[s]
    /\ (p[t] = "none" => q[t] = "none")

LEMMA BookMoves ==
    ASSUME NEW book, NEW p, NEW h, BookOK(book, p, h),
           NEW t, NEW new, NEW q, NEW g, Moves(t, new, q, g, book, p, h)
    PROVE  BookOK(new, q, g)
<1>0. /\ t \in 1..Len(book) /\ Changed(new, book, t) /\ new[t].hash \in {book[t].hash, t}
      /\ q \in Seq(Places) /\ Len(q) = Len(p) /\ g \in Seq(Nat) /\ Len(g) = Len(h)
      /\ \A s \in 1..Len(book) : s # t => q[s] = p[s]
      /\ (p[t] = "none" => q[t] = "none")
  BY DEF Moves
<1>1. book \in Seq(Tx) /\ Len(book) \in Nat /\ t \in Nat
  BY <1>0 DEF BookOK
<1>2. ASSUME NEW s \in 1..Len(book) PROVE HashOK(s, new, q)
  <2>1. HashOK(s, book, p) /\ HashOK(t, book, p)
    BY <1>0 DEF BookOK
  <2>2. CASE s = t
    BY <1>0, <2>1, <2>2 DEF HashOK
  <2>3. CASE s # t
    BY <1>0, <2>1, <2>3 DEF HashOK, Changed
  <2> QED
    BY <2>2, <2>3
<1>3. Differ(new)
  <2>1. ASSUME NEW s \in 1..Len(book), s # t, new[s].hash = new[t].hash
        PROVE  new[s].hash = NoHash
    <3>1. new[s] = book[s]
      BY <1>0, <2>1 DEF Changed
    <3>2. CASE new[t].hash = book[t].hash
      BY <1>0, <2>1, <3>1, <3>2 DEF BookOK, Differ
    <3>3. CASE new[t].hash = t
      <4>1. book[s].hash = t
        BY <2>1, <3>1, <3>3
      <4>2. book[s].hash = s
        BY <1>1, <4>1 DEF BookOK, HashOK
      <4> QED
        BY <2>1, <4>1, <4>2
    <3> QED
      BY <1>0, <3>2, <3>3
  <2>2. ASSUME NEW s \in 1..Len(book), NEW u \in 1..Len(book), new[s].hash = new[u].hash
        PROVE  s = u \/ new[s].hash = NoHash
    <3>1. CASE s = t \/ u = t
      BY <2>1, <2>2, <3>1
    <3>2. CASE s # t /\ u # t
      BY <1>0, <2>2, <3>2 DEF Changed, BookOK, Differ
    <3> QED
      BY <3>1, <3>2
  <2> QED
    BY <1>0, <2>2 DEF Differ, Changed
<1> QED
  BY <1>0, <1>2, <1>3 DEF BookOK, Changed

\* A transaction is appended: one of the user, without a hash, or one of an
\* answer whose hash no other has.
LEMMA BookGrows ==
    ASSUME NEW book, NEW p, NEW h, BookOK(book, p, h),
           NEW s \in Tx, NEW x \in Places, NEW y \in Nat,
           \/ s.hash = NoHash
           \/ x = "none" /\ s.hash \notin Nat /\ \A t \in 1..Len(book) : book[t].hash # s.hash
    PROVE  BookOK(Append(book, s), Append(p, x), Append(h, y))
<1> DEFINE new == Append(book, s)
           q == Append(p, x)
           g == Append(h, y)
           n == Len(book) + 1
<1>1. /\ new \in Seq(Tx) /\ Len(new) = n /\ Len(book) \in Nat /\ new[n] = s
      /\ \A i \in 1..Len(book) : new[i] = book[i]
  BY DEF BookOK
<1>2. /\ q \in Seq(Places) /\ Len(q) = n /\ q[n] = x
      /\ \A i \in 1..Len(book) : q[i] = p[i]
  BY DEF BookOK
<1>3. g \in Seq(Nat) /\ Len(g) = n
  BY DEF BookOK
<1>4. \A t \in 1..n : t \in 1..Len(book) \/ t = n
  BY <1>1
<1>5. NoHash \notin Nat
  BY ForeignAssumption DEF ForeignAssumption
<1> HIDE DEF new, q, g, n
<1>6. ASSUME NEW t \in 1..n PROVE HashOK(t, new, q)
  <2>1. CASE t \in 1..Len(book)
    <3>1. HashOK(t, book, p)
      BY <2>1 DEF BookOK
    <3> QED
      BY <1>1, <1>2, <2>1, <3>1 DEF HashOK
  <2>2. CASE t = n
    BY <1>1, <1>2, <1>5, <2>2 DEF HashOK
  <2> QED
    BY <1>4, <2>1, <2>2
<1>7. \A t \in 1..Len(book) : new[t].hash = s.hash => s.hash = NoHash
  BY <1>1
<1>8. Differ(new)
  <2> SUFFICES ASSUME NEW t \in 1..n, NEW u \in 1..n, new[t].hash = new[u].hash
               PROVE  t = u \/ new[t].hash = NoHash
    BY <1>1 DEF Differ
  <2>1. CASE t \in 1..Len(book) /\ u \in 1..Len(book)
    BY <1>1, <2>1 DEF BookOK, Differ
  <2>2. CASE t = n \/ u = n
    BY <1>1, <1>4, <1>7, <2>2
  <2> QED
    BY <1>4, <2>1, <2>2
<1>9. BookOK(new, q, g)
  BY <1>1, <1>2, <1>3, <1>6, <1>8 DEF BookOK
<1> QED
  BY <1>9 DEF new, q, g

-----------------------------------------------------------------------------
(* The initial state. *)

LEMMA InitInv == Init => Inv
<1> SUFFICES ASSUME Init PROVE Inv
  OBVIOUS
<1>1. Past \in Seq(Foreign) /\ \A h \in ForeignHash : h \notin Nat
  BY ForeignAssumption DEF ForeignAssumption
<1>2. BookOK(txs, pc, held)
  BY DEF Init, BookOK, Differ
<1>3. ListsOK(lists, txs)
  <2>1. ASSUME NEW k \in Kind PROVE Good(<<>>, OfKind(k, <<>>), <<>>)
    BY DEF Good, OfKind, Distinct, Holds, Ordered
  <2> QED
    BY <2>1 DEF Init, ListsOK
<1>4. ServiceOK(chain, answers, txs, pc)
  <2>1. chain \in Seq(Entry)
    <3>1. Foreign \subseteq Entry
      BY DEF Foreign, Entry
    <3> QED
      BY <1>1, <3>1 DEF Init
  <2>2. answers \in [Answer -> Seq(Answered)]
    BY DEF Init
  <2>3. ASSUME NEW i \in 1..Len(chain) PROVE Ours(chain[i], txs, pc)
    <3>1. chain[i] \in Foreign
      BY <1>1 DEF Init
    <3> QED
      BY <1>1, <3>1 DEF Ours, Foreign
  <2>4. ASSUME NEW a \in Answer PROVE Len(answers[a]) = 0
    BY DEF Init
  <2>5. \A a \in Answer : \A i \in 1..Len(answers[a]) : Ours(answers[a][i], txs, pc)
    BY <2>4
  <2> QED
    BY <2>1, <2>2, <2>3, <2>5 DEF ServiceOK
<1> QED
  BY <1>2, <1>3, <1>4 DEF Init, Inv, SentOK

-----------------------------------------------------------------------------
(* The steps of the thread that sends. *)

\* Thread t goes on from place `from' and does not touch the lists.
LEMMA SenderStep ==
    ASSUME Inv, NEW t \in DOMAIN txs, NEW x \in Places, NEW y \in Nat,
           pc[t] \in {"created", "read", "numbered"},
           Changed(txs', txs, t), txs'[t].hash = txs[t].hash, txs'[t].kind = txs[t].kind,
           InBlock(txs'[t]) => InBlock(txs[t]) /\ txs'[t].place = txs[t].place,
           pc' = [pc EXCEPT ![t] = x],
           held' = held \/ held' = [held EXCEPT ![t] = y],
           UNCHANGED <<lists, chain, answers>>
    PROVE  /\ BookOK(txs', pc', held') /\ ListsOK(lists', txs')
           /\ ServiceOK(chain', answers', txs', pc')
           /\ SentOK(pool, txs', pc') /\ SentOK(hashes, txs', pc')
<1>1. /\ BookOK(txs, pc, held) /\ ListsOK(lists, txs) /\ ServiceOK(chain, answers, txs, pc)
      /\ SentOK(pool, txs, pc) /\ SentOK(hashes, txs, pc)
  BY DEF Inv
<1>2. /\ txs \in Seq(Tx) /\ pc \in Seq(Places) /\ held \in Seq(Nat)
      /\ Len(pc) = Len(txs) /\ Len(held) = Len(txs) /\ Len(txs) \in Nat
  BY <1>1 DEF BookOK
<1>3. t \in 1..Len(txs)
  BY <1>2
<1>4. /\ pc' \in Seq(Places) /\ Len(pc') = Len(pc)
      /\ \A s \in 1..Len(txs) : s # t => pc'[s] = pc[s]
  BY <1>2, <1>3, ExceptSeq
<1>5. held' \in Seq(Nat) /\ Len(held') = Len(held)
  BY <1>2, <1>3, ExceptSeq
<1>6. Later(txs', pc', txs, pc)
  BY <1>2, <1>3, <1>4 DEF Later, Changed
<1>7. BookOK(txs', pc', held')
  <2>1. Moves(t, txs', pc', held', txs, pc, held)
    BY <1>3, <1>4, <1>5 DEF Moves
  <2> QED
    BY <1>1, <2>1, BookMoves
<1>8. ListsOK(lists', txs')
  BY <1>1, <1>3, ListsStay
<1>9. ServiceOK(chain', answers', txs', pc')
  BY <1>1, <1>6, ServiceLater
<1> QED
  BY <1>1, <1>6, <1>7, <1>8, <1>9, SentLater

LEMMA ReadNonceInv == ASSUME Inv, NEW t \in DOMAIN txs, ReadNonce(t) PROVE Inv'
<1>1. txs \in Seq(Tx) /\ nonce \in Nat /\ aborted \in BOOLEAN
  BY DEF Inv, BookOK
<1>2. Changed(txs', txs, t) /\ txs' = txs
  BY <1>1 DEF Changed, ReadNonce, node
<1>3. /\ BookOK(txs', pc', held') /\ ListsOK(lists', txs')
      /\ ServiceOK(chain', answers', txs', pc')
      /\ SentOK(pool, txs', pc') /\ SentOK(hashes, txs', pc')
  <2>1. "read" \in Places
    BY DEF Places
  <2>2. /\ pc[t] \in {"created", "read", "numbered"} /\ pc' = [pc EXCEPT ![t] = "read"]
        /\ held' = [held EXCEPT ![t] = nonce] /\ UNCHANGED <<lists, chain, answers>>
    BY DEF ReadNonce, node, service
  <2> QED
    BY <1>1, <1>2, <2>1, <2>2, SenderStep
<1> QED
  BY <1>1, <1>3 DEF Inv, ReadNonce, node, service

LEMMA TakeNonceInv == ASSUME Inv, NEW t \in DOMAIN txs, TakeNonce(t) PROVE Inv'
<1>1. /\ txs \in Seq(Tx) /\ aborted \in BOOLEAN /\ held \in Seq(Nat) /\ t \in 1..Len(txs)
      /\ Len(held) = Len(txs) /\ NotAssigned \in Nat
  BY ForeignAssumption DEF Inv, BookOK, ForeignAssumption
<1>2. held[t] \in Nat /\ txs[t] \in Tx
  BY <1>1
<1> DEFINE v == [txs[t] EXCEPT !.nonce = held[t]]
<1>3. v \in Tx /\ v.hash = txs[t].hash /\ v.kind = txs[t].kind /\ v.status = txs[t].status
      /\ v.place = txs[t].place
  BY <1>2 DEF Tx
<1>4. txs' = [txs EXCEPT ![t] = v]
  BY DEF TakeNonce
<1> HIDE DEF v
<1>5. Changed(txs', txs, t) /\ txs'[t] = v
  BY <1>1, <1>3, <1>4, ChangedBook
<1>6. /\ BookOK(txs', pc', held') /\ ListsOK(lists', txs')
      /\ ServiceOK(chain', answers', txs', pc')
      /\ SentOK(pool, txs', pc') /\ SentOK(hashes, txs', pc')
  <2>1. "numbered" \in Places
    BY DEF Places
  <2>2. /\ pc[t] \in {"created", "read", "numbered"} /\ pc' = [pc EXCEPT ![t] = "numbered"]
        /\ held' = [held EXCEPT ![t] = NotAssigned] /\ UNCHANGED <<lists, chain, answers>>
    BY DEF TakeNonce, service
  <2>3. InBlock(txs'[t]) => InBlock(txs[t]) /\ txs'[t].place = txs[t].place
    BY <1>3, <1>5 DEF InBlock
  <2> QED
    BY <1>1, <1>3, <1>5, <2>1, <2>2, <2>3, SenderStep
<1> QED
  BY <1>1, <1>2, <1>6 DEF Inv, TakeNonce, service

LEMMA SubmitTransactionInv == ASSUME Inv, NEW t \in DOMAIN txs, SubmitTransaction(t) PROVE Inv'
<1>1. /\ txs \in Seq(Tx) /\ aborted \in BOOLEAN /\ t \in 1..Len(txs) /\ nonce \in Nat
      /\ pc \in Seq(Places) /\ Len(pc) = Len(txs)
  BY DEF Inv, BookOK
<1>2. txs[t] \in Tx
  BY <1>1
<1> DEFINE v == [txs[t] EXCEPT !.status = "signed"]
<1>3. v \in Tx /\ v.hash = txs[t].hash /\ v.kind = txs[t].kind /\ ~InBlock(v)
  BY <1>2 DEF Tx, Status, InBlock
<1>4. txs' = [txs EXCEPT ![t] = v]
  BY DEF SubmitTransaction
<1> HIDE DEF v
<1>5. Changed(txs', txs, t) /\ txs'[t] = v
  BY <1>1, <1>3, <1>4, ChangedBook
<1>6. /\ BookOK(txs', pc', held') /\ ListsOK(lists', txs')
      /\ ServiceOK(chain', answers', txs', pc')
      /\ SentOK(pool, txs', pc') /\ SentOK(hashes, txs', pc')
  <2>1. "sent" \in Places /\ 0 \in Nat
    BY DEF Places
  <2>2. /\ pc[t] \in {"created", "read", "numbered"} /\ pc' = [pc EXCEPT ![t] = "sent"]
        /\ held' = held /\ UNCHANGED <<lists, chain, answers>>
    BY DEF SubmitTransaction
  <2> QED
    BY <1>1, <1>3, <1>5, <2>1, <2>2, SenderStep
<1>7. t \in 1..Len(txs') /\ pc'[t] = "sent"
  BY <1>1, <1>5 DEF Changed, SubmitTransaction
<1>8. SentOK(pool', txs', pc') /\ SentOK(hashes', txs', pc')
  BY <1>6, <1>7 DEF SentOK, SubmitTransaction
<1> QED
  BY <1>1, <1>6, <1>8 DEF Inv, SubmitTransaction

LEMMA CreateTransactionInv == ASSUME Inv, NEW k \in Kind, CreateTransaction(k) PROVE Inv'
<1>1. /\ BookOK(txs, pc, held) /\ ListsOK(lists, txs) /\ ServiceOK(chain, answers, txs, pc)
      /\ SentOK(pool, txs, pc) /\ SentOK(hashes, txs, pc) /\ nonce \in Nat /\ aborted \in BOOLEAN
      /\ NotAssigned \in Nat
  BY ForeignAssumption DEF Inv, ForeignAssumption
<1>2. txs \in Seq(Tx) /\ pc \in Seq(Places) /\ Len(pc) = Len(txs)
  BY <1>1 DEF BookOK
<1> DEFINE s == [nonce |-> NotAssigned, hash |-> NoHash, kind |-> k, status |-> "created", place |-> 0]
           new == Append(txs, s)
<1>3. s \in Tx /\ s.hash = NoHash /\ s.kind = k /\ "created" \in Places
  BY <1>1 DEF Tx, Status, Places
<1>4. /\ txs' = new /\ pc' = Append(pc, "created") /\ held' = Append(held, NotAssigned)
      /\ lists' = [lists EXCEPT ![k] = Inserted(lists[k], Len(txs) + 1, new)]
  BY DEF CreateTransaction
<1> HIDE DEF s
<1>5. Later(txs', pc', txs, pc)
  BY <1>2, <1>3, <1>4 DEF Later
<1>6. BookOK(txs', pc', held')
  BY <1>1, <1>3, <1>4, BookGrows
<1>7. ListsOK(lists', txs')
  <2>1. ListsOK([lists EXCEPT ![s.kind] = Inserted(lists[s.kind], Len(txs) + 1, new)], new)
    BY <1>1, <1>2, <1>3, ListsTakeUp
  <2> QED
    BY <1>3, <1>4, <2>1
<1>8. UNCHANGED <<chain, answers, pool, hashes, nonce, aborted>>
  BY DEF CreateTransaction, service
<1>9. ServiceOK(chain', answers', txs', pc')
  BY <1>1, <1>5, <1>8, ServiceLater
<1>10. SentOK(pool', txs', pc') /\ SentOK(hashes', txs', pc')
  BY <1>1, <1>5, <1>8, SentLater
<1> QED
  BY <1>1, <1>6, <1>7, <1>8, <1>9, <1>10 DEF Inv

-----------------------------------------------------------------------------
(* The announcements. *)

LEMMA AnnounceSubmitInv ==
    ASSUME Inv, NEW t \in DOMAIN txs, AnnounceSubmitTransaction(t) PROVE Inv'
<1>1. /\ BookOK(txs, pc, held) /\ ListsOK(lists, txs) /\ ServiceOK(chain, answers, txs, pc)
      /\ SentOK(pool, txs, pc) /\ SentOK(hashes, txs, pc) /\ nonce \in Nat /\ aborted \in BOOLEAN
  BY DEF Inv
<1>2. /\ txs \in Seq(Tx) /\ pc \in Seq(Places) /\ held \in Seq(Nat) /\ t \in 1..Len(txs)
      /\ Len(txs) \in Nat
  BY <1>1 DEF BookOK
<1>3. txs[t] \in Tx /\ t \in Nat
  BY <1>2
<1> DEFINE v == [txs[t] EXCEPT !.status = "submitted", !.hash = t]
<1>4. v \in Tx /\ v.hash = t /\ v.kind = txs[t].kind /\ v.nonce = txs[t].nonce /\ ~InBlock(v)
  BY <1>3 DEF Tx, Status, InBlock
<1>5. txs' = [txs EXCEPT ![t] = v]
  BY DEF AnnounceSubmitTransaction
<1> HIDE DEF v
<1>6. Changed(txs', txs, t) /\ txs'[t] = v
  BY <1>2, <1>4, <1>5, ChangedBook
<1>7. /\ UNCHANGED <<lists, nonce, pc, held, answers, chain, pool, aborted>>
      /\ hashes' = hashes \ {t}
  BY DEF AnnounceSubmitTransaction, service
<1>8. Later(txs', pc', txs, pc)
  BY <1>2, <1>4, <1>6, <1>7 DEF Later, Changed
<1>9. BookOK(txs', pc', held')
  <2>1. Moves(t, txs', pc', held', txs, pc, held)
    BY <1>2, <1>4, <1>6, <1>7 DEF Moves
  <2> QED
    BY <1>1, <2>1, BookMoves
<1>10. ListsOK(lists', txs')
  BY <1>1, <1>2, <1>4, <1>6, <1>7, ListsStay
<1>11. ServiceOK(chain', answers', txs', pc')
  BY <1>1, <1>7, <1>8, ServiceLater
<1>12. SentOK(pool', txs', pc') /\ SentOK(hashes, txs', pc')
  BY <1>1, <1>7, <1>8, SentLater
<1>13. SentOK(hashes', txs', pc')
  BY <1>7, <1>12 DEF SentOK
<1> QED
  BY <1>1, <1>7, <1>9, <1>10, <1>11, <1>12, <1>13 DEF Inv

\* An entry that is taken off an answer is one of those of the service.
LEMMA AnswerTaken ==
    ASSUME Inv, NEW a \in Answer, answers[a] # <<>>
    PROVE  /\ Head(answers[a]) \in Answered /\ Ours(Head(answers[a]), txs, pc)
           /\ ServiceOK(chain, [answers EXCEPT ![a] = Tail(answers[a])], txs, pc)
<1> DEFINE s == answers[a]
           an == [answers EXCEPT ![a] = Tail(s)]
<1>1. ServiceOK(chain, answers, txs, pc)
  BY DEF Inv
<1>2. s \in Seq(Answered) /\ s # <<>> /\ answers \in [Answer -> Seq(Answered)]
  BY <1>1 DEF ServiceOK
<1>3. \A i \in 1..Len(s) : Ours(s[i], txs, pc)
  BY <1>1 DEF ServiceOK
<1> HIDE DEF s
<1>4. /\ Head(s) \in Answered /\ Tail(s) \in Seq(Answered) /\ Len(Tail(s)) = Len(s) - 1
      /\ \A i \in 1..Len(Tail(s)) : Tail(s)[i] = s[i + 1]
  BY <1>2, HeadTailProperties
<1>5. Head(s) = s[1] /\ 1 \in 1..Len(s)
  BY <1>2
<1>6. \A i \in 1..Len(Tail(s)) : Ours(Tail(s)[i], txs, pc)
  <2> TAKE i \in 1..Len(Tail(s))
  <2>1. i + 1 \in 1..Len(s)
    BY <1>2, <1>4
  <2> QED
    BY <1>3, <1>4, <2>1
<1>7. an \in [Answer -> Seq(Answered)]
  BY <1>2, <1>4
<1>8. ASSUME NEW b \in Answer PROVE \A i \in 1..Len(an[b]) : Ours(an[b][i], txs, pc)
  <2>1. CASE b = a
    BY <1>2, <1>6, <2>1
  <2>2. CASE b # a
    BY <1>1, <1>2, <2>2 DEF ServiceOK
  <2> QED
    BY <2>1, <2>2
<1>9. ServiceOK(chain, an, txs, pc)
  BY <1>1, <1>7, <1>8 DEF ServiceOK
<1> QED
  BY <1>3, <1>4, <1>5, <1>9 DEF s

\* What is not known has the hash of another, and no transaction has it.
LEMMA NotKnown ==
    ASSUME BookOK(txs, pc, held), NEW e \in Answered, Ours(e, txs, pc), Known(e) = {}
    PROVE  e.hash \notin Nat /\ \A t \in 1..Len(txs) : txs[t].hash # e.hash
<1>1. txs \in Seq(Tx) /\ DOMAIN txs = 1..Len(txs)
  BY DEF BookOK
<1>2. WithHash(e.hash) = {} /\ (e.own => WithNonce(e.nonce) = {})
  BY DEF Known
<1>3. \A t \in 1..Len(txs) : txs[t].hash # e.hash
  BY <1>1, <1>2 DEF WithHash
<1>4. ASSUME e.hash \in Nat PROVE FALSE
  <2> DEFINE t == e.hash
  <2>1. e.own /\ t \in 1..Len(txs) /\ pc[t] = "sent" /\ txs[t].nonce = e.nonce
    BY <1>4 DEF Ours
  <2>2. HashOK(t, txs, pc)
    BY <2>1 DEF BookOK
  <2>3. txs[t].hash \in {NoHash, t}
    BY <2>1, <2>2 DEF HashOK
  <2>4. txs[t].hash # t
    BY <1>3, <2>1
  <2>5. txs[t].hash # NoHash
    BY <1>1, <1>2, <2>1 DEF WithNonce
  <2> QED
    BY <2>3, <2>4, <2>5
<1> QED
  BY <1>3, <1>4

LEMMA NewInv ==
    ASSUME Inv, NEW e \in Answered, Ours(e, txs, pc), e.kind # Unknown, Known(e) = {}, New(e)
    PROVE  BookOK(txs', pc', held') /\ ListsOK(lists', txs') /\ Later(txs', pc', txs, pc)
<1>1. BookOK(txs, pc, held) /\ ListsOK(lists, txs) /\ NotAssigned \in Nat
  BY ForeignAssumption DEF Inv, ForeignAssumption
<1>2. txs \in Seq(Tx) /\ pc \in Seq(Places) /\ Len(pc) = Len(txs)
  BY <1>1 DEF BookOK
<1>3. e.hash \notin Nat /\ \A t \in 1..Len(txs) : txs[t].hash # e.hash
  BY <1>1, NotKnown
<1> DEFINE s == [nonce |-> e.nonce, hash |-> e.hash, kind |-> e.kind, status |-> "blocked",
                 place |-> e.place]
           new == Append(txs, s)
<1>4. s \in Tx /\ s.hash = e.hash /\ s.kind = e.kind /\ "none" \in Places
  BY DEF Answered, Tx, Status, Places
<1>5. /\ txs' = new /\ pc' = Append(pc, "none") /\ held' = Append(held, NotAssigned)
      /\ lists' = [lists EXCEPT ![e.kind] = Inserted(lists[e.kind], Len(txs) + 1, new)]
  BY DEF New
<1> HIDE DEF s
<1>6. Later(txs', pc', txs, pc)
  BY <1>2, <1>4, <1>5 DEF Later
<1>7. BookOK(txs', pc', held')
  <2>1. \/ s.hash = NoHash
        \/ "none" = "none" /\ s.hash \notin Nat /\ \A t \in 1..Len(txs) : txs[t].hash # s.hash
    BY <1>3, <1>4
  <2> QED
    BY <1>1, <1>4, <1>5, <2>1, BookGrows
<1>8. ListsOK(lists', txs')
  <2>1. ListsOK([lists EXCEPT ![s.kind] = Inserted(lists[s.kind], Len(txs) + 1, new)], new)
    BY <1>1, <1>2, <1>4, ListsTakeUp
  <2> QED
    BY <1>4, <1>5, <2>1
<1> QED
  BY <1>6, <1>7, <1>8

LEMMA BlockedInv ==
    ASSUME Inv, NEW e \in Answered, e.kind \in Kind, NEW i \in DOMAIN lists[e.kind], Blocked(i, e),
           UNCHANGED <<pc, held>>
    PROVE  BookOK(txs', pc', held') /\ ListsOK(lists', txs') /\ Later(txs', pc', txs, pc)
<1> DEFINE k == e.kind
           t == lists[k][i]
           v == PutInBlock(txs[t], e.place)
           new == [txs EXCEPT ![t] = v]
<1>1. BookOK(txs, pc, held) /\ ListsOK(lists, txs)
  BY DEF Inv
<1>2. /\ txs \in Seq(Tx) /\ pc \in Seq(Places) /\ held \in Seq(Nat) /\ Len(txs) \in Nat
  BY <1>1 DEF BookOK
<1>3. i \in 1..Len(lists[k]) /\ Good(lists[k], OfKind(k, txs), txs)
  BY <1>1 DEF ListsOK, Good
<1>4. t \in 1..Len(txs)
  BY <1>3 DEF Good, Holds, OfKind
<1>5. v \in Tx /\ v.hash = txs[t].hash /\ v.kind = txs[t].kind /\ v.nonce = txs[t].nonce
  <2>1. txs[t] \in Tx
    BY <1>2, <1>4
  <2> QED
    BY <2>1 DEF Tx, Status, Answered, PutInBlock
<1>6. txs' = new /\ lists' = [lists EXCEPT ![k] = Updated(lists[k], i, new)]
  BY DEF Blocked
<1> HIDE DEF v
<1>7. Changed(new, txs, t) /\ new[t] = v
  BY <1>2, <1>4, <1>5, ChangedBook
<1> HIDE DEF new
<1>8. new[t].hash = txs[t].hash /\ new[t].kind = txs[t].kind /\ new[t].nonce = txs[t].nonce
  BY <1>5, <1>7
<1>9. Later(txs', pc', txs, pc)
  <2> HIDE DEF t
  <2>1. \A s \in 1..Len(txs) : new[s].nonce = txs[s].nonce
    BY <1>7, <1>8 DEF Changed
  <2>2. Len(new) = Len(txs) /\ txs' = new /\ pc' = pc
    BY <1>6, <1>7 DEF Changed
  <2> QED
    BY <1>2, <2>1, <2>2 DEF Later
<1>10. BookOK(txs', pc', held')
  <2>1. Moves(t, new, pc, held, txs, pc, held)
    BY <1>2, <1>4, <1>7, <1>8 DEF Moves
  <2> QED
    BY <1>1, <1>6, <2>1, BookMoves
<1>11. ListsOK(lists', txs')
  <2> HIDE DEF k
  <2>1. k \in Kind
    BY DEF k
  <2>2. ListsOK([lists EXCEPT ![k] = Updated(lists[k], i, new)], new)
    BY <1>1, <1>2, <1>3, <1>7, <1>8, <2>1, ListsMove
  <2> QED
    BY <1>6, <2>2
<1> QED
  BY <1>9, <1>10, <1>11

LEMMA AnnounceTransactionInv ==
    ASSUME Inv, NEW a \in Answer, AnnounceTransaction(a) PROVE Inv'
<1> DEFINE e == Head(answers[a])
<1>1. /\ BookOK(txs, pc, held) /\ ListsOK(lists, txs)
      /\ SentOK(pool, txs, pc) /\ SentOK(hashes, txs, pc) /\ nonce \in Nat /\ aborted \in BOOLEAN
  BY DEF Inv
<1>2. /\ answers[a] # <<>> /\ answers' = [answers EXCEPT ![a] = Tail(answers[a])]
      /\ UNCHANGED <<hashes, chain, pool>> /\ nonce' = NextNonce(e)
  BY DEF AnnounceTransaction, service
<1>3. e \in Answered /\ Ours(e, txs, pc) /\ ServiceOK(chain', answers', txs, pc)
  BY <1>2, AnswerTaken
<1>4. nonce' \in Nat
  BY <1>1, <1>2, <1>3 DEF NextNonce, Answered
<1>5. \/ UNCHANGED <<txs, lists, pc, held>>
      \/ e.kind # Unknown /\ Known(e) = {} /\ New(e)
      \/ /\ e.kind # Unknown /\ UNCHANGED <<pc, held>>
         /\ \E i \in DOMAIN lists[e.kind] : Blocked(i, e)
  BY DEF AnnounceTransaction
<1>6. aborted' \in BOOLEAN
  BY <1>1 DEF AnnounceTransaction
<1> HIDE DEF e
<1>7. BookOK(txs', pc', held') /\ ListsOK(lists', txs') /\ Later(txs', pc', txs, pc)
  <2>1. CASE UNCHANGED <<txs, lists, pc, held>>
    <3>1. Later(txs', pc', txs, pc)
      BY <1>1, <2>1 DEF Later, BookOK
    <3> QED
      BY <1>1, <2>1, <3>1
  <2>2. CASE e.kind # Unknown /\ Known(e) = {} /\ New(e)
    BY <1>3, <2>2, NewInv
  <2>3. CASE /\ e.kind # Unknown /\ UNCHANGED <<pc, held>>
             /\ \E i \in DOMAIN lists[e.kind] : Blocked(i, e)
    <3>1. e.kind \in Kind
      BY <1>3, <2>3 DEF Answered
    <3> QED
      BY <1>3, <2>3, <3>1, BlockedInv
  <2> QED
    BY <1>5, <2>1, <2>2, <2>3
<1>8. ServiceOK(chain', answers', txs', pc')
  BY <1>3, <1>7, ServiceLater
<1>9. SentOK(pool', txs', pc') /\ SentOK(hashes', txs', pc')
  BY <1>1, <1>2, <1>7, SentLater
<1> QED
  BY <1>4, <1>6, <1>7, <1>8, <1>9 DEF Inv

-----------------------------------------------------------------------------
(* The service. *)

LEMMA OwnCountIsNat == ASSUME Inv PROVE OwnCount \in Nat
<1>1. chain \in Seq(Entry) /\ DOMAIN chain = 1..Len(chain) /\ Len(chain) \in Nat
  BY DEF Inv, ServiceOK
<1>2. IsFiniteSet(1..Len(chain))
  BY <1>1, FS_Interval
<1>3. IsFiniteSet({i \in DOMAIN chain : chain[i].own})
  BY <1>1, <1>2, FS_Subset
<1> QED
  BY <1>3, FS_CardinalityType DEF OwnCount

\* The node does not see the service move.
LEMMA ServiceStep ==
    ASSUME Inv, UNCHANGED <<txs, lists, nonce, pc, held, hashes, aborted>>, pool' \subseteq pool,
           ServiceOK(chain', answers', txs, pc)
    PROVE  Inv'
  BY DEF Inv, SentOK

LEMMA ChainGrows ==
    ASSUME Inv, NEW e \in Entry, Ours(e, txs, pc), chain' = Append(chain, e), answers' = answers
    PROVE  ServiceOK(chain', answers', txs, pc)
<1>1. ServiceOK(chain, answers, txs, pc) /\ chain \in Seq(Entry) /\ Len(chain) \in Nat
  BY DEF Inv, ServiceOK
<1>2. /\ chain' \in Seq(Entry) /\ Len(chain') = Len(chain) + 1 /\ chain'[Len(chain) + 1] = e
      /\ \A i \in 1..Len(chain) : chain'[i] = chain[i]
  BY <1>1
<1>3. \A i \in 1..Len(chain') : i \in 1..Len(chain) \/ i = Len(chain) + 1
  BY <1>1, <1>2
<1>4. \A i \in 1..Len(chain') : Ours(chain'[i], txs, pc)
  BY <1>1, <1>2, <1>3 DEF ServiceOK
<1> QED
  BY <1>1, <1>2, <1>4 DEF ServiceOK

LEMMA MineInv == ASSUME Inv, NEW t \in DOMAIN txs, Mine(t) PROVE Inv'
<1> DEFINE e == [hash |-> t, own |-> TRUE, kind |-> txs[t].kind, nonce |-> txs[t].nonce]
<1>1. /\ txs \in Seq(Tx) /\ t \in 1..Len(txs) /\ pc[t] = "sent"
  BY DEF Inv, BookOK, SentOK, Mine
<1>2. txs[t] \in Tx /\ t \in Nat
  BY <1>1
<1>3. e \in Entry
  BY <1>2 DEF Tx, Entry
<1>4. Ours(e, txs, pc)
  BY <1>1 DEF Ours
<1>5. /\ chain' = Append(chain, e) /\ answers' = answers /\ pool' \subseteq pool
      /\ UNCHANGED <<txs, lists, nonce, pc, held, hashes, aborted>>
  BY DEF Mine, node
<1> HIDE DEF e
<1>6. ServiceOK(chain', answers', txs, pc)
  BY <1>3, <1>4, <1>5, ChainGrows
<1> QED
  BY <1>5, <1>6, ServiceStep

LEMMA MineOtherInv == ASSUME Inv, NEW e \in Others, MineOther(e) PROVE Inv'
<1> DEFINE f == [e EXCEPT !.nonce = IF e.own THEN OwnCount ELSE 0]
<1>1. e \in Foreign /\ \A h \in ForeignHash : h \notin Nat
  BY ForeignAssumption DEF ForeignAssumption
<1>2. OwnCount \in Nat
  BY OwnCountIsNat
<1>3. f \in Entry /\ f.hash = e.hash /\ e.hash \in ForeignHash
  BY <1>1, <1>2 DEF Foreign, Entry
<1>4. Ours(f, txs, pc)
  BY <1>1, <1>3 DEF Ours
<1>5. /\ chain' = Append(chain, f) /\ answers' = answers /\ pool' \subseteq pool
      /\ UNCHANGED <<txs, lists, nonce, pc, held, hashes, aborted>>
  BY DEF MineOther, node
<1> HIDE DEF f
<1>6. ServiceOK(chain', answers', txs, pc)
  BY <1>3, <1>4, <1>5, ChainGrows
<1> QED
  BY <1>5, <1>6, ServiceStep

LEMMA ReorgInv == ASSUME Inv, Reorg PROVE Inv'
<1> DEFINE n == Len(chain)
           c == [chain EXCEPT ![n] = chain[n - 1]]
           d == [c EXCEPT ![n - 1] = chain[n]]
<1>1. ServiceOK(chain, answers, txs, pc) /\ chain \in Seq(Entry) /\ n \in Nat /\ n > 1
  BY DEF Inv, ServiceOK, Reorg
<1>2. n \in 1..Len(chain) /\ n - 1 \in 1..Len(chain)
  BY <1>1
<1>3. chain[n] \in Entry /\ chain[n - 1] \in Entry
  BY <1>1, <1>2
<1>4. chain' = d
  BY DEF Reorg
<1>5. /\ c \in Seq(Entry) /\ Len(c) = Len(chain)
      /\ \A i \in 1..Len(chain) : c[i] \in {chain[i], chain[n - 1]}
  BY <1>1, <1>2, <1>3, ExceptSeq
<1> HIDE DEF c
<1>6. /\ d \in Seq(Entry) /\ Len(d) = Len(c)
      /\ \A i \in 1..Len(c) : d[i] \in {c[i], chain[n]}
  BY <1>2, <1>3, <1>5, ExceptSeq
<1> HIDE DEF d
<1>7. \A i \in 1..Len(chain) : d[i] \in {chain[i], chain[n - 1], chain[n]}
  BY <1>5, <1>6
<1>8. \A i \in 1..Len(d) : Ours(d[i], txs, pc)
  <2>1. \A i \in 1..Len(chain) : Ours(chain[i], txs, pc)
    BY <1>1 DEF ServiceOK
  <2> HIDE DEF n
  <2> QED
    BY <1>2, <1>5, <1>6, <1>7, <2>1
<1>9. ServiceOK(chain', answers, txs, pc)
  BY <1>1, <1>4, <1>6, <1>8 DEF ServiceOK
<1>10. UNCHANGED <<txs, lists, nonce, pc, held, hashes, aborted, pool, answers>>
  BY DEF Reorg, node
<1> QED
  BY <1>9, <1>10, ServiceStep

LEMMA UpdateTransactionsInv ==
    ASSUME Inv, NEW a \in Answer, UpdateTransactions(a) PROVE Inv'
<1> DEFINE f(i) == [hash |-> chain[i].hash, own |-> chain[i].own, kind |-> chain[i].kind,
                    nonce |-> chain[i].nonce, place |-> i]
           s == [i \in DOMAIN chain |-> f(i)]
<1>1. /\ ServiceOK(chain, answers, txs, pc) /\ chain \in Seq(Entry) /\ Len(chain) \in Nat
      /\ DOMAIN chain = 1..Len(chain)
  BY DEF Inv, ServiceOK
<1>2. \A i \in 1..Len(chain) : f(i) \in Answered /\ Ours(f(i), txs, pc)
  <2> TAKE i \in 1..Len(chain)
  <2>1. chain[i] \in Entry /\ i \in Nat
    BY <1>1
  <2>2. f(i) \in Answered
    BY <2>1 DEF Entry, Answered
  <2>3. Ours(chain[i], txs, pc)
    BY <1>1 DEF ServiceOK
  <2>4. Ours(f(i), txs, pc)
    BY <2>3 DEF Ours
  <2> QED
    BY <2>2, <2>4
<1>3. answers' = [answers EXCEPT ![a] = s]
  BY DEF UpdateTransactions
<1> HIDE DEF f
<1>4. s \in Seq(Answered) /\ Len(s) = Len(chain) /\ \A i \in 1..Len(chain) : s[i] = f(i)
  BY <1>1, <1>2
<1> HIDE DEF s
<1>5. answers' \in [Answer -> Seq(Answered)]
  BY <1>1, <1>3, <1>4 DEF ServiceOK
<1>6. ASSUME NEW b \in Answer PROVE \A i \in 1..Len(answers'[b]) : Ours(answers'[b][i], txs, pc)
  <2>1. CASE b = a
    <3>1. answers'[b] = s
      BY <1>1, <1>3, <2>1 DEF ServiceOK
    <3> QED
      BY <1>2, <1>4, <3>1
  <2>2. CASE b # a
    BY <1>1, <1>3, <2>2 DEF ServiceOK
  <2> QED
    BY <2>1, <2>2
<1>7. UNCHANGED <<txs, lists, nonce, pc, held, hashes, aborted, pool, chain>>
  BY DEF UpdateTransactions, node, service
<1>8. ServiceOK(chain', answers', txs, pc)
  BY <1>1, <1>5, <1>6, <1>7 DEF ServiceOK
<1> QED
  BY <1>7, <1>8, ServiceStep

-----------------------------------------------------------------------------
(* The theorems. *)

LEMMA StepInv == Inv /\ [Next]_vars => Inv'
<1> SUFFICES ASSUME Inv, [Next]_vars PROVE Inv'
  OBVIOUS
<1>1. CASE UNCHANGED vars
  <2>1. /\ BookOK(txs, pc, held) /\ ListsOK(lists, txs) /\ ServiceOK(chain, answers, txs, pc)
        /\ SentOK(pool, txs, pc) /\ SentOK(hashes, txs, pc) /\ nonce \in Nat /\ aborted \in BOOLEAN
    BY DEF Inv
  <2>2. /\ txs' = txs /\ lists' = lists /\ nonce' = nonce /\ pc' = pc /\ held' = held
        /\ chain' = chain /\ pool' = pool /\ hashes' = hashes /\ answers' = answers
        /\ aborted' = aborted
    BY <1>1 DEF vars
  <2>3. /\ BookOK(txs', pc', held') /\ ListsOK(lists', txs')
        /\ ServiceOK(chain', answers', txs', pc')
        /\ SentOK(pool', txs', pc') /\ SentOK(hashes', txs', pc')
    BY <2>1, <2>2
  <2> QED
    BY <2>1, <2>2, <2>3 DEF Inv
<1>2. CASE \E a \in Answer : UpdateTransactions(a) \/ AnnounceTransaction(a)
  BY <1>2, UpdateTransactionsInv, AnnounceTransactionInv
<1>3. CASE \E k \in Kind : CreateTransaction(k)
  BY <1>3, CreateTransactionInv
<1>4. ASSUME NEW t \in DOMAIN txs,
             \/ ReadNonce(t) \/ TakeNonce(t) \/ SubmitTransaction(t)
             \/ AnnounceSubmitTransaction(t) \/ Mine(t)
      PROVE  Inv'
  BY <1>4, ReadNonceInv, TakeNonceInv, SubmitTransactionInv, AnnounceSubmitInv, MineInv
<1>5. CASE \E e \in Others : MineOther(e)
  BY <1>5, MineOtherInv
<1>6. CASE Reorg
  BY <1>6, ReorgInv
<1> QED
  BY <1>1, <1>2, <1>3, <1>4, <1>5, <1>6 DEF Next

LEMMA InvIsInvariant == Spec => []Inv
  BY InitInv, StepInv, PTL DEF Spec

LEMMA InvImplies == Inv => TypeOK /\ BlockedAreInOrder /\ HashesDiffer
<1> SUFFICES ASSUME Inv PROVE TypeOK /\ BlockedAreInOrder /\ HashesDiffer
  OBVIOUS
<1>1. BookOK(txs, pc, held) /\ ListsOK(lists, txs)
  BY DEF Inv
<1>2. /\ txs \in Seq(Tx) /\ DOMAIN txs = 1..Len(txs) /\ pc \in Seq(Places) /\ Len(pc) = Len(txs)
      /\ held \in Seq(Nat) /\ Len(held) = Len(txs)
  BY <1>1 DEF BookOK
<1>3. \A k \in Kind : Good(lists[k], OfKind(k, txs), txs) /\ DOMAIN lists[k] = 1..Len(lists[k])
  BY <1>1 DEF ListsOK, Good
<1>4. ASSUME NEW k \in Kind
      PROVE  /\ Range(lists[k]) = {t \in DOMAIN txs : txs[t].kind = k}
             /\ \A i, j \in DOMAIN lists[k] : lists[k][i] = lists[k][j] => i = j
  <2> DEFINE list == lists[k]
  <2>1. Good(list, OfKind(k, txs), txs) /\ DOMAIN list = 1..Len(list)
    BY <1>3
  <2> HIDE DEF list
  <2>2. \A i, j \in DOMAIN list : list[i] = list[j] => i = j
    BY <2>1 DEF Good, Distinct
  <2>3. Range(list) = OfKind(k, txs)
    BY <2>1 DEF Range, Good, Holds
  <2>4. OfKind(k, txs) = {t \in DOMAIN txs : txs[t].kind = k}
    BY <1>2 DEF OfKind
  <2> QED
    BY <2>2, <2>3, <2>4 DEF list
<1>5. ASSUME NEW t \in DOMAIN txs
      PROVE  /\ txs[t].nonce \in Nat /\ txs[t].status \in Status
             /\ txs[t].place \in Nat /\ txs[t].kind \in Kind
  <2>1. txs[t] \in Tx
    BY <1>2
  <2> QED
    BY <2>1 DEF Tx
<1>6. TypeOK
  BY <1>2, <1>4, <1>5 DEF TypeOK, Inv, SentOK, Places
<1>7. BlockedAreInOrder
  <2> SUFFICES ASSUME NEW k \in Kind, NEW i \in DOMAIN lists[k], NEW j \in DOMAIN lists[k], i < j,
                      txs[lists[k][i]].status = "blocked", txs[lists[k][j]].status = "blocked"
               PROVE  txs[lists[k][i]].place <= txs[lists[k][j]].place
    BY DEF BlockedAreInOrder
  <2> QED
    BY <1>3 DEF Good, Ordered, InBlock
<1>8. HashesDiffer
  BY <1>1, <1>2 DEF BookOK, Differ, HashesDiffer
<1> QED
  BY <1>6, <1>7, <1>8

\* Every transaction of the node is in the list of one wallet, the one of its
\* kind, and there once: insertion, moving and the announcement of a
\* transaction the node did not have (walletHandleTransaction,
\* walletUpdateTransactionSorted, lightNodeAnnounceTransaction).
THEOREM NodeTyped == Spec => []TypeOK
  BY InvIsInvariant, InvImplies, PTL

\* Whatever signing and late answers do to a list, the transactions in blocks
\* stay in the order of their places (walletInsertTransactionSorted).
THEOREM BlockedInOrder == Spec => []BlockedAreInOrder
  BY InvIsInvariant, InvImplies, PTL

\* An announcement enters no transaction a second time, in whatever order the
\* answers to submissions and to getTransactions come
\* (lightNodeLookupTransactionByHash, lightNodeLookupTransactionByNonce).
THEOREM HashesAreDifferent == Spec => []HashesDiffer
  BY InvIsInvariant, InvImplies, PTL
=============================================================================
