--------------------------- MODULE PeerSyncProofs ---------------------------
(***************************************************************************)
(* Proofs about PeerSync, for any peers, heights and bounds.               *)
(*                                                                         *)
(* An update of the filter is a mark of a peer and a callback on its way;  *)
(* PeerInv relates marks, queues, the download peer and the filter.  Most  *)
(* of what a step does to a peer only makes it go on (Grows).              *)
(***************************************************************************)
EXTENDS PeerSync, SequenceTheorems, TLAPS

Pongs == Callback \X (Peer \cup {None})
PeerState == [th : Thread, error : Errors, shut : {"no", "late", "yes"}, pongs : Seq(Pongs),
              mempool : {"no", "asked", "sent", "again"}, timer : BOOLEAN, needsUpdate : BOOLEAN]
PeerMap == [Peer -> PeerState]

Queued(r) == {r.pongs[i] : i \in DOMAIN r.pongs}

\* The callbacks that carry on an update of q's filter.
Carriers(q) == {<<"filterPing", q>>, <<"filterLoad", q>>}

\* A peer that waits for its update, and whose thread goes on.
Updating(r) == r.needsUpdate /\ r.th \in {"greeted", "open"} /\ r.shut = "no"

\* The peers, a download peer d, a filter that is there or not, and the callbacks X that a
\* thread has taken off its queue.
HandInv(ps, d, hasFilter, X) ==
    /\ d # None => ps[d].th \in {"greeted", "open", "draining"} /\ (hasFilter \/ ps[d].needsUpdate)
    /\ \A q \in Peer :
        /\ ps[q].needsUpdate => ps[q].th \in {"greeted", "open", "draining"}
        /\ Updating(ps[q]) => q = d /\ Carriers(q) \cap (Queued(ps[q]) \cup X) # {}
        /\ d # None /\ <<"filterLoad", d>> \in Queued(ps[q]) \cup X => hasFilter
PeerInv(ps, d, hasFilter) == HandInv(ps, d, hasFilter, {})

SyncInv == syncing => InList # {} \/ (\E k \in Step : calls[k] > 0) \/ failures > MaxConnectFailures

Typed ==
    /\ peer \in PeerMap
    /\ downloadPeer \in Peer \cup {None}
    /\ failures \in Nat
    /\ height \in 0..MaxHeight /\ estimated \in 0..MaxHeight
    /\ peers \subseteq Peer
    /\ syncing \in BOOLEAN /\ filter \in BOOLEAN /\ reachable \in BOOLEAN
    /\ waiting \in BOOLEAN /\ running \in BOOLEAN
    /\ calls \in [Step -> Nat]
    /\ events \in 0..MaxEvents

Inv == Typed /\ PeerInv(peer, downloadPeer, filter) /\ SyncInv
-----------------------------------------------------------------------------
(* What goes on in one peer. *)

\* A connection gets ahead.
Ahead(a, b) ==
    \/ a = b
    \/ a \in {"waiting", "starting", "opening"} /\ b \in {"waiting", "starting", "opening", "greeted", "open"}
    \/ a = "greeted" /\ b = "open"

Grows(a, b) ==
    /\ a \in PeerState /\ b \in PeerState
    /\ Ahead(a.th, b.th)
    /\ b.needsUpdate = a.needsUpdate
    /\ b.shut = "no" => a.shut = "no"
    /\ Queued(a) \subseteq Queued(b)
    /\ \A w \in Peer : <<"filterLoad", w>> \in Queued(b) => <<"filterLoad", w>> \in Queued(a)

GrowsAll(ps, qs) == ps \in PeerMap /\ qs \in PeerMap /\ \A q \in Peer : Grows(ps[q], qs[q])

LEMMA SameGrows == ASSUME NEW a \in PeerState PROVE Grows(a, a)
BY DEF Grows, Ahead

LEMMA FieldGrows ==
    ASSUME NEW a \in PeerState, NEW b \in PeerState, b.pongs = a.pongs, b.th = a.th,
           b.needsUpdate = a.needsUpdate, b.shut = "no" => a.shut = "no"
    PROVE  Grows(a, b)
<1>1. Queued(b) = Queued(a)
  BY DEF Queued
<1> QED
  BY <1>1 DEF Grows, Ahead

LEMMA ShutGrows ==
    ASSUME NEW a \in PeerState, NEW s \in {"no", "late", "yes"}, s = "no" => a.shut = "no"
    PROVE  Grows(a, [a EXCEPT !.shut = s])
<1> DEFINE b == [a EXCEPT !.shut = s]
<1>1. b \in PeerState /\ b.pongs = a.pongs /\ b.th = a.th /\ b.needsUpdate = a.needsUpdate /\ b.shut = s
  BY DEF PeerState
<1> HIDE DEF b
<1>2. Grows(a, b)
  BY <1>1, FieldGrows
<1> QED
  BY <1>2 DEF b

LEMMA TimerGrows ==
    ASSUME NEW a \in PeerState, NEW t \in BOOLEAN
    PROVE  Grows(a, [a EXCEPT !.timer = t])
<1> DEFINE b == [a EXCEPT !.timer = t]
<1>1. b \in PeerState /\ b.pongs = a.pongs /\ b.th = a.th /\ b.needsUpdate = a.needsUpdate /\ b.shut = a.shut
  BY DEF PeerState
<1> HIDE DEF b
<1>2. Grows(a, b)
  BY <1>1, FieldGrows
<1> QED
  BY <1>2 DEF b

LEMMA MempoolGrows ==
    ASSUME NEW a \in PeerState, NEW m \in {"no", "asked", "sent", "again"}
    PROVE  Grows(a, [a EXCEPT !.mempool = m])
<1> DEFINE b == [a EXCEPT !.mempool = m]
<1>1. b \in PeerState /\ b.pongs = a.pongs /\ b.th = a.th /\ b.needsUpdate = a.needsUpdate /\ b.shut = a.shut
  BY DEF PeerState
<1> HIDE DEF b
<1>2. Grows(a, b)
  BY <1>1, FieldGrows
<1> QED
  BY <1>2 DEF b

\* One more callback.
Asked(a, x) == [a EXCEPT !.pongs = Append(a.pongs, x)]

LEMMA AskedFacts ==
    ASSUME NEW a \in PeerState, NEW x \in Pongs
    PROVE  /\ Asked(a, x) \in PeerState /\ Queued(Asked(a, x)) = Queued(a) \cup {x}
           /\ Asked(a, x).th = a.th /\ Asked(a, x).shut = a.shut /\ Asked(a, x).needsUpdate = a.needsUpdate
<1> DEFINE s == a.pongs
           t == Append(s, x)
           b == Asked(a, x)
<1>1. s \in Seq(Pongs)
  BY DEF PeerState
<1> HIDE DEF s
<1>2. /\ t \in Seq(Pongs) /\ Len(t) = Len(s) + 1 /\ t[Len(s) + 1] = x /\ Len(s) \in Nat
      /\ DOMAIN s = 1..Len(s) /\ DOMAIN t = 1..Len(t)
      /\ \A i \in 1..Len(s) : t[i] = s[i]
  BY <1>1
<1> HIDE DEF t
<1>3. b = [a EXCEPT !.pongs = t]
  BY DEF Asked, t, s
<1>4. b \in PeerState /\ b.pongs = t /\ b.th = a.th /\ b.shut = a.shut /\ b.needsUpdate = a.needsUpdate
  BY <1>2, <1>3 DEF PeerState
<1>5. \A i \in 1..Len(t) : i \in 1..Len(s) \/ i = Len(s) + 1
  BY <1>2
<1>6. \A i \in 1..Len(s) : i \in 1..Len(t)
  BY <1>2
<1>7. Len(s) + 1 \in 1..Len(t)
  BY <1>2
<1>8. {t[i] : i \in 1..Len(t)} = {s[i] : i \in 1..Len(s)} \cup {x}
  BY <1>2, <1>5, <1>6, <1>7
<1>9. Queued(b) = {t[i] : i \in 1..Len(t)} /\ Queued(a) = {s[i] : i \in 1..Len(s)}
  BY <1>2, <1>4 DEF Queued, s
<1> QED
  BY <1>4, <1>8, <1>9

LEMMA AskedGrows ==
    ASSUME NEW a \in PeerState, NEW cb \in Callback, NEW who \in Peer \cup {None}, cb # "filterLoad"
    PROVE  Grows(a, Asked(a, <<cb, who>>))
<1> DEFINE x == <<cb, who>>
<1>1. x \in Pongs /\ \A w \in Peer : x # <<"filterLoad", w>>
  BY DEF Pongs
<1> HIDE DEF x
<1>2. Grows(a, Asked(a, x))
  BY <1>1, AskedFacts DEF Grows, Ahead
<1> QED
  BY <1>2 DEF x

LEMMA GrowsFurther ==
    ASSUME NEW ps, NEW qs, NEW rs, GrowsAll(ps, qs), GrowsAll(qs, rs)
    PROVE  GrowsAll(ps, rs)
<1> SUFFICES ASSUME NEW q \in Peer PROVE Grows(ps[q], rs[q])
  BY DEF GrowsAll
<1>1. Grows(ps[q], qs[q]) /\ Grows(qs[q], rs[q])
  BY DEF GrowsAll
<1> QED
  BY <1>1 DEF Grows, Ahead

\* Only p changes.
Set(ps, p, b) == [ps EXCEPT ![p] = b]

LEMMA SetGrows ==
    ASSUME NEW ps, NEW p \in Peer, NEW b, ps \in PeerMap, Grows(ps[p], b)
    PROVE  /\ GrowsAll(ps, Set(ps, p, b))
           /\ \A q \in Peer : Set(ps, p, b)[q] = IF q = p THEN b ELSE ps[q]
<1>1. b \in PeerState /\ \A q \in Peer : ps[q] \in PeerState
  BY DEF Grows, PeerMap
<1>2. Set(ps, p, b) \in PeerMap /\ \A q \in Peer : Set(ps, p, b)[q] = IF q = p THEN b ELSE ps[q]
  BY <1>1 DEF Set, PeerMap
<1>3. \A q \in Peer : Grows(ps[q], Set(ps, p, b)[q])
  BY <1>1, <1>2, SameGrows
<1> QED
  BY <1>2, <1>3 DEF GrowsAll

LEMMA AllSameGrows == ASSUME NEW ps, ps \in PeerMap PROVE GrowsAll(ps, ps)
BY SameGrows DEF GrowsAll, PeerMap

-----------------------------------------------------------------------------
(* What the operators of PeerSync do to the peers. *)

LEMMA StateOf == ASSUME NEW ps, ps \in PeerMap, NEW p \in Peer PROVE ps[p] \in PeerState
BY DEF PeerMap

LEMMA ShutAll ==
    ASSUME NEW ps, ps \in PeerMap, NEW p \in Peer
    PROVE  /\ GrowsAll(ps, Shut(ps, p)) /\ GrowsAll(ps, ShutOwn(ps, p))
           /\ ~ Updating(Shut(ps, p)[p])
           /\ \A q \in Peer : q # p => Shut(ps, p)[q] = ps[q]
<1> DEFINE b(s) == [ps[p] EXCEPT !.shut = s]
<1>1. ps[p] \in PeerState
  BY StateOf
<1>2. Grows(ps[p], b("late")) /\ Grows(ps[p], b("yes"))
  BY <1>1, ShutGrows
<1>3. ShutOwn(ps, p) = Set(ps, p, b("yes"))
  BY DEF ShutOwn, Set, PeerMap
<1>4. GrowsAll(ps, ShutOwn(ps, p))
  BY <1>2, <1>3, SetGrows
<1>5. CASE ps[p].shut = "no" /\ ps[p].th \in {"opening", "greeted", "open"}
  <2>1. Shut(ps, p) = Set(ps, p, b("late"))
    BY <1>5 DEF Shut, Set, PeerMap
  <2>2. /\ GrowsAll(ps, Shut(ps, p)) /\ Shut(ps, p)[p] = b("late")
        /\ \A q \in Peer : q # p => Shut(ps, p)[q] = ps[q]
    BY <1>2, <2>1, SetGrows
  <2>3. b("late").shut = "late"
    BY <1>1 DEF PeerState
  <2> QED
    BY <1>4, <2>2, <2>3 DEF Updating
<1>6. CASE ~(ps[p].shut = "no" /\ ps[p].th \in {"opening", "greeted", "open"})
  <2>1. Shut(ps, p) = ps
    BY <1>6 DEF Shut
  <2> QED
    BY <1>4, <1>6, <2>1, AllSameGrows DEF Updating
<1> QED
  BY <1>5, <1>6

LEMMA TakenGrows ==
    ASSUME peer \in PeerMap, NEW p \in Peer
    PROVE  GrowsAll(peer, Taken(p)) /\ Taken(p)[p].th = peer[p].th /\ Taken(p)[p].pongs = peer[p].pongs
<1> DEFINE s == IF peer[p].shut = "no" THEN "no" ELSE "yes"
           b == [peer[p] EXCEPT !.shut = s]
<1>1. peer[p] \in PeerState
  BY StateOf
<1>2. s \in {"no", "late", "yes"} /\ (s = "no" => peer[p].shut = "no")
  OBVIOUS
<1>3. Taken(p) = Set(peer, p, b)
  BY DEF Taken, Set, PeerMap
<1> HIDE DEF s
<1>4. Grows(peer[p], b)
  BY <1>1, <1>2, ShutGrows
<1>5. b.th = peer[p].th /\ b.pongs = peer[p].pongs
  BY <1>1 DEF PeerState
<1> HIDE DEF b
<1> QED
  BY <1>3, <1>4, <1>5, SetGrows

LEMMA TimerAll ==
    ASSUME NEW ps, ps \in PeerMap, NEW p \in Peer, NEW t \in BOOLEAN
    PROVE  GrowsAll(ps, [ps EXCEPT ![p].timer = t])
<1> DEFINE qs == [ps EXCEPT ![p].timer = t]
           b == [ps[p] EXCEPT !.timer = t]
<1>1. Grows(ps[p], b)
  BY StateOf, TimerGrows
<1>2. qs = Set(ps, p, b)
  BY DEF Set, PeerMap
<1> HIDE DEF b, qs
<1>3. GrowsAll(ps, qs)
  BY <1>1, <1>2, SetGrows
<1> QED
  BY <1>3 DEF qs

LEMMA UnscheduledGrows ==
    ASSUME NEW ps, ps \in PeerMap, NEW d \in Peer \cup {None}
    PROVE  GrowsAll(ps, Unscheduled(ps, d))
BY TimerAll, AllSameGrows DEF Unscheduled

LEMMA SendMempoolGrows ==
    ASSUME NEW ps, ps \in PeerMap, NEW p \in Peer, NEW callback \in BOOLEAN
    PROVE  GrowsAll(ps, SendMempool(ps, p, callback))
<1> DEFINE old == ps[p].mempool
           m == CASE old = "no" /\ ~callback -> "sent" [] old = "sent" -> "sent" [] OTHER -> "asked"
           b == [ps[p] EXCEPT !.mempool = m]
<1>1. m \in {"no", "asked", "sent", "again"}
  <2>1. CASE old = "no" /\ ~callback
    BY <2>1
  <2>2. CASE old = "sent"
    BY <2>2
  <2>3. CASE ~(old = "no" /\ ~callback) /\ old # "sent"
    BY <2>3
  <2> QED
    BY <2>1, <2>2, <2>3
<1>2. SendMempool(ps, p, callback) = Set(ps, p, b)
  BY DEF SendMempool, Set, PeerMap
<1> HIDE DEF m
<1>3. Grows(ps[p], b)
  BY <1>1, StateOf, MempoolGrows
<1> HIDE DEF b
<1> QED
  BY <1>2, <1>3, SetGrows

LEMMA MempoolAll ==
    ASSUME NEW ps, ps \in PeerMap, NEW p \in Peer, NEW m \in {"no", "asked", "sent", "again"}
    PROVE  GrowsAll(ps, [ps EXCEPT ![p].mempool = m])
<1> DEFINE qs == [ps EXCEPT ![p].mempool = m]
           b == [ps[p] EXCEPT !.mempool = m]
<1>1. Grows(ps[p], b)
  BY StateOf, MempoolGrows
<1>2. qs = Set(ps, p, b)
  BY DEF Set, PeerMap
<1> HIDE DEF b, qs
<1>3. GrowsAll(ps, qs)
  BY <1>1, <1>2, SetGrows
<1> QED
  BY <1>3 DEF qs

LEMMA LoadedTyped ==
    \A m \in {"no", "asked", "sent", "again"} : Loaded(m) \in {"no", "asked", "sent", "again"}
BY DEF Loaded

LEMMA LoadedGrows ==
    ASSUME NEW ps, ps \in PeerMap, NEW p \in Peer
    PROVE  GrowsAll(ps, [ps EXCEPT ![p].mempool = Loaded(@)])
<1> DEFINE m == Loaded(ps[p].mempool)
<1>1. ps[p].mempool \in {"no", "asked", "sent", "again"}
  BY StateOf DEF PeerState
<1>2. m \in {"no", "asked", "sent", "again"}
  BY <1>1, LoadedTyped
<1>3. [ps EXCEPT ![p].mempool = Loaded(@)] = [ps EXCEPT ![p].mempool = m]
  BY DEF PeerMap
<1> HIDE DEF m
<1> QED
  BY <1>2, <1>3, MempoolAll

LEMMA PingIsSet ==
    ASSUME NEW ps, ps \in PeerMap, NEW p \in Peer, NEW cb \in Callback, NEW who \in Peer \cup {None}
    PROVE  /\ Ping(ps, p, cb, who) = Set(ps, p, Asked(ps[p], <<cb, who>>))
           /\ Ping(ps, p, cb, who) \in PeerMap
<1>1. Ping(ps, p, cb, who) = Set(ps, p, Asked(ps[p], <<cb, who>>))
  BY DEF Ping, Set, Asked, PeerMap
<1> DEFINE b == Asked(ps[p], <<cb, who>>)
<1>2. b \in PeerState
  BY StateOf, AskedFacts DEF Pongs
<1> HIDE DEF b
<1>3. Set(ps, p, b) \in PeerMap
  BY <1>2 DEF Set, PeerMap
<1> QED
  BY <1>1, <1>3 DEF b

LEMMA PingGrows ==
    ASSUME NEW ps, ps \in PeerMap, NEW p \in Peer, NEW cb \in Callback, NEW who \in Peer \cup {None},
           cb # "filterLoad"
    PROVE  GrowsAll(ps, Ping(ps, p, cb, who))
<1>1. ps[p] \in PeerState
  BY StateOf
<1>2. Grows(ps[p], Asked(ps[p], <<cb, who>>))
  BY <1>1, AskedGrows
<1> QED
  BY <1>2, PingIsSet, SetGrows

LEMMA LoadPingGrows ==
    ASSUME NEW ps, ps \in PeerMap, NEW p \in Peer, NEW who \in Peer \cup {None}
    PROVE  GrowsAll(ps, LoadPing(ps, p, "bloomDone", who))
<1> DEFINE qs == [ps EXCEPT ![p].mempool = Loaded(@)]
<1>1. GrowsAll(ps, qs) /\ qs \in PeerMap
  BY LoadedGrows DEF GrowsAll
<1>2. LoadPing(ps, p, "bloomDone", who) = Ping(qs, p, "bloomDone", who)
  BY DEF LoadPing
<1> HIDE DEF qs
<1>3. GrowsAll(qs, Ping(qs, p, "bloomDone", who))
  BY <1>1, PingGrows DEF Callback
<1> QED
  BY <1>1, <1>2, <1>3, GrowsFurther

LEMMA LoadPingAllGrows ==
    ASSUME NEW ps, ps \in PeerMap, NEW S
    PROVE  GrowsAll(ps, LoadPingAll(ps, S, "bloomDone"))
<1> DEFINE qs == LoadPingAll(ps, S, "bloomDone")
           load(q) == LoadPing(ps, q, "bloomDone", q)
<1>1. \A q \in Peer : qs[q] = IF q \in S THEN load(q)[q] ELSE ps[q]
  BY DEF LoadPingAll
<1>2. \A q \in Peer : Grows(ps[q], load(q)[q])
  BY LoadPingGrows DEF GrowsAll
<1> HIDE DEF load
<1>3. \A q \in Peer : Grows(ps[q], qs[q])
  BY <1>1, <1>2, StateOf, SameGrows
<1>4. qs = [q \in Peer |-> qs[q]]
  BY DEF LoadPingAll
<1> HIDE DEF qs
<1>5. \A q \in Peer : qs[q] \in PeerState
  BY <1>3 DEF Grows
<1>6. qs \in PeerMap
  BY <1>4, <1>5 DEF PeerMap
<1> QED
  BY <1>3, <1>6 DEF GrowsAll, qs

LEMMA LoadMempoolsGrows ==
    ASSUME NEW ps, ps \in PeerMap, NEW d, NEW reload \in BOOLEAN
    PROVE  GrowsAll(ps, LoadMempools(ps, d, reload))
<1> DEFINE S == IF reload THEN Connected ELSE Connected \ {d}
           qs == LoadPingAll(ps, S, "bloomDone")
<1>1. GrowsAll(ps, qs) /\ qs \in PeerMap
  BY LoadPingAllGrows DEF GrowsAll
<1>2. LoadMempools(ps, d, reload) = IF d \in Connected \ S THEN SendMempool(qs, d, TRUE) ELSE qs
  BY DEF LoadMempools
<1> HIDE DEF qs, S
<1>3. d \in Connected \ S => d \in Peer /\ GrowsAll(qs, SendMempool(qs, d, TRUE))
  BY <1>1, SendMempoolGrows DEF Connected
<1> QED
  BY <1>1, <1>2, <1>3, GrowsFurther

-----------------------------------------------------------------------------
(* What keeps the invariant of the peers. *)

LEMMA GrowsInv ==
    ASSUME NEW ps, NEW qs, NEW d \in Peer \cup {None}, NEW hasFilter, NEW X,
           HandInv(ps, d, hasFilter, X), GrowsAll(ps, qs)
    PROVE  HandInv(qs, d, hasFilter, X)
<1>1. \A q \in Peer : Grows(ps[q], qs[q])
  BY DEF GrowsAll
<1>2. d # None => /\ qs[d].th \in {"greeted", "open", "draining"}
                  /\ hasFilter \/ qs[d].needsUpdate
  BY <1>1 DEF HandInv, Grows, Ahead
<1>3. ASSUME NEW q \in Peer
      PROVE  /\ qs[q].needsUpdate => qs[q].th \in {"greeted", "open", "draining"}
             /\ Updating(qs[q]) => q = d /\ Carriers(q) \cap (Queued(qs[q]) \cup X) # {}
             /\ d # None /\ <<"filterLoad", d>> \in Queued(qs[q]) \cup X => hasFilter
  <2>1. qs[q].needsUpdate => qs[q].th \in {"greeted", "open", "draining"}
    BY <1>1 DEF HandInv, Grows, Ahead
  <2>2. Updating(qs[q]) => Updating(ps[q])
    BY <1>1 DEF HandInv, Grows, Ahead, Updating
  <2>3. Queued(ps[q]) \subseteq Queued(qs[q])
    BY <1>1 DEF Grows
  <2>4. Updating(ps[q]) => q = d /\ Carriers(q) \cap (Queued(ps[q]) \cup X) # {}
    BY DEF HandInv
  <2>5. d # None /\ <<"filterLoad", d>> \in Queued(qs[q]) => <<"filterLoad", d>> \in Queued(ps[q])
    BY <1>1 DEF Grows
  <2>6. d # None /\ <<"filterLoad", d>> \in Queued(ps[q]) \cup X => hasFilter
    BY DEF HandInv
  <2> QED
    BY <2>1, <2>2, <2>3, <2>4, <2>5, <2>6
<1> QED
  BY <1>2, <1>3 DEF HandInv

LEMMA FilterInv ==
    ASSUME NEW ps, NEW d, NEW hasFilter, NEW X, HandInv(ps, d, hasFilter, X)
    PROVE  HandInv(ps, d, TRUE, X)
BY DEF HandInv

LEMMA HandEmptied ==
    ASSUME NEW ps, NEW d, NEW hasFilter, NEW x, HandInv(ps, d, hasFilter, {x}),
           \A q \in Peer : x \notin Carriers(q)
    PROVE  PeerInv(ps, d, hasFilter)
<1>1. ASSUME NEW q \in Peer PROVE Updating(ps[q]) => q = d /\ Carriers(q) \cap (Queued(ps[q]) \cup {}) # {}
  <2>1. x \notin Carriers(q)
    OBVIOUS
  <2> QED
    BY <2>1 DEF HandInv
<1> QED
  BY <1>1 DEF HandInv, PeerInv

\* A callback that a thread takes off its queue.
Pops(a, b) == a \in PeerState /\ a.pongs # <<>> /\ b = [a EXCEPT !.pongs = Tail(a.pongs)]

LEMMA PopFacts ==
    ASSUME NEW a, NEW b, Pops(a, b)
    PROVE  /\ b \in PeerState /\ b.th = a.th /\ b.needsUpdate = a.needsUpdate /\ b.shut = a.shut
           /\ Head(a.pongs) \in Pongs
           /\ Queued(a) = Queued(b) \cup {Head(a.pongs)}
<1> DEFINE q == a.pongs
           r == Tail(q)
<1>1. q \in Seq(Pongs) /\ q # <<>>
  BY DEF PeerState, Pops
<1>2. Head(q) = q[1] /\ Head(q) \in Pongs /\ Len(q) \in Nat /\ Len(q) >= 1
  BY <1>1, EmptySeq
<1>3. r \in Seq(Pongs) /\ Len(r) = Len(q) - 1 /\ \A i \in 1..Len(r) : r[i] = q[i + 1]
  BY <1>1, HeadTailProperties
<1>4. DOMAIN q = 1..Len(q) /\ DOMAIN r = 1..Len(r)
  BY <1>1, <1>3
<1>5. \A i \in 1..Len(q) : i = 1 \/ (i - 1 \in 1..Len(r) /\ (i - 1) + 1 = i)
  BY <1>2, <1>3
<1>6. \A i \in 1..Len(r) : i + 1 \in 1..Len(q)
  BY <1>2, <1>3
<1>7. 1 \in 1..Len(q)
  BY <1>2
<1> HIDE DEF r
<1>8. b \in PeerState /\ b.th = a.th /\ b.needsUpdate = a.needsUpdate /\ b.shut = a.shut /\ b.pongs = r
  BY <1>3 DEF PeerState, Pops, r
<1> HIDE DEF q
<1>9. {q[i] : i \in 1..Len(q)} = {r[i] : i \in 1..Len(r)} \cup {q[1]}
  <2>1. \A i \in 1..Len(q) : q[i] = q[1] \/ \E k \in 1..Len(r) : q[i] = r[k]
    BY <1>3, <1>5
  <2>2. \A i \in 1..Len(r) : \E k \in 1..Len(q) : r[i] = q[k]
    BY <1>3, <1>6
  <2>3. {q[i] : i \in 1..Len(q)} \subseteq {r[i] : i \in 1..Len(r)} \cup {q[1]}
    BY <2>1
  <2>4. {r[i] : i \in 1..Len(r)} \cup {q[1]} \subseteq {q[i] : i \in 1..Len(q)}
    BY <1>7, <2>2
  <2> QED
    BY <2>3, <2>4
<1> QED
  BY <1>2, <1>4, <1>8, <1>9 DEF Queued, q

\* p's thread has taken the callback x.
Popped(ps, p, qs, x) ==
    /\ ps \in PeerMap /\ qs \in PeerMap /\ x \in Pongs
    /\ \A q \in Peer : q # p => qs[q] = ps[q]
    /\ qs[p].th = ps[p].th /\ qs[p].needsUpdate = ps[p].needsUpdate
    /\ qs[p].shut = "no" => ps[p].shut = "no"
    /\ Queued(ps[p]) = Queued(qs[p]) \cup {x}

LEMMA PoppedInv ==
    ASSUME NEW ps, NEW qs, NEW p \in Peer, NEW x, NEW d \in Peer \cup {None}, NEW hasFilter,
           PeerInv(ps, d, hasFilter), Popped(ps, p, qs, x)
    PROVE  HandInv(qs, d, hasFilter, {x})
<1>1. d # None => qs[d].th \in {"greeted", "open", "draining"} /\ (hasFilter \/ qs[d].needsUpdate)
  <2>1. d # None => ps[d].th \in {"greeted", "open", "draining"} /\ (hasFilter \/ ps[d].needsUpdate)
    BY DEF PeerInv, HandInv
  <2>2. CASE d = p
    BY <2>1, <2>2 DEF Popped
  <2>3. CASE d # p
    BY <2>1, <2>3 DEF Popped
  <2> QED
    BY <2>2, <2>3
<1>2. ASSUME NEW q \in Peer
      PROVE  /\ qs[q].needsUpdate => qs[q].th \in {"greeted", "open", "draining"}
             /\ Updating(qs[q]) => q = d /\ Carriers(q) \cap (Queued(qs[q]) \cup {x}) # {}
             /\ d # None /\ <<"filterLoad", d>> \in Queued(qs[q]) \cup {x} => hasFilter
  <2>1. /\ ps[q].needsUpdate => ps[q].th \in {"greeted", "open", "draining"}
        /\ Updating(ps[q]) => q = d /\ Carriers(q) \cap Queued(ps[q]) # {}
        /\ d # None /\ <<"filterLoad", d>> \in Queued(ps[q]) => hasFilter
    BY DEF PeerInv, HandInv
  <2>2. x \in Queued(ps[p]) /\ (d # None /\ <<"filterLoad", d>> \in Queued(ps[p]) => hasFilter)
    BY DEF PeerInv, HandInv, Popped
  <2>3. Queued(ps[q]) \subseteq Queued(qs[q]) \cup {x} /\ Queued(qs[q]) \subseteq Queued(ps[q])
    BY DEF Popped
  <2>4. /\ qs[q].th = ps[q].th /\ qs[q].needsUpdate = ps[q].needsUpdate
        /\ qs[q].shut = "no" => ps[q].shut = "no"
    BY DEF Popped
  <2>5. Updating(qs[q]) => Updating(ps[q])
    BY <2>4 DEF Updating
  <2>6. Updating(qs[q]) => q = d /\ Carriers(q) \cap (Queued(qs[q]) \cup {x}) # {}
    BY <2>1, <2>3, <2>5
  <2> QED
    BY <2>1, <2>2, <2>3, <2>4, <2>6
<1> QED
  BY <1>1, <1>2 DEF HandInv

\* p gets a filter with a ping.
Refilled(ps, p, who, qs) ==
    /\ qs \in PeerMap /\ \A q \in Peer : q # p => qs[q] = ps[q]
    /\ qs[p].th = ps[p].th /\ qs[p].needsUpdate = ps[p].needsUpdate /\ qs[p].shut = ps[p].shut
    /\ Queued(qs[p]) = Queued(ps[p]) \cup {<<"filterLoad", who>>}

LEMMA LoadPingFacts ==
    ASSUME NEW ps, ps \in PeerMap, NEW p \in Peer, NEW who \in Peer \cup {None}, NEW qs,
           qs = LoadPing(ps, p, "filterLoad", who)
    PROVE  Refilled(ps, p, who, qs)
<1> DEFINE m == Loaded(ps[p].mempool)
           b == [ps[p] EXCEPT !.mempool = m]
           rs == [ps EXCEPT ![p].mempool = Loaded(@)]
           x == <<"filterLoad", who>>
<1>1. m \in {"no", "asked", "sent", "again"}
  <2>1. ps[p].mempool \in {"no", "asked", "sent", "again"}
    BY StateOf DEF PeerState
  <2> QED
    BY <2>1, LoadedTyped
<1>2. rs = Set(ps, p, b)
  BY DEF Set, PeerMap
<1> HIDE DEF m
<1>3. /\ b \in PeerState /\ b.th = ps[p].th /\ b.needsUpdate = ps[p].needsUpdate
      /\ b.shut = ps[p].shut /\ b.pongs = ps[p].pongs
  BY <1>1, StateOf DEF PeerState
<1>4. qs = Ping(rs, p, "filterLoad", who)
  BY DEF LoadPing
<1> HIDE DEF b, rs
<1>5. rs \in PeerMap /\ rs[p] = b /\ \A q \in Peer : q # p => rs[q] = ps[q]
  BY <1>2, <1>3 DEF Set, PeerMap
<1>6. "filterLoad" \in Callback /\ x \in Pongs
  BY DEF Callback, Pongs
<1>7. qs = Set(rs, p, Asked(rs[p], x)) /\ qs \in PeerMap
  BY <1>4, <1>5, <1>6, PingIsSet
<1>8. qs[p] = Asked(b, x) /\ \A q \in Peer : q # p => qs[q] = rs[q]
  BY <1>5, <1>7 DEF Set, PeerMap
<1> HIDE DEF x
<1>9. Queued(b) = Queued(ps[p])
  BY <1>3 DEF Queued
<1>10. /\ Queued(Asked(b, x)) = Queued(b) \cup {x} /\ Asked(b, x).th = b.th
       /\ Asked(b, x).shut = b.shut /\ Asked(b, x).needsUpdate = b.needsUpdate
  BY <1>3, <1>6, AskedFacts
<1> QED
  BY <1>3, <1>5, <1>7, <1>8, <1>9, <1>10 DEF x, Refilled

\* The peers after a step that neither adds nor removes one.
Kept(ps, qs, d, hasFilter) ==
    qs \in PeerMap /\ PeerInv(qs, d, hasFilter) /\ \A q \in Peer : qs[q].th = "out" <=> ps[q].th = "out"

\* _updateFilterPingDone during a sync, when a thread has taken the callback of who.
LoadsOne(ps, d, hasFilter, who, qs) ==
    /\ ps \in PeerMap /\ d \in Peer /\ who \in Peer \cup {None}
    /\ HandInv(ps, d, hasFilter, {<<"filterPing", who>>}) /\ qs = LoadPing(ps, d, "filterLoad", who)

LEMMA LoadOneInv ==
    ASSUME NEW ps, NEW d, NEW hasFilter, NEW who, NEW qs, LoadsOne(ps, d, hasFilter, who, qs)
    PROVE  Kept(ps, qs, d, TRUE)
<1> /\ ps \in PeerMap /\ d \in Peer /\ who \in Peer \cup {None}
    /\ HandInv(ps, d, hasFilter, {<<"filterPing", who>>}) /\ qs = LoadPing(ps, d, "filterLoad", who)
  BY DEF LoadsOne
<1>1. /\ qs \in PeerMap /\ \A q \in Peer : q # d => qs[q] = ps[q]
      /\ qs[d].th = ps[d].th /\ qs[d].needsUpdate = ps[d].needsUpdate /\ qs[d].shut = ps[d].shut
      /\ Queued(qs[d]) = Queued(ps[d]) \cup {<<"filterLoad", who>>}
  <2>1. Refilled(ps, d, who, qs)
    BY LoadPingFacts
  <2> QED
    BY <2>1 DEF Refilled
<1>2. d # None => qs[d].th \in {"greeted", "open", "draining"}
  BY <1>1 DEF HandInv
<1>3. ASSUME NEW q \in Peer
      PROVE  /\ qs[q].th = ps[q].th
             /\ qs[q].needsUpdate => qs[q].th \in {"greeted", "open", "draining"}
             /\ Updating(qs[q]) => q = d /\ Carriers(q) \cap (Queued(qs[q]) \cup {}) # {}
  <2>1. qs[q].th = ps[q].th /\ qs[q].needsUpdate = ps[q].needsUpdate /\ qs[q].shut = ps[q].shut
    BY <1>1
  <2>2. ps[q].needsUpdate => ps[q].th \in {"greeted", "open", "draining"}
    BY DEF HandInv
  <2>3. Updating(qs[q]) => q = d /\ Carriers(q) \cap (Queued(ps[q]) \cup {<<"filterPing", who>>}) # {}
    BY <2>1 DEF HandInv, Updating
  <2>4. q = d => /\ Queued(ps[q]) \subseteq Queued(qs[q])
                 /\ <<"filterPing", who>> \in Carriers(q) => <<"filterLoad", q>> \in Queued(qs[q])
    BY <1>1 DEF Carriers
  <2>5. <<"filterLoad", q>> \in Carriers(q)
    BY DEF Carriers
  <2> QED
    BY <2>1, <2>2, <2>3, <2>4, <2>5
<1> QED
  BY <1>1, <1>2, <1>3 DEF PeerInv, HandInv, Kept

\* The same after the sync: all connected peers get the filter.
LoadsAll(ps, d, hasFilter, X, qs) ==
    /\ ps \in PeerMap /\ d \in Peer \cup {None} /\ HandInv(ps, d, hasFilter, X)
    /\ \A q \in Peer : ps[q].th = peer[q].th
    /\ qs = LoadPingAll(ps, Connected, "filterLoad")

LEMMA LoadAllInv ==
    ASSUME NEW ps, NEW d, NEW hasFilter, NEW X, NEW qs, LoadsAll(ps, d, hasFilter, X, qs)
    PROVE  Kept(ps, qs, d, TRUE)
<1> /\ ps \in PeerMap /\ d \in Peer \cup {None} /\ HandInv(ps, d, hasFilter, X)
    /\ \A q \in Peer : ps[q].th = peer[q].th
    /\ qs = LoadPingAll(ps, Connected, "filterLoad")
  BY DEF LoadsAll
<1> DEFINE load(q) == LoadPing(ps, q, "filterLoad", q)
<1>1. \A q \in Peer : qs[q] = IF q \in Connected THEN load(q)[q] ELSE ps[q]
  BY DEF LoadPingAll
<1>2. \A q \in Peer : /\ load(q)[q] \in PeerState /\ load(q)[q].th = ps[q].th
                      /\ load(q)[q].needsUpdate = ps[q].needsUpdate /\ load(q)[q].shut = ps[q].shut
                      /\ Queued(load(q)[q]) = Queued(ps[q]) \cup {<<"filterLoad", q>>}
  <2> TAKE q \in Peer
  <2>1. Refilled(ps, q, q, load(q))
    BY LoadPingFacts
  <2> HIDE DEF load
  <2>2. load(q) \in PeerMap
    BY <2>1 DEF Refilled
  <2> QED
    BY <2>1, <2>2, StateOf DEF Refilled
<1> HIDE DEF load
<1>3. ASSUME NEW q \in Peer
      PROVE  /\ qs[q] \in PeerState /\ qs[q].th = ps[q].th
             /\ qs[q].needsUpdate = ps[q].needsUpdate /\ qs[q].shut = ps[q].shut
             /\ q \in Connected => <<"filterLoad", q>> \in Queued(qs[q])
  BY <1>1, <1>2, StateOf
<1>4. qs \in PeerMap
  <2>1. qs = [q \in Peer |-> qs[q]]
    BY DEF LoadPingAll
  <2> QED
    BY <1>3, <2>1 DEF PeerMap
<1>5. d # None => qs[d].th \in {"greeted", "open", "draining"}
  BY <1>3 DEF HandInv
<1>6. ASSUME NEW q \in Peer
      PROVE  /\ qs[q].needsUpdate => qs[q].th \in {"greeted", "open", "draining"}
             /\ Updating(qs[q]) => q = d /\ Carriers(q) \cap (Queued(qs[q]) \cup {}) # {}
  <2>1. ps[q].needsUpdate => ps[q].th \in {"greeted", "open", "draining"}
    BY DEF HandInv
  <2>2. Updating(qs[q]) => Updating(ps[q]) /\ q \in Connected
    BY <1>3 DEF Updating, Connected
  <2>3. Updating(ps[q]) => q = d
    BY DEF HandInv
  <2>4. <<"filterLoad", q>> \in Carriers(q)
    BY DEF Carriers
  <2> QED
    BY <1>3, <2>1, <2>2, <2>3, <2>4
<1> QED
  BY <1>3, <1>4, <1>5, <1>6 DEF PeerInv, HandInv, Kept

\* The mark goes.
Clears(ps, d, hasFilter, who, qs) ==
    /\ ps \in PeerMap /\ d \in Peer \cup {None} /\ who \in Peer
    /\ HandInv(ps, d, hasFilter, {<<"filterLoad", who>>}) /\ qs = FlagCleared(ps, who)

LEMMA FlagInv ==
    ASSUME NEW ps, NEW d, NEW hasFilter, NEW who, NEW qs, Clears(ps, d, hasFilter, who, qs)
    PROVE  Kept(ps, qs, d, hasFilter)
<1> /\ ps \in PeerMap /\ d \in Peer \cup {None} /\ who \in Peer
    /\ HandInv(ps, d, hasFilter, {<<"filterLoad", who>>}) /\ qs = FlagCleared(ps, who)
  BY DEF Clears
<1> DEFINE b == [ps[who] EXCEPT !.needsUpdate = FALSE]
<1>1. qs = Set(ps, who, b)
  BY DEF FlagCleared, Set, PeerMap
<1>2. /\ b \in PeerState /\ b.th = ps[who].th /\ ~ b.needsUpdate /\ b.shut = ps[who].shut
      /\ b.pongs = ps[who].pongs
  BY StateOf DEF PeerState
<1> HIDE DEF b
<1>3. qs \in PeerMap /\ qs[who] = b /\ \A q \in Peer : q # who => qs[q] = ps[q]
  BY <1>1, <1>2 DEF Set, PeerMap
<1>4. \A q \in Peer : Queued(qs[q]) = Queued(ps[q]) /\ qs[q].th = ps[q].th
  <2> TAKE q \in Peer
  <2>1. qs[q].pongs = ps[q].pongs /\ qs[q].th = ps[q].th
    BY <1>2, <1>3
  <2> QED
    BY <2>1 DEF Queued
<1>5. d # None => qs[d].th \in {"greeted", "open", "draining"} /\ (hasFilter \/ qs[d].needsUpdate)
  <2>1. d = who => hasFilter
    BY PeerAssumption DEF HandInv, PeerAssumption
  <2>2. d # None => ps[d].th \in {"greeted", "open", "draining"} /\ (hasFilter \/ ps[d].needsUpdate)
    BY DEF HandInv
  <2> QED
    BY <1>3, <1>4, <2>1, <2>2
<1>6. ASSUME NEW q \in Peer
      PROVE  /\ qs[q].needsUpdate => qs[q].th \in {"greeted", "open", "draining"}
             /\ Updating(qs[q]) => q = d /\ Carriers(q) \cap (Queued(qs[q]) \cup {}) # {}
             /\ d # None /\ <<"filterLoad", d>> \in Queued(qs[q]) => hasFilter
  <2>1. CASE q = who
    BY <1>2, <1>3, <1>4, <2>1 DEF HandInv, Updating
  <2>2. CASE q # who
    <3>1. <<"filterLoad", who>> \notin Carriers(q)
      BY <2>2 DEF Carriers
    <3>2. qs[q] = ps[q]
      BY <1>3, <2>2
    <3> QED
      BY <3>1, <3>2 DEF HandInv
  <2> QED
    BY <2>1, <2>2
<1> QED
  BY <1>3, <1>4, <1>5, <1>6 DEF PeerInv, HandInv, Kept

\* _BRPeerManagerUpdateFilter: the mark comes with its callback.
LEMMA UpdateFilterInv ==
    ASSUME NEW ps, ps \in PeerMap, downloadPeer \in Peer \cup {None}, NEW hadFilter, NEW hasFilter, NEW qs,
           PeerInv(ps, downloadPeer, hadFilter), qs = UpdateFilter(ps),
           \A q \in Peer : downloadPeer # None /\ <<"filterLoad", downloadPeer>> \in Queued(ps[q]) => hasFilter
    PROVE  qs \in PeerMap /\ PeerInv(qs, downloadPeer, hasFilter) /\ \A q \in Peer : qs[q].th = ps[q].th
<1>1. CASE downloadPeer = None \/ ps[downloadPeer].needsUpdate
  <2>1. qs = ps
    BY <1>1 DEF UpdateFilter
  <2> QED
    BY <1>1, <2>1 DEF PeerInv, HandInv
<1>2. CASE ~(downloadPeer = None \/ ps[downloadPeer].needsUpdate)
  <2> DEFINE d == downloadPeer
             b == [ps[d] EXCEPT !.needsUpdate = TRUE]
             rs == [ps EXCEPT ![d].needsUpdate = TRUE]
             x == <<"filterPing", d>>
  <2>0. d \in Peer
    BY <1>2
  <2>1. rs = Set(ps, d, b) /\ qs = Ping(rs, d, "filterPing", d)
    BY <1>2 DEF Set, PeerMap, UpdateFilter
  <2>2. /\ b \in PeerState /\ b.th = ps[d].th /\ b.needsUpdate /\ b.shut = ps[d].shut
        /\ b.pongs = ps[d].pongs
    BY <2>0, StateOf DEF PeerState
  <2> HIDE DEF b, rs
  <2>3. rs \in PeerMap /\ rs[d] = b /\ \A q \in Peer : q # d => rs[q] = ps[q]
    BY <2>0, <2>1, <2>2 DEF Set, PeerMap
  <2>4. "filterPing" \in Callback /\ x \in Pongs
    BY <2>0 DEF Callback, Pongs
  <2>5. qs = Set(rs, d, Asked(rs[d], x)) /\ qs \in PeerMap
    BY <2>0, <2>1, <2>3, <2>4, PingIsSet
  <2>6. qs[d] = Asked(b, x) /\ \A q \in Peer : q # d => qs[q] = ps[q]
    BY <2>0, <2>3, <2>5 DEF Set, PeerMap
  <2>7. Queued(b) = Queued(ps[d])
    BY <2>2 DEF Queued
  <2>8. /\ Queued(qs[d]) = Queued(ps[d]) \cup {x} /\ qs[d].th = ps[d].th /\ qs[d].needsUpdate
    BY <2>2, <2>4, <2>6, <2>7, AskedFacts
  <2>9. ps[d].th \in {"greeted", "open", "draining"}
    BY <1>2 DEF PeerInv, HandInv
  <2>10. ASSUME NEW q \in Peer
         PROVE  /\ qs[q].th = ps[q].th
                /\ qs[q].needsUpdate => qs[q].th \in {"greeted", "open", "draining"}
                /\ Updating(qs[q]) => q = d /\ Carriers(q) \cap (Queued(qs[q]) \cup {}) # {}
                /\ d # None /\ <<"filterLoad", d>> \in Queued(qs[q]) => hasFilter
    <3>1. CASE q = d
      <4>1. x \in Carriers(q) /\ <<"filterLoad", d>> # x
        BY <3>1 DEF Carriers
      <4> QED
        BY <2>8, <2>9, <3>1, <4>1
    <3>2. CASE q # d
      BY <2>6, <3>2 DEF PeerInv, HandInv
    <3> QED
      BY <3>1, <3>2
  <2> QED
    BY <2>5, <2>8, <2>9, <2>10 DEF PeerInv, HandInv
<1> QED
  BY <1>1, <1>2

LEMMA AheadGrows ==
    ASSUME NEW a \in PeerState, NEW b \in PeerState, b.pongs = a.pongs, Ahead(a.th, b.th),
           b.needsUpdate = a.needsUpdate, b.shut = "no" => a.shut = "no"
    PROVE  Grows(a, b)
<1>1. Queued(b) = Queued(a)
  BY DEF Queued
<1> QED
  BY <1>1 DEF Grows

LEMMA OpenGrows ==
    ASSUME NEW ps, ps \in PeerMap, NEW p \in Peer, NEW th \in Thread, Ahead(ps[p].th, th)
    PROVE  GrowsAll(ps, [ps EXCEPT ![p].th = th])
<1> DEFINE b == [ps[p] EXCEPT !.th = th]
           qs == [ps EXCEPT ![p].th = th]
<1>1. /\ b \in PeerState /\ b.pongs = ps[p].pongs /\ b.th = th
      /\ b.needsUpdate = ps[p].needsUpdate /\ b.shut = ps[p].shut
  BY StateOf DEF PeerState
<1>2. qs = Set(ps, p, b)
  BY DEF Set, PeerMap
<1> HIDE DEF b, qs
<1>3. Grows(ps[p], b)
  BY <1>1, StateOf, AheadGrows
<1>4. GrowsAll(ps, qs)
  BY <1>2, <1>3, SetGrows
<1> QED
  BY <1>4 DEF qs

\* The thread of p takes a callback.
LEMMA TailPopped ==
    ASSUME NEW ps, ps \in PeerMap, NEW p \in Peer, ps[p].pongs # <<>>, NEW qs,
           qs = [ps EXCEPT ![p].pongs = Tail(@)]
    PROVE  Popped(ps, p, qs, Head(ps[p].pongs))
<1> DEFINE a == ps[p]
           b == [a EXCEPT !.pongs = Tail(a.pongs)]
<1>1. Pops(a, b)
  BY StateOf DEF Pops
<1>2. qs = Set(ps, p, b)
  BY DEF Set, PeerMap
<1> HIDE DEF a, b
<1>3. /\ b \in PeerState /\ b.th = a.th /\ b.needsUpdate = a.needsUpdate /\ b.shut = a.shut
      /\ Head(a.pongs) \in Pongs
      /\ Queued(a) = Queued(b) \cup {Head(a.pongs)}
  BY <1>1, PopFacts
<1>4. qs \in PeerMap /\ qs[p] = b /\ \A q \in Peer : q # p => qs[q] = ps[q]
  BY <1>2, <1>3 DEF Set, PeerMap
<1> QED
  BY <1>3, <1>4 DEF Popped, a

LEMMA GrownPopped ==
    ASSUME NEW ps, NEW qs, NEW rs, NEW p \in Peer, NEW x, GrowsAll(ps, qs), Popped(qs, p, rs, x),
           \A q \in Peer : q # p => qs[q] = ps[q], Queued(qs[p]) = Queued(ps[p]), qs[p].th = ps[p].th
    PROVE  Popped(ps, p, rs, x)
<1>1. qs[p].needsUpdate = ps[p].needsUpdate /\ (qs[p].shut = "no" => ps[p].shut = "no")
  BY DEF GrowsAll, Grows
<1> QED
  BY <1>1 DEF Popped, GrowsAll

LEMMA PongPopped ==
    ASSUME peer \in PeerMap, NEW p \in Peer, peer[p].pongs # <<>>, NEW up,
           up = [Taken(p) EXCEPT ![p].pongs = Tail(@)]
    PROVE  Popped(peer, p, up, Head(peer[p].pongs))
<1> DEFINE ps == Taken(p)
<1>1. GrowsAll(peer, ps) /\ ps[p].th = peer[p].th /\ ps[p].pongs = peer[p].pongs /\ ps \in PeerMap
  BY TakenGrows DEF GrowsAll
<1>2. \A q \in Peer : q # p => ps[q] = peer[q]
  BY DEF Taken, PeerMap
<1>3. Queued(ps[p]) = Queued(peer[p])
  BY <1>1 DEF Queued
<1> HIDE DEF ps
<1>4. up = [ps EXCEPT ![p].pongs = Tail(@)]
  BY DEF ps
<1>5. Popped(ps, p, up, Head(ps[p].pongs))
  BY <1>1, <1>4, TailPopped
<1> QED
  BY <1>1, <1>2, <1>3, <1>5, GrownPopped

-----------------------------------------------------------------------------
(* The steps. *)

LEMMA InitInv == Init => Inv
<1> SUFFICES ASSUME Init PROVE Inv
  OBVIOUS
<1> DEFINE b == NewPeer("out")
<1>1. b \in PeerState /\ b.th = "out" /\ b.pongs = <<>> /\ b.needsUpdate = FALSE
  BY EmptySeq DEF NewPeer, PeerState, Thread, Errors
<1>2. Queued(b) = {}
  BY <1>1 DEF Queued
<1> HIDE DEF b
<1>3. peer = [q \in Peer |-> b]
  BY DEF Init, b
<1>4. peer \in PeerMap /\ \A q \in Peer : peer[q] = b
  BY <1>1, <1>3 DEF PeerMap
<1>5. calls \in [Step -> Nat]
  BY DEF Init
<1>6. 0 \in 0..MaxHeight /\ 0 \in 0..MaxEvents
  BY CountAssumption DEF CountAssumption
<1>7. Typed
  BY <1>4, <1>5, <1>6, PeerAssumption DEF Init, Typed, PeerAssumption
<1>8. PeerInv(peer, downloadPeer, filter)
  BY <1>1, <1>2, <1>4 DEF Init, PeerInv, HandInv, Updating
<1>9. SyncInv
  BY DEF Init, SyncInv
<1> QED
  BY <1>7, <1>8, <1>9 DEF Inv

\* What steps that leave the list of peers and the calls as they are do besides.
Others ==
    /\ UNCHANGED <<downloadPeer, peers, reachable, calls>> /\ waiting' \in BOOLEAN
    /\ filter' \in BOOLEAN /\ running' \in BOOLEAN /\ syncing' \in BOOLEAN /\ (syncing' => syncing)
    /\ failures' \in Nat /\ (failures' = failures \/ InList # {})
    /\ height' \in 0..MaxHeight /\ estimated' \in 0..MaxHeight /\ events' \in 0..MaxEvents

LEMMA OutStep ==
    ASSUME Inv, Others, peer' \in PeerMap, PeerInv(peer', downloadPeer, filter'),
           \A q \in Peer : peer'[q].th = "out" <=> peer[q].th = "out"
    PROVE  Inv'
<1>1. Typed'
  BY DEF Inv, Typed, Others
<1>2. InList' = InList
  BY DEF InList
<1>3. SyncInv'
  BY <1>2 DEF Inv, SyncInv, Others
<1>4. PeerInv(peer', downloadPeer', filter')
  BY DEF Others
<1> QED
  BY <1>1, <1>3, <1>4 DEF Inv

LEMMA GrowStep ==
    ASSUME Inv, Others, GrowsAll(peer, peer'), filter' = filter \/ filter' = TRUE
    PROVE  Inv'
<1>1. PeerInv(peer, downloadPeer, filter') /\ downloadPeer \in Peer \cup {None}
  BY FilterInv DEF Inv, PeerInv, Typed
<1>2. PeerInv(peer', downloadPeer, filter')
  BY <1>1, GrowsInv DEF PeerInv
<1>3. peer' \in PeerMap /\ \A q \in Peer : peer'[q].th = "out" <=> peer[q].th = "out"
  BY DEF GrowsAll, Grows, Ahead
<1> QED
  BY <1>2, <1>3, OutStep

LEMMA EventTyped == ASSUME events \in 0..MaxEvents, Event PROVE events' \in 0..MaxEvents
BY CountAssumption DEF Event, CountAssumption

LEMMA OpenSocketInv == ASSUME Inv, NEW p \in Peer, OpenSocket(p) PROVE Inv'
<1>1. GrowsAll(peer, peer')
  BY OpenGrows DEF OpenSocket, Inv, Typed, Ahead, Thread
<1>2. Others
  BY DEF OpenSocket, Inv, Typed, Others
<1> QED
  BY <1>1, <1>2, GrowStep DEF OpenSocket

LEMMA GreetedInv == ASSUME Inv, NEW p \in Peer, Greeted(p) PROVE Inv'
<1> DEFINE ps == Taken(p)
           qs == [ps EXCEPT ![p].th = "greeted"]
           rs == [qs EXCEPT ![p].timer = FALSE]
<1>1. GrowsAll(peer, ps) /\ ps[p].th = "opening" /\ ps \in PeerMap
  BY TakenGrows DEF Inv, Typed, Greeted, GrowsAll
<1>2. peer' = rs
  BY DEF Greeted
<1> HIDE DEF ps
<1>3. GrowsAll(ps, qs) /\ qs \in PeerMap
  BY <1>1, OpenGrows DEF Ahead, Thread, GrowsAll
<1> HIDE DEF qs
<1>4. GrowsAll(qs, rs)
  BY <1>3, TimerAll
<1> HIDE DEF rs
<1>5. GrowsAll(peer, peer')
  BY <1>1, <1>2, <1>3, <1>4, GrowsFurther
<1>6. Others
  BY DEF Greeted, Inv, Typed, Others
<1> QED
  BY <1>5, <1>6, GrowStep DEF Greeted

LEMMA MempoolTimerInv == ASSUME Inv, NEW p \in Peer, MempoolTimer(p) PROVE Inv'
<1> DEFINE ps == Taken(p)
           m == IF ps[p].mempool = "asked" THEN "sent" ELSE "no"
           qs == [ps EXCEPT ![p].mempool = m]
           rs == Ping(qs, p, "mempoolDone", p)
<1>1. GrowsAll(peer, ps) /\ ps \in PeerMap
  BY TakenGrows DEF Inv, Typed, GrowsAll
<1>2. peer' = rs
  BY DEF MempoolTimer
<1>3. m \in {"no", "asked", "sent", "again"}
  OBVIOUS
<1> HIDE DEF m, ps
<1>4. GrowsAll(ps, qs) /\ qs \in PeerMap
  BY <1>1, <1>3, MempoolAll DEF GrowsAll
<1> HIDE DEF qs
<1>5. GrowsAll(qs, rs)
  BY <1>4, PingGrows DEF Callback
<1> HIDE DEF rs
<1>6. GrowsAll(peer, peer')
  BY <1>1, <1>2, <1>4, <1>5, GrowsFurther
<1>7. Others
  BY DEF MempoolTimer, Inv, Typed, Others
<1> QED
  BY <1>6, <1>7, GrowStep DEF MempoolTimer

\* The handshake makes p one of the connections that the manager uses.
LEMMA GreetedOpens ==
    ASSUME Inv, NEW p \in Peer, peer[p].th = "greeted", NEW up, up = [peer EXCEPT ![p].th = "open"]
    PROVE  GrowsAll(peer, up) /\ up \in PeerMap
BY OpenGrows DEF Inv, Typed, Ahead, Thread, GrowsAll

LEMMA UnfitInv ==
    ASSUME Inv, NEW p \in Peer, PeerConnected(p), PeerUnfit(p, [peer EXCEPT ![p].th = "open"])
    PROVE  Inv'
<1> DEFINE up == [peer EXCEPT ![p].th = "open"]
<1>1. GrowsAll(peer, up) /\ up \in PeerMap
  BY GreetedOpens DEF PeerConnected
<1>2. peer' = ShutOwn(up, p)
  BY DEF PeerUnfit
<1> HIDE DEF up
<1>3. GrowsAll(peer, peer')
  BY <1>1, <1>2, ShutAll, GrowsFurther
<1>4. Others
  BY DEF PeerConnected, PeerUnfit, Inv, Typed, Others
<1> QED
  BY <1>3, <1>4, GrowStep DEF PeerUnfit

LEMMA BesideInv ==
    ASSUME Inv, NEW p \in Peer, PeerConnected(p), PeerBeside(p, [peer EXCEPT ![p].th = "open"])
    PROVE  Inv'
<1> DEFINE up == [peer EXCEPT ![p].th = "open"]
<1>1. GrowsAll(peer, up) /\ up \in PeerMap
  BY GreetedOpens DEF PeerConnected
<1>2. peer' = LoadPing(up, p, "bloomDone", p) \/ peer' = up
  BY DEF PeerBeside
<1>3. p \in InList
  BY DEF PeerConnected, InList
<1>4. failures' = 0 \/ failures' = failures
  BY DEF PeerBeside
<1>5. filter' = TRUE \/ filter' = filter
  BY DEF PeerBeside
<1>6. UNCHANGED <<downloadPeer, estimated, syncing, height, peers, reachable, calls, waiting, running, events>>
  BY DEF PeerConnected, PeerBeside
<1> HIDE DEF up
<1>7. GrowsAll(peer, peer')
  BY <1>1, <1>2, LoadPingGrows, GrowsFurther
<1>8. filter' \in BOOLEAN /\ failures' \in Nat
  <2>1. filter' \in BOOLEAN
    BY <1>5, Zenon DEF Inv, Typed
  <2>2. failures' \in Nat
    BY <1>4 DEF Inv, Typed
  <2> QED
    BY <2>1, <2>2
<1>9. Others
  BY <1>3, <1>4, <1>6, <1>8 DEF Inv, Typed, Others
<1> QED
  BY <1>5, <1>7, <1>9, GrowStep

\* The old download peer is shut, and nobody waits for an update any more.
LEMMA ChosenPeers ==
    ASSUME NEW ps, ps \in PeerMap, NEW d \in Peer \cup {None}, NEW hasFilter, PeerInv(ps, d, hasFilter),
           NEW q \in Peer, ps[q].th \in {"greeted", "open"}, NEW qs,
           qs = IF d = None THEN ps ELSE Shut(ps, d)
    PROVE  GrowsAll(ps, qs) /\ qs \in PeerMap /\ PeerInv(qs, q, TRUE)
<1>1. GrowsAll(ps, qs) /\ qs \in PeerMap
  BY ShutAll, AllSameGrows DEF GrowsAll
<1>2. PeerInv(qs, d, hasFilter)
  BY <1>1, GrowsInv DEF PeerInv
<1>3. \A r \in Peer : ~ Updating(qs[r])
  <2> SUFFICES ASSUME NEW r \in Peer, Updating(qs[r]) PROVE FALSE
    OBVIOUS
  <2>1. r = d /\ d # None
    BY <1>2, PeerAssumption DEF PeerInv, HandInv, PeerAssumption
  <2>2. qs = Shut(ps, r)
    BY <2>1
  <2> QED
    BY <2>2, ShutAll
<1>4. qs[q].th \in {"greeted", "open", "draining"}
  BY <1>1 DEF GrowsAll, Grows, Ahead
<1> QED
  BY <1>1, <1>2, <1>3, <1>4 DEF PeerInv, HandInv

LEMMA ChosenInv ==
    ASSUME Inv, NEW p \in Peer, PeerConnected(p), PeerChosen(p, [peer EXCEPT ![p].th = "open"])
    PROVE  Inv'
<1> DEFINE up == [peer EXCEPT ![p].th = "open"]
           old == IF downloadPeer = None THEN up ELSE Shut(up, downloadPeer)
           loaded(q) == [old EXCEPT ![q].mempool = Loaded(@)]
<1>1. GrowsAll(peer, up) /\ up \in PeerMap
  BY GreetedOpens DEF PeerConnected
<1>2. PICK q \in Best : /\ downloadPeer' = q /\ estimated' = PeerLast[q] /\ filter' = TRUE
                        /\ \/ /\ peer' = [loaded(q) EXCEPT ![q].timer = TRUE]
                              /\ failures' = failures
                           \/ peer' = LoadMempools(loaded(q), q, FALSE) /\ failures' = 0
  BY DEF PeerChosen
<1>3. q \in Peer /\ peer[q].th \in {"greeted", "open"} /\ p \in InList
  BY DEF Best, Connected, PeerConnected, InList
<1> HIDE DEF up
<1>4. up[q].th \in {"greeted", "open"} /\ PeerInv(up, downloadPeer, filter)
  BY <1>1, <1>3, GrowsInv DEF GrowsAll, Grows, Ahead, PeerInv, Inv, Typed
<1>5. GrowsAll(up, old) /\ old \in PeerMap /\ PeerInv(old, q, TRUE)
  BY <1>1, <1>3, <1>4, ChosenPeers DEF Inv, Typed
<1> HIDE DEF old
<1>6. GrowsAll(old, loaded(q)) /\ loaded(q) \in PeerMap
  BY <1>3, <1>5, LoadedGrows DEF GrowsAll
<1> HIDE DEF loaded
<1>7. GrowsAll(loaded(q), peer')
  <2>1. q \in Peer /\ TRUE \in BOOLEAN /\ FALSE \in BOOLEAN
    BY <1>3
  <2>2. CASE peer' = [loaded(q) EXCEPT ![q].timer = TRUE]
    BY <1>6, <2>1, <2>2, TimerAll
  <2>3. CASE peer' = LoadMempools(loaded(q), q, FALSE)
    BY <1>6, <2>1, <2>3, LoadMempoolsGrows
  <2> QED
    BY <1>2, <2>2, <2>3
<1>8. GrowsAll(old, peer')
  BY <1>6, <1>7, GrowsFurther
<1>9. PeerInv(peer', downloadPeer', filter')
  BY <1>2, <1>3, <1>5, <1>8, GrowsInv DEF PeerInv
<1>10. GrowsAll(up, peer')
  BY <1>5, <1>8, GrowsFurther
<1>11. GrowsAll(peer, peer')
  BY <1>1, <1>10, GrowsFurther
<1>12. InList' = InList /\ peer' \in PeerMap
  BY <1>11 DEF InList, GrowsAll, Grows, Ahead
<1>13. PeerLast[q] \in 0..MaxHeight
  BY <1>3, PeerAssumption, CountAssumption DEF PeerAssumption, CountAssumption
<1>14. UNCHANGED <<syncing, height, peers, reachable, calls, waiting, running, events>>
  BY DEF PeerConnected
<1>15. failures' \in Nat /\ filter' \in BOOLEAN /\ estimated' \in 0..MaxHeight /\ downloadPeer' \in Peer
  <2>1. filter' \in BOOLEAN
    BY <1>2, Zenon
  <2>2. failures' = failures \/ failures' = 0
    BY <1>2
  <2>3. failures' \in Nat
    BY <2>2 DEF Inv, Typed
  <2> QED
    BY <1>2, <1>3, <1>13, <2>1, <2>3
<1>16. Typed'
  BY <1>12, <1>14, <1>15 DEF Inv, Typed
<1>17. SyncInv'
  BY <1>3, <1>12 DEF SyncInv
<1> QED
  BY <1>9, <1>16, <1>17 DEF Inv

LEMMA PeerConnectedInv == ASSUME Inv, NEW p \in Peer, PeerConnected(p) PROVE Inv'
BY UnfitInv, BesideInv, ChosenInv DEF PeerConnected

LEMMA BlockIgnoredInv ==
    ASSUME Inv, NEW p \in Peer, Block(p), BlockIgnored(p), UNCHANGED events
    PROVE  Inv'
<1> DEFINE ps == Taken(p)
<1>1. GrowsAll(peer, ps) /\ ps \in PeerMap
  BY TakenGrows DEF Inv, Typed, GrowsAll
<1>2. peer' = [ps EXCEPT ![p].timer = TRUE] \/ peer' = ps
  BY DEF BlockIgnored
<1> HIDE DEF ps
<1>3. GrowsAll(peer, peer')
  BY <1>1, <1>2, TimerAll, GrowsFurther
<1>4. p \in InList
  BY DEF Block, Message, InList
<1>5. Others
  BY <1>4 DEF Block, BlockIgnored, Inv, Typed, Others
<1> QED
  BY <1>3, <1>5, GrowStep DEF Block

LEMMA BlockAddedInv ==
    ASSUME Inv, NEW p \in Peer, Block(p), NEW rate \in FalsePositiveRate, NEW reload \in BOOLEAN,
           BlockAdded(p, rate, reload), events' \in 0..MaxEvents
    PROVE  Inv'
<1> DEFINE seen == CASE rate = "low" -> Taken(p)
                     [] rate = "degraded" -> UpdateFilter(Taken(p))
                     [] rate = "high" -> ShutOwn(peer, p)
           progress == height + 1 < estimated /\ p = downloadPeer
           timed == IF progress THEN [seen EXCEPT ![p].timer = TRUE] ELSE seen
<1>1. /\ peer' = LoadMempools(timed, downloadPeer, reload) \/ peer' = timed
      /\ height' = height + 1 /\ (estimated' = height + 1 \/ estimated' = estimated)
      /\ failures' = 0 \/ failures' = failures
  BY DEF BlockAdded
<1>2. GrowsAll(peer, Taken(p)) /\ GrowsAll(peer, ShutOwn(peer, p)) /\ Taken(p) \in PeerMap
  BY TakenGrows, ShutAll DEF Inv, Typed, GrowsAll
<1>3. /\ seen \in PeerMap /\ PeerInv(seen, downloadPeer, filter)
      /\ \A q \in Peer : seen[q].th = "out" <=> peer[q].th = "out"
  <2>1. CASE rate = "low"
    <3>1. seen = Taken(p)
      BY <2>1
    <3> HIDE DEF seen
    <3> QED
      BY <1>2, <3>1, GrowsInv DEF PeerInv, Inv, Typed, GrowsAll, Grows, Ahead
  <2>2. CASE rate = "high"
    <3>1. seen = ShutOwn(peer, p)
      BY <2>2
    <3> HIDE DEF seen
    <3> QED
      BY <1>2, <3>1, GrowsInv DEF PeerInv, Inv, Typed, GrowsAll, Grows, Ahead
  <2>3. CASE rate = "degraded"
    <3> DEFINE ps == Taken(p)
    <3>1. seen = UpdateFilter(ps)
      BY <2>3
    <3> HIDE DEF ps, seen
    <3>2. ps \in PeerMap /\ GrowsAll(peer, ps)
      BY <1>2 DEF ps
    <3>3. PeerInv(ps, downloadPeer, filter) /\ downloadPeer \in Peer \cup {None}
      BY <3>2, GrowsInv DEF PeerInv, Inv, Typed
    <3>4. \A q \in Peer : downloadPeer # None /\ <<"filterLoad", downloadPeer>> \in Queued(ps[q]) => filter
      BY <3>3 DEF PeerInv, HandInv
    <3>5. seen \in PeerMap /\ PeerInv(seen, downloadPeer, filter) /\ \A q \in Peer : seen[q].th = ps[q].th
      BY <3>1, <3>2, <3>3, <3>4, UpdateFilterInv
    <3> QED
      BY <3>2, <3>5 DEF GrowsAll, Grows, Ahead
  <2> QED
    BY <2>1, <2>2, <2>3 DEF FalsePositiveRate
<1> HIDE DEF seen, progress
<1>4. GrowsAll(seen, timed) /\ timed \in PeerMap
  BY <1>3, TimerAll, AllSameGrows DEF GrowsAll
<1> HIDE DEF timed
<1>5. GrowsAll(seen, peer')
  BY <1>1, <1>4, LoadMempoolsGrows, GrowsFurther
<1>6. PeerInv(peer', downloadPeer, filter')
  BY <1>3, <1>5, GrowsInv DEF PeerInv, Block, Inv, Typed
<1>7. peer' \in PeerMap /\ \A q \in Peer : peer'[q].th = "out" <=> peer[q].th = "out"
  BY <1>3, <1>5 DEF GrowsAll, Grows, Ahead
<1>8. p \in InList
  BY DEF Block, Message, InList
<1>9. height + 1 \in 0..MaxHeight
  BY CountAssumption DEF Block, Inv, Typed, CountAssumption
<1>10. Others
  BY <1>1, <1>8, <1>9 DEF Block, Inv, Typed, Others
<1> QED
  BY <1>6, <1>7, <1>10, OutStep

LEMMA BlockInv == ASSUME Inv, NEW p \in Peer, Block(p) PROVE Inv'
<1>1. CASE BlockIgnored(p) /\ UNCHANGED events
  BY <1>1, BlockIgnoredInv
<1>2. CASE \E rate \in FalsePositiveRate, reload \in BOOLEAN :
             /\ IF rate = "low" THEN UNCHANGED events ELSE p = downloadPeer /\ Event
             /\ BlockAdded(p, rate, reload)
  <2>1. PICK rate \in FalsePositiveRate, reload \in BOOLEAN :
               /\ IF rate = "low" THEN UNCHANGED events ELSE p = downloadPeer /\ Event
               /\ BlockAdded(p, rate, reload)
    BY <1>2
  <2>2. events' \in 0..MaxEvents
    BY <2>1, EventTyped DEF Inv, Typed
  <2> QED
    BY <2>1, <2>2, BlockAddedInv
<1> QED
  BY <1>1, <1>2 DEF Block

LEMMA RelayedTxInv == ASSUME Inv, NEW p \in Peer, RelayedTx(p) PROVE Inv'
<1> DEFINE ps == Taken(p)
<1>1. GrowsAll(peer, ps) /\ ps \in PeerMap
  BY TakenGrows DEF Inv, Typed, GrowsAll
<1>2. peer' = UpdateFilter(ps) /\ filter' = FALSE
  BY DEF RelayedTx
<1> HIDE DEF ps
<1>3. PeerInv(ps, downloadPeer, filter) /\ downloadPeer \in Peer \cup {None}
  BY <1>1, GrowsInv DEF PeerInv, Inv, Typed
<1>4. \A q \in Peer : downloadPeer # None => <<"filterLoad", downloadPeer>> \notin Queued(peer[q])
  BY DEF RelayedTx, Loading, Queued
<1>5. \A q \in Peer : downloadPeer # None /\ <<"filterLoad", downloadPeer>> \in Queued(ps[q]) => filter'
  BY <1>1, <1>3, <1>4 DEF GrowsAll, Grows
<1>6. peer' \in PeerMap /\ PeerInv(peer', downloadPeer, filter') /\ \A q \in Peer : peer'[q].th = ps[q].th
  BY <1>1, <1>2, <1>3, <1>5, UpdateFilterInv
<1>7. \A q \in Peer : peer'[q].th = "out" <=> peer[q].th = "out"
  BY <1>1, <1>6 DEF GrowsAll, Grows, Ahead
<1>8. Others
  BY <1>2, EventTyped DEF RelayedTx, Inv, Typed, Others
<1> QED
  BY <1>6, <1>7, <1>8, OutStep

-----------------------------------------------------------------------------
(* The callbacks of a pong. *)

LEMMA GrowsKept ==
    ASSUME NEW ps, NEW qs, NEW d \in Peer \cup {None}, NEW hasFilter, PeerInv(ps, d, hasFilter),
           GrowsAll(ps, qs)
    PROVE  Kept(ps, qs, d, hasFilter)
<1>1. PeerInv(qs, d, hasFilter)
  BY GrowsInv DEF PeerInv
<1>2. qs \in PeerMap /\ \A q \in Peer : qs[q].th = "out" <=> ps[q].th = "out"
  BY DEF GrowsAll, Grows, Ahead
<1> QED
  BY <1>1, <1>2 DEF Kept

LEMMA FilterPingKept ==
    ASSUME Typed, NEW up, up \in PeerMap, \A q \in Peer : up[q].th = peer[q].th,
           NEW who \in Peer \cup {None},
           HandInv(up, downloadPeer, filter, {<<"filterPing", who>>}), FilterPingDone(up, who)
    PROVE  Kept(up, peer', downloadPeer, filter')
<1>0. downloadPeer \in Peer \cup {None}
  BY DEF Typed
<1>1. CASE Behind /\ downloadPeer = None
  <2>1. peer' = up
    BY <1>1 DEF FilterPingDone
  <2>2. \A q \in Peer : ~ Updating(up[q])
    BY <1>1, PeerAssumption DEF HandInv, PeerAssumption
  <2>3. PeerInv(up, downloadPeer, filter')
    BY <1>1, <2>2 DEF PeerInv, HandInv
  <2> QED
    BY <2>1, <2>3 DEF Kept
<1>2. CASE Behind /\ downloadPeer # None
  <2>1. filter' = TRUE /\ peer' = LoadPing(up, downloadPeer, "filterLoad", who)
    BY <1>2 DEF FilterPingDone
  <2>2. LoadsOne(up, downloadPeer, filter, who, peer')
    BY <1>0, <1>2, <2>1 DEF LoadsOne
  <2> QED
    BY <2>1, <2>2, LoadOneInv
<1>3. CASE ~Behind
  <2>1. filter' = TRUE /\ peer' = LoadPingAll(up, Connected, "filterLoad")
    BY <1>3 DEF FilterPingDone
  <2>2. LoadsAll(up, downloadPeer, filter, {<<"filterPing", who>>}, peer')
    BY <1>0, <2>1 DEF LoadsAll
  <2> QED
    BY <2>1, <2>2, LoadAllInv
<1> QED
  BY <1>1, <1>2, <1>3

LEMMA FilterLoadKept ==
    ASSUME Typed, NEW up, up \in PeerMap, NEW who \in Peer \cup {None},
           HandInv(up, downloadPeer, filter, {<<"filterLoad", who>>}), FilterLoadDone(up, who)
    PROVE  Kept(up, peer', downloadPeer, filter')
<1> DEFINE seen == IF who = None THEN up ELSE FlagCleared(up, who)
<1>0. downloadPeer \in Peer \cup {None} /\ filter' = filter
  BY DEF Typed, FilterLoadDone
<1>1. \/ peer' = seen
      \/ downloadPeer # None /\ peer' = Ping(seen, downloadPeer, "rerequest", who)
      \/ who # None /\ peer' = SendMempool(seen, who, FALSE)
  BY DEF FilterLoadDone
<1>2. Kept(up, seen, downloadPeer, filter)
  <2>1. CASE who = None
    <3>1. \A q \in Peer : <<"filterLoad", who>> \notin Carriers(q)
      BY <2>1, PeerAssumption DEF Carriers, PeerAssumption
    <3>2. PeerInv(up, downloadPeer, filter)
      BY <3>1, HandEmptied
    <3> QED
      BY <2>1, <3>2 DEF Kept
  <2>2. CASE who # None
    <3>1. seen = FlagCleared(up, who)
      BY <2>2
    <3> HIDE DEF seen
    <3>2. Clears(up, downloadPeer, filter, who, seen)
      BY <1>0, <2>2, <3>1 DEF Clears
    <3> QED
      BY <3>2, FlagInv
  <2> QED
    BY <2>1, <2>2
<1> HIDE DEF seen
<1>3. seen \in PeerMap /\ PeerInv(seen, downloadPeer, filter)
  BY <1>2 DEF Kept
<1>4. GrowsAll(seen, peer')
  <2>1. "rerequest" \in Callback /\ FALSE \in BOOLEAN
    BY DEF Callback
  <2>2. CASE peer' = seen
    BY <1>3, <2>2, AllSameGrows
  <2>3. CASE downloadPeer # None /\ peer' = Ping(seen, downloadPeer, "rerequest", who)
    BY <1>0, <1>3, <2>1, <2>3, PingGrows
  <2>4. CASE who # None /\ peer' = SendMempool(seen, who, FALSE)
    BY <1>3, <2>1, <2>4, SendMempoolGrows
  <2> QED
    BY <1>1, <2>2, <2>3, <2>4
<1>5. Kept(seen, peer', downloadPeer, filter)
  BY <1>0, <1>3, <1>4, GrowsKept
<1>6. Kept(up, peer', downloadPeer, filter)
  BY <1>2, <1>5 DEF Kept
<1> QED
  BY <1>0, <1>6

\* The other callbacks only let peers go on.
LEMMA OtherPongKept ==
    ASSUME Typed, NEW up, up \in PeerMap, NEW p \in Peer, NEW cb \in Callback, NEW who \in Peer \cup {None},
           HandInv(up, downloadPeer, filter, {<<cb, who>>}),
           \/ cb = "rerequest" /\ RerequestDone(up, who)
           \/ cb = "bloomDone" /\ BloomDone(up, p)
           \/ cb = "mempoolDone" /\ MempoolDone(up)
    PROVE  Kept(up, peer', downloadPeer, filter')
<1>0. downloadPeer \in Peer \cup {None} /\ filter' = filter
  BY DEF Typed, RerequestDone, BloomDone, MempoolDone
<1>1. \A q \in Peer : <<cb, who>> \notin Carriers(q)
  BY DEF Carriers
<1>2. PeerInv(up, downloadPeer, filter)
  BY <1>1, HandEmptied
<1>3. peer' = up \/ peer' = SendMempool(up, p, TRUE) \/ peer' = Unscheduled(up, downloadPeer)
  BY DEF RerequestDone, BloomDone, MempoolDone
<1>4. GrowsAll(up, peer')
  BY <1>0, <1>3, AllSameGrows, SendMempoolGrows, UnscheduledGrows
<1> QED
  BY <1>0, <1>2, <1>4, GrowsKept

LEMMA PongInv == ASSUME Inv, NEW p \in Peer, Pong(p) PROVE Inv'
<1> DEFINE x == Head(peer[p].pongs)
           cb == x[1]
           who == x[2]
           up == [Taken(p) EXCEPT ![p].pongs = Tail(@)]
<1>1. Popped(peer, p, up, x)
  BY PongPopped DEF Pong, Inv, Typed
<1>2. x = <<cb, who>> /\ cb \in Callback /\ who \in Peer \cup {None}
  BY <1>1 DEF Popped, Pongs
<1>3. \/ cb = "filterPing"  /\ FilterPingDone(up, who)
      \/ cb = "filterLoad"  /\ FilterLoadDone(up, who)
      \/ cb = "rerequest"   /\ RerequestDone(up, who)
      \/ cb = "bloomDone"   /\ BloomDone(up, p)
      \/ cb = "mempoolDone" /\ MempoolDone(up)
  BY DEF Pong
<1> HIDE DEF x, up, cb, who
<1>4. up \in PeerMap /\ \A q \in Peer : up[q].th = peer[q].th
  BY <1>1 DEF Popped
<1>5. HandInv(up, downloadPeer, filter, {<<cb, who>>}) /\ Typed
  BY <1>1, <1>2, PoppedInv DEF Inv, Typed
<1>6. Kept(up, peer', downloadPeer, filter')
  <2>1. CASE cb = "filterPing" /\ FilterPingDone(up, who)
    BY <1>2, <1>4, <1>5, <2>1, FilterPingKept
  <2>2. CASE cb = "filterLoad" /\ FilterLoadDone(up, who)
    BY <1>2, <1>4, <1>5, <2>2, FilterLoadKept
  <2>3. CASE \/ cb = "rerequest"   /\ RerequestDone(up, who)
             \/ cb = "bloomDone"   /\ BloomDone(up, p)
             \/ cb = "mempoolDone" /\ MempoolDone(up)
    BY <1>2, <1>4, <1>5, <2>3, OtherPongKept
  <2> QED
    BY <1>3, <2>1, <2>2, <2>3
<1>7. filter' \in BOOLEAN
  BY <1>3, <1>5, Zenon DEF Typed, FilterPingDone, FilterLoadDone, RerequestDone, BloomDone, MempoolDone
<1>8. running' \in BOOLEAN
  BY <1>3, <1>5, Zenon DEF Typed, FilterPingDone, FilterLoadDone, RerequestDone, BloomDone, MempoolDone
<1>9. syncing' \in BOOLEAN /\ (syncing' => syncing)
  <2>1. syncing' = FALSE \/ syncing' = syncing
    BY <1>3 DEF FilterPingDone, FilterLoadDone, RerequestDone, BloomDone, MempoolDone
  <2>2. syncing \in BOOLEAN
    BY <1>5 DEF Typed
  <2>3. syncing' \in BOOLEAN
    BY <2>1, <2>2, Zenon
  <2>4. syncing' => syncing
    BY <2>1, <2>2, Zenon
  <2> QED
    BY <2>3, <2>4
<1>10. UNCHANGED <<downloadPeer, failures, height, estimated, peers, reachable, calls, waiting, events>>
  BY DEF Pong
<1>11. Others
  BY <1>5, <1>7, <1>8, <1>9, <1>10 DEF Typed, Others
<1> QED
  BY <1>4, <1>6, <1>11, OutStep DEF Kept

-----------------------------------------------------------------------------
(* The end of a connection. *)

LEMMA DrainInv == ASSUME Inv, NEW p \in Peer, Drain(p) PROVE Inv'
<1> DEFINE x == Head(peer[p].pongs)
           up == [peer EXCEPT ![p].pongs = Tail(@)]
<1>0. downloadPeer \in Peer \cup {None} /\ filter' = filter /\ peer \in PeerMap
  BY DEF Drain, Inv, Typed
<1>1. Popped(peer, p, up, x)
  BY <1>0, TailPopped DEF Drain
<1>2. peer' = Unscheduled(up, p) \/ peer' = up
  BY DEF Drain
<1> HIDE DEF x, up
<1>3. PeerInv(up, downloadPeer, filter)
  <2>1. HandInv(up, downloadPeer, filter, {x})
    BY <1>0, <1>1, PoppedInv DEF Inv
  <2>2. ASSUME NEW q \in Peer
        PROVE  Updating(up[q]) => q = downloadPeer /\ Carriers(q) \cap (Queued(up[q]) \cup {}) # {}
    <3>1. CASE q = p
      <4>1. up[q].th = "draining"
        BY <1>1, <3>1 DEF Popped, Drain
      <4> QED
        BY <4>1 DEF Updating
    <3>2. CASE q # p
      <4>1. up[q] = peer[q]
        BY <1>1, <3>2 DEF Popped
      <4> QED
        BY <4>1 DEF Inv, PeerInv, HandInv
    <3> QED
      BY <3>1, <3>2
  <2> QED
    BY <2>1, <2>2 DEF PeerInv, HandInv
<1>4. GrowsAll(up, peer')
  BY <1>1, <1>2, AllSameGrows, UnscheduledGrows DEF Popped
<1>5. Kept(up, peer', downloadPeer, filter')
  BY <1>0, <1>3, <1>4, GrowsKept
<1>6. \A q \in Peer : up[q].th = peer[q].th
  BY <1>1 DEF Popped
<1>7. syncing' \in BOOLEAN /\ (syncing' => syncing)
  BY DEF Drain, Inv, Typed
<1>8. Others
  BY <1>7 DEF Drain, Inv, Typed, Others
<1> QED
  BY <1>5, <1>6, <1>8, OutStep DEF Kept

LEMMA CloseInv == ASSUME Inv, NEW p \in Peer, NEW error \in Errors, Close(p, error) PROVE Inv'
<1> DEFINE b == [NewPeer("draining") EXCEPT !.error = error, !.pongs = peer[p].pongs,
                                            !.needsUpdate = peer[p].needsUpdate]
<1>0. downloadPeer \in Peer \cup {None} /\ filter' = filter /\ peer \in PeerMap /\ peer[p].th \in {"opening", "open"}
  BY DEF Close, Inv, Typed
<1>1. /\ b \in PeerState /\ b.th = "draining" /\ b.pongs = peer[p].pongs
      /\ b.needsUpdate = peer[p].needsUpdate
  BY <1>0, StateOf DEF PeerState, NewPeer, Thread, Errors
<1>2. peer' = [peer EXCEPT ![p] = b]
  BY DEF Close
<1> HIDE DEF b
<1>3. peer' \in PeerMap /\ peer'[p] = b /\ \A q \in Peer : q # p => peer'[q] = peer[q]
  BY <1>0, <1>1, <1>2 DEF PeerMap
<1>4. Queued(b) = Queued(peer[p])
  BY <1>1 DEF Queued
<1>5. PeerInv(peer, downloadPeer, filter)
  BY DEF Inv
<1>6. downloadPeer # None => /\ peer'[downloadPeer].th \in {"greeted", "open", "draining"}
                             /\ filter \/ peer'[downloadPeer].needsUpdate
  <2>1. downloadPeer # None => /\ peer[downloadPeer].th \in {"greeted", "open", "draining"}
                               /\ filter \/ peer[downloadPeer].needsUpdate
    BY <1>5 DEF PeerInv, HandInv
  <2>2. CASE downloadPeer = p
    BY <1>1, <1>3, <2>1, <2>2
  <2>3. CASE downloadPeer # p
    BY <1>0, <1>3, <2>1, <2>3
  <2> QED
    BY <2>2, <2>3
<1>7. ASSUME NEW q \in Peer
      PROVE  /\ peer'[q].needsUpdate => peer'[q].th \in {"greeted", "open", "draining"}
             /\ Updating(peer'[q]) => q = downloadPeer /\ Carriers(q) \cap (Queued(peer'[q]) \cup {}) # {}
             /\ downloadPeer # None /\ <<"filterLoad", downloadPeer>> \in Queued(peer'[q]) \cup {} => filter
             /\ peer'[q].th = "out" <=> peer[q].th = "out"
  <2>1. CASE q = p
    <3>1. peer'[q] = b /\ Queued(b) = Queued(peer[q])
      BY <1>3, <1>4, <2>1
    <3>2. ~ Updating(b)
      BY <1>1 DEF Updating
    <3> QED
      BY <1>0, <1>1, <1>5, <2>1, <3>1, <3>2 DEF PeerInv, HandInv
  <2>2. CASE q # p
    BY <1>3, <1>5, <2>2 DEF PeerInv, HandInv
  <2> QED
    BY <2>1, <2>2
<1>8. PeerInv(peer', downloadPeer, filter')
  BY <1>0, <1>6, <1>7 DEF PeerInv, HandInv
<1>9. events' \in 0..MaxEvents
  BY EventTyped DEF Close, Inv, Typed
<1>10. Others
  BY <1>9 DEF Close, Inv, Typed, Others
<1> QED
  BY <1>3, <1>7, <1>8, <1>10, OutStep

\* A peer whose callbacks lose p.
Frees(r, p, b) ==
    /\ r \in PeerState /\ p \in Peer
    /\ b = [r EXCEPT !.pongs = [i \in DOMAIN @ |-> IF @[i][2] = p THEN <<@[i][1], None>> ELSE @[i]]]

LEMMA FreedFacts ==
    ASSUME NEW r, NEW p, NEW b, Frees(r, p, b)
    PROVE  /\ b \in PeerState /\ b.th = r.th /\ b.needsUpdate = r.needsUpdate /\ b.shut = r.shut
           /\ \A q \in Peer : q # p => \A cb \in Callback : <<cb, q>> \in Queued(b) <=> <<cb, q>> \in Queued(r)
<1> DEFINE s == r.pongs
           freed(i) == IF s[i][2] = p THEN <<s[i][1], None>> ELSE s[i]
           t == [i \in DOMAIN s |-> freed(i)]
<1>1. s \in Seq(Pongs) /\ p \in Peer
  BY DEF Frees, PeerState
<1>2. DOMAIN s = 1..Len(s) /\ Len(s) \in Nat /\ \A i \in DOMAIN s : s[i] \in Pongs
  BY <1>1
<1>3. \A i \in DOMAIN s : freed(i) \in Pongs
  BY <1>2 DEF Pongs
<1>4. t \in Seq(Pongs)
  <2> HIDE DEF freed
  <2>1. t \in [1..Len(s) -> Pongs]
    BY <1>2, <1>3
  <2> QED
    BY <1>2, <2>1
<1>5. DOMAIN t = DOMAIN s /\ \A i \in DOMAIN s : t[i] = freed(i)
  OBVIOUS
<1>6. ASSUME NEW q \in Peer, q # p, NEW cb \in Callback, NEW i \in DOMAIN s
      PROVE  t[i] = <<cb, q>> <=> s[i] = <<cb, q>>
  <2>1. s[i] = <<s[i][1], s[i][2]>>
    BY <1>2 DEF Pongs
  <2>2. None # q
    BY PeerAssumption DEF PeerAssumption
  <2>3. CASE s[i][2] = p
    <3>1. t[i] = <<s[i][1], None>>
      BY <1>5, <2>3
    <3> QED
      BY <1>6, <2>1, <2>2, <2>3, <3>1
  <2>4. CASE s[i][2] # p
    BY <1>5, <2>4
  <2> QED
    BY <2>3, <2>4
<1> HIDE DEF t
<1>7. b = [r EXCEPT !.pongs = t]
  BY DEF Frees, t
<1>8. b \in PeerState /\ b.th = r.th /\ b.needsUpdate = r.needsUpdate /\ b.shut = r.shut /\ b.pongs = t
  BY <1>4, <1>7 DEF Frees, PeerState
<1>9. ASSUME NEW q \in Peer, q # p, NEW cb \in Callback
      PROVE  <<cb, q>> \in Queued(b) <=> <<cb, q>> \in Queued(r)
  <2>1. Queued(b) = {t[i] : i \in DOMAIN s} /\ Queued(r) = {s[i] : i \in DOMAIN s}
    BY <1>5, <1>8 DEF Queued
  <2>2. \A i \in DOMAIN s : t[i] = <<cb, q>> <=> s[i] = <<cb, q>>
    BY <1>6, <1>9
  <2> HIDE DEF s
  <2> QED
    BY <2>1, <2>2
<1> QED
  BY <1>8, <1>9

\* The peers when p has gone.
LEMMA FreedPeers ==
    ASSUME Inv, NEW p \in Peer, NEW qs, qs = Freed(peer, p)
    PROVE  /\ qs \in PeerMap /\ PeerInv(qs, Gone(p), filter)
           /\ \A q \in Peer : q # p => qs[q].th = peer[q].th
<1> DEFINE d == downloadPeer
           lose(q) == [peer[q] EXCEPT !.pongs = [i \in DOMAIN @ |-> IF @[i][2] = p THEN <<@[i][1], None>> ELSE @[i]]]
           b == NewPeer("out")
<1>1. peer \in PeerMap /\ d \in Peer \cup {None} /\ PeerInv(peer, d, filter)
  BY DEF Inv, Typed
<1>2. b \in PeerState /\ b.th = "out" /\ b.pongs = <<>> /\ b.needsUpdate = FALSE
  BY EmptySeq DEF NewPeer, PeerState, Thread, Errors
<1>3. Queued(b) = {}
  BY <1>2 DEF Queued
<1>4. \A q \in Peer : qs[q] = IF q = p THEN b ELSE lose(q)
  BY DEF Freed
<1>5. \A q \in Peer : Frees(peer[q], p, lose(q))
  BY <1>1, StateOf DEF Frees
<1>6. qs = [q \in Peer |-> qs[q]]
  BY DEF Freed
<1> HIDE DEF lose, b
<1>7. ASSUME NEW q \in Peer, q # p
      PROVE  /\ qs[q] \in PeerState /\ qs[q].th = peer[q].th
             /\ qs[q].needsUpdate = peer[q].needsUpdate /\ qs[q].shut = peer[q].shut
             /\ \A r \in Peer : r # p => \A cb \in Callback : <<cb, r>> \in Queued(qs[q]) <=> <<cb, r>> \in Queued(peer[q])
  <2>1. qs[q] = lose(q) /\ Frees(peer[q], p, lose(q))
    BY <1>4, <1>5, <1>7
  <2> QED
    BY <2>1, FreedFacts
<1>8. \A q \in Peer : qs[q] \in PeerState
  BY <1>2, <1>4, <1>7
<1>9. qs \in PeerMap
  BY <1>6, <1>8 DEF PeerMap
<1>10. Gone(p) # None => /\ Gone(p) = d /\ d # p /\ d \in Peer
                         /\ qs[d].th \in {"greeted", "open", "draining"} /\ (filter \/ qs[d].needsUpdate)
  <2>1. Gone(p) # None => Gone(p) = d /\ d # p /\ d \in Peer
    BY <1>1 DEF Gone
  <2>2. d # None => peer[d].th \in {"greeted", "open", "draining"} /\ (filter \/ peer[d].needsUpdate)
    BY <1>1 DEF PeerInv, HandInv
  <2> QED
    BY <1>7, <2>1, <2>2
<1>11. ASSUME NEW q \in Peer
       PROVE  /\ qs[q].needsUpdate => qs[q].th \in {"greeted", "open", "draining"}
              /\ Updating(qs[q]) => q = Gone(p) /\ Carriers(q) \cap (Queued(qs[q]) \cup {}) # {}
              /\ Gone(p) # None /\ <<"filterLoad", Gone(p)>> \in Queued(qs[q]) \cup {} => filter
  <2>0. "filterLoad" \in Callback /\ "filterPing" \in Callback
    BY DEF Callback
  <2>1. CASE q = p
    <3>1. qs[q] = b
      BY <1>4, <2>1
    <3> QED
      BY <1>2, <1>3, <3>1 DEF Updating
  <2>2. CASE q # p
    <3>1. /\ peer[q].needsUpdate => peer[q].th \in {"greeted", "open", "draining"}
          /\ Updating(peer[q]) => q = d /\ Carriers(q) \cap Queued(peer[q]) # {}
          /\ d # None /\ <<"filterLoad", d>> \in Queued(peer[q]) => filter
      BY <1>1 DEF PeerInv, HandInv
    <3>2. Updating(qs[q]) => Updating(peer[q])
      BY <1>7, <2>2 DEF Updating
    <3>3. q = d => q = Gone(p)
      BY <2>2 DEF Gone
    <3>4. Carriers(q) \cap Queued(peer[q]) # {} => Carriers(q) \cap Queued(qs[q]) # {}
      BY <1>7, <2>0, <2>2 DEF Carriers
    <3>5. Gone(p) # None /\ <<"filterLoad", Gone(p)>> \in Queued(qs[q]) => <<"filterLoad", d>> \in Queued(peer[q])
      BY <1>7, <1>10, <2>0, <2>2
    <3>6. Gone(p) # None => d # None
      BY <1>10
    <3> QED
      BY <1>7, <2>2, <3>1, <3>2, <3>3, <3>4, <3>5, <3>6
  <2> QED
    BY <2>1, <2>2
<1>12. PeerInv(qs, Gone(p), filter)
  BY <1>10, <1>11 DEF PeerInv, HandInv
<1> QED
  BY <1>7, <1>9, <1>12

LEMMA DisconnectedInv == ASSUME Inv, NEW p \in Peer, Disconnected(p) PROVE Inv'
<1> DEFINE error == peer[p].error
           failed == IF error \in {"reset", "timeout"} THEN failures + 1 ELSE failures
           capped == IF p = downloadPeer /\ failed > MaxConnectFailures THEN MaxConnectFailures ELSE failed
           stops == Gone(p) = None /\ capped = MaxConnectFailures
<1>1. /\ failures' = capped /\ downloadPeer' = Gone(p) /\ peer' = Freed(peer, p)
      /\ syncing' = (syncing /\ ~stops)
      /\ calls' = IF ~stops /\ capped < MaxConnectFailures THEN [calls EXCEPT !["enter"] = @ + 1] ELSE calls
      /\ UNCHANGED <<height, estimated, filter, reachable, waiting, running, events>>
  BY DEF Disconnected
<1>2. peers' \subseteq Peer
  BY DEF Disconnected, Inv, Typed
<1>3. capped \in Nat
  <2>1. failed \in Nat
    BY DEF Inv, Typed
  <2> HIDE DEF failed
  <2> QED
    BY <2>1, CountAssumption DEF CountAssumption
<1> HIDE DEF capped
<1>4. /\ peer' \in PeerMap /\ PeerInv(peer', Gone(p), filter)
      /\ \A q \in Peer : q # p => peer'[q].th = peer[q].th
  BY <1>1, FreedPeers
<1>5. Gone(p) \in Peer \cup {None}
  BY DEF Gone, Inv, Typed
<1>6. calls \in [Step -> Nat] /\ "enter" \in Step
  BY DEF Inv, Typed, Step
<1>7. calls' \in [Step -> Nat] /\ (~stops /\ capped < MaxConnectFailures => calls'["enter"] > 0)
  BY <1>1, <1>6
<1>8. PeerInv(peer', downloadPeer', filter')
  BY <1>1, <1>4
<1>9. syncing' \in BOOLEAN
  BY <1>1
<1>10. Typed'
  BY <1>1, <1>2, <1>3, <1>4, <1>5, <1>7, <1>9 DEF Inv, Typed
<1>11. SyncInv'
  <2> SUFFICES ASSUME syncing' PROVE InList' # {} \/ (\E k \in Step : calls'[k] > 0) \/ failures' > MaxConnectFailures
    BY DEF SyncInv
  <2>1. ~stops
    BY <1>1
  <2>2. CASE Gone(p) # None
    <3>1. Gone(p) \in Peer /\ peer'[Gone(p)].th # "out"
      BY <1>4, <1>5, <2>2 DEF PeerInv, HandInv
    <3> QED
      BY <3>1 DEF InList
  <2>3. CASE Gone(p) = None
    <3>1. capped < MaxConnectFailures \/ capped > MaxConnectFailures
      BY <1>3, <2>1, <2>3, CountAssumption DEF CountAssumption
    <3> QED
      BY <1>1, <1>6, <1>7, <2>1, <3>1
  <2> QED
    BY <2>2, <2>3
<1> QED
  BY <1>8, <1>10, <1>11 DEF Inv

-----------------------------------------------------------------------------
(* BRPeerManagerConnect and the other calls of the application. *)

LEMMA BeginThread == Begin \in {"starting", "waiting"}
BY DEF Begin

\* New connections take the place of peers that were not in the list.
LEMMA JoinedPeers ==
    ASSUME NEW ps, ps \in PeerMap, NEW d \in Peer \cup {None}, NEW hasFilter, PeerInv(ps, d, hasFilter),
           NEW S, \A q \in Peer : q \in S => ps[q].th = "out", NEW qs,
           qs = [q \in Peer |-> IF q \in S THEN NewPeer(Begin) ELSE ps[q]]
    PROVE  /\ qs \in PeerMap /\ PeerInv(qs, d, hasFilter)
           /\ \A q \in Peer : qs[q].th # "out" <=> ps[q].th # "out" \/ q \in S
<1> DEFINE b == NewPeer(Begin)
<1>1. b \in PeerState /\ b.th \in {"starting", "waiting"} /\ b.pongs = <<>> /\ b.needsUpdate = FALSE
  BY EmptySeq, BeginThread DEF NewPeer, PeerState, Thread, Errors
<1>2. Queued(b) = {}
  BY <1>1 DEF Queued
<1>3. \A q \in Peer : qs[q] = IF q \in S THEN b ELSE ps[q]
  OBVIOUS
<1>4. qs = [q \in Peer |-> qs[q]]
  OBVIOUS
<1> HIDE DEF b
<1>5. qs \in PeerMap
  <2>1. \A q \in Peer : qs[q] \in PeerState
    BY <1>1, <1>3, StateOf
  <2> QED
    BY <1>4, <2>1 DEF PeerMap
<1>6. d # None => qs[d].th \in {"greeted", "open", "draining"} /\ (hasFilter \/ qs[d].needsUpdate)
  <2>1. d # None => /\ d \in Peer /\ ps[d].th \in {"greeted", "open", "draining"}
                    /\ (hasFilter \/ ps[d].needsUpdate)
    BY DEF PeerInv, HandInv
  <2>2. d # None => qs[d] = ps[d]
    BY <1>3, <2>1
  <2> QED
    BY <2>1, <2>2
<1>7. ASSUME NEW q \in Peer
      PROVE  /\ qs[q].needsUpdate => qs[q].th \in {"greeted", "open", "draining"}
             /\ Updating(qs[q]) => q = d /\ Carriers(q) \cap (Queued(qs[q]) \cup {}) # {}
             /\ d # None /\ <<"filterLoad", d>> \in Queued(qs[q]) \cup {} => hasFilter
             /\ qs[q].th # "out" <=> ps[q].th # "out" \/ q \in S
  <2>1. CASE q \in S
    <3>1. qs[q] = b
      BY <1>3, <2>1
    <3> QED
      BY <1>1, <1>2, <2>1, <3>1 DEF Updating
  <2>2. CASE q \notin S
    <3>1. qs[q] = ps[q]
      BY <1>3, <2>2
    <3> QED
      BY <2>2, <3>1 DEF PeerInv, HandInv
  <2> QED
    BY <2>1, <2>2
<1> QED
  BY <1>5, <1>6, <1>7 DEF PeerInv, HandInv

\* What the three steps leave alone.
ConnectLeaves ==
    UNCHANGED <<downloadPeer, height, estimated, filter, reachable, waiting, running, events>>

LEMMA AddInv ==
    ASSUME Inv, NEW k \in Step, Pending(k), NEW ps, GrowsAll(peer, ps), Add(k, ps), ConnectLeaves,
           failures' \in Nat, peers' \subseteq Peer
    PROVE  Inv'
<1> DEFINE in == {p \in Peer : ps[p].th # "out"}
<1>1. PICK S \in SUBSET (peers' \ in) :
         /\ peer' = [p \in Peer |-> IF p \in S THEN NewPeer(Begin) ELSE ps[p]]
         /\ syncing' = (syncing /\ ~SyncFails(in \cup S))
         /\ calls' = Returned(k)
  BY DEF Add
<1>2. ps \in PeerMap /\ PeerInv(ps, downloadPeer, filter) /\ downloadPeer \in Peer \cup {None}
  BY GrowsInv DEF GrowsAll, Inv, PeerInv, Typed
<1>3. \A q \in Peer : q \in S => ps[q].th = "out"
  OBVIOUS
<1>4. /\ peer' \in PeerMap /\ PeerInv(peer', downloadPeer, filter)
      /\ \A q \in Peer : peer'[q].th # "out" <=> ps[q].th # "out" \/ q \in S
  BY <1>1, <1>2, <1>3, JoinedPeers
<1>5. calls' \in [Step -> Nat]
  BY <1>1 DEF Pending, Returned, Inv, Typed
<1>6. syncing' \in BOOLEAN
  BY <1>1
<1>7. Typed'
  BY <1>4, <1>5, <1>6 DEF Inv, Typed, ConnectLeaves
<1>8. PeerInv(peer', downloadPeer', filter')
  BY <1>4 DEF ConnectLeaves
<1>9. SyncInv'
  <2>1. S \subseteq Peer
    OBVIOUS
  <2>2. InList' = in \cup S
    BY <1>4, <2>1 DEF InList
  <2>3. syncing' => in \cup S # {}
    BY <1>1 DEF SyncFails
  <2> QED
    BY <2>2, <2>3 DEF SyncInv
<1> QED
  BY <1>7, <1>8, <1>9 DEF Inv

LEMMA JoinInv ==
    ASSUME Inv, NEW k \in {"enter", "begun"}, Pending(k), Join(k), ConnectLeaves, failures' \in Nat
    PROVE  Inv'
<1> DEFINE ps == [p \in Peer |-> IF peer[p].th = "waiting" THEN [peer[p] EXCEPT !.th = Begin] ELSE peer[p]]
<1>1. GrowsAll(peer, ps)
  <2>1. peer \in PeerMap
    BY DEF Inv, Typed
  <2>2. ASSUME NEW p \in Peer PROVE Grows(peer[p], ps[p])
    <3>1. peer[p] \in PeerState
      BY <2>1, StateOf
    <3>2. CASE peer[p].th = "waiting"
      <4> DEFINE b == [peer[p] EXCEPT !.th = Begin]
      <4>1. /\ b \in PeerState /\ b.th = Begin /\ b.pongs = peer[p].pongs
            /\ b.needsUpdate = peer[p].needsUpdate /\ b.shut = peer[p].shut
        BY <3>1, BeginThread DEF PeerState, Thread
      <4>2. ps[p] = b
        BY <3>2
      <4> HIDE DEF b, ps
      <4>3. Ahead(peer[p].th, b.th)
        BY <3>2, <4>1, BeginThread DEF Ahead
      <4>4. Grows(peer[p], b)
        BY <3>1, <4>1, <4>3, AheadGrows
      <4> QED
        BY <4>2, <4>4
    <3>3. CASE peer[p].th # "waiting"
      <4>1. ps[p] = peer[p]
        BY <3>3
      <4> HIDE DEF ps
      <4> QED
        BY <3>1, <4>1, SameGrows
    <3> QED
      BY <3>2, <3>3
  <2>3. ps = [p \in Peer |-> ps[p]]
    OBVIOUS
  <2> HIDE DEF ps
  <2>4. \A p \in Peer : ps[p] \in PeerState
    BY <2>2 DEF Grows
  <2> QED
    BY <2>1, <2>2, <2>3, <2>4 DEF GrowsAll, PeerMap
<1>2. k \in Step
  BY DEF Step
<1>3. CASE peer' = ps /\ calls' = Moved(k, "found") /\ UNCHANGED <<peers, syncing>>
  <2> HIDE DEF ps
  <2>1. calls \in [Step -> Nat] /\ calls[k] > 0 /\ "found" \in Step
    BY DEF Inv, Typed, Pending, Step
  <2>2. calls' \in [Step -> Nat] /\ calls'["found"] > 0
    BY <1>2, <1>3, <2>1 DEF Moved
  <2>3. peer' \in PeerMap /\ PeerInv(peer', downloadPeer, filter)
    BY <1>1, <1>3, GrowsInv DEF GrowsAll, Inv, PeerInv, Typed
  <2>4. Typed'
    BY <1>3, <2>2, <2>3 DEF Inv, Typed, ConnectLeaves
  <2>5. SyncInv'
    BY <2>1, <2>2 DEF SyncInv
  <2>6. PeerInv(peer', downloadPeer', filter')
    BY <2>3 DEF ConnectLeaves
  <2> QED
    BY <2>4, <2>5, <2>6 DEF Inv
<1>4. CASE peers' = peers /\ Add(k, ps)
  <2>1. peers' \subseteq Peer
    BY <1>4 DEF Inv, Typed
  <2> HIDE DEF ps
  <2> QED
    BY <1>1, <1>2, <1>4, <2>1, AddInv
<1> QED
  BY <1>3, <1>4 DEF Join

LEMMA ConnectInv == ASSUME Inv, Connecting PROVE Inv'
<1>1. CASE ConnectEnter
  <2>1. failures' \in Nat /\ ConnectLeaves
    BY <1>1 DEF ConnectEnter, ConnectLeaves, Inv, Typed
  <2>2. CASE Join("enter")
    BY <1>1, <2>1, <2>2, JoinInv DEF ConnectEnter
  <2>3. CASE syncing' = TRUE /\ calls' = Moved("enter", "begun") /\ UNCHANGED <<peer, peers>>
    <3>1. calls \in [Step -> Nat] /\ calls["enter"] > 0 /\ "enter" \in Step /\ "begun" \in Step
      BY <1>1 DEF Inv, Typed, ConnectEnter, Pending, Step
    <3>2. calls' \in [Step -> Nat] /\ calls'["begun"] > 0
      BY <2>3, <3>1 DEF Moved
    <3>3. Typed'
      BY <2>1, <2>3, <3>2 DEF Inv, Typed, ConnectLeaves
    <3>4. PeerInv(peer', downloadPeer', filter')
      BY <2>1, <2>3 DEF Inv, ConnectLeaves
    <3>5. SyncInv'
      BY <3>1, <3>2 DEF SyncInv
    <3> QED
      BY <3>3, <3>4, <3>5 DEF Inv
  <2> QED
    BY <1>1, <2>2, <2>3 DEF ConnectEnter
<1>2. CASE ConnectBegun
  <2>1. failures' \in Nat /\ ConnectLeaves
    BY <1>2 DEF ConnectBegun, ConnectLeaves, Inv, Typed
  <2> QED
    BY <1>2, <2>1, JoinInv DEF ConnectBegun
<1>3. CASE ConnectFound
  <2>1. failures' \in Nat /\ ConnectLeaves /\ peers' \subseteq Peer /\ "found" \in Step
    BY <1>3 DEF ConnectFound, ConnectLeaves, Inv, Typed, Step
  <2>2. GrowsAll(peer, peer)
    BY AllSameGrows DEF Inv, Typed
  <2> QED
    BY <1>3, <2>1, <2>2, AddInv DEF ConnectFound
<1> QED
  BY <1>1, <1>2, <1>3 DEF Connecting

LEMMA UserConnectInv == ASSUME Inv, UserConnect PROVE Inv'
<1>1. calls \in [Step -> Nat] /\ "enter" \in Step
  BY DEF Inv, Typed, Step
<1>2. calls' \in [Step -> Nat] /\ calls'["enter"] > 0
  BY <1>1 DEF UserConnect
<1>3. events' \in 0..MaxEvents
  BY EventTyped DEF UserConnect, Inv, Typed
<1>4. Typed'
  BY <1>2, <1>3 DEF Inv, Typed, UserConnect
<1>5. PeerInv(peer', downloadPeer', filter')
  BY DEF Inv, UserConnect
<1>6. SyncInv'
  BY <1>1, <1>2 DEF SyncInv
<1> QED
  BY <1>4, <1>5, <1>6 DEF Inv

LEMMA UserDisconnectInv == ASSUME Inv, UserDisconnect PROVE Inv'
<1>1. peer \in PeerMap
  BY DEF Inv, Typed
<1>2. peer' = [q \in Peer |-> peer'[q]]
  BY DEF UserDisconnect
<1>3. \A q \in Peer : peer'[q] = Shut(peer, q)[q]
  BY DEF UserDisconnect
<1>4. \A q \in Peer : Grows(peer[q], peer'[q])
  BY <1>1, <1>3, ShutAll DEF GrowsAll
<1>5. \A q \in Peer : peer'[q] \in PeerState
  BY <1>4 DEF Grows
<1>6. GrowsAll(peer, peer')
  BY <1>1, <1>2, <1>4, <1>5 DEF GrowsAll, PeerMap
<1>7. failures' \in Nat /\ (failures' = failures \/ InList # {})
  BY CountAssumption DEF UserDisconnect, Inv, Typed, CountAssumption
<1>8. events' \in 0..MaxEvents
  BY EventTyped DEF UserDisconnect, Inv, Typed
<1>9. Others
  BY <1>7, <1>8 DEF UserDisconnect, Inv, Typed, Others
<1> QED
  BY <1>6, <1>9, GrowStep DEF UserDisconnect

LEMMA DisconnectDoneInv == ASSUME Inv, DisconnectDone PROVE Inv'
<1>1. GrowsAll(peer, peer')
  BY AllSameGrows DEF DisconnectDone, Inv, Typed
<1>2. Others
  BY DEF DisconnectDone, Inv, Typed, Others
<1> QED
  BY <1>1, <1>2, GrowStep DEF DisconnectDone

LEMMA RescanInv == ASSUME Inv, Rescan PROVE Inv'
<1>1. calls \in [Step -> Nat] /\ "enter" \in Step /\ downloadPeer \in Peer /\ peer \in PeerMap
  BY DEF Inv, Typed, Step, Rescan
<1>2. calls' \in [Step -> Nat]
  BY <1>1 DEF Rescan
<1>3. events' \in 0..MaxEvents /\ 0 \in 0..MaxHeight
  BY EventTyped, CountAssumption DEF Rescan, Inv, Typed, CountAssumption
<1>4. GrowsAll(peer, peer')
  BY <1>1, ShutAll DEF Rescan
<1>5. peer' \in PeerMap /\ PeerInv(peer', downloadPeer, filter)
  BY <1>1, <1>4, GrowsInv DEF GrowsAll, Inv, PeerInv
<1>6. Typed'
  BY <1>2, <1>3, <1>5 DEF Inv, Typed, Rescan
<1>7. PeerInv(peer', downloadPeer', filter')
  BY <1>5 DEF Rescan
<1>8. SyncInv'
  BY DEF SyncInv, Rescan
<1> QED
  BY <1>6, <1>7, <1>8 DEF Inv

LEMMA StutterInv == ASSUME Inv, UNCHANGED vars PROVE Inv'
<1>1. Typed'
  BY DEF Inv, Typed, vars
<1>2. PeerInv(peer', downloadPeer', filter')
  BY DEF Inv, vars
<1>3. SyncInv'
  BY DEF Inv, SyncInv, InList, vars
<1> QED
  BY <1>1, <1>2, <1>3 DEF Inv

LEMMA StepInv == Inv /\ [Next]_vars => Inv'
<1> SUFFICES ASSUME Inv, [Next]_vars PROVE Inv'
  OBVIOUS
<1>1. CASE Connecting \/ UserConnect \/ UserDisconnect \/ DisconnectDone \/ Rescan
  BY <1>1, ConnectInv, UserConnectInv, UserDisconnectInv, DisconnectDoneInv, RescanInv
<1>2. ASSUME NEW p \in Peer,
             \/ OpenSocket(p) \/ Greeted(p) \/ PeerConnected(p) \/ Block(p) \/ RelayedTx(p) \/ Pong(p)
             \/ MempoolTimer(p) \/ Drain(p) \/ Disconnected(p)
             \/ \E error \in Errors : Close(p, error)
      PROVE  Inv'
  BY <1>2, OpenSocketInv, GreetedInv, PeerConnectedInv, BlockInv, RelayedTxInv, PongInv, MempoolTimerInv,
     DrainInv, DisconnectedInv, CloseInv
<1>3. CASE UNCHANGED vars
  BY <1>3, StutterInv
<1> QED
  BY <1>1, <1>2, <1>3 DEF Next

-----------------------------------------------------------------------------
LEMMA Invariance == Spec => []Inv
<1>1. Inv /\ [Next]_vars => Inv'
  BY StepInv
<1> QED
  BY InitInv, <1>1, PTL DEF Spec

\* The types, whatever a thread does and other threads do between its steps
\* (struct BRPeerManagerStruct, BRPeerContext).
THEOREM SyncTyped == Spec => []TypeOK
<1>1. Inv => TypeOK
  BY DEF Inv, Typed, TypeOK, PeerMap, PeerState, Pongs
<1> QED
  BY <1>1, Invariance, PTL

\* manager->downloadPeer is a connection that has shaken hands and is still in the list, and
\* its blocks are not ignored for ever (_peerRelayedBlock, _BRPeerManagerUpdateFilter).
THEOREM ServesCorrect == Spec => []DownloadPeerServes
<1>1. Inv => DownloadPeerServes
  BY DEF Inv, PeerInv, HandInv, DownloadPeerServes
<1> QED
  BY <1>1, Invariance, PTL

\* PEER_FLAG_NEEDSUPDATE of the download peer comes with a callback that will clear it, so
\* _BRPeerManagerUpdateFilter is right to start no other update.
THEOREM UpdateCorrect == Spec => []UpdateIsUnderWay
<1>1. Inv => UpdateIsUnderWay
  <2> SUFFICES ASSUME Inv, downloadPeer \in Connected, peer[downloadPeer].needsUpdate,
                      peer[downloadPeer].shut = "no"
               PROVE  \E p \in Peer : \E i \in DOMAIN peer[p].pongs :
                         peer[p].pongs[i] \in {<<"filterPing", downloadPeer>>, <<"filterLoad", downloadPeer>>}
    BY DEF UpdateIsUnderWay
  <2>1. downloadPeer \in Peer /\ Updating(peer[downloadPeer])
    BY DEF Connected, Updating
  <2>2. Carriers(downloadPeer) \cap Queued(peer[downloadPeer]) # {}
    BY <2>1 DEF Inv, PeerInv, HandInv
  <2>3. \E i \in DOMAIN peer[downloadPeer].pongs : peer[downloadPeer].pongs[i] \in Carriers(downloadPeer)
    BY <2>2 DEF Queued
  <2> QED
    BY <2>1, <2>3 DEF Carriers
<1> QED
  BY <1>1, Invariance, PTL

\* A sync that has started has a peer, a thread that will add one, or has run out of attempts
\* (_peerDisconnected, BRPeerManagerConnect).
THEOREM SyncServedCorrect == Spec => []SyncIsServed
<1>1. Inv => SyncIsServed
  BY DEF Inv, SyncInv, SyncIsServed, Served
<1> QED
  BY <1>1, Invariance, PTL
=============================================================================
