--------------------------- MODULE KVStoreProofs ----------------------------
(***************************************************************************)
(* Proofs about KVStore, for every number of devices, keys, values and     *)
(* syncing threads, all clocks and all bounds.                             *)
(***************************************************************************)
EXTENDS KVStore, TLAPS

-----------------------------------------------------------------------------
(***************************************************************************)
(* The inductive invariant.  A sync holds no lock while it asks the server,*)
(* so what it remembers of the table may be old; what carries the proof is *)
(* that a version of the table and a version of the server never change    *)
(* their contents.                                                         *)
(***************************************************************************)
\* A row that was never written has no value.
Blank(r) == r.version = 0 => r.value = None /\ ~ r.deleted

RowInv == \A d \in Device, k \in Key : Blank(local[d][k])

\* The server's entry n of key k has this value and is no deletion.
Holds(k, n, value) ==
    /\ n \in DOMAIN server[k]
    /\ server[k][n].value = value
    /\ ~ server[k][n].deleted

\* A job names the entry that its time is from.
JobIs(j) ==
    j.version > 0 => j.version \in DOMAIN server[j.key] /\ server[j.key][j.version].time = j.time

HasKey  == {"enterKey", "ver", "read", "put", "del", "get", "drop", "store", "record"}
HasItem == {"put", "del", "get", "drop", "store", "record"}

\* The row that thread t works with is, or was, the row of the table.
ItemIs(t) ==
    /\ ItemOf(t).version <= Mine(t).version
    /\ ItemOf(t).version = Mine(t).version =>
        /\ ItemOf(t).value = Mine(t).value
        /\ ItemOf(t).time = Mine(t).time
        /\ ItemOf(t).deleted = Mine(t).deleted
    /\ Blank(ItemOf(t))

ThreadInv(t) ==
    /\ \A j \in todo[t] : JobIs(j)
    /\ pc[t] \in HasKey => JobIs(JobOf(t))
    /\ pc[t] \in HasItem => ItemIs(t)
    /\ pc[t] \in {"put", "drop"} => ~ ItemOf(t).deleted
    /\ pc[t] = "del" => ItemOf(t).deleted
    /\ pc[t] = "get" => ItemOf(t).time < JobOf(t).time
    /\ pc[t] = "store" =>
        /\ Holds(JobOf(t).key, work[t].version, work[t].value)
        /\ server[JobOf(t).key][work[t].version].time > ItemOf(t).time
    /\ pc[t] = "record" =>
        /\ ItemOf(t).version > 0
        /\ ~ ItemOf(t).deleted => Holds(JobOf(t).key, work[t].version, ItemOf(t).value)

Inv ==
    /\ TypeOK
    /\ RowInv
    /\ RecordedIsRemote
    /\ \A t \in Thread : ThreadInv(t)
-----------------------------------------------------------------------------
(***************************************************************************)
(* What every step leaves as it is.                                        *)
(***************************************************************************)
\* A row of the table is replaced by one with a higher version only.
LocalGrows ==
    \A d \in Device, k \in Key :
        local'[d][k] = local[d][k] \/ local'[d][k].version > local[d][k].version

\* The server adds entries and changes none.
ServerGrows ==
    \A k \in Key :
        /\ Len(server[k]) <= Len(server'[k])
        /\ \A n \in 1..Len(server[k]) : server'[k][n] = server[k][n]

\* A thread that does nothing keeps its invariant, whatever others do.
LEMMA ThreadKept ==
    ASSUME TypeOK, TypeOK', LocalGrows, ServerGrows,
           NEW t \in Thread, ThreadInv(t),
           pc'[t] = pc[t], todo'[t] = todo[t], work'[t] = work[t]
    PROVE  ThreadInv(t)'
<1>1. \A k \in Key : /\ server[k] \in Seq(Entries) /\ server'[k] \in Seq(Entries)
                     /\ DOMAIN server[k] = 1..Len(server[k])
                     /\ DOMAIN server'[k] = 1..Len(server'[k])
                     /\ Len(server[k]) \in Nat /\ Len(server'[k]) \in Nat
  BY DEF TypeOK
<1>2. \A k \in Key : \A n \in DOMAIN server[k] : n \in DOMAIN server'[k] /\ server'[k][n] = server[k][n]
  BY <1>1 DEF ServerGrows
<1>3. \A j \in todo[t] : JobIs(j)'
  <2>1. \A j \in todo[t] : j.key \in Key
    BY DEF TypeOK, Jobs
  <2> QED BY <2>1, <1>2 DEF ThreadInv, JobIs
<1>4. pc[t] \in HasKey => JobOf(t).key \in Key
  BY DEF TypeOK, HasKey
<1>5. pc[t] \in HasKey => JobIs(JobOf(t))'
  BY <1>2, <1>4 DEF ThreadInv, JobIs, JobOf
<1>6. pc[t] \in HasItem => ItemIs(t)'
  <2> SUFFICES ASSUME pc[t] \in HasItem PROVE ItemIs(t)'
    OBVIOUS
  <2> DEFINE d == OwnerOf[t]
             k == JobOf(t).key
  <2>1. d \in Device /\ k \in Key
    BY <1>4, OwnerAssumption DEF HasItem, HasKey
  <2>2. ItemOf(t).version \in Nat /\ local[d][k].version \in Nat /\ local'[d][k].version \in Nat
    <3>1. local[d][k] \in Rows /\ local'[d][k] \in Rows
      BY <2>1 DEF TypeOK
    <3>2. ItemOf(t) \in Rows
      BY DEF TypeOK, Works, ItemOf
    <3> QED BY <3>1, <3>2 DEF Rows
  <2>3. ItemIs(t)
    BY DEF ThreadInv
  <2>4. local'[d][k] = local[d][k] \/ local'[d][k].version > local[d][k].version
    BY <2>1 DEF LocalGrows
  <2>5. /\ ItemOf(t).version <= local[d][k].version /\ Blank(ItemOf(t))
        /\ ItemOf(t).version = local[d][k].version =>
            /\ ItemOf(t).value = local[d][k].value
            /\ ItemOf(t).time = local[d][k].time
            /\ ItemOf(t).deleted = local[d][k].deleted
    BY <2>3 DEF ItemIs, Mine
  <2>6. ItemOf(t)' = ItemOf(t) /\ Mine(t)' = local'[d][k]
    BY DEF ItemOf, JobOf, Mine
  <2>7. CASE local'[d][k] = local[d][k]
    BY <2>5, <2>6, <2>7 DEF ItemIs, Blank
  <2>8. CASE local'[d][k].version > local[d][k].version
    <3>1. ItemOf(t).version < local'[d][k].version
      BY <2>2, <2>5, <2>8
    <3> QED BY <2>2, <2>5, <2>6, <3>1 DEF ItemIs, Blank
  <2> QED BY <2>4, <2>7, <2>8
<1>7. pc[t] \in {"store", "record"} => \A v : Holds(JobOf(t).key, work[t].version, v) => Holds(JobOf(t).key, work[t].version, v)'
  BY <1>2, <1>4 DEF Holds, HasKey, JobOf
<1>8. pc[t] = "store" => (server[JobOf(t).key][work[t].version].time > ItemOf(t).time)'
  BY <1>2, <1>4 DEF ThreadInv, Holds, HasKey, JobOf, ItemOf
<1> QED BY <1>3, <1>5, <1>6, <1>7, <1>8 DEF ThreadInv, JobOf, ItemOf, Holds
-----------------------------------------------------------------------------
(***************************************************************************)
(* Types.                                                                  *)
(***************************************************************************)
\* The parts of the state that are looked at through the working thread.
LEMMA Typed ==
    ASSUME TypeOK
    PROVE  /\ \A t \in Thread : /\ OwnerOf[t] \in Device /\ JobOf(t) \in Jobs \cup {NoJob}
                                /\ ItemOf(t) \in Rows /\ work[t].version \in Nat
                                /\ work[t].recorded \in Nat /\ work[t].value \in Value \cup {None}
                                /\ work[t] = Work(JobOf(t), work[t].recorded, ItemOf(t), work[t].version, work[t].value)
           /\ \A t \in Thread : pc[t] \in HasKey => JobOf(t) \in Jobs /\ JobOf(t).key \in Key /\ Mine(t) \in Rows
           /\ \A d \in Device : Clock(d) \in Nat
           /\ \A k \in Key : Exists(k) => Current(k) \in Entries
<1>1. \A t \in Thread : OwnerOf[t] \in Device
  BY OwnerAssumption
<1>2. \A t \in Thread : /\ JobOf(t) \in Jobs \cup {NoJob}
                        /\ ItemOf(t) \in Rows /\ work[t].version \in Nat
                        /\ work[t].recorded \in Nat /\ work[t].value \in Value \cup {None}
                        /\ work[t] = Work(JobOf(t), work[t].recorded, ItemOf(t), work[t].version, work[t].value)
  BY DEF TypeOK, Works, JobOf, ItemOf, Work
<1>3. ASSUME NEW t \in Thread, pc[t] \in HasKey PROVE JobOf(t).key \in Key
  BY <1>3 DEF TypeOK, HasKey
<1>4. ASSUME NEW t \in Thread, pc[t] \in HasKey PROVE JobOf(t) \in Jobs
  <2>1. JobOf(t) \in Jobs \/ JobOf(t) = NoJob
    BY <1>2
  <2> QED BY <2>1, <1>3, <1>4 DEF NoJob, Job, Jobs, Errors
<1>5. ASSUME NEW t \in Thread, pc[t] \in HasKey PROVE Mine(t) \in Rows
  BY <1>1, <1>3, <1>5 DEF TypeOK, Mine
<1>6. \A d \in Device : Clock(d) \in Nat
  BY SkewAssumption DEF Clock, TypeOK
<1>7. ASSUME NEW k \in Key, Exists(k) PROVE Current(k) \in Entries
  <2>1. server[k] \in Seq(Entries) /\ server[k] # <<>>
    BY <1>7 DEF TypeOK, Exists
  <2>2. Len(server[k]) \in 1..Len(server[k])
    BY <2>1
  <2> QED BY <2>1, <2>2 DEF Current
<1> QED BY <1>1, <1>2, <1>3, <1>4, <1>5, <1>6, <1>7

\* The types of work, and of the rows that a step makes.
LEMMA WorkTyped ==
    ASSUME NEW j \in Jobs \cup {NoJob}, NEW r \in Nat, NEW i \in Rows, NEW n \in Nat,
           NEW v \in Value \cup {None}
    PROVE  /\ Work(j, r, i, n, v) \in Works
           /\ Work(j, r, i, n, v).job = j /\ Work(j, r, i, n, v).item = i
           /\ Work(j, r, i, n, v).version = n /\ Work(j, r, i, n, v).value = v
BY DEF Work, Works

LEMMA RowTyped ==
    ASSUME NEW n \in Nat, NEW r \in Nat, NEW v \in Value \cup {None}, NEW time \in Nat,
           NEW deleted \in BOOLEAN
    PROVE  Row(n, r, v, time, deleted) \in Rows
BY DEF Row, Rows

LEMMA NoWorkTyped == NoWork \in Works /\ NoRow \in Rows /\ NoWork.job = NoJob
BY DEF NoWork, NoRow, Work, Works, Row, Rows

LEMMA ListedTyped ==
    ASSUME TypeOK, NEW t \in Thread, NEW k \in Key, Exists(k)
    PROVE  Listed(t, k) \in Jobs /\ Listed(t, k).key = k
<1>1. server[k] \in Seq(Entries) /\ Current(k) \in Entries
  BY Typed DEF TypeOK
<1>2. Len(server[k]) \in Nat /\ Current(k).time \in Nat
  BY <1>1 DEF Entries
<1> QED BY <1>2 DEF Listed, Job, Jobs, Errors

LEMMA InitInv == Init => Inv
<1> SUFFICES ASSUME Init PROVE Inv
  OBVIOUS
<1>1. TypeOK
  <2>1. NoRow.version = 0
    BY DEF NoRow, Row
  <2>2. /\ server \in [Key -> Seq(Entries)] /\ local \in [Device -> [Key -> Rows]] /\ now \in Nat
        /\ running \in [Device -> BOOLEAN] /\ pc \in [Thread -> Places]
        /\ todo \in [Thread -> SUBSET Jobs] /\ work \in [Thread -> Works]
    BY NoWorkTyped DEF Init, Places
  <2>3. \A d \in Device, k \in Key : local[d][k].version = 0
    BY <2>1 DEF Init
  <2>4. \A t \in Thread : pc[t] = "idle"
    BY DEF Init
  <2> QED BY <2>2, <2>3, <2>4 DEF TypeOK
<1>2. RowInv /\ RecordedIsRemote
  BY DEF Init, RowInv, RecordedIsRemote, Blank, NoRow, Row
<1>3. \A t \in Thread : ThreadInv(t)
  BY DEF Init, ThreadInv, HasKey, HasItem
<1> QED BY <1>1, <1>2, <1>3 DEF Inv

\* What a step of thread t does to pc, todo and work, for types.
StepTyped(t, place, jobs, w) ==
    /\ pc' = [pc EXCEPT ![t] = place] /\ place \in Places
    /\ todo' = [todo EXCEPT ![t] = jobs] /\ jobs \in SUBSET Jobs
    /\ work' = [work EXCEPT ![t] = w] /\ w \in Works
    /\ place \in HasKey => w.job.key \in Key
    /\ place = "put" => w.item.value \in Value
    /\ place = "store" => w.value \in Value

\* The types after a step of thread t.
LEMMA TypeKept ==
    ASSUME TypeOK, NEW t \in Thread, NEW place, NEW jobs, NEW w, StepTyped(t, place, jobs, w),
           server' \in [Key -> Seq(Entries)], local' \in [Device -> [Key -> Rows]],
           now' \in Nat, running' \in [Device -> BOOLEAN],
           \A d \in Device, k \in Key : local'[d][k].version > 0 => local'[d][k].value \in Value
    PROVE  TypeOK'
<1>1. /\ pc' \in [Thread -> Places] /\ todo' \in [Thread -> SUBSET Jobs] /\ work' \in [Thread -> Works]
      /\ pc'[t] = place /\ work'[t] = w
      /\ \A u \in Thread \ {t} : pc'[u] = pc[u] /\ work'[u] = work[u]
  BY DEF TypeOK, StepTyped
<1>2. \A u \in Thread :
        /\ pc'[u] \notin {"idle", "enter", "keys", "local", "next"} => work'[u].job.key \in Key
        /\ pc'[u] = "put" => work'[u].item.value \in Value
        /\ pc'[u] = "store" => work'[u].value \in Value
  <2> TAKE u \in Thread
  <2>1. CASE u = t
    <3>1. place \in HasKey \cup {"idle", "enter", "keys", "local", "next"}
      BY DEF StepTyped, Places, HasKey
    <3> QED BY <1>1, <2>1, <3>1 DEF StepTyped
  <2>2. CASE u # t
    BY <1>1, <2>2 DEF TypeOK, JobOf, ItemOf
  <2> QED BY <2>1, <2>2
<1> QED BY <1>1, <1>2 DEF TypeOK, JobOf, ItemOf

\* The steps that do not change the table or the server.
LEMMA ControlTyped ==
    ASSUME Inv, NEW t \in Thread,
           EnterAll(t) \/ SetRunning(t) \/ Keys(t) \/ KeysFail(t) \/ AddLocalKeys(t) \/ Ver(t)
           \/ VerFails(t) \/ Leave(t) \/ ReadRecorded(t) \/ CallFails(t) \/ StoreFails(t)
           \/ \E k \in Key : EnterKey(t, k)
    PROVE  \E place, jobs, w : StepTyped(t, place, jobs, w)
<1>0. TypeOK
  BY DEF Inv
<1>1. /\ pc[t] \in Places /\ todo[t] \in SUBSET Jobs /\ work[t] \in Works
      /\ pc = [pc EXCEPT ![t] = pc[t]] /\ todo = [todo EXCEPT ![t] = todo[t]]
      /\ work = [work EXCEPT ![t] = work[t]]
  BY <1>0 DEF TypeOK
<1>2. NoWork \in Works
  BY NoWorkTyped
<1> DEFINE P(place, jobs, w) == StepTyped(t, place, jobs, w)
<1>3. ASSUME EnterAll(t) PROVE P("enter", todo[t], work[t])
  BY <1>1, <1>3 DEF EnterAll, Goto, StepTyped, Places, HasKey
<1>4. ASSUME NEW k \in Key, EnterKey(t, k)
      PROVE  P("enterKey", todo[t], Work(Job(k, 0, 0, "none"), 0, NoRow, 0, None))
  <2> DEFINE j == Job(k, 0, 0, "none")
  <2>1. j \in Jobs /\ j.key = k
    BY DEF Jobs, Job, Errors
  <2> HIDE DEF j
  <2>2. Work(j, 0, NoRow, 0, None) \in Works /\ Work(j, 0, NoRow, 0, None).job = j
    BY <2>1, NoWorkTyped, WorkTyped
  <2>3. /\ pc' = [pc EXCEPT ![t] = "enterKey"] /\ todo' = todo
        /\ work' = [work EXCEPT ![t] = Work(j, 0, NoRow, 0, None)]
    BY <1>4 DEF EnterKey, Goto, Keep, j
  <2> QED BY <1>1, <2>1, <2>2, <2>3 DEF StepTyped, Places, HasKey, j
<1>5. ASSUME SetRunning(t) PROVE \E place : P(place, todo[t], work[t])
  <2>1. CASE pc[t] = "enter"
    <3>1. P("keys", todo[t], work[t])
      BY <1>1, <1>5, <2>1 DEF SetRunning, Goto, StepTyped, Places, HasKey
    <3> QED BY <3>1
  <2>2. CASE pc[t] = "enterKey"
    <3>1. work[t].job.key \in Key
      BY <1>0, <2>2 DEF TypeOK, JobOf
    <3>2. P("ver", todo[t], work[t])
      BY <1>1, <1>5, <2>2, <3>1 DEF SetRunning, Goto, StepTyped, Places
    <3> QED BY <3>2
  <2> QED BY <1>5, <2>1, <2>2 DEF SetRunning
<1>6. ASSUME Keys(t) PROVE \E jobs : P("local", jobs, work[t])
  <2>1. \A k \in Key : Exists(k) => Listed(t, k) \in Jobs
    BY <1>0, ListedTyped
  <2> DEFINE jobs == {Listed(t, k) : k \in {x \in Key : Exists(x)}}
  <2>2. jobs \in SUBSET Jobs
    BY <2>1
  <2>3. todo' = [todo EXCEPT ![t] = jobs] /\ pc' = [pc EXCEPT ![t] = "local"] /\ work' = work
    BY <1>6 DEF Keys, Goto
  <2> HIDE DEF jobs
  <2>4. P("local", jobs, work[t])
    BY <1>1, <2>2, <2>3 DEF StepTyped, Places, HasKey
  <2> QED BY <2>4
<1>7. ASSUME Finish(t) PROVE P("idle", {}, NoWork)
  BY <1>1, <1>2, <1>7 DEF Finish, Goto, Keep, StepTyped, Places, HasKey
<1>8. ASSUME AddLocalKeys(t) PROVE \E jobs : P("next", jobs, work[t])
  <2>1. PICK jobs : /\ todo' = [todo EXCEPT ![t] = todo[t] \cup jobs]
                    /\ jobs \in SUBSET Jobs
    <3> DEFINE missing == {k \in Key : /\ local[OwnerOf[t]][k].version > 0
                                       /\ \A j \in todo[t] : j.key # k}
    <3>1. {Job(k, 0, 0, "none") : k \in missing} \in SUBSET Jobs
      BY DEF Job, Jobs, Errors
    <3> QED BY <1>8, <3>1 DEF AddLocalKeys
  <2>2. pc' = [pc EXCEPT ![t] = "next"] /\ work' = work
    BY <1>8 DEF AddLocalKeys, Goto
  <2>3. P("next", todo[t] \cup jobs, work[t])
    BY <1>1, <2>1, <2>2 DEF StepTyped, Places, HasKey
  <2> QED BY <2>3
<1>9. ASSUME Ver(t) PROVE \E jobs : P("next", jobs, NoWork)
  <2>0. JobOf(t).key \in Key
    BY <1>0, <1>9, Typed DEF Ver, HasKey
  <2> DEFINE k == JobOf(t).key
             jobs == {IF Exists(k) THEN Listed(t, k) ELSE Job(k, 0, 0, "notFound")}
  <2>1. Exists(k) => Listed(t, k) \in Jobs
    BY <1>0, <2>0, ListedTyped
  <2>2. jobs \in SUBSET Jobs
    BY <2>0, <2>1 DEF Job, Jobs, Errors
  <2>3. todo' = [todo EXCEPT ![t] = jobs] /\ pc' = [pc EXCEPT ![t] = "next"] /\ work' = [work EXCEPT ![t] = NoWork]
    BY <1>9 DEF Ver, Return, Goto, Keep
  <2> HIDE DEF jobs
  <2>4. P("next", jobs, NoWork)
    BY <1>2, <2>2, <2>3 DEF StepTyped, Places, HasKey
  <2> QED BY <2>4
<1>10. ASSUME ReadRecorded(t) PROVE \E place, jobs, w : P(place, jobs, w)
  <2>1. PICK j \in todo[t] :
          /\ todo' = [todo EXCEPT ![t] = todo[t] \ {j}]
          /\ \/ Return(t)
             \/ /\ Keep(t, Work(j, local[OwnerOf[t]][j.key].remote, NoRow, 0, None))
                /\ Goto(t, "read")
    BY <1>10 DEF ReadRecorded
  <2>2. j \in Jobs /\ j.key \in Key
    BY <1>1 DEF Jobs
  <2> DEFINE r == local[OwnerOf[t]][j.key].remote
  <2>3. r \in Nat
    BY <1>0, <2>2, Typed DEF TypeOK, Rows
  <2> HIDE DEF r
  <2>4. Work(j, r, NoRow, 0, None) \in Works /\ Work(j, r, NoRow, 0, None).job = j
    BY <2>2, <2>3, NoWorkTyped, WorkTyped
  <2>5. P("next", todo[t] \ {j}, NoWork) \/ P("read", todo[t] \ {j}, Work(j, r, NoRow, 0, None))
    BY <1>1, <1>2, <2>1, <2>2, <2>4 DEF Return, Goto, Keep, StepTyped, Places, HasKey, r
  <2> QED BY <2>5
<1>11. ASSUME Return(t), todo' = todo PROVE P("next", todo[t], NoWork)
  BY <1>1, <1>2, <1>11 DEF Return, Goto, Keep, StepTyped, Places, HasKey
<1> HIDE DEF P
<1>12. \E place, jobs, w : P(place, jobs, w)
  BY <1>3, <1>4, <1>5, <1>6, <1>7, <1>8, <1>9, <1>10, <1>11
     DEF KeysFail, VerFails, Leave, CallFails, StoreFails
<1> QED BY <1>12 DEF P

\* The ways of _syncKey out of its reading of the table.
LEMMA DecideCases ==
    ASSUME NEW i \in Rows, NEW j \in Jobs
    PROVE  /\ Decide(i, j) \in {"record", "del", "put", "drop", "get"}
           /\ Decide(i, j) \in {"record", "del"} => i.deleted
           /\ Decide(i, j) \in {"put", "drop"} => ~ i.deleted
           /\ Decide(i, j) = "get" => i.time < j.time
BY DEF Decide, Rows, Jobs

\* WorkOn goes on with row i, or returns.
LEMMA WorkOnCases ==
    ASSUME TypeOK, NEW t \in Thread, pc[t] = "read", NEW i \in Rows, WorkOn(t, i)
    PROVE  \/ Return(t)
           \/ /\ ~ (i.value = None /\ Decide(i, JobOf(t)) = "put")
              /\ Keep(t, Work(JobOf(t), work[t].recorded, i, i.remote, None))
              /\ Goto(t, Decide(i, JobOf(t)))
BY DEF WorkOn

\* A written row: its version is higher than that of the row it replaces, and it has a value.
Written(d, k, row) ==
    /\ Write(d, k, row)
    /\ row \in Rows /\ row.value \in Value
    /\ row.version > local[d][k].version

LEMMA WrittenTyped ==
    ASSUME TypeOK, NEW d \in Device, NEW k \in Key, NEW row, Written(d, k, row)
    PROVE  /\ local' \in [Device -> [Key -> Rows]] /\ local'[d][k] = row
           /\ \A e \in Device, x \in Key : <<e, x>> # <<d, k>> => local'[e][x] = local[e][x]
           /\ \A e \in Device, x \in Key : local'[e][x].version > 0 => local'[e][x].value \in Value
           /\ LocalGrows
<1>1. local' \in [Device -> [Key -> Rows]] /\ local'[d][k] = row
  BY DEF TypeOK, Written, Write
<1>2. \A e \in Device, x \in Key : <<e, x>> # <<d, k>> => local'[e][x] = local[e][x]
  BY DEF TypeOK, Written, Write
<1>3. \A e \in Device, x \in Key : local'[e][x] = local[e][x] \/ (e = d /\ x = k)
  BY <1>2
<1>4. row.value \in Value /\ row.version > local[d][k].version
  BY DEF Written
<1>5. \A e \in Device, x \in Key : local'[e][x].version > 0 => local'[e][x].value \in Value
  <2>1. \A e \in Device, x \in Key : local[e][x].version > 0 => local[e][x].value \in Value
    BY DEF TypeOK
  <2> QED BY <1>1, <1>3, <1>4, <2>1
<1>6. LocalGrows
  BY <1>1, <1>3, <1>4 DEF LocalGrows
<1> QED BY <1>1, <1>2, <1>5, <1>6

\* An entry that the server adds.
LEMMA AddTyped ==
    ASSUME TypeOK, NEW k \in Key, NEW entry \in Entries, Add(k, entry)
    PROVE  /\ server' \in [Key -> Seq(Entries)]
           /\ Len(server'[k]) = Len(server[k]) + 1
           /\ server'[k][Len(server[k]) + 1] = entry
           /\ ServerGrows
<1>1. \A x \in Key : server[x] \in Seq(Entries)
  BY DEF TypeOK
<1>2. /\ server' = [server EXCEPT ![k] = Append(server[k], entry)]
      /\ server \in [Key -> Seq(Entries)]
  BY DEF TypeOK, Add
<1>3. Append(server[k], entry) \in Seq(Entries)
  BY <1>1
<1>4. server' \in [Key -> Seq(Entries)] /\ server'[k] = Append(server[k], entry)
  BY <1>2, <1>3
<1>5. \A x \in Key \ {k} : server'[x] = server[x]
  BY <1>2
<1>6. /\ Len(Append(server[k], entry)) = Len(server[k]) + 1
      /\ Append(server[k], entry)[Len(server[k]) + 1] = entry
      /\ \A n \in 1..Len(server[k]) : Append(server[k], entry)[n] = server[k][n]
      /\ Len(server[k]) \in Nat
  BY <1>1
<1>7. \A x \in Key : /\ Len(server[x]) <= Len(server'[x])
                     /\ \A n \in 1..Len(server[x]) : server'[x][n] = server[x][n]
  <2> TAKE x \in Key
  <2>1. CASE x = k
    BY <1>4, <1>6, <2>1
  <2>2. CASE x # k
    BY <1>1, <1>5, <2>2
  <2> QED BY <2>1, <2>2
<1> QED BY <1>4, <1>6, <1>7 DEF ServerGrows
-----------------------------------------------------------------------------
(***************************************************************************)
(* The invariant is kept by every step.                                    *)
(***************************************************************************)
RecordedAt(d, k) ==
    local[d][k].remote > 0 /\ ~ local[d][k].deleted => Holds(k, local[d][k].remote, local[d][k].value)

LEMMA RecordedByKey == RecordedIsRemote <=> \A d \in Device, k \in Key : RecordedAt(d, k)
BY DEF RecordedIsRemote, RecordedAt, Holds

\* What is left to prove of a step: the rows that it changes, and the threads ts that do it.
LEMMA InvKept ==
    ASSUME Inv, TypeOK', LocalGrows, ServerGrows,
           NEW ts \in SUBSET Thread, \A u \in ts : ThreadInv(u)',
           \A u \in Thread \ ts : pc'[u] = pc[u] /\ todo'[u] = todo[u] /\ work'[u] = work[u],
           \A d \in Device, k \in Key :
               local'[d][k] # local[d][k] => Blank(local'[d][k]) /\ RecordedAt(d, k)'
    PROVE  Inv'
<1>1. TypeOK
  BY DEF Inv
<1>2. \A u \in Thread : ThreadInv(u)'
  <2> TAKE u \in Thread
  <2>1. CASE u \in ts
    BY <2>1
  <2>2. CASE u \notin ts
    <3>1. ThreadInv(u) /\ pc'[u] = pc[u] /\ todo'[u] = todo[u] /\ work'[u] = work[u]
      BY <2>2 DEF Inv
    <3> QED BY <1>1, <3>1, ThreadKept
  <2> QED BY <2>1, <2>2
<1>3. \A d \in Device, k \in Key : RecordedAt(d, k)'
  <2> TAKE d \in Device, k \in Key
  <2>1. CASE local'[d][k] # local[d][k]
    BY <2>1
  <2>2. CASE local'[d][k] = local[d][k]
    <3>1. RecordedAt(d, k)
      BY RecordedByKey DEF Inv
    <3>2. server[k] \in Seq(Entries) /\ server'[k] \in Seq(Entries)
      BY <1>1 DEF TypeOK
    <3>3. \A n \in DOMAIN server[k] : n \in DOMAIN server'[k] /\ server'[k][n] = server[k][n]
      BY <3>2 DEF ServerGrows
    <3> QED BY <2>2, <3>1, <3>3 DEF RecordedAt, Holds
  <2> QED BY <2>1, <2>2
<1>4. RowInv'
  BY DEF Inv, RowInv
<1>5. RecordedIsRemote'
  BY <1>3 DEF RecordedIsRemote, RecordedAt, Holds
<1> QED BY <1>2, <1>4, <1>5 DEF Inv

LEMMA InvKeptByThread ==
    ASSUME Inv, TypeOK', LocalGrows, ServerGrows, NEW t \in Thread, ThreadInv(t)',
           \A u \in Thread \ {t} : pc'[u] = pc[u] /\ todo'[u] = todo[u] /\ work'[u] = work[u],
           \A d \in Device, k \in Key :
               local'[d][k] # local[d][k] => Blank(local'[d][k]) /\ RecordedAt(d, k)'
    PROVE  Inv'
<1> DEFINE ts == {t}
<1>1. /\ ts \in SUBSET Thread /\ \A u \in ts : ThreadInv(u)'
      /\ \A u \in Thread \ ts : pc'[u] = pc[u] /\ todo'[u] = todo[u] /\ work'[u] = work[u]
  OBVIOUS
<1> HIDE DEF ts
<1> QED BY <1>1, InvKept

LEMMA NothingGrows ==
    ASSUME TypeOK, local' = local \/ LocalGrows, server' = server \/ ServerGrows
    PROVE  LocalGrows /\ ServerGrows
<1>1. \A k \in Key : server[k] \in Seq(Entries)
  BY DEF TypeOK
<1>2. server' = server => ServerGrows
  BY <1>1 DEF ServerGrows
<1> QED BY <1>2 DEF LocalGrows

\* The steps that do not change the table or the server.
LEMMA ControlStep ==
    ASSUME Inv, NEW t \in Thread,
           EnterAll(t) \/ SetRunning(t) \/ Keys(t) \/ KeysFail(t) \/ AddLocalKeys(t) \/ Ver(t)
           \/ VerFails(t) \/ Leave(t) \/ ReadRecorded(t) \/ CallFails(t) \/ StoreFails(t)
           \/ \E k \in Key : EnterKey(t, k)
    PROVE  Inv'
<1>0. TypeOK /\ ThreadInv(t)
  BY DEF Inv
<1>1. PICK place, jobs, w : StepTyped(t, place, jobs, w)
  BY ControlTyped
<1>2. server' = server /\ local' = local /\ now' = now
  BY DEF EnterAll, SetRunning, Keys, KeysFail, AddLocalKeys, Ver, VerFails, Leave, ReadRecorded,
         CallFails, StoreFails, EnterKey, Finish
<1>3. running' \in [Device -> BOOLEAN]
  BY <1>0 DEF TypeOK, EnterAll, SetRunning, Keys, KeysFail, AddLocalKeys, Ver, VerFails, Leave,
         ReadRecorded, CallFails, StoreFails, EnterKey, Finish
<1>4. TypeOK'
  <2>1. /\ server' \in [Key -> Seq(Entries)] /\ local' \in [Device -> [Key -> Rows]] /\ now' \in Nat
        /\ \A d \in Device, k \in Key : local'[d][k].version > 0 => local'[d][k].value \in Value
    BY <1>0, <1>2 DEF TypeOK
  <2> QED BY <1>0, <1>1, <1>3, <2>1, TypeKept
<1>5. /\ pc'[t] = place /\ todo'[t] = jobs /\ work'[t] = w
      /\ \A u \in Thread \ {t} : pc'[u] = pc[u] /\ todo'[u] = todo[u] /\ work'[u] = work[u]
  BY <1>0, <1>1 DEF TypeOK, StepTyped
<1>6. LocalGrows /\ ServerGrows
  BY <1>0, <1>2, NothingGrows
<1>7. /\ \A j \in todo'[t] : JobIs(j)
      /\ pc'[t] \notin HasItem
      /\ pc'[t] \in HasKey => JobIs(work'[t].job)
  <2>1. \A k \in Key, e \in Errors : JobIs(Job(k, 0, 0, e))
    BY DEF JobIs, Job
  <2>2. ASSUME NEW k \in Key, Exists(k) PROVE JobIs(Listed(t, k))
    <3>1. server[k] \in Seq(Entries) /\ server[k] # <<>>
      BY <1>0, <2>2 DEF TypeOK, Exists
    <3>2. Len(server[k]) \in DOMAIN server[k]
      BY <3>1
    <3> QED BY <3>2 DEF JobIs, Listed, Job, Current
  <2>3. /\ \A j \in todo[t] : JobIs(j)
        /\ pc[t] \in HasKey => JobIs(work[t].job)
        /\ JobIs(NoWork.job)
        /\ pc \in [Thread -> Places] /\ todo \in [Thread -> SUBSET Jobs] /\ work \in [Thread -> Works]
    BY <1>0 DEF TypeOK, ThreadInv, JobOf, JobIs, NoWork, Work, NoJob, Job
  <2>4. ASSUME Finish(t) \/ (Return(t) /\ todo' = todo)
        PROVE  /\ pc'[t] \in {"idle", "next"} /\ \A j \in todo'[t] : JobIs(j)
    BY <2>3, <2>4 DEF Finish, Return, Goto, Keep
  <2>5. CASE EnterAll(t) \/ SetRunning(t)
    BY <2>3, <2>5 DEF EnterAll, SetRunning, Goto, HasItem, HasKey
  <2>6. CASE \E k \in Key : EnterKey(t, k)
    <3>1. PICK k \in Key : /\ work'[t].job = Job(k, 0, 0, "none")
                           /\ pc'[t] = "enterKey" /\ todo' = todo
      BY <2>3, <2>6 DEF EnterKey, Goto, Keep, Work
    <3> QED BY <2>1, <2>3, <3>1 DEF HasItem, Errors
  <2>7. CASE Keys(t)
    <3>1. todo'[t] = {Listed(t, k) : k \in {x \in Key : Exists(x)}} /\ pc'[t] = "local"
      BY <2>3, <2>7 DEF Keys, Goto
    <3> QED BY <2>2, <3>1 DEF HasItem, HasKey
  <2>8. CASE AddLocalKeys(t)
    <3>1. PICK S \in SUBSET Key : /\ todo'[t] = todo[t] \cup {Job(k, 0, 0, "none") : k \in S}
                                  /\ pc'[t] = "next"
      BY <2>3, <2>8 DEF AddLocalKeys, Goto
    <3> QED BY <2>1, <2>3, <3>1 DEF HasItem, HasKey, Errors
  <2>9. CASE Ver(t)
    <3>1. JobOf(t).key \in Key
      BY <1>0, <2>9 DEF Ver, TypeOK
    <3>2. todo'[t] = {IF Exists(JobOf(t).key) THEN Listed(t, JobOf(t).key) ELSE Job(JobOf(t).key, 0, 0, "notFound")}
          /\ pc'[t] = "next"
      BY <2>3, <2>9 DEF Ver, Return, Goto, Keep
    <3> QED BY <2>1, <2>2, <3>1, <3>2 DEF HasItem, HasKey, Errors
  <2>10. CASE ReadRecorded(t)
    <3>1. PICK j \in todo[t] : /\ todo'[t] = todo[t] \ {j}
                               /\ pc'[t] = "next" \/ (pc'[t] = "read" /\ work'[t].job = j)
      BY <2>3, <2>10 DEF ReadRecorded, Return, Goto, Keep, Work
    <3> QED BY <2>3, <3>1 DEF HasItem, HasKey
  <2>11. CASE KeysFail(t) \/ VerFails(t) \/ Leave(t) \/ CallFails(t) \/ StoreFails(t)
    <3>1. Finish(t) \/ (Return(t) /\ todo' = todo)
      BY <2>11 DEF KeysFail, VerFails, Leave, CallFails, StoreFails
    <3> QED BY <2>4, <3>1 DEF HasItem, HasKey
  <2> QED BY <2>5, <2>6, <2>7, <2>8, <2>9, <2>10, <2>11
<1>8. ThreadInv(t)'
  BY <1>2, <1>7 DEF ThreadInv, JobIs, JobOf, HasItem
<1>9. \A d \in Device, k \in Key :
          local'[d][k] # local[d][k] => Blank(local'[d][k]) /\ RecordedAt(d, k)'
  BY <1>2
<1> QED BY <1>4, <1>5, <1>6, <1>8, <1>9, InvKeptByThread

\* A step of _syncKey that goes on at place with w, or returns.
LEMMA KeyStep ==
    ASSUME Inv, NEW t \in Thread, NEW place \in HasItem, NEW i \in Rows, NEW n \in Nat,
           NEW v \in Value \cup {None}, pc[t] \in HasKey, todo' = todo,
           \/ Return(t)
           \/ /\ Keep(t, Work(JobOf(t), work[t].recorded, i, n, v)) /\ Goto(t, place)
              /\ place = "put" => i.value \in Value
              /\ place = "store" => v \in Value
    PROVE  /\ \E p, jobs, w : StepTyped(t, p, jobs, w)
           /\ \A u \in Thread \ {t} : pc'[u] = pc[u] /\ todo'[u] = todo[u] /\ work'[u] = work[u]
           /\ todo'[t] = todo[t]
           /\ \/ pc'[t] = "next"
              \/ /\ pc'[t] = place /\ Keep(t, Work(JobOf(t), work[t].recorded, i, n, v))
                 /\ JobOf(t)' = JobOf(t) /\ ItemOf(t)' = i
                 /\ work'[t].version = n /\ work'[t].value = v
<1>0. TypeOK
  BY DEF Inv
<1>1. /\ pc \in [Thread -> Places] /\ todo \in [Thread -> SUBSET Jobs] /\ work \in [Thread -> Works]
      /\ JobOf(t) \in Jobs /\ JobOf(t).key \in Key /\ work[t].recorded \in Nat /\ place \in Places
  BY <1>0, Typed DEF TypeOK, HasItem, Places
<1>2. todo' = [todo EXCEPT ![t] = todo[t]] /\ todo[t] \in SUBSET Jobs
  BY <1>1
<1>3. CASE Return(t)
  <2>1. StepTyped(t, "next", todo[t], NoWork)
    BY <1>2, <1>3, NoWorkTyped DEF StepTyped, Return, Goto, Keep, Places, HasKey
  <2> QED BY <1>1, <1>3, <2>1 DEF Return, Goto, Keep
<1>4. CASE /\ Keep(t, Work(JobOf(t), work[t].recorded, i, n, v)) /\ Goto(t, place)
           /\ place = "put" => i.value \in Value
           /\ place = "store" => v \in Value
  <2> DEFINE w == Work(JobOf(t), work[t].recorded, i, n, v)
  <2>1. w \in Works /\ w.job = JobOf(t) /\ w.item = i /\ w.version = n /\ w.value = v
    BY <1>1, WorkTyped
  <2>2. pc' = [pc EXCEPT ![t] = place] /\ work' = [work EXCEPT ![t] = w]
    BY <1>4 DEF Goto, Keep
  <2> HIDE DEF w
  <2>3. StepTyped(t, place, todo[t], w)
    BY <1>1, <1>2, <1>4, <2>1, <2>2 DEF StepTyped
  <2>4. work'[t] = w /\ pc'[t] = place
    BY <1>1, <2>2
  <2>5. JobOf(t)' = JobOf(t) /\ ItemOf(t)' = i /\ work'[t].version = n /\ work'[t].value = v
    BY <2>1, <2>4 DEF JobOf, ItemOf
  <2>6. \A u \in Thread \ {t} : pc'[u] = pc[u] /\ todo'[u] = todo[u] /\ work'[u] = work[u]
    BY <1>1, <2>2
  <2> QED BY <1>4, <2>3, <2>4, <2>5, <2>6
<1> QED BY <1>3, <1>4

\* The thread's invariant after such a step, from what is true of the place.
LEMMA ThreadStep ==
    ASSUME Inv, TypeOK', ServerGrows, NEW t \in Thread, NEW place \in HasItem, pc[t] \in HasKey,
           todo'[t] = todo[t],
           \/ pc'[t] = "next"
           \/ /\ pc'[t] = place /\ JobOf(t)' = JobOf(t) /\ ItemIs(t)'
              /\ place \in {"put", "drop"} => ~ ItemOf(t)'.deleted
              /\ place = "del" => ItemOf(t)'.deleted
              /\ place = "get" => ItemOf(t)'.time < JobOf(t).time
              /\ place = "store" =>
                    /\ Holds(JobOf(t).key, work[t].version, work[t].value)'
                    /\ server'[JobOf(t).key][work'[t].version].time > ItemOf(t)'.time
              /\ place = "record" =>
                    /\ ItemOf(t)'.version > 0
                    /\ ~ ItemOf(t)'.deleted => Holds(JobOf(t).key, work[t].version, ItemOf(t).value)'
    PROVE  ThreadInv(t)'
<1>1. TypeOK /\ ThreadInv(t)
  BY DEF Inv
<1>2. \A k \in Key : server[k] \in Seq(Entries) /\ server'[k] \in Seq(Entries)
  BY <1>1 DEF TypeOK
<1>3. \A k \in Key : \A n \in DOMAIN server[k] : n \in DOMAIN server'[k] /\ server'[k][n] = server[k][n]
  BY <1>2 DEF ServerGrows
<1>4. \A j \in Jobs : JobIs(j) => JobIs(j)'
  BY <1>3 DEF JobIs, Jobs
<1>5. \A j \in todo[t] : j \in Jobs
  BY <1>1 DEF TypeOK
<1>6. JobOf(t) \in Jobs
  BY <1>1, Typed
<1>7. \A j \in todo[t] : JobIs(j)'
  BY <1>1, <1>4, <1>5 DEF ThreadInv
<1>8. JobIs(JobOf(t)) /\ JobOf(t) \in Jobs
  BY <1>1, <1>6 DEF ThreadInv
<1>9. CASE pc'[t] = "next"
  BY <1>7, <1>9 DEF ThreadInv, HasKey, HasItem
<1>10. CASE pc'[t] # "next"
  <2>1. JobOf(t)' = JobOf(t) /\ pc'[t] = place /\ ItemIs(t)'
    BY <1>10
  <2>2. JobIs(JobOf(t))'
    <3> DEFINE j == JobOf(t)
    <3>1. j \in Jobs /\ JobIs(j) /\ JobOf(t)' = j
      BY <1>8, <2>1
    <3>2. j.version > 0 => /\ j.version \in DOMAIN server'[j.key]
                           /\ server'[j.key][j.version].time = j.time
      BY <1>3, <3>1 DEF JobIs, Jobs
    <3> QED BY <3>1, <3>2 DEF JobIs
  <2>3. /\ place \in {"put", "drop"} => ~ ItemOf(t)'.deleted
        /\ place = "del" => ItemOf(t)'.deleted
        /\ place = "get" => ItemOf(t)'.time < JobOf(t)'.time
        /\ place = "store" =>
              /\ Holds(JobOf(t).key, work[t].version, work[t].value)'
              /\ server'[JobOf(t)'.key][work'[t].version].time > ItemOf(t)'.time
        /\ place = "record" =>
              /\ ItemOf(t)'.version > 0
              /\ ~ ItemOf(t)'.deleted => Holds(JobOf(t).key, work[t].version, ItemOf(t).value)'
    BY <1>10, <2>1
  <2> QED BY <1>7, <2>1, <2>2, <2>3 DEF ThreadInv
<1> QED BY <1>9, <1>10

\* Row i is an older version of a row of the table, or that row.
OlderOf(i, row) ==
    /\ i.version <= row.version
    /\ i.version = row.version => i.value = row.value /\ i.time = row.time /\ i.deleted = row.deleted
    /\ Blank(i)

\* The same of the server after a step.
HoldsNext(k, n, value) ==
    /\ n \in DOMAIN server'[k]
    /\ server'[k][n].value = value
    /\ ~ server'[k][n].deleted

\* What a step of _syncKey must know of i, n and v to go on at place with them.
Ready(t, place, i, n, v) ==
    /\ OlderOf(i, local'[OwnerOf[t]][JobOf(t).key])
    /\ place = "put" => i.value \in Value
    /\ place \in {"put", "drop"} => ~ i.deleted
    /\ place = "del" => i.deleted
    /\ place = "get" => i.time < JobOf(t).time
    /\ place = "store" =>
        /\ v \in Value
        /\ HoldsNext(JobOf(t).key, n, v)
        /\ server'[JobOf(t).key][n].time > i.time
    /\ place = "record" =>
        /\ i.version > 0
        /\ ~ i.deleted => HoldsNext(JobOf(t).key, n, i.value)

\* The table and the server after a step of _syncKey.
StoresKept ==
    /\ server' \in [Key -> Seq(Entries)] /\ ServerGrows
    /\ local' \in [Device -> [Key -> Rows]] /\ LocalGrows
    /\ now' = now /\ running' = running
    /\ \A d \in Device, k \in Key :
        local'[d][k] # local[d][k] =>
            /\ Blank(local'[d][k]) /\ RecordedAt(d, k)'
            /\ local'[d][k].value \in Value

LEMMA DataStep ==
    ASSUME Inv, NEW t \in Thread, NEW place \in HasItem, NEW i \in Rows, NEW n \in Nat,
           NEW v \in Value \cup {None}, pc[t] \in HasKey, todo' = todo, StoresKept,
           \/ Return(t)
           \/ /\ Keep(t, Work(JobOf(t), work[t].recorded, i, n, v)) /\ Goto(t, place)
              /\ Ready(t, place, i, n, v)
    PROVE  Inv'
<1>0. TypeOK
  BY DEF Inv
<1>1. /\ \E p, jobs, w : StepTyped(t, p, jobs, w)
      /\ \A u \in Thread \ {t} : pc'[u] = pc[u] /\ todo'[u] = todo[u] /\ work'[u] = work[u]
      /\ todo'[t] = todo[t]
      /\ \/ pc'[t] = "next"
         \/ /\ pc'[t] = place /\ Keep(t, Work(JobOf(t), work[t].recorded, i, n, v))
            /\ JobOf(t)' = JobOf(t) /\ ItemOf(t)' = i
            /\ work'[t].version = n /\ work'[t].value = v
  <2>1. \/ Return(t)
        \/ /\ Keep(t, Work(JobOf(t), work[t].recorded, i, n, v)) /\ Goto(t, place)
           /\ place = "put" => i.value \in Value
           /\ place = "store" => v \in Value
    BY DEF Ready
  <2> QED BY <2>1, KeyStep
<1>2. TypeOK'
  <2>1. PICK p, jobs, w : StepTyped(t, p, jobs, w)
    BY <1>1
  <2>2. /\ server' \in [Key -> Seq(Entries)] /\ local' \in [Device -> [Key -> Rows]]
        /\ now' \in Nat /\ running' \in [Device -> BOOLEAN]
        /\ \A d \in Device, k \in Key : local'[d][k].version > 0 => local'[d][k].value \in Value
    BY <1>0 DEF StoresKept, TypeOK
  <2> QED BY <1>0, <2>1, <2>2, TypeKept
<1>3. CASE pc'[t] = "next"
  <2>1. ThreadInv(t)'
    BY <1>1, <1>2, <1>3, ThreadStep DEF StoresKept
  <2> QED BY <1>1, <1>2, <2>1, InvKeptByThread DEF StoresKept
<1>4. CASE pc'[t] # "next"
  <2>1. /\ pc'[t] = place /\ JobOf(t)' = JobOf(t) /\ ItemOf(t)' = i
        /\ work'[t].version = n /\ work'[t].value = v
    BY <1>1, <1>4
  <2>2. Ready(t, place, i, n, v)
    BY <1>0, <1>4 DEF Return, Goto, Keep, TypeOK
  <2>3. ItemIs(t)'
    BY <2>1, <2>2 DEF Ready, OlderOf, ItemIs, Mine
  <2>4. /\ place \in {"put", "drop"} => ~ ItemOf(t)'.deleted
        /\ place = "del" => ItemOf(t)'.deleted
        /\ place = "get" => ItemOf(t)'.time < JobOf(t).time
        /\ place = "store" =>
              /\ Holds(JobOf(t).key, work[t].version, work[t].value)'
              /\ server'[JobOf(t).key][work'[t].version].time > ItemOf(t)'.time
        /\ place = "record" =>
              /\ ItemOf(t)'.version > 0
              /\ ~ ItemOf(t)'.deleted => Holds(JobOf(t).key, work[t].version, ItemOf(t).value)'
    BY <2>1, <2>2 DEF Ready, Holds, HoldsNext
  <2>5. ThreadInv(t)'
    BY <1>1, <1>2, <2>1, <2>3, <2>4, ThreadStep DEF StoresKept
  <2> QED BY <1>1, <1>2, <2>5, InvKeptByThread DEF StoresKept
<1> QED BY <1>3, <1>4

\* The table and the server are the same.
LEMMA StoresSame ==
    ASSUME TypeOK, server' = server, local' = local, now' = now, running' = running
    PROVE  StoresKept
BY NothingGrows DEF StoresKept, TypeOK

\* Only the row of one key is written, and it is one that RecordedAt allows.
LEMMA StoresWritten ==
    ASSUME TypeOK, NEW d \in Device, NEW k \in Key, NEW row, Written(d, k, row),
           row.remote > 0 /\ ~ row.deleted => Holds(k, row.remote, row.value),
           server' = server, now' = now, running' = running
    PROVE  StoresKept /\ local'[d][k] = row
<1>1. /\ local' \in [Device -> [Key -> Rows]] /\ local'[d][k] = row
      /\ \A e \in Device, x \in Key : <<e, x>> # <<d, k>> => local'[e][x] = local[e][x]
      /\ LocalGrows
  BY WrittenTyped
<1>2. ServerGrows /\ server' \in [Key -> Seq(Entries)]
  BY <1>1, NothingGrows DEF TypeOK
<1>3. local[d][k].version \in Nat /\ row.version \in Nat /\ row.version > local[d][k].version
      /\ row.value \in Value
  BY DEF TypeOK, Rows, Written
<1>4. Blank(row)
  BY <1>3 DEF Blank
<1>5. RecordedAt(d, k)'
  BY <1>1 DEF RecordedAt, Holds
<1>6. \A e \in Device, x \in Key : local'[e][x] # local[e][x] => e = d /\ x = k
  BY <1>1
<1> QED BY <1>1, <1>2, <1>3, <1>4, <1>5, <1>6 DEF StoresKept

LEMMA StoresAdded ==
    ASSUME TypeOK, NEW k \in Key, NEW entry \in Entries, Add(k, entry),
           local' = local, now' = now, running' = running
    PROVE  StoresKept
BY AddTyped, NothingGrows DEF StoresKept, TypeOK

\* _syncKey reads the row it works with: as it is, or without its value.
LEMMA ReadStep ==
    ASSUME Inv, NEW t \in Thread, Read(t) \/ ReadFails(t)
    PROVE  Inv'
<1> DEFINE d == OwnerOf[t]
           k == JobOf(t).key
           r == Mine(t)
<1>0. TypeOK /\ pc[t] = "read" /\ pc[t] \in HasKey /\ todo' = todo /\ now' = now
      /\ running' = running /\ server' = server
  BY DEF Inv, Read, ReadFails, HasKey
<1>1. /\ d \in Device /\ k \in Key /\ JobOf(t) \in Jobs /\ r \in Rows /\ r = local[d][k]
      /\ Clock(d) \in Nat
  BY <1>0, Typed DEF Mine
<1>2. /\ r.version \in Nat /\ r.remote \in Nat /\ r.value \in Value \cup {None} /\ r.time \in Nat
      /\ r.deleted \in BOOLEAN /\ Blank(r) /\ (r.version > 0 => r.value \in Value)
  BY <1>0, <1>1 DEF Rows, Inv, RowInv, TypeOK
<1>3. CASE Read(t)
  <2> DEFINE place == Decide(r, JobOf(t))
  <2>1. /\ place \in HasItem
        /\ place \in {"record", "del"} => r.deleted
        /\ place \in {"put", "drop"} => ~ r.deleted
        /\ place = "get" => r.time < JobOf(t).time
        /\ place # "store"
    BY <1>1, DecideCases DEF HasItem
  <2>2. local' = local /\ WorkOn(t, r)
    BY <1>3 DEF Read
  <2>3. \/ Return(t)
        \/ /\ Keep(t, Work(JobOf(t), work[t].recorded, r, r.remote, None)) /\ Goto(t, place)
           /\ ~ (r.value = None /\ place = "put")
    BY <1>0, <1>1, <2>2, WorkOnCases
  <2>4. OlderOf(r, local'[d][k])
    BY <1>1, <1>2, <2>2 DEF OlderOf
  <2> HIDE DEF place
  <2>5. ~ (r.value = None /\ place = "put") => Ready(t, place, r, r.remote, None)
    BY <1>2, <2>1, <2>4 DEF Ready, Blank
  <2>6. StoresKept
    BY <1>0, <2>2, StoresSame
  <2> HIDE DEF r
  <2>7. None \in Value \cup {None}
    OBVIOUS
  <2> QED BY <1>0, <1>1, <1>2, <2>1, <2>3, <2>5, <2>6, <2>7, DataStep
<1>4. CASE ReadFails(t)
  <2> DEFINE i == Row(r.version, r.remote, None, r.time, r.deleted)
             place == Decide(i, JobOf(t))
             row == DeletedRow(d, k)
  <2>0. r.version > 0 /\ WorkOn(t, i) /\ Write(d, k, row)
    BY <1>4 DEF ReadFails
  <2>1. /\ i \in Rows /\ i.version = r.version /\ i.remote = r.remote /\ i.value = None
        /\ i.time = r.time /\ i.deleted = r.deleted
    BY <1>2 DEF Row, Rows
  <2>2. /\ row \in Rows /\ row.version = r.version + 1 /\ row.remote = 0 /\ row.value = r.value
    BY <1>1, <1>2 DEF DeletedRow, Row, Rows
  <2> HIDE DEF i, row
  <2>3. /\ place \in HasItem
        /\ place \in {"record", "del"} => i.deleted
        /\ place \in {"put", "drop"} => ~ i.deleted
        /\ place = "get" => i.time < JobOf(t).time
        /\ place # "store"
    BY <1>1, <2>1, DecideCases DEF HasItem
  <2>4. \/ Return(t)
        \/ /\ Keep(t, Work(JobOf(t), work[t].recorded, i, i.remote, None)) /\ Goto(t, place)
           /\ ~ (i.value = None /\ place = "put")
    BY <1>0, <2>0, <2>1, WorkOnCases
  <2> HIDE DEF place
  <2>5. Written(d, k, row)
    BY <1>1, <1>2, <2>0, <2>2 DEF Written
  <2>6. StoresKept /\ local'[d][k] = row
    BY <1>0, <1>1, <2>2, <2>5, StoresWritten
  <2>7. OlderOf(i, local'[d][k])
    BY <1>2, <2>0, <2>1, <2>2, <2>6 DEF OlderOf, Blank
  <2>8. ~ (i.value = None /\ place = "put") => Ready(t, place, i, i.remote, None)
    BY <2>0, <2>1, <2>3, <2>7 DEF Ready
  <2>9. None \in Value \cup {None} /\ i.remote \in Nat
    BY <1>2, <2>1
  <2> QED BY <1>0, <1>1, <2>1, <2>3, <2>4, <2>6, <2>8, <2>9, DataStep
<1> QED BY <1>3, <1>4

\* The server acts on a put, or on a deletion.
LEMMA CallStep ==
    ASSUME Inv, NEW t \in Thread, Put(t) \/ Del(t)
    PROVE  Inv'
<1> DEFINE d == OwnerOf[t]
           k == JobOf(t).key
           i == ItemOf(t)
           n == Len(server[k]) + 1
<1>0. TypeOK /\ pc[t] \in {"put", "del"} /\ pc[t] \in HasKey /\ pc[t] \in HasItem /\ todo' = todo
      /\ now' = now /\ running' = running /\ local' = local /\ ThreadInv(t)
  BY DEF Inv, Put, Del, HasKey, HasItem
<1>1. /\ d \in Device /\ k \in Key /\ i \in Rows /\ JobOf(t) \in Jobs /\ Mine(t) = local[d][k]
      /\ Mine(t) \in Rows /\ (Exists(k) => Current(k) \in Entries)
  BY <1>0, Typed DEF Mine
<1>2. server[k] \in Seq(Entries) /\ n \in Nat
  <2>1. server[k] \in Seq(Entries)
    BY <1>0, <1>1 DEF TypeOK
  <2> QED BY <2>1
<1>3. OlderOf(i, local'[d][k])
  BY <1>0, <1>1 DEF ThreadInv, ItemIs, OlderOf
<1>4. \E entry \in Entries : /\ Add(k, entry)
                             /\ ~ i.deleted => entry.value = i.value /\ ~ entry.deleted
  <2>1. CASE Put(t)
    <3> DEFINE entry == Entry(i.value, now, FALSE)
    <3>1. i.value \in Value /\ now \in Nat
      BY <1>0, <2>1 DEF TypeOK, Put
    <3>2. entry \in Entries /\ entry.value = i.value /\ ~ entry.deleted
      BY <3>1 DEF Entry, Entries
    <3>3. Add(k, entry)
      BY <2>1 DEF Put
    <3> QED BY <3>2, <3>3
  <2>2. CASE Del(t)
    <3> DEFINE entry == Entry(Current(k).value, Current(k).time, TRUE)
    <3>1. entry \in Entries
      BY <1>1, <2>2 DEF Entry, Entries, Del
    <3>2. Add(k, entry) /\ i.deleted
      BY <1>0, <2>2 DEF Del, ThreadInv
    <3> QED BY <3>1, <3>2
  <2> QED BY <2>1, <2>2
<1>5. PICK entry \in Entries : /\ Add(k, entry)
                               /\ ~ i.deleted => entry.value = i.value /\ ~ entry.deleted
  BY <1>4
<1>6. StoresKept
  BY <1>0, <1>1, <1>5, StoresAdded
<1>7. /\ server' \in [Key -> Seq(Entries)] /\ Len(server'[k]) = n /\ server'[k][n] = entry
  BY <1>0, <1>1, <1>5, AddTyped
<1>8. ~ i.deleted => HoldsNext(k, n, i.value)
  <2>1. server'[k] \in Seq(Entries)
    BY <1>1, <1>7
  <2>2. n \in DOMAIN server'[k]
    BY <1>2, <1>7, <2>1
  <2> QED BY <1>5, <1>7, <2>2 DEF HoldsNext
<1>9. i.version > 0
  <2>1. i.version \in Nat /\ Blank(i)
    BY <1>1, <1>3 DEF OlderOf, Rows
  <2>2. i.deleted \/ i.value \in Value
    BY <1>0 DEF ThreadInv, TypeOK
  <2> QED BY <2>1, <2>2, NoneAssumption DEF Blank
<1>10. \/ Return(t)
       \/ Keep(t, Work(JobOf(t), work[t].recorded, i, n, None)) /\ Goto(t, "record")
  BY DEF Put, Del, Answered, Continue
<1>11. None \in Value \cup {None} /\ "record" \in HasItem
  BY DEF HasItem
<1> HIDE DEF i, n, k, d
<1>12. Ready(t, "record", i, n, None)
  BY <1>3, <1>8, <1>9 DEF Ready, d, k
<1> QED BY <1>0, <1>1, <1>2, <1>6, <1>10, <1>11, <1>12, DataStep

\* The server hands out the current entry: the one the job was listed with.
LEMMA GetStep ==
    ASSUME Inv, NEW t \in Thread, Get(t)
    PROVE  Inv'
<1> DEFINE k == JobOf(t).key
           i == ItemOf(t)
           n == JobOf(t).version
           v == Current(k).value
<1>0. /\ TypeOK /\ ThreadInv(t) /\ pc[t] = "get" /\ pc[t] \in HasKey /\ pc[t] \in HasItem
      /\ todo' = todo /\ now' = now /\ running' = running /\ local' = local /\ server' = server
      /\ Exists(k) /\ n = Len(server[k]) /\ ~ Current(k).deleted
      /\ Keep(t, Work(JobOf(t), work[t].recorded, i, n, v)) /\ Goto(t, "store")
  BY DEF Inv, Get, HasKey, HasItem, Continue
<1>1. /\ OwnerOf[t] \in Device /\ k \in Key /\ i \in Rows /\ JobOf(t) \in Jobs
      /\ Mine(t) = local[OwnerOf[t]][k]
      /\ Current(k) \in Entries
  BY <1>0, Typed DEF Mine
<1>2. n \in Nat /\ v \in Value /\ Current(k) = server[k][n]
  BY <1>0, <1>1 DEF Jobs, Entries, Current
<1>3. n \in DOMAIN server[k]
  <2>1. server[k] \in Seq(Entries) /\ server[k] # <<>>
    BY <1>0, <1>1 DEF TypeOK, Exists
  <2> QED BY <1>0, <2>1
<1>4. server[k][n].time = JobOf(t).time
  <2>1. JobIs(JobOf(t)) /\ n > 0
    <3>1. server[k] \in Seq(Entries)
      BY <1>0, <1>1 DEF TypeOK
    <3> QED BY <1>0, <1>2, <1>3, <3>1 DEF ThreadInv
  <2> QED BY <2>1 DEF JobIs
<1>5. i.time < JobOf(t).time /\ i.time \in Nat /\ JobOf(t).time \in Nat
  BY <1>0, <1>1 DEF ThreadInv, Rows, Jobs
<1>6. OlderOf(i, local'[OwnerOf[t]][k])
  BY <1>0, <1>1 DEF ThreadInv, ItemIs, OlderOf
<1>7. HoldsNext(k, n, v) /\ server'[k][n].time > i.time
  BY <1>0, <1>2, <1>3, <1>4, <1>5 DEF HoldsNext
<1> HIDE DEF i, n, k, v
<1>8. Ready(t, "store", i, n, v)
  BY <1>2, <1>6, <1>7 DEF Ready, k
<1>9. StoresKept
  BY <1>0, StoresSame
<1>10. "store" \in HasItem /\ v \in Value \cup {None}
  BY <1>2 DEF HasItem
<1> QED BY <1>0, <1>1, <1>2, <1>8, <1>9, <1>10, DataStep

\* The answer of the server is stored, or the deletion it reported.
LEMMA StoreStep ==
    ASSUME Inv, NEW t \in Thread, Store(t) \/ Drop(t)
    PROVE  Inv'
<1> DEFINE d == OwnerOf[t]
           k == JobOf(t).key
           i == ItemOf(t)
<1>0. /\ TypeOK /\ ThreadInv(t) /\ pc[t] \in HasKey /\ pc[t] \in HasItem
      /\ todo' = todo /\ now' = now /\ running' = running /\ server' = server
      /\ Mine(t).version = i.version
  BY DEF Inv, Store, Drop, HasKey, HasItem, IsUnchanged
<1>1. /\ d \in Device /\ k \in Key /\ i \in Rows /\ JobOf(t) \in Jobs
      /\ Mine(t) = local[d][k] /\ Mine(t) \in Rows /\ Clock(d) \in Nat /\ work[t].version \in Nat
  BY <1>0, Typed DEF Mine
<1>2. /\ i.version \in Nat /\ i.deleted \in BOOLEAN /\ JobOf(t).version \in Nat
      /\ local[d][k].version = i.version
  BY <1>0, <1>1 DEF Rows, Jobs
<1>3. \E row \in Rows, n \in Nat :
        /\ Written(d, k, row) /\ row.remote = 0 /\ row.version > 0
        /\ ~ row.deleted => HoldsNext(k, n, row.value)
        /\ Keep(t, Work(JobOf(t), work[t].recorded, row, n, None)) /\ Goto(t, "record")
  <2>1. CASE Store(t)
    <3> DEFINE row == FetchedRow(t)
               n == work[t].version
    <3>1. pc[t] = "store" /\ work[t].value \in Value
      BY <1>0, <2>1 DEF Store, TypeOK
    <3>2. /\ row \in Rows /\ row.version = i.version + 1 /\ row.remote = 0
          /\ row.value = work[t].value
      BY <1>1, <1>2, <3>1 DEF FetchedRow, Row, Rows
    <3>3. HoldsNext(k, n, row.value)
      BY <1>0, <3>1, <3>2 DEF ThreadInv, Holds, HoldsNext
    <3>4. /\ Write(d, k, row) /\ Goto(t, "record")
          /\ Keep(t, Work(JobOf(t), work[t].recorded, row, n, None))
      BY <2>1 DEF Store, Continue
    <3> HIDE DEF row
    <3>5. Written(d, k, row)
      BY <1>2, <3>1, <3>2, <3>4 DEF Written
    <3>6. row.version > 0 /\ n \in Nat
      BY <1>1, <1>2, <3>2
    <3> HIDE DEF n
    <3> QED BY <3>2, <3>3, <3>4, <3>5, <3>6
  <2>2. CASE Drop(t)
    <3> DEFINE row == DeletedRow(d, k)
               n == JobOf(t).version
    <3>1. local[d][k].version > 0 /\ local[d][k].value \in Value
      BY <1>0, <1>1, <1>2, <2>2 DEF Drop, TypeOK
    <3>2. /\ row \in Rows /\ row.version = i.version + 1 /\ row.remote = 0
          /\ row.value \in Value /\ row.deleted
      BY <1>1, <1>2, <3>1 DEF DeletedRow, Row, Rows
    <3>4. /\ Write(d, k, row) /\ Goto(t, "record")
          /\ Keep(t, Work(JobOf(t), work[t].recorded, row, n, None))
      BY <2>2 DEF Drop, Continue
    <3> HIDE DEF row
    <3>5. Written(d, k, row)
      BY <1>2, <3>1, <3>2, <3>4 DEF Written
    <3>6. row.version > 0 /\ n \in Nat
      BY <1>1, <1>2, <3>2
    <3> HIDE DEF n
    <3> QED BY <3>2, <3>4, <3>5, <3>6
  <2> QED BY <2>1, <2>2
<1>4. PICK row \in Rows, n \in Nat :
        /\ Written(d, k, row) /\ row.remote = 0 /\ row.version > 0
        /\ ~ row.deleted => HoldsNext(k, n, row.value)
        /\ Keep(t, Work(JobOf(t), work[t].recorded, row, n, None)) /\ Goto(t, "record")
  BY <1>3
<1>5. StoresKept /\ local'[d][k] = row
  BY <1>0, <1>1, <1>4, StoresWritten
<1>6. row \in Rows /\ row.version \in Nat
  BY <1>4 DEF Written, Rows
<1>7. OlderOf(row, local'[d][k])
  BY <1>4, <1>5, <1>6 DEF OlderOf, Blank
<1> HIDE DEF d, k, i
<1>8. Ready(t, "record", row, n, None)
  BY <1>4, <1>7 DEF Ready, d, k
<1>9. "record" \in HasItem /\ None \in Value \cup {None}
  BY DEF HasItem
<1> QED BY <1>0, <1>4, <1>5, <1>6, <1>8, <1>9, DataStep

\* The remote version is recorded, if the row is still the one of the sync.
LEMMA RecordStep ==
    ASSUME Inv, NEW t \in Thread, Record(t)
    PROVE  Inv'
<1> DEFINE d == OwnerOf[t]
           k == JobOf(t).key
           i == ItemOf(t)
           row == RecordedRow(t)
<1>0. /\ TypeOK /\ ThreadInv(t) /\ pc[t] = "record" /\ pc[t] \in HasKey /\ pc[t] \in HasItem
      /\ todo' = todo /\ now' = now /\ running' = running /\ server' = server /\ Return(t)
  BY DEF Inv, Record, HasKey, HasItem
<1>1. /\ d \in Device /\ k \in Key /\ i \in Rows /\ JobOf(t) \in Jobs
      /\ Mine(t) = local[d][k] /\ Mine(t) \in Rows /\ Clock(d) \in Nat /\ work[t].version \in Nat
  BY <1>0, Typed DEF Mine
<1>2. StoresKept
  <2>1. CASE IsUnchanged(t)
    <3>1. local[d][k].version = i.version /\ i.version > 0 /\ i.version \in Nat
      BY <1>0, <1>1, <2>1 DEF IsUnchanged, ThreadInv, Rows
    <3>2. local[d][k].value \in Value /\ local[d][k].deleted \in BOOLEAN
      BY <1>0, <1>1, <3>1 DEF TypeOK, Rows
    <3>3. /\ row \in Rows /\ row.version = i.version + 1 /\ row.remote = work[t].version
          /\ row.value = local[d][k].value /\ row.deleted = local[d][k].deleted
      BY <1>1, <3>1, <3>2 DEF RecordedRow, Row, Rows
    <3>4. Write(d, k, row)
      BY <2>1 DEF Record
    <3> HIDE DEF row
    <3>5. Written(d, k, row)
      BY <3>1, <3>2, <3>3, <3>4 DEF Written
    <3>6. i.value = local[d][k].value /\ i.deleted = local[d][k].deleted
      BY <1>0, <1>1, <3>1 DEF ThreadInv, ItemIs
    <3>7. ~ row.deleted => Holds(k, row.remote, row.value)
      BY <1>0, <3>3, <3>6 DEF ThreadInv
    <3> HIDE DEF d, k
    <3> QED BY <1>0, <1>1, <3>5, <3>7, StoresWritten
  <2>2. CASE ~ IsUnchanged(t)
    <3>1. local' = local
      BY <2>2 DEF Record
    <3> QED BY <1>0, <3>1, StoresSame
  <2> QED BY <2>1, <2>2
<1>3. "record" \in HasItem /\ None \in Value \cup {None} /\ 0 \in Nat
  BY DEF HasItem
<1> HIDE DEF i
<1> QED BY <1>0, <1>1, <1>2, <1>3, DataStep

\* A caller writes a row of its own.
LEMMA CallerStep ==
    ASSUME Inv, NEW d \in Device, NEW k \in Key, Delete(d, k) \/ \E v \in Value : Set(d, k, v)
    PROVE  Inv'
<1>0. TypeOK /\ server' = server /\ now' = now /\ running' = running
      /\ pc' = pc /\ todo' = todo /\ work' = work
  BY DEF Inv, Delete, Set, threads
<1>1. local[d][k] \in Rows /\ Clock(d) \in Nat
  BY <1>0, Typed DEF TypeOK
<1>2. local[d][k].version \in Nat
  BY <1>1 DEF Rows
<1>3. \E row : Written(d, k, row) /\ row.remote = 0
  <2>1. CASE Delete(d, k)
    <3> DEFINE row == DeletedRow(d, k)
    <3>1. local[d][k].version > 0 /\ Write(d, k, row)
      BY <1>2, <2>1 DEF Delete
    <3>2. local[d][k].value \in Value
      BY <1>0, <3>1 DEF TypeOK
    <3>3. row \in Rows /\ row.version = local[d][k].version + 1 /\ row.remote = 0 /\ row.value \in Value
      BY <1>1, <1>2, <3>2 DEF DeletedRow, Row, Rows
    <3> HIDE DEF row
    <3>4. Written(d, k, row)
      BY <1>2, <3>1, <3>3 DEF Written
    <3> QED BY <3>3, <3>4
  <2>2. CASE \E v \in Value : Set(d, k, v)
    <3>1. PICK v \in Value : Set(d, k, v)
      BY <2>2
    <3> DEFINE row == Row(local[d][k].version + 1, 0, v, Clock(d), FALSE)
    <3>2. row \in Rows /\ row.version = local[d][k].version + 1 /\ row.remote = 0 /\ row.value \in Value
      BY <1>1, <1>2 DEF Row, Rows
    <3>3. Write(d, k, row)
      BY <3>1 DEF Set
    <3> HIDE DEF row
    <3>4. Written(d, k, row)
      BY <1>2, <3>2, <3>3 DEF Written
    <3> QED BY <3>2, <3>4
  <2> QED BY <2>1, <2>2
<1>4. PICK row : Written(d, k, row) /\ row.remote = 0
  BY <1>3
<1>5. StoresKept
  BY <1>0, <1>4, StoresWritten
<1>6. TypeOK'
  BY <1>0, <1>5 DEF TypeOK, StoresKept, JobOf, ItemOf
<1> DEFINE ts == {}
<1>7. /\ ts \in SUBSET Thread /\ \A u \in ts : ThreadInv(u)'
      /\ \A u \in Thread \ ts : pc'[u] = pc[u] /\ todo'[u] = todo[u] /\ work'[u] = work[u]
  BY <1>0
<1> HIDE DEF ts
<1> QED BY <1>5, <1>6, <1>7, InvKept DEF StoresKept

LEMMA TickStep == Inv /\ Tick => Inv'
<1> SUFFICES ASSUME Inv, Tick PROVE Inv'
  OBVIOUS
<1>0. /\ TypeOK /\ server' = server /\ local' = local /\ now' = now + 1 /\ running' = running
      /\ pc' = pc /\ todo' = todo /\ work' = work
  BY DEF Inv, Tick, threads
<1>1. TypeOK'
  BY <1>0 DEF TypeOK, JobOf, ItemOf
<1>2. LocalGrows /\ ServerGrows
  BY <1>0, NothingGrows
<1> DEFINE ts == {}
<1>3. /\ ts \in SUBSET Thread /\ \A u \in ts : ThreadInv(u)'
      /\ \A u \in Thread \ ts : pc'[u] = pc[u] /\ todo'[u] = todo[u] /\ work'[u] = work[u]
  BY <1>0
<1> HIDE DEF ts
<1> QED BY <1>0, <1>1, <1>2, <1>3, InvKept

\* The syncs of device d are gone; the table and the other devices stay.
LEMMA RestartStep ==
    ASSUME Inv, NEW d \in Device, Restart(d)
    PROVE  Inv'
<1>0. TypeOK /\ server' = server /\ local' = local /\ now' = now
  BY DEF Inv, Restart
<1>1. \A u \in Thread :
        IF OwnerOf[u] = d THEN pc'[u] = "idle" /\ todo'[u] = {} /\ work'[u] = NoWork
                          ELSE pc'[u] = pc[u] /\ todo'[u] = todo[u] /\ work'[u] = work[u]
  BY DEF Restart
<1>2. TypeOK'
  <2>1. /\ running' \in [Device -> BOOLEAN] /\ pc' \in [Thread -> Places]
        /\ todo' \in [Thread -> SUBSET Jobs] /\ work' \in [Thread -> Works]
    BY <1>0, NoWorkTyped DEF Restart, TypeOK, Places
  <2>2. \A u \in Thread :
            /\ pc'[u] \notin {"idle", "enter", "keys", "local", "next"} => work'[u].job.key \in Key
            /\ pc'[u] = "put" => work'[u].item.value \in Value
            /\ pc'[u] = "store" => work'[u].value \in Value
    BY <1>0, <1>1 DEF TypeOK, JobOf, ItemOf
  <2> QED BY <1>0, <2>1, <2>2 DEF TypeOK, JobOf, ItemOf
<1>3. LocalGrows /\ ServerGrows
  BY <1>0, NothingGrows
<1> DEFINE ts == {u \in Thread : OwnerOf[u] = d}
<1>4. /\ ts \in SUBSET Thread
      /\ \A u \in Thread \ ts : pc'[u] = pc[u] /\ todo'[u] = todo[u] /\ work'[u] = work[u]
  BY <1>1
<1>5. \A u \in ts : ThreadInv(u)'
  BY <1>1 DEF ThreadInv, HasKey, HasItem
<1> HIDE DEF ts
<1> QED BY <1>0, <1>2, <1>3, <1>4, <1>5, InvKept

LEMMA NextInv == Inv /\ [Next]_vars => Inv'
<1> SUFFICES ASSUME Inv, [Next]_vars PROVE Inv'
  OBVIOUS
<1>1. CASE UNCHANGED vars
  <2>1. TypeOK'
    BY <1>1 DEF Inv, TypeOK, vars, threads, JobOf, ItemOf
  <2>2. RowInv' /\ RecordedIsRemote'
    BY <1>1 DEF Inv, RowInv, RecordedIsRemote, vars, Blank
  <2>3. \A t \in Thread : ThreadInv(t)'
    <3>1. TypeOK /\ LocalGrows /\ ServerGrows
      BY <1>1, NothingGrows DEF Inv, vars
    <3>2. \A t \in Thread : /\ ThreadInv(t) /\ pc'[t] = pc[t]
                            /\ todo'[t] = todo[t] /\ work'[t] = work[t]
      BY <1>1 DEF Inv, vars, threads
    <3> QED BY <2>1, <3>1, <3>2, ThreadKept
  <2> QED BY <2>1, <2>2, <2>3 DEF Inv
<1>2. CASE \E d \in Device, k \in Key : Delete(d, k) \/ \E v \in Value : Set(d, k, v)
  BY <1>2, CallerStep
<1>3. CASE Tick
  BY <1>3, TickStep
<1>4. CASE \E d \in Device : Restart(d)
  BY <1>4, RestartStep
<1>5. CASE \E t \in Thread : EnterAll(t) \/ SyncStep(t) \/ \E k \in Key : EnterKey(t, k)
  <2>1. PICK t \in Thread : EnterAll(t) \/ SyncStep(t) \/ \E k \in Key : EnterKey(t, k)
    BY <1>5
  <2> QED BY <2>1, ControlStep, ReadStep, CallStep, GetStep, StoreStep, RecordStep DEF SyncStep
<1> QED BY <1>1, <1>2, <1>3, <1>4, <1>5 DEF Next
-----------------------------------------------------------------------------
(***************************************************************************)
(* The results.                                                            *)
(***************************************************************************)
\* The inductive invariant holds in every state of the store.
LEMMA InvAlways == Spec => []Inv
<1>1. Init => Inv
  BY InitInv
<1>2. Inv /\ [Next]_vars => Inv'
  BY NextInv
<1> QED BY <1>1, <1>2, PTL DEF Spec

\* Every variable keeps its type, and a sync that is about to send or to store
\* a value has one (_syncKey of ReplicatedKVStore would otherwise send an empty row).
THEOREM StoreTyped == Spec => []TypeOK
<1>1. Inv => TypeOK
  BY DEF Inv
<1> QED BY <1>1, InvAlways, PTL

\* The remote version recorded with a live row is the version of the server's
\* entry with its value: _syncKey may skip the key when the two versions match.
THEOREM RecordedVersion == Spec => []RecordedIsRemote
<1>1. Inv => RecordedIsRemote
  BY DEF Inv
<1> QED BY <1>1, InvAlways, PTL

-----------------------------------------------------------------------------
\* What one step does to the value of one row, when a sync or a restart takes it.
LEMMA NewerStep ==
    ASSUME Inv, [Next]_vars, NEW d \in Device, NEW k \in Key, pc' # pc,
           local'[d][k].value # local[d][k].value
    PROVE  \E n \in DOMAIN server[k] :
               /\ server[k][n].value = local'[d][k].value
               /\ server[k][n].time > local[d][k].time
<1>0. TypeOK
  BY DEF Inv
<1>1. PICK t \in Thread : ReadFails(t) \/ Store(t) \/ Drop(t) \/ Record(t)
  <2>1. ~ (UNCHANGED vars) /\ ~ Tick
    BY DEF vars, threads, Tick
  <2>2. ASSUME NEW e \in Device PROVE ~ Restart(e)
    BY DEF Restart
  <2>3. ASSUME NEW e \in Device, NEW x \in Key
        PROVE  ~ Delete(e, x) /\ ~ \E v \in Value : Set(e, x, v)
    BY DEF Delete, Set, threads
  <2>4. PICK t \in Thread : EnterAll(t) \/ SyncStep(t) \/ \E x \in Key : EnterKey(t, x)
    BY <2>1, <2>2, <2>3 DEF Next
  <2> QED BY <2>4 DEF SyncStep, EnterAll, EnterKey, SetRunning, Keys, KeysFail, AddLocalKeys, Ver, VerFails,
                 Leave, ReadRecorded, Read, Put, Del, Get, CallFails, StoreFails, Finish
<1> DEFINE e == OwnerOf[t]
           x == JobOf(t).key
<1>2. /\ ThreadInv(t) /\ pc[t] \in HasKey
      /\ e \in Device /\ x \in Key /\ Mine(t) = local[e][x] /\ local \in [Device -> [Key -> Rows]]
  BY <1>0, <1>1, Typed DEF Inv, ReadFails, Store, Drop, Record, HasKey, TypeOK, Mine
<1>3. ASSUME NEW row, Write(e, x, row)
      PROVE  e = d /\ x = k /\ local'[d][k] = row
  <2>1. local' = [local EXCEPT ![e][x] = row]
    BY <1>3 DEF Write
  <2>2. local'[e][x] = row /\ \A b \in Device, y \in Key : ~ (b = e /\ y = x) => local'[b][y] = local[b][y]
    BY <1>2, <2>1
  <2> QED BY <2>2
<1>4. CASE ReadFails(t) \/ Drop(t)
  <2>1. e = d /\ x = k /\ local'[d][k] = DeletedRow(e, x)
    BY <1>3, <1>4 DEF ReadFails, Drop
  <2> QED BY <2>1 DEF DeletedRow, Row
<1>5. CASE Record(t)
  <2>1. e = d /\ x = k /\ local'[d][k] = RecordedRow(t)
    BY <1>3, <1>5 DEF Record
  <2> QED BY <1>2, <2>1 DEF RecordedRow, Row
<1>6. CASE Store(t)
  <2>1. e = d /\ x = k /\ local'[d][k] = FetchedRow(t)
    BY <1>3, <1>6 DEF Store
  <2>2. local'[d][k].value = work[t].value
    BY <2>1 DEF FetchedRow, Row
  <2>3. /\ Holds(x, work[t].version, work[t].value)
        /\ server[x][work[t].version].time > ItemOf(t).time
        /\ ItemOf(t).time = Mine(t).time
    BY <1>2, <1>6 DEF ThreadInv, Store, HasItem, ItemIs, IsUnchanged
  <2> QED BY <1>2, <2>1, <2>2, <2>3 DEF Holds
<1> QED BY <1>1, <1>4, <1>5, <1>6

\* A sync replaces the value of a key only by one that the server accepted later
\* than the row it replaces was written, although _syncKey held no lock while it
\* asked the server: last write wins, whatever was written in between.
THEOREM NewerWins == Spec => KeepsNewer
<1>1. Inv /\ [Next]_vars =>
        [\A d \in Device, k \in Key :
            pc' # pc /\ local'[d][k].value # local[d][k].value =>
                \E n \in DOMAIN server[k] :
                    /\ server[k][n].value = local'[d][k].value
                    /\ server[k][n].time > local[d][k].time]_vars
  BY NewerStep
<1> QED BY <1>1, InvAlways, PTL DEF Spec, KeepsNewer
-----------------------------------------------------------------------------
Outside == {"idle", "enter", "enterKey"}

\* What a step of a thread does to syncRunning: a thread that is past its entry
\* stays there, until it resets the flag.
LEMMA FlagCases ==
    ASSUME TypeOK, NEW t \in Thread, EnterAll(t) \/ SyncStep(t) \/ \E k \in Key : EnterKey(t, k)
    PROVE  /\ \A u \in Thread \ {t} : pc'[u] = pc[u]
           /\ \/ running' = running /\ (pc[t] \in Outside \/ pc'[t] \notin Outside)
              \/ running' = [running EXCEPT ![OwnerOf[t]] = TRUE] /\ pc'[t] \notin Outside
              \/ running' = [running EXCEPT ![OwnerOf[t]] = FALSE]
<1>0. pc \in [Thread -> Places]
  BY DEF TypeOK
<1>1. CASE EnterAll(t) \/ \E k \in Key : EnterKey(t, k)
  BY <1>0, <1>1 DEF EnterAll, EnterKey, Goto, Outside
<1>2. CASE SetRunning(t)
  BY <1>0, <1>2 DEF SetRunning, Goto, Outside
<1>3. CASE KeysFail(t) \/ VerFails(t) \/ Leave(t)
  BY <1>0, <1>3 DEF KeysFail, VerFails, Leave, Finish, Goto
<1>4. CASE Keys(t) \/ AddLocalKeys(t) \/ Ver(t) \/ ReadRecorded(t) \/ CallFails(t) \/ StoreFails(t) \/ Record(t)
  BY <1>0, <1>4 DEF Keys, AddLocalKeys, Ver, ReadRecorded, CallFails, StoreFails, Record, Return, Goto, Outside
<1>5. CASE Put(t) \/ Del(t) \/ Get(t) \/ Store(t) \/ Drop(t)
  BY <1>0, <1>5 DEF Put, Del, Get, Store, Drop, Answered, Continue, Return, Goto, Outside
<1>6. CASE Read(t) \/ ReadFails(t)
  <2>1. \A i, j : Decide(i, j) \notin Outside
    BY DEF Decide, Outside
  <2> QED BY <1>0, <1>6, <2>1 DEF Read, ReadFails, WorkOn, Return, Goto, Outside
<1> QED BY <1>1, <1>2, <1>3, <1>4, <1>5, <1>6 DEF SyncStep

LEMMA FlagStep == TypeOK /\ RunningIsASync /\ [Next]_vars => RunningIsASync'
<1> SUFFICES ASSUME TypeOK, RunningIsASync, [Next]_vars, NEW d \in Device, running'[d]
             PROVE  \E t \in Thread : OwnerOf[t] = d /\ pc'[t] \notin Outside
  BY DEF RunningIsASync, Outside
<1>0. running \in [Device -> BOOLEAN] /\ OwnerOf \in [Thread -> Device]
  BY OwnerAssumption DEF TypeOK
<1>1. running[d] => \E t \in Thread : OwnerOf[t] = d /\ pc[t] \notin Outside
  BY DEF RunningIsASync, Outside
<1>2. CASE running' = running /\ pc' = pc
  BY <1>1, <1>2
<1>3. CASE \E e \in Device : Restart(e)
  <2>1. PICK e \in Device : Restart(e)
    BY <1>3
  <2>2. /\ d # e /\ running[d]
        /\ \A t \in Thread : OwnerOf[t] = d => pc'[t] = pc[t]
    BY <1>0, <2>1 DEF Restart
  <2> QED BY <1>1, <2>2
<1>4. CASE \E t \in Thread : EnterAll(t) \/ SyncStep(t) \/ \E k \in Key : EnterKey(t, k)
  <2>1. PICK t \in Thread : EnterAll(t) \/ SyncStep(t) \/ \E k \in Key : EnterKey(t, k)
    BY <1>4
  <2>2. \A u \in Thread \ {t} : pc'[u] = pc[u]
    BY <2>1, FlagCases
  <2>3. CASE running' = running /\ (pc[t] \in Outside \/ pc'[t] \notin Outside)
    <3>1. PICK u \in Thread : OwnerOf[u] = d /\ pc[u] \notin Outside
      BY <1>1, <2>3
    <3> QED BY <2>2, <2>3, <3>1
  <2>4. CASE running' = [running EXCEPT ![OwnerOf[t]] = TRUE] /\ pc'[t] \notin Outside
    <3>1. CASE OwnerOf[t] = d
      BY <2>4, <3>1
    <3>2. CASE OwnerOf[t] # d
      <4>1. PICK u \in Thread : OwnerOf[u] = d /\ pc[u] \notin Outside
        BY <1>0, <1>1, <2>4, <3>2
      <4> QED BY <2>2, <3>2, <4>1
    <3> QED BY <3>1, <3>2
  <2>5. CASE running' = [running EXCEPT ![OwnerOf[t]] = FALSE]
    <3>1. OwnerOf[t] # d /\ running[d]
      BY <1>0, <2>5
    <3>2. PICK u \in Thread : OwnerOf[u] = d /\ pc[u] \notin Outside
      BY <1>1, <3>1
    <3> QED BY <2>2, <3>1, <3>2
  <2> QED BY <2>1, <2>3, <2>4, <2>5, FlagCases
<1> QED BY <1>2, <1>3, <1>4 DEF Next, Delete, Set, Tick, vars, threads

\* syncRunning never stays set without a sync that is going to reset it, although
\* it is tested and set under no lock: replication cannot be switched off for good.
THEOREM FlagIsReset == Spec => []RunningIsASync
<1>1. Init => RunningIsASync
  BY DEF Init, RunningIsASync
<1>2. TypeOK /\ RunningIsASync /\ [Next]_vars => RunningIsASync'
  BY FlagStep
<1> QED BY <1>1, <1>2, StoreTyped, PTL DEF Spec
=============================================================================
