------------------------------ MODULE KVStore ------------------------------
(***************************************************************************)
(* The replicated key-value store (ytnplatform/kvstore): on each device a  *)
(* table of versions of each key, written under the lock of the store, and *)
(* syncAllKeys and syncKey, which bring table and server together by last  *)
(* write wins.  Several threads of a device may sync; a sync holds no lock *)
(* between its steps.  The table keeps every version of a key, and local   *)
(* holds the row of the highest one, the only one that get(key, 0),        *)
(* _localVersion and remoteVersion read.  The server is external: it keeps *)
(* the entries of each key in the order it accepted them, the version of   *)
(* an entry being its place.  Values are opaque: encryption is what makes  *)
(* a row unreadable (ReadFails).  Devices in Tombstones have an adaptor    *)
(* that reports deletions and missing keys, as the one of KVStoreTests     *)
(* does; RemoteKVStore reports every failure as unknown.                   *)
(***************************************************************************)
EXTENDS Integers, Sequences, FiniteSets

CONSTANTS
    Device, Key, Value, None,
    Thread, OwnerOf,        \* the threads that sync and the device of each
    Skew,                   \* how far a device's clock runs ahead
    Tombstones,             \* devices whose adaptor reports deletions
    MaxTime, MaxVersion, MaxRemote, MaxSyncs    \* bounds of the model

ASSUME NoneAssumption == None \notin Value
ASSUME OwnerAssumption == OwnerOf \in [Thread -> Device]
ASSUME SkewAssumption == Skew \in [Device -> Nat]

VARIABLES
    server,     \* per key, the sequence of its entries on the server
    local,      \* per device and key, the row with the highest version
    now,
    running,    \* per device, syncRunning
    pc,         \* per thread, where its sync stands
    todo,       \* per thread, the keys allKvs still holds
    work        \* per thread, the arguments and variables of _syncKey

threads == <<pc, todo, work>>
vars == <<server, local, now, running, threads>>
-----------------------------------------------------------------------------
Row(version, remote, value, time, deleted) ==
    [version |-> version, remote |-> remote, value |-> value,
     time |-> time, deleted |-> deleted]
NoRow == Row(0, 0, None, 0, FALSE)

Entry(value, time, deleted) == [value |-> value, time |-> time, deleted |-> deleted]
Job(key, version, time, err) ==
    [key |-> key, version |-> version, time |-> time, err |-> err]
NoJob == Job(None, 0, 0, "none")

\* _syncKey's arguments, recorderRemoteVersion, localKv (later the row _set or
\* _delete has made) and the version and value the server has returned.
Work(j, recorded, item, version, value) ==
    [job |-> j, recorded |-> recorded, item |-> item,
     version |-> version, value |-> value]
NoWork == Work(NoJob, 0, NoRow, 0, None)
JobOf(t) == work[t].job
ItemOf(t) == work[t].item

Clock(d) == now + Skew[d]
Exists(k) == server[k] # <<>>
Current(k) == server[k][Len(server[k])]
Mine(t) == local[OwnerOf[t]][JobOf(t).key]

\* Bounds: MaxSyncs threads sync at a time, while the versions of their device
\* are at most MaxVersion.
Room(d) ==
    /\ \A k \in Key : local[d][k].version <= MaxVersion[d]
    /\ Cardinality({t \in Thread : pc[t] # "idle"}) < MaxSyncs

Init ==
    /\ server = [k \in Key |-> <<>>]
    /\ local = [d \in Device |-> [k \in Key |-> NoRow]]
    /\ now = 1
    /\ running = [d \in Device |-> FALSE]
    /\ pc = [t \in Thread |-> "idle"]
    /\ todo = [t \in Thread |-> {}]
    /\ work = [t \in Thread |-> NoWork]

Write(d, k, row) == local' = [local EXCEPT ![d][k] = row]
Goto(t, place) == pc' = [pc EXCEPT ![t] = place]
Keep(t, w) == work' = [work EXCEPT ![t] = w]

\* _syncKey returns: its variables are gone.
Return(t) == Goto(t, "next") /\ Keep(t, NoWork)
-----------------------------------------------------------------------------
(* The callers of the store.  A call with a version that is not the current *)
(* one is refused and changes nothing.                                      *)

\* set: the new row carries no remote version, so the next sync sees a change.
Set(d, k, v) ==
    /\ local[d][k].version < MaxVersion[d]
    /\ Write(d, k, Row(local[d][k].version + 1, 0, v, Clock(d), FALSE))
    /\ UNCHANGED <<server, now, running, threads>>

\* The row _delete adds: the value stays, the deletion has no remote version.
DeletedRow(d, k) ==
    Row(local[d][k].version + 1, 0, local[d][k].value, Clock(d), TRUE)

\* delete, by a caller or by get when the value does not decrypt.
Delete(d, k) ==
    /\ local[d][k].version \in 1..(MaxVersion[d] - 1)
    /\ Write(d, k, DeletedRow(d, k))
    /\ UNCHANGED <<server, now, running, threads>>

Tick ==
    /\ now < MaxTime
    /\ now' = now + 1
    /\ UNCHANGED <<server, local, running, threads>>

\* The process ends and starts again: the table stays, the syncs are gone.
Restart(d) ==
    /\ running' = [running EXCEPT ![d] = FALSE]
    /\ pc' = [t \in Thread |-> IF OwnerOf[t] = d THEN "idle" ELSE pc[t]]
    /\ todo' = [t \in Thread |-> IF OwnerOf[t] = d THEN {} ELSE todo[t]]
    /\ work' = [t \in Thread |-> IF OwnerOf[t] = d THEN NoWork ELSE work[t]]
    /\ UNCHANGED <<server, local, now>>
-----------------------------------------------------------------------------
(* Entering a sync: syncRunning is tested, then set, under no lock.        *)

EnterAll(t) ==
    /\ pc[t] = "idle"
    /\ Room(OwnerOf[t])
    /\ ~ running[OwnerOf[t]]
    /\ Goto(t, "enter")
    /\ UNCHANGED <<server, local, now, running, todo, work>>

EnterKey(t, k) ==
    /\ pc[t] = "idle"
    /\ Room(OwnerOf[t])
    /\ ~ running[OwnerOf[t]]
    /\ Keep(t, Work(Job(k, 0, 0, "none"), 0, NoRow, 0, None))
    /\ Goto(t, "enterKey")
    /\ UNCHANGED <<server, local, now, running, todo>>

SetRunning(t) ==
    /\ pc[t] \in {"enter", "enterKey"}
    /\ running' = [running EXCEPT ![OwnerOf[t]] = TRUE]
    /\ Goto(t, IF pc[t] = "enter" THEN "keys" ELSE "ver")
    /\ UNCHANGED <<server, local, now, todo, work>>

\* The finally clauses of syncKey and syncAllKeys.
Finish(t) ==
    /\ running' = [running EXCEPT ![OwnerOf[t]] = FALSE]
    /\ todo' = [todo EXCEPT ![t] = {}]
    /\ Keep(t, NoWork)
    /\ Goto(t, "idle")
    /\ UNCHANGED <<server, local, now>>

\* What the adaptor of thread t says of key k.
Listed(t, k) ==
    Job(k, Len(server[k]), Current(k).time,
        IF Current(k).deleted /\ OwnerOf[t] \in Tombstones THEN "tombstone" ELSE "none")

\* remoteKvStore.keys(): the server is asked once for all keys.
Keys(t) ==
    /\ pc[t] = "keys"
    /\ todo' = [todo EXCEPT ![t] = {Listed(t, k) : k \in {x \in Key : Exists(x)}}]
    /\ Goto(t, "local")
    /\ UNCHANGED <<server, local, now, running, work>>

\* A mutant: the early return leaves syncRunning set.
KeysFailStuck(t) ==
    /\ pc[t] = "keys"
    /\ Goto(t, "idle")
    /\ UNCHANGED <<server, local, now, running, todo, work>>
KeysFail(t) == pc[t] = "keys" /\ Finish(t)

\* getRawKVs, and a job for every local key the server did not list.
AddLocalKeys(t) ==
    /\ pc[t] = "local"
    /\ LET missing == {k \in Key : /\ local[OwnerOf[t]][k].version > 0
                                   /\ \A j \in todo[t] : j.key # k}
       IN  todo' = [todo EXCEPT ![t] = todo[t] \cup {Job(k, 0, 0, "none") : k \in missing}]
    /\ Goto(t, "next")
    /\ UNCHANGED <<server, local, now, running, work>>

\* remoteKvStore.ver(key) of syncKey: only an adaptor that reports missing keys
\* and tombstones lets the sync go on with them.
Ver(t) ==
    /\ pc[t] = "ver"
    /\ LET k == JobOf(t).key
       IN  /\ (Exists(k) /\ ~ Current(k).deleted) \/ OwnerOf[t] \in Tombstones
           /\ todo' = [todo EXCEPT ![t] =
                {IF Exists(k) THEN Listed(t, k) ELSE Job(k, 0, 0, "notFound")}]
    /\ Return(t)
    /\ UNCHANGED <<server, local, now, running>>

\* Any other answer: _syncKey is called with the error and returns false.
VerFails(t) == pc[t] = "ver" /\ Finish(t)
-----------------------------------------------------------------------------
(* _syncKey, for one key after the other.                                  *)

\* The last key is done, or _syncKey throws because another sync of the device
\* has finished and reset syncRunning.
Leave(t) ==
    /\ pc[t] = "next"
    /\ todo[t] = {} \/ ~ running[OwnerOf[t]]
    /\ Finish(t)

\* The recorded remote version is read; nothing is to be done if it is current.
ReadRecorded(t) ==
    /\ pc[t] = "next"
    /\ running[OwnerOf[t]]
    /\ \E j \in todo[t] :
        LET r == local[OwnerOf[t]][j.key].remote
        IN  /\ todo' = [todo EXCEPT ![t] = todo[t] \ {j}]
            /\ IF j.version > 0 /\ r = j.version
                 THEN Return(t)
                 ELSE Keep(t, Work(j, r, NoRow, 0, None)) /\ Goto(t, "read")
    /\ UNCHANGED <<server, local, now, running>>

\* A mutant: equal times count as older.
DecideTie(i, j) ==
    CASE i.deleted /\ j.err = "tombstone"   -> "record"
      [] i.time > j.time /\ i.deleted /\ j.err # "tombstone" -> "del"
      [] i.time > j.time /\ ~ i.deleted     -> "put"
      [] i.time <= j.time /\ j.err = "tombstone" /\ ~ i.deleted -> "drop"
      [] OTHER                              -> "get"

\* Which way _syncKey goes with local row i: equal times count as newer.
Decide(i, j) ==
    CASE i.deleted /\ j.err = "tombstone"   -> "record"
      [] i.time >= j.time /\ i.deleted /\ j.err # "tombstone" -> "del"
      [] i.time >= j.time /\ ~ i.deleted    -> "put"
      [] i.time < j.time /\ j.err = "tombstone" /\ ~ i.deleted -> "drop"
      [] OTHER                              -> "get"

\* A mutant: a row without a value is sent as well.
WorkOnAny(t, i) ==
    /\ Keep(t, Work(JobOf(t), work[t].recorded, i, i.remote, None))
    /\ Goto(t, Decide(i, JobOf(t)))

\* _syncKey goes on with local row i; a row without a value is not put.
WorkOn(t, i) ==
    IF i.value = None /\ Decide(i, JobOf(t)) = "put" THEN Return(t)
    ELSE /\ Keep(t, Work(JobOf(t), work[t].recorded, i, i.remote, None))
         /\ Goto(t, Decide(i, JobOf(t)))

Read(t) ==
    /\ pc[t] = "read"
    /\ WorkOn(t, Mine(t))
    /\ UNCHANGED <<server, local, now, running, todo>>

\* The value does not decrypt: get deletes the row it read and returns it
\* without a value.
ReadFails(t) ==
    /\ pc[t] = "read"
    /\ Mine(t).version > 0
    /\ WorkOn(t, Row(Mine(t).version, Mine(t).remote, None, Mine(t).time, Mine(t).deleted))
    /\ Write(OwnerOf[t], JobOf(t).key, DeletedRow(OwnerOf[t], JobOf(t).key))
    /\ UNCHANGED <<server, now, running, todo>>

\* The server has answered, or a row has been made: i is to be stored, or is
\* current and gets the remote version.
Continue(t, i, version, value, place) ==
    /\ Keep(t, Work(JobOf(t), work[t].recorded, i, version, value))
    /\ Goto(t, place)

\* "if the remote version is zero it means it doesnt yet exist on the server"
UseRemoteVer(t) ==
    IF JobOf(t).version = 0 \/ JobOf(t).version < work[t].recorded THEN 1
    ELSE JobOf(t).version

\* The server accepts version 1 for a key it does not hold, and otherwise the
\* current version of the key.
Accepts(k, version) ==
    version = IF Exists(k) THEN Len(server[k]) ELSE 1

Add(k, entry) ==
    /\ Len(server[k]) < MaxRemote
    /\ server' = [server EXCEPT ![k] = Append(server[k], entry)]

\* The server acts on a call; its answer arrives, or is lost.
Answered(t) ==
    \/ Continue(t, ItemOf(t), Len(server[JobOf(t).key]) + 1, None, "record")
    \/ Return(t)

Put(t) ==
    /\ pc[t] = "put"
    /\ Accepts(JobOf(t).key, UseRemoteVer(t))
    /\ Add(JobOf(t).key, Entry(ItemOf(t).value, now, FALSE))
    /\ Answered(t)
    /\ UNCHANGED <<local, now, running, todo>>

Del(t) ==
    /\ pc[t] = "del"
    /\ Exists(JobOf(t).key) /\ JobOf(t).version = Len(server[JobOf(t).key])
    /\ Add(JobOf(t).key,
           Entry(Current(JobOf(t).key).value, Current(JobOf(t).key).time, TRUE))
    /\ Answered(t)
    /\ UNCHANGED <<local, now, running, todo>>

Get(t) ==
    /\ pc[t] = "get"
    /\ Exists(JobOf(t).key) /\ JobOf(t).version = Len(server[JobOf(t).key])
    /\ ~ Current(JobOf(t).key).deleted
    /\ Continue(t, ItemOf(t), JobOf(t).version, Current(JobOf(t).key).value, "store")
    /\ UNCHANGED <<server, local, now, running, todo>>

\* The server refuses the call, or cannot be reached.
CallFails(t) ==
    /\ pc[t] \in {"put", "del", "get"}
    /\ Return(t)
    /\ UNCHANGED <<server, local, now, running, todo>>

\* A mutant: only the existence of the row is tested.
IsUnchangedIfAny(t) == Mine(t).version > 0 \/ ItemOf(t).version = 0

\* _set, _delete and setRemoteVersion test the version against the table again.
IsUnchanged(t) == Mine(t).version = ItemOf(t).version

\* The row made from a fetched value: it keeps the local deletion.
FetchedRow(t) ==
    Row(ItemOf(t).version + 1, 0, work[t].value, Clock(OwnerOf[t]), ItemOf(t).deleted)

Store(t) ==
    /\ pc[t] = "store"
    /\ IsUnchanged(t)
    /\ Write(OwnerOf[t], JobOf(t).key, FetchedRow(t))
    /\ Continue(t, FetchedRow(t), work[t].version, None, "record")
    /\ UNCHANGED <<server, now, running, todo>>

Drop(t) ==
    /\ pc[t] = "drop"
    /\ IsUnchanged(t) /\ ItemOf(t).version > 0
    /\ LET row == DeletedRow(OwnerOf[t], JobOf(t).key)
       IN  /\ Write(OwnerOf[t], JobOf(t).key, row)
           /\ Continue(t, row, JobOf(t).version, None, "record")
    /\ UNCHANGED <<server, now, running, todo>>

StoreFails(t) ==
    /\ pc[t] \in {"store", "drop"}
    /\ IsUnchanged(t) => pc[t] = "drop" /\ ItemOf(t).version = 0
    /\ Return(t)
    /\ UNCHANGED <<server, local, now, running, todo>>

\* setRemoteVersion: a new version of the row the sync worked with, unless the
\* key has changed since.
RecordedRow(t) ==
    Row(ItemOf(t).version + 1, work[t].version, Mine(t).value,
        Clock(OwnerOf[t]), Mine(t).deleted)

Record(t) ==
    /\ pc[t] = "record"
    /\ IF IsUnchanged(t)
         THEN Write(OwnerOf[t], JobOf(t).key, RecordedRow(t))
         ELSE UNCHANGED local
    /\ Return(t)
    /\ UNCHANGED <<server, now, running, todo>>
-----------------------------------------------------------------------------
SyncStep(t) ==
    \/ SetRunning(t) \/ Keys(t) \/ KeysFail(t) \/ AddLocalKeys(t)
    \/ Ver(t) \/ VerFails(t) \/ Leave(t) \/ ReadRecorded(t)
    \/ Read(t) \/ ReadFails(t) \/ Put(t) \/ Del(t) \/ Get(t) \/ CallFails(t)
    \/ Store(t) \/ Drop(t) \/ StoreFails(t) \/ Record(t)

Next ==
    \/ \E d \in Device, k \in Key : Delete(d, k) \/ \E v \in Value : Set(d, k, v)
    \/ Tick
    \/ \E d \in Device : Restart(d)
    \/ \E t \in Thread : EnterAll(t) \/ SyncStep(t) \/ \E k \in Key : EnterKey(t, k)

Spec == Init /\ [][Next]_vars
-----------------------------------------------------------------------------
Places == {"idle", "enter", "enterKey", "keys", "local", "ver", "next", "read",
           "record", "del", "put", "drop", "get", "store"}
Errors == {"none", "notFound", "tombstone"}
Rows == [version : Nat, remote : Nat, value : Value \cup {None}, time : Nat,
         deleted : BOOLEAN]
Entries == [value : Value, time : Nat, deleted : BOOLEAN]
Jobs == [key : Key, version : Nat, time : Nat, err : Errors]
Works == [job : Jobs \cup {NoJob}, recorded : Nat, item : Rows, version : Nat,
          value : Value \cup {None}]

\* Every variable has its type; a sync that works on a key knows the key, and
\* what it is about to send or to store has a value.
TypeOK ==
    /\ server \in [Key -> Seq(Entries)]
    /\ local \in [Device -> [Key -> Rows]]
    /\ now \in Nat
    /\ running \in [Device -> BOOLEAN]
    /\ pc \in [Thread -> Places]
    /\ todo \in [Thread -> SUBSET Jobs]
    /\ work \in [Thread -> Works]
    /\ \A t \in Thread :
        /\ pc[t] \notin {"idle", "enter", "keys", "local", "next"} => JobOf(t).key \in Key
        /\ pc[t] = "put" => ItemOf(t).value \in Value
        /\ pc[t] = "store" => work[t].value \in Value
    /\ \A d \in Device, k \in Key :
        local[d][k].version > 0 => local[d][k].value \in Value

\* The remote version in a live row is the one of the server's entry with the
\* row's value, whatever is written locally, lost or repeated between the calls
\* of a sync: this is the optimization of _syncKey ("if they match, there is
\* nothing to do"), which is wrong when the recorded version is.
RecordedIsRemote ==
    \A d \in Device, k \in Key :
        LET r == local[d][k]
        IN  r.remote > 0 /\ ~ r.deleted =>
                /\ r.remote \in DOMAIN server[k]
                /\ server[k][r.remote].value = r.value
                /\ ~ server[k][r.remote].deleted

\* A sync replaces the value of a key only by one the server accepted later than
\* the row it replaces was written, although it held no lock while it asked.
KeepsNewer ==
    [][\A d \in Device, k \in Key :
        pc' # pc /\ local'[d][k].value # local[d][k].value =>
            \E n \in DOMAIN server[k] :
                /\ server[k][n].value = local'[d][k].value
                /\ server[k][n].time > local[d][k].time]_vars

\* syncRunning does not stay set, which would end replication for good: while it
\* is set, a sync of the device has still to reset it.
RunningIsASync ==
    \A d \in Device : running[d] =>
        \E t \in Thread : OwnerOf[t] = d /\ pc[t] \notin {"idle", "enter", "enterKey"}
=============================================================================
