------------------------- MODULE NotificationsProofs -------------------------
(***************************************************************************)
(* Theorems about Notifications, for any replicas, tunnels and sessions:   *)
(* its types, that no replica keeps the snapshot of a device it has no     *)
(* watcher for, and that no change is pushed twice.  In the second part,   *)
(* about Tasks, for any calls and requests: its types, that no edit of the *)
(* list is lost, and that the person's decisions stand.                    *)
(***************************************************************************)
EXTENDS Notifications, Tasks, FiniteSetTheorems, TLAPS

USE NotificationsAssumption

LEMMA BoundsAreNat ==
    /\ Cooldown \in Nat /\ MaxWatchers \in Nat
    /\ MaxChanges \in Nat /\ MaxFaults \in Nat
BY NotificationsAssumption

Taken == [rows: Rows, at: Nat \ {0}]

TimesOK ==
    /\ snaps \in [Replicas -> Snapshots]
    /\ views \in [Replicas -> Snapshots]

\* The watchers' part of TypeOK, which says what a field update does.
WatchOK == watch \in [Watchers -> WatcherRecords]

\* What a function takes of a finite set is finite.
LEMMA FiniteImage ==
    ASSUME NEW S, IsFiniteSet(S), NEW f, f = [x \in S |-> f[x]]
    PROVE  IsFiniteSet({f[x] : x \in S})
<1> DEFINE T == {f[x] : x \in S}
<1>1. f \in Surjection(S, T)
  BY DEF Surjection
<1> QED
  BY <1>1, FS_Surjection

LEMMA TimesAreFinite ==
    ASSUME TimesOK
    PROVE  IsFiniteSet(Times) /\ Times \subseteq Nat \ {0}
<1> DEFINE at == [s \in Held |-> s.at]
<1>1. IsFiniteSet({snaps[r] : r \in Replicas}) /\ IsFiniteSet({views[r] : r \in Replicas})
  BY FiniteImage DEF TimesOK
<1>2. IsFiniteSet(Held)
  BY <1>1, FS_Union, FS_Difference DEF Held
<1>3. IsFiniteSet({at[s] : s \in Held})
  <2>1. at = [s \in Held |-> at[s]]
    OBVIOUS
  <2> HIDE DEF at
  <2> QED
    BY <1>2, <2>1, FiniteImage
<1>4. {at[s] : s \in Held} = Times
  BY DEF Times
<1>5. \A s \in Held : s \in Taken
  BY DEF TimesOK, Snapshots, Taken, Held
<1>6. \A s \in Held : s.at \in Nat \ {0}
  BY <1>5 DEF Taken
<1> QED
  BY <1>3, <1>4, <1>6 DEF Times

LEMMA RankedIsASnapshot ==
    ASSUME TimesOK, NEW s \in Snapshots, s = NoSnapshot \/ s.at \in Times
    PROVE  /\ Ranked(s) \in Snapshots
           /\ s = NoSnapshot => Ranked(s) = NoSnapshot
<1>1. CASE s = NoSnapshot
  BY <1>1 DEF Ranked, Snapshots
<1>2. CASE s # NoSnapshot
  <2>1. s \in Taken /\ s.at \in Times
    BY <1>2 DEF Snapshots, Taken
  <2> DEFINE U == {u \in Times : u <= s.at}
  <2>2. U \subseteq Times /\ IsFiniteSet(U)
    BY TimesAreFinite, FS_Subset
  <2>3. s.at \in U
    BY <2>1 DEF Taken
  <2>4. Cardinality(U) \in Nat /\ Cardinality(U) # 0
    BY <2>2, <2>3, FS_CardinalityType, FS_EmptySet
  <2>5. Ranked(s) = [s EXCEPT !.at = Cardinality(U)]
    BY <1>2 DEF Ranked, Earlier
  <2>6. Ranked(s) \in Taken
    BY <2>1, <2>4, <2>5 DEF Taken
  <2> QED
    BY <1>2, <2>6 DEF Snapshots, Taken
<1> QED
  BY <1>1, <1>2

\* Every replica's snapshot and every view is ranked to one.
LEMMA AllRanked ==
    ASSUME TimesOK, NEW r \in Replicas
    PROVE  /\ Ranked(snaps[r]) \in Snapshots
           /\ snaps[r] = NoSnapshot => Ranked(snaps[r]) = NoSnapshot
           /\ Ranked(views[r]) \in Snapshots
<1>1. snaps[r] \in Snapshots /\ views[r] \in Snapshots
  BY DEF TimesOK
<1>2. (snaps[r] = NoSnapshot \/ snaps[r] \in Held) /\ (views[r] = NoSnapshot \/ views[r] \in Held)
  BY DEF Held
<1>3. \A s \in Held : s.at \in Times
  BY DEF Times
<1> QED
  BY <1>1, <1>2, <1>3, RankedIsASnapshot

LEMMA Asleep ==
    ASSUME NEW r \in Replicas
    PROVE  NewWatcher(r) \in WatcherRecords
<1>1. Nothing \in [Subjects -> Signatures]
  BY DEF Nothing, Signatures
<1>2. [k \in (Sessions \cup Spawns) \X {"needs", "done"} |-> 0]
        \in [(Sessions \cup Spawns) \X {"needs", "done"} -> 0..Cooldown]
  OBVIOUS
<1> QED
  BY <1>1, <1>2 DEF NewWatcher, WatcherRecords, Running

LEMMA NotRunning ==
    ASSUME NEW at \in {"no", "gone"}
    PROVE  NoWatcher(at) \in WatcherRecords /\ NoWatcher(at).at = at
<1>1. NewWatcher(Portal) \in WatcherRecords
  BY Asleep
<1> QED
  BY <1>1 DEF NoWatcher, WatcherRecords

LEMMA LookedIsTyped ==
    ASSUME WatchOK, NEW w \in Watchers, NEW got \in [Subjects -> Signatures]
    PROVE  /\ Looked(w, got) \in WatcherRecords
           /\ Looked(w, got).at = "store"
           /\ Looked(w, got).rep = watch[w].rep
           /\ Looked(w, got).done = watch[w].done
<1> DEFINE due == {x \in Subjects : Due(w, x, got[x])}
           cool == [k \in DOMAIN watch[w].cool |->
                      IF k[1] \in due /\ k = Key(k[1], got[k[1]]) THEN Cooldown ELSE watch[w].cool[k]]
<1>1. watch[w] \in WatcherRecords
  BY DEF WatchOK
<1>2. due \in SUBSET Subjects
  OBVIOUS
<1>3. cool \in [(Sessions \cup Spawns) \X {"needs", "done"} -> 0..Cooldown]
  BY <1>1 DEF WatcherRecords
<1>4. Looked(w, got) = [watch[w] EXCEPT !.at = "store", !.first = FALSE, !.seen = got,
                                         !.due = due, !.cool = cool]
  BY <1>1 DEF Looked, WatcherRecords
<1> HIDE DEF due, cool
<1> QED
  BY <1>1, <1>2, <1>3, <1>4 DEF WatcherRecords, Running

-----------------------------------------------------------------------------
(* The inductive invariant                                                 *)

\* A table's entry is a watcher at work there, whose context has not ended: it
\* leaves the table first.
InTable ==
    \A r \in Replicas : conns[r] # 0 =>
        /\ conns[r] \in Watchers
        /\ watch[conns[r]].rep = r
        /\ watch[conns[r]].at \in Running
        /\ ~watch[conns[r]].done

DeviceOK ==
    /\ wait \in [Subjects -> UNION {WaitsOf(x) : x \in Subjects}]
    /\ \A x \in Subjects : wait[x] \in WaitsOf(x)
    /\ up \in Watchers \cup {0}
    /\ known \subseteq Subjects
    /\ blind \in BOOLEAN
    /\ changes \in 0..MaxChanges /\ faults \in 0..MaxFaults

IInv ==
    /\ DeviceOK
    /\ WatchOK
    /\ TimesOK
    /\ conns \in [Replicas -> Watchers \cup {0}]
    /\ InTable
    /\ SnapshotsAreWatched

\* Whoever was at work still is, in the same place.
Kept == \A u \in Watchers : watch[u].at \in Running =>
           watch'[u].at \in Running /\ watch'[u].rep = watch[u].rep

LEMMA WatchersKeepSnapshots ==
    ASSUME IInv, Kept,
           \A r \in Replicas : snaps'[r] # NoSnapshot =>
               \/ snaps[r] # NoSnapshot
               \/ \E w \in Watchers : watch[w].rep = r /\ watch[w].at \in Running
    PROVE  SnapshotsAreWatched'
BY DEF IInv, Kept, SnapshotsAreWatched

LEMMA StepOfAWatcher ==
    ASSUME IInv, NEW w \in Watchers, NEW v \in WatcherRecords,
           watch' = [watch EXCEPT ![w] = v], conns' = conns,
           v.rep = watch[w].rep, v.at \in Running, v.done = watch[w].done
    PROVE  WatchOK' /\ InTable' /\ Kept
<1>1. WatchOK'
  BY DEF IInv, WatchOK
<1>2. \A u \in Watchers : watch'[u] = IF u = w THEN v ELSE watch[u]
  BY DEF IInv, WatchOK
<1>3. Kept
  BY <1>2 DEF Kept
<1>4. InTable'
  BY <1>2 DEF IInv, InTable
<1> QED
  BY <1>1, <1>3, <1>4

LEMMA IInvGivesTypes == IInv => TypeOK
BY DEF IInv, DeviceOK, WatchOK, TimesOK, InTable, TypeOK

LEMMA InitIsRight == Init => IInv
<1> SUFFICES ASSUME Init PROVE IInv
  OBVIOUS
<1>1. \A w \in Watchers : watch[w] = NoWatcher("no") /\ watch[w].at = "no"
  BY NotRunning DEF Init
<1>2. WatchOK
  BY NotRunning DEF Init, WatchOK
<1>3. TimesOK
  BY DEF Init, TimesOK, Snapshots
<1>4. InTable /\ conns \in [Replicas -> Watchers \cup {0}] /\ SnapshotsAreWatched
  BY DEF Init, InTable, SnapshotsAreWatched
<1>5. DeviceOK
  <2>1. \A x \in Subjects : wait[x] \in WaitsOf(x)
    BY DEF Init, Nothing, WaitsOf
  <2>2. wait \in [Subjects -> UNION {WaitsOf(x) : x \in Subjects}]
    BY <2>1 DEF Init, Nothing
  <2>3. 0 \in 0..MaxChanges /\ 0 \in 0..MaxFaults
    BY BoundsAreNat
  <2> QED
    BY <2>1, <2>2, <2>3 DEF Init, DeviceOK
<1> QED
  BY <1>2, <1>3, <1>4, <1>5 DEF IInv

\* Counting up to a bound.
LEMMA Counted ==
    ASSUME NEW n \in 0..MaxFaults, NEW m, (m = n + 1 /\ n < MaxFaults) \/ m = n
    PROVE  m \in 0..MaxFaults
BY BoundsAreNat

LEMMA DeviceSteps ==
    ASSUME IInv, (\E x \in Subjects : Want(x)) \/ Lose
    PROVE  IInv'
<1>1. /\ WatchOK' /\ TimesOK' /\ InTable' /\ SnapshotsAreWatched'
      /\ (conns \in [Replicas -> Watchers \cup {0}])'
  BY DEF IInv, WatchOK, TimesOK, InTable, SnapshotsAreWatched, Want, Lose, Board, Tunnels
<1>2. CASE \E x \in Subjects : Want(x)
  <2>1. PICK x \in Subjects : Want(x)
    BY <1>2
  <2>2. PICK g \in WaitsOf(x) : wait' = [wait EXCEPT ![x] = g]
    BY <2>1 DEF Want
  <2>3. \A y \in Subjects : wait'[y] \in WaitsOf(y)
    BY <2>2 DEF IInv, DeviceOK
  <2>4. wait' \in [Subjects -> UNION {WaitsOf(y) : y \in Subjects}]
    BY <2>2 DEF IInv, DeviceOK
  <2>5. changes' \in 0..MaxChanges
    BY <2>1, BoundsAreNat DEF Want, IInv, DeviceOK
  <2>6. DeviceOK'
    BY <2>1, <2>3, <2>4, <2>5 DEF Want, IInv, DeviceOK, Tunnels
  <2> QED
    BY <1>1, <2>6 DEF IInv
<1>3. CASE Lose
  BY <1>1, <1>3 DEF IInv, DeviceOK, Lose
<1> QED
  BY <1>2, <1>3

LEMMA TickStep == ASSUME IInv, Tick PROVE IInv'
<1> DEFINE cooler(w) == [k \in DOMAIN watch[w].cool |->
                            IF watch[w].cool[k] = 0 THEN 0 ELSE watch[w].cool[k] - 1]
<1>1. watch' = [w \in Watchers |-> [watch[w] EXCEPT !.cool = cooler(w)]]
  BY DEF Tick
<1>2. ASSUME NEW w \in Watchers
      PROVE  /\ watch'[w] \in WatcherRecords
             /\ watch'[w].at = watch[w].at /\ watch'[w].rep = watch[w].rep
             /\ watch'[w].done = watch[w].done
  <2>1. watch[w] \in WatcherRecords
    BY DEF IInv, WatchOK
  <2>2. watch[w].cool \in [(Sessions \cup Spawns) \X {"needs", "done"} -> 0..Cooldown]
    BY <2>1 DEF WatcherRecords
  <2>3. \A n \in 0..Cooldown : (IF n = 0 THEN 0 ELSE n - 1) \in 0..Cooldown
    BY BoundsAreNat
  <2>4. cooler(w) \in [(Sessions \cup Spawns) \X {"needs", "done"} -> 0..Cooldown]
    BY <2>2, <2>3
  <2>5. watch'[w] = [watch[w] EXCEPT !.cool = cooler(w)]
    BY <1>1
  <2> HIDE DEF cooler
  <2> QED
    BY <2>1, <2>4, <2>5 DEF WatcherRecords
<1> HIDE DEF cooler
<1>4. WatchOK' /\ Kept
  BY <1>1, <1>2 DEF WatchOK, Kept
<1>5. InTable'
  BY <1>2 DEF IInv, InTable, Tick, Tunnels
<1>6. DeviceOK' /\ TimesOK' /\ (conns \in [Replicas -> Watchers \cup {0}])'
  BY DEF Tick, Tunnels, Board, IInv, DeviceOK, TimesOK
<1>7. SnapshotsAreWatched'
  BY <1>4, WatchersKeepSnapshots DEF Tick, Board
<1> QED
  BY <1>4, <1>5, <1>6, <1>7 DEF IInv

LEMMA ConnectStep == ASSUME IInv, NEW r \in Replicas, Connect(r) PROVE IInv'
<1>1. PICK w \in Watchers :
        /\ watch[w].at = "no" /\ up' = w
        /\ watch' = [watch EXCEPT ![w] = NewWatcher(r)]
        /\ conns' = [conns EXCEPT ![r] = w]
  BY DEF Connect
<1>2. /\ NewWatcher(r) \in WatcherRecords /\ NewWatcher(r).rep = r
      /\ NewWatcher(r).at \in Running /\ ~NewWatcher(r).done
  BY Asleep DEF NewWatcher, Running
<1>3. \A u \in Watchers : watch'[u] = IF u = w THEN NewWatcher(r) ELSE watch[u]
  BY <1>1 DEF IInv, WatchOK
<1>4. "no" \notin Running
  BY DEF Running
<1>5. WatchOK'
  BY <1>1, <1>2 DEF IInv, WatchOK
<1>6. Kept
  BY <1>1, <1>3, <1>4 DEF Kept
<1>7. conns' \in [Replicas -> Watchers \cup {0}]
  BY <1>1 DEF IInv
<1>8. InTable'
  <2> SUFFICES ASSUME NEW q \in Replicas, conns'[q] # 0
               PROVE  /\ conns'[q] \in Watchers /\ watch'[conns'[q]].rep = q
                      /\ watch'[conns'[q]].at \in Running /\ ~watch'[conns'[q]].done
    BY DEF InTable
  <2>1. CASE q = r
    BY <1>1, <1>2, <1>3, <2>1 DEF IInv
  <2>2. CASE q # r
    <3>1. conns'[q] = conns[q] /\ conns[q] # w
      BY <1>1, <1>4, <2>2 DEF IInv, InTable
    <3> QED
      BY <1>3, <3>1 DEF IInv, InTable
  <2> QED
    BY <2>1, <2>2
<1>9. SnapshotsAreWatched'
  BY <1>6, WatchersKeepSnapshots DEF Connect, Board
<1>10. DeviceOK' /\ TimesOK'
  BY <1>1 DEF Connect, Board, IInv, DeviceOK, TimesOK
<1> QED
  BY <1>5, <1>7, <1>8, <1>9, <1>10 DEF IInv

LEMMA UnserveStep == ASSUME IInv, NEW w \in Watchers, Unserve(w) PROVE IInv'
<1> DEFINE v == [watch[w] EXCEPT !.done = TRUE]
<1>1. v \in WatcherRecords /\ v.at = watch[w].at /\ v.rep = watch[w].rep
  <2>1. watch[w] \in WatcherRecords
    BY DEF IInv, WatchOK
  <2> QED
    BY <2>1 DEF WatcherRecords
<1>2. watch' = [watch EXCEPT ![w] = v]
  BY DEF Unserve
<1> HIDE DEF v
<1>3. \A u \in Watchers : watch'[u] = IF u = w THEN v ELSE watch[u]
  BY <1>2 DEF IInv, WatchOK
<1>4. WatchOK' /\ Kept
  BY <1>1, <1>2, <1>3 DEF IInv, WatchOK, Kept
<1>5. conns' \in [Replicas -> Watchers \cup {0}]
  BY DEF Unserve, IInv
<1>6. InTable'
  BY <1>3 DEF IInv, InTable, Unserve
<1>7. SnapshotsAreWatched'
  BY <1>4, WatchersKeepSnapshots DEF Unserve, Board
<1>8. DeviceOK' /\ TimesOK'
  BY DEF Unserve, Board, IInv, DeviceOK, TimesOK
<1> QED
  BY <1>4, <1>5, <1>6, <1>7, <1>8 DEF IInv

LEMMA SubjectsAsk ==
    ASSUME IInv, NEW x \in Subjects
    PROVE  wait[x] \in Signatures /\ RowOf(wait[x]) \in Signatures
BY DEF IInv, DeviceOK, WaitsOf, Signatures, RowOf

LEMMA ReadSessionsStep == ASSUME IInv, NEW w \in Watchers, ReadSessions(w) PROVE IInv'
<1>1. UNCHANGED <<up, conns, snaps, views, wait, known, blind, changes>>
  BY DEF ReadSessions, Tunnels, Board
<1>2. faults' \in 0..MaxFaults
  BY Counted DEF ReadSessions, Fails, Fault, IInv, DeviceOK
<1>3. DeviceOK' /\ TimesOK' /\ (conns \in [Replicas -> Watchers \cup {0}])'
  BY <1>1, <1>2 DEF IInv, DeviceOK, TimesOK
<1>4. WatchOK' /\ InTable' /\ Kept
  <2>1. CASE UNCHANGED watch
    BY <1>1, <2>1 DEF IInv, WatchOK, InTable, Kept
  <2>2. CASE watch' # watch
    <3> DEFINE got == [x \in Subjects |-> IF x \in Sessions THEN RowOf(wait[x]) ELSE "none"]
               v == [watch[w] EXCEPT !.at = "read", !.got = got]
    <3>1. watch' = [watch EXCEPT ![w] = v]
      BY <2>2 DEF ReadSessions
    <3>2. got \in [Subjects -> Signatures]
      BY SubjectsAsk DEF Signatures
    <3> HIDE DEF got
    <3>3. v \in WatcherRecords /\ v.rep = watch[w].rep /\ v.at \in Running /\ v.done = watch[w].done
      <4>1. "read" \in Running /\ watch[w] \in WatcherRecords
        BY DEF IInv, WatchOK, Running
      <4> QED
        BY <3>2, <4>1 DEF WatcherRecords
    <3> HIDE DEF v
    <3> QED
      BY <1>1, <3>1, <3>3, StepOfAWatcher
  <2> QED
    BY <2>1, <2>2
<1>5. SnapshotsAreWatched'
  BY <1>1, <1>4, WatchersKeepSnapshots
<1> QED
  BY <1>3, <1>4, <1>5 DEF IInv

LEMMA ReadRestStep == ASSUME IInv, NEW w \in Watchers, ReadRest(w) PROVE IInv'
<1> DEFINE Got(unread) ==
      [x \in Subjects |->
         IF x \in Sessions
         THEN IF watch[w].got[x] = "approval" /\ wait[x] \in Tools /\ x \notin unread
              THEN wait[x] ELSE watch[w].got[x]
         ELSE IF x \in unread THEN "none" ELSE wait[x]]
<1>1. UNCHANGED <<up, conns, snaps, views, wait, changes>>
  BY DEF ReadRest, Tunnels, Board
<1>2. PICK missed \in SUBSET {Sessions, Spawns, {Restart}} :
        /\ IF missed = {} THEN Reads(w) /\ UNCHANGED faults ELSE Fails(w)
        /\ watch' = [watch EXCEPT ![w] = Looked(w, Got(UNION missed))]
        /\ known' = known \cup {x \in Subjects : wait[x] # "none" /\ Got(UNION missed)[x] = wait[x]}
        /\ blind' = (blind \/ missed # {})
  BY DEF ReadRest
<1>3. Got(UNION missed) \in [Subjects -> Signatures]
  <2>1. watch[w].got \in [Subjects -> Signatures]
    BY DEF IInv, WatchOK, WatcherRecords
  <2>2. "none" \in Signatures
    BY DEF Signatures
  <2>3. \A x \in Subjects : Got(UNION missed)[x] \in Signatures
    BY <2>1, <2>2, SubjectsAsk
  <2> QED
    BY <2>3
<1>4. faults' \in 0..MaxFaults
  BY <1>2, Counted DEF Fails, Fault, IInv, DeviceOK
<1>5. known' \subseteq Subjects /\ blind' \in BOOLEAN
  BY <1>2 DEF IInv, DeviceOK
<1> HIDE DEF Got
<1>6. DeviceOK' /\ TimesOK' /\ (conns \in [Replicas -> Watchers \cup {0}])'
  BY <1>1, <1>4, <1>5 DEF IInv, DeviceOK, TimesOK
<1>7. /\ Looked(w, Got(UNION missed)) \in WatcherRecords
      /\ Looked(w, Got(UNION missed)).at = "store"
      /\ Looked(w, Got(UNION missed)).rep = watch[w].rep
      /\ Looked(w, Got(UNION missed)).done = watch[w].done
  BY <1>3, LookedIsTyped DEF IInv
<1>8. WatchOK' /\ InTable' /\ Kept
  <2> DEFINE v == Looked(w, Got(UNION missed))
  <2>1. v.at \in Running
    BY <1>7 DEF Running
  <2>2. watch' = [watch EXCEPT ![w] = v]
    BY <1>2
  <2>3. v \in WatcherRecords /\ v.rep = watch[w].rep /\ v.done = watch[w].done
    BY <1>7
  <2> HIDE DEF v
  <2> QED
    BY <1>1, <2>1, <2>2, <2>3, StepOfAWatcher
<1>9. SnapshotsAreWatched'
  BY <1>1, <1>8, WatchersKeepSnapshots
<1> QED
  BY <1>6, <1>8, <1>9 DEF IInv

LEMMA StoreStep == ASSUME IInv, NEW w \in Watchers, Store(w) PROVE IInv'
<1> DEFINE v == [watch[w] EXCEPT !.at = "asleep", !.got = Nothing, !.due = {}]
           taken == [rows |-> [x \in Sessions |-> Kind(watch[w].got[x])],
                     at |-> Cardinality(Times) + 1]
<1>1. UNCHANGED <<up, conns, wait, known, blind, changes, faults>>
  BY DEF Store, Tunnels
<1>2. watch' = [watch EXCEPT ![w] = v]
  BY DEF Store
<1>3. v \in WatcherRecords /\ v.rep = watch[w].rep /\ v.at \in Running /\ v.done = watch[w].done
  <2>1. Nothing \in [Subjects -> Signatures]
    BY DEF Nothing, Signatures
  <2>2. "asleep" \in Running /\ watch[w] \in WatcherRecords /\ {} \in SUBSET Subjects
    BY DEF IInv, WatchOK, Running
  <2> QED
    BY <2>1, <2>2 DEF WatcherRecords
<1>4. taken \in Snapshots
  <2>1. taken.rows \in Rows
    BY DEF Rows, Kind
  <2>2. taken.at \in Nat \ {0}
    BY TimesAreFinite, FS_CardinalityType DEF IInv
  <2> QED
    BY <2>1, <2>2 DEF Snapshots
<1> HIDE DEF v, taken
<1>5. WatchOK' /\ InTable' /\ Kept
  BY <1>1, <1>2, <1>3, StepOfAWatcher
<1>6. /\ snaps' = [r \in Replicas |-> IF r = watch[w].rep THEN taken ELSE Ranked(snaps[r])]
      /\ views' = [p \in Replicas |-> Ranked(views[p])]
  BY DEF Store, StoreSnapshot, taken
<1>7. TimesOK'
  BY <1>4, <1>6, AllRanked DEF IInv, TimesOK
<1>8. SnapshotsAreWatched'
  <2>1. watch[w].at \in Running
    BY DEF Store, Running
  <2>2. \A r \in Replicas : snaps'[r] # NoSnapshot => r = watch[w].rep \/ snaps[r] # NoSnapshot
    BY <1>6, AllRanked DEF IInv
  <2> QED
    BY <1>5, <2>1, <2>2, WatchersKeepSnapshots
<1>9. DeviceOK' /\ (conns \in [Replicas -> Watchers \cup {0}])'
  BY <1>1 DEF IInv, DeviceOK
<1> QED
  BY <1>5, <1>7, <1>8, <1>9 DEF IInv

LEMMA EndStep == ASSUME IInv, NEW w \in Watchers, End(w) PROVE IInv'
<1>1. /\ UNCHANGED <<up, conns, views, wait, known, blind, changes, faults>>
      /\ watch[w].done
      /\ watch' = [watch EXCEPT ![w] = NoWatcher("gone")]
      /\ snaps' = [snaps EXCEPT ![watch[w].rep] = NoSnapshot]
  BY DEF End, Tunnels
<1>2. \A u \in Watchers : watch'[u] = IF u = w THEN NoWatcher("gone") ELSE watch[u]
  BY <1>1 DEF IInv, WatchOK
<1>3. WatchOK'
  BY <1>1, NotRunning DEF IInv, WatchOK
<1>4. InTable'
  BY <1>1, <1>2 DEF IInv, InTable
<1>5. TimesOK'
  BY <1>1 DEF IInv, TimesOK, Snapshots
<1>6. SnapshotsAreWatched'
  <2> SUFFICES ASSUME NEW r \in Replicas, snaps'[r] # NoSnapshot
               PROVE  \E u \in Watchers : watch'[u].rep = r /\ watch'[u].at \in Running
    BY DEF SnapshotsAreWatched
  <2>1. r # watch[w].rep /\ snaps[r] # NoSnapshot
    BY <1>1 DEF IInv, TimesOK
  <2>2. PICK u \in Watchers : watch[u].rep = r /\ watch[u].at \in Running
    BY <2>1 DEF IInv, SnapshotsAreWatched
  <2> QED
    BY <1>2, <2>1, <2>2
<1>7. DeviceOK' /\ (conns \in [Replicas -> Watchers \cup {0}])'
  BY <1>1 DEF IInv, DeviceOK
<1> QED
  BY <1>3, <1>4, <1>5, <1>6, <1>7 DEF IInv

LEMMA PeerSteps == ASSUME IInv, NEW p \in Replicas, Poll(p) \/ Forget(p) PROVE IInv'
<1>1. UNCHANGED <<up, conns, wait, watch, snaps, known, blind, changes>>
  BY DEF Poll, Forget, Tunnels
<1>2. views' \in [Replicas -> Snapshots]
  BY DEF Poll, Forget, IInv, TimesOK, Snapshots
<1>3. faults' \in 0..MaxFaults
  BY Counted DEF Poll, Forget, Fault, IInv, DeviceOK
<1> QED
  BY <1>1, <1>2, <1>3 DEF IInv, DeviceOK, WatchOK, TimesOK, InTable, SnapshotsAreWatched

LEMMA StutterStep == ASSUME IInv, UNCHANGED vars PROVE IInv'
BY DEF vars, IInv, DeviceOK, WatchOK, TimesOK, InTable, SnapshotsAreWatched

LEMMA NextKeepsIInv == IInv /\ [Next]_vars => IInv'
<1> SUFFICES ASSUME IInv, [Next]_vars PROVE IInv'
  OBVIOUS
<1>1. CASE (\E x \in Subjects : Want(x)) \/ Lose
  BY <1>1, DeviceSteps
<1>2. CASE Tick
  BY <1>2, TickStep
<1>3. CASE \E r \in Replicas : Connect(r)
  BY <1>3, ConnectStep
<1>4. CASE \E w \in Watchers : Unserve(w)
  BY <1>4, UnserveStep
<1>5. CASE \E w \in Watchers : Look(w)
  BY <1>5, ReadSessionsStep, ReadRestStep, StoreStep DEF Look
<1>6. CASE \E w \in Watchers : End(w)
  BY <1>6, EndStep
<1>7. CASE \E p \in Replicas : Poll(p) \/ Forget(p)
  BY <1>7, PeerSteps
<1>8. CASE UNCHANGED vars
  BY <1>8, StutterStep
<1> QED
  BY <1>1, <1>2, <1>3, <1>4, <1>5, <1>6, <1>7, <1>8 DEF Next

-----------------------------------------------------------------------------
LEMMA IInvHolds == Spec => []IInv
BY InitIsRight, NextKeepsIInv, PTL DEF Spec

\* The watchers, the tables and the boards keep their types, and a table's
\* entry is a watcher at work on that replica (serveDevice, watchDevice).
THEOREM TypeCorrect == Spec => []TypeOK
BY IInvHolds, IInvGivesTypes, PTL

\* No replica keeps the snapshot of a device that it has no watcher for: the
\* last of a replica's watchers to end drops it (watchDevice), for any number
\* of replicas, tunnels and sessions.
THEOREM NoSnapshotIsLeft == Spec => []SnapshotsAreWatched
<1>1. IInv => SnapshotsAreWatched
  BY DEF IInv
<1> QED
  BY <1>1, IInvHolds, PTL

-----------------------------------------------------------------------------
(* What has been seen is not pushed                                        *)

\* Until a request has failed, the watcher of the tunnel there is knows what any
\* watcher has known before it: its memory has it, unless it has not looked yet,
\* and the look under way has read it.
Knows(w, x) ==
    /\ ~watch[w].first => watch[w].seen[x] = wait[x]
    /\ watch[w].at = "read" /\ x \in Sessions => watch[w].got[x] = RowOf(wait[x])

Remembered == ~blind /\ up # 0 => \A x \in known : Knows(up, x)

\* A wait that a look has read comes out as it is.
LEMMA RowsAreWaits ==
    ASSUME IInv, NEW x \in Sessions
    PROVE  wait[x] = IF RowOf(wait[x]) = "approval" /\ wait[x] \in Tools
                     THEN wait[x] ELSE RowOf(wait[x])
<1>1. wait[x] \in WaitsOf(x)
  BY DEF IInv, DeviceOK, Subjects
<1>2. wait[x] \in {"none", "done", "dialog"} \cup Tools
  BY <1>1 DEF WaitsOf
<1> QED
  BY <1>2 DEF RowOf

\* A look that misses nothing is the present watcher's: it sees what is known as
\* it is, and pushes none of it.
LEMMA LookTells ==
    ASSUME IInv, Remembered, NEW w \in Watchers, ReadRest(w), ~blind'
    PROVE  /\ ~blind /\ up = w
           /\ \A x \in known' : ~watch'[w].first /\ watch'[w].seen[x] = wait[x]
           /\ watch'[w].at = "store"
           /\ watch'[w].due \cap known = {}
<1> DEFINE got == [x \in Subjects |->
                     IF x \in Sessions
                     THEN IF watch[w].got[x] = "approval" /\ wait[x] \in Tools
                          THEN wait[x] ELSE watch[w].got[x]
                     ELSE wait[x]]
           due == {x \in Subjects : Due(w, x, got[x])}
<1>1. /\ ~blind /\ Reads(w) /\ watch[w].at = "read"
      /\ watch' = [watch EXCEPT ![w] = Looked(w, got)]
      /\ known' = known \cup {x \in Subjects : wait[x] # "none" /\ got[x] = wait[x]}
  <2>1. PICK missed \in SUBSET {Sessions, Spawns, {Restart}} :
          LET unread == UNION missed
              read == [x \in Subjects |->
                        IF x \in Sessions
                        THEN IF watch[w].got[x] = "approval" /\ wait[x] \in Tools /\ x \notin unread
                             THEN wait[x] ELSE watch[w].got[x]
                        ELSE IF x \in unread THEN "none" ELSE wait[x]] IN
          /\ IF missed = {} THEN Reads(w) /\ UNCHANGED faults ELSE Fails(w)
          /\ watch' = [watch EXCEPT ![w] = Looked(w, read)]
          /\ known' = known \cup {x \in Subjects : wait[x] # "none" /\ read[x] = wait[x]}
          /\ blind' = (blind \/ missed # {})
    BY DEF ReadRest
  <2>2. missed = {} /\ ~blind
    BY <2>1
  <2>3. \A x \in Subjects : x \notin UNION missed
    BY <2>2
  <2>4. got = [x \in Subjects |->
                 IF x \in Sessions
                 THEN IF watch[w].got[x] = "approval" /\ wait[x] \in Tools /\ x \notin UNION missed
                      THEN wait[x] ELSE watch[w].got[x]
                 ELSE IF x \in UNION missed THEN "none" ELSE wait[x]]
    BY <2>3
  <2> HIDE DEF got
  <2>5. watch[w].at = "read"
    BY DEF ReadRest
  <2> QED
    BY <2>1, <2>2, <2>4, <2>5
<1>2. up = w /\ w # 0
  BY <1>1, BoundsAreNat DEF Reads, Watchers
<1>3. \A x \in known : x \in Subjects /\ got[x] = wait[x]
  <2> SUFFICES ASSUME NEW x \in known PROVE x \in Subjects /\ got[x] = wait[x]
    OBVIOUS
  <2>1. x \in Subjects
    BY DEF IInv, DeviceOK
  <2>2. CASE x \in Sessions
    <3>1. watch[w].got[x] = RowOf(wait[x])
      BY <1>1, <1>2, <2>2 DEF Remembered, Knows
    <3> QED
      BY <2>1, <2>2, <3>1, RowsAreWaits
  <2> QED
    BY <2>1, <2>2
<1> HIDE DEF got
<1>4. /\ watch'[w].at = "store" /\ ~watch'[w].first /\ watch'[w].seen = got
      /\ watch'[w].due = due
  <2>1. watch'[w] = Looked(w, got) /\ watch[w] \in WatcherRecords
    BY <1>1 DEF IInv, WatchOK
  <2> QED
    BY <2>1 DEF Looked, WatcherRecords
<1>5. \A x \in known' : got[x] = wait[x]
  BY <1>1, <1>3
<1>6. ASSUME NEW x \in known PROVE x \notin due
  <2>1. ~watch[w].first => watch[w].seen[x] = wait[x]
    BY <1>1, <1>2 DEF Remembered, Knows
  <2> QED
    BY <1>3, <2>1 DEF Due
<1> QED
  BY <1>1, <1>2, <1>4, <1>5, <1>6

LEMMA RememberedInit == Init => Remembered
BY DEF Init, Remembered

\* What only forgets, or takes the tunnel away, keeps what is remembered.
LEMMA RememberedStays ==
    ASSUME Remembered, known' \subseteq known, blind' = blind, up' \in {up, 0},
           \A x \in known' : wait'[x] = wait[x],
           up # 0 => /\ watch'[up].first = watch[up].first \/ watch'[up].first
                     /\ watch'[up].seen = watch[up].seen \/ watch'[up].first
                     /\ watch'[up].at = "read" =>
                           watch[up].at = "read" /\ watch'[up].got = watch[up].got
    PROVE  Remembered'
BY DEF Remembered, Knows

LEMMA RememberedNext ==
    ASSUME IInv, Remembered, [Next]_vars
    PROVE  Remembered'
<1>0. /\ DOMAIN watch = Watchers /\ up \in Watchers \cup {0} /\ known \subseteq Subjects
      /\ \A w \in Watchers : watch[w] \in WatcherRecords
  BY DEF IInv, WatchOK, DeviceOK
<1>1. ASSUME NEW x \in Subjects, Want(x) PROVE Remembered'
  <2>1. /\ known' = known \ {x} /\ UNCHANGED <<blind, up, watch>>
        /\ \E g : wait' = [wait EXCEPT ![x] = g]
    BY <1>1 DEF Want, Tunnels
  <2>2. \A y \in known' : wait'[y] = wait[y]
    BY <1>0, <2>1 DEF IInv, DeviceOK
  <2> QED
    BY <2>1, <2>2, RememberedStays
<1>2. CASE Tick
  <2>1. UNCHANGED <<blind, up, known, wait>>
    BY <1>2 DEF Tick, Tunnels
  <2>2. \A w \in Watchers : /\ watch'[w].first = watch[w].first /\ watch'[w].seen = watch[w].seen
                            /\ watch'[w].at = watch[w].at /\ watch'[w].got = watch[w].got
    BY <1>0, <1>2 DEF Tick, WatcherRecords
  <2> QED
    BY <1>0, <2>1, <2>2, RememberedStays
<1>3. CASE Lose
  BY <1>3, RememberedStays DEF Lose
<1>4. ASSUME NEW r \in Replicas, Connect(r) PROVE Remembered'
  <2>1. PICK w \in Watchers : /\ up' = w /\ watch' = [watch EXCEPT ![w] = NewWatcher(r)]
    BY <1>4 DEF Connect
  <2>2. watch'[w].first /\ watch'[w].at = "asleep"
    BY <1>0, <2>1 DEF NewWatcher
  <2> QED
    BY <2>1, <2>2 DEF Remembered, Knows
<1>5. ASSUME NEW w \in Watchers, Unserve(w) PROVE Remembered'
  <2>1. UNCHANGED <<blind, up, known, wait>> /\ watch' = [watch EXCEPT ![w].done = TRUE]
    BY <1>5 DEF Unserve
  <2>2. \A u \in Watchers : /\ watch'[u].first = watch[u].first /\ watch'[u].seen = watch[u].seen
                            /\ watch'[u].at = watch[u].at /\ watch'[u].got = watch[u].got
    BY <1>0, <2>1 DEF WatcherRecords
  <2> QED
    BY <1>0, <2>1, <2>2, RememberedStays
<1>6. ASSUME NEW w \in Watchers, ReadSessions(w) PROVE Remembered'
  <2>1. UNCHANGED <<blind, up, known, wait>>
    BY <1>6 DEF ReadSessions, Tunnels
  <2> DEFINE got == [x \in Subjects |-> IF x \in Sessions THEN RowOf(wait[x]) ELSE "none"]
  <2>2. \/ watch' = watch
        \/ watch' = [watch EXCEPT ![w].at = "read", ![w].got = got]
    BY <1>6 DEF ReadSessions
  <2>3. \A x \in known : x \in Sessions => got[x] = RowOf(wait[x])
    BY <1>0
  <2> HIDE DEF got
  <2>4. ASSUME NEW u \in Watchers
        PROVE  /\ watch'[u].first = watch[u].first /\ watch'[u].seen = watch[u].seen
               /\ \/ watch'[u].at = watch[u].at /\ watch'[u].got = watch[u].got
                  \/ watch'[u].got = got
    <3>1. CASE watch' = watch
      BY <3>1
    <3>2. CASE watch' = [watch EXCEPT ![w].at = "read", ![w].got = got]
      <4>1. watch'[u] = IF u = w THEN [watch[u] EXCEPT !.at = "read", !.got = got] ELSE watch[u]
        BY <1>0, <3>2
      <4> QED
        BY <1>0, <4>1 DEF WatcherRecords
    <3> QED
      BY <2>2, <3>1, <3>2
  <2> QED
    BY <1>0, <2>1, <2>3, <2>4 DEF Remembered, Knows
<1>7. ASSUME NEW w \in Watchers, ReadRest(w) PROVE Remembered'
  <2>1. UNCHANGED <<up, wait>>
    BY <1>7 DEF ReadRest, Tunnels
  <2> SUFFICES ASSUME ~blind' PROVE \A x \in known' : Knows(up, x)'
    BY <2>1 DEF Remembered
  <2> QED
    BY <1>7, <2>1, LookTells DEF Knows
<1>8. ASSUME NEW w \in Watchers, Store(w) PROVE Remembered'
  <2>1. /\ UNCHANGED <<blind, up, known, wait>>
        /\ watch' = [watch EXCEPT ![w].at = "asleep", ![w].got = Nothing, ![w].due = {}]
    BY <1>8 DEF Store, Tunnels
  <2>2. \A u \in Watchers : /\ watch'[u].first = watch[u].first /\ watch'[u].seen = watch[u].seen
                            /\ \/ watch'[u].at = watch[u].at /\ watch'[u].got = watch[u].got
                               \/ watch'[u].at = "asleep"
    BY <1>0, <2>1 DEF WatcherRecords
  <2> QED
    BY <1>0, <2>1, <2>2, RememberedStays
<1>9. ASSUME NEW w \in Watchers, End(w) PROVE Remembered'
  <2>1. /\ UNCHANGED <<blind, up, known, wait>>
        /\ watch' = [watch EXCEPT ![w] = NoWatcher("gone")]
    BY <1>9 DEF End, Tunnels
  <2>2. \A u \in Watchers : \/ watch'[u] = watch[u]
                            \/ watch'[u].first /\ watch'[u].at = "gone"
    BY <1>0, <2>1 DEF NoWatcher, NewWatcher
  <2> QED
    BY <1>0, <2>1, <2>2 DEF Remembered, Knows
<1>10. ASSUME NEW p \in Replicas, Poll(p) \/ Forget(p) PROVE Remembered'
  BY <1>10, RememberedStays DEF Poll, Forget, Tunnels
<1>11. CASE UNCHANGED vars
  BY <1>11, RememberedStays DEF vars
<1> QED
  BY <1>1, <1>2, <1>3, <1>4, <1>5, <1>6, <1>7, <1>8, <1>9, <1>10, <1>11 DEF Next, Look

\* Only a look that is about to tell goes from reading to storing.
LEMMA OnlyLooksTell ==
    ASSUME IInv, [Next]_vars, NEW w \in Watchers,
           watch[w].at = "read", watch'[w].at = "store"
    PROVE  ReadRest(w)
<1>0. \A u \in Watchers : watch[u] \in WatcherRecords /\ DOMAIN watch = Watchers
  BY DEF IInv, WatchOK
<1>1. ASSUME watch' = watch PROVE FALSE
  BY <1>1
<1>2. CASE Tick
  BY <1>0, <1>2 DEF Tick, WatcherRecords
<1>3. ASSUME NEW r \in Replicas, Connect(r) PROVE FALSE
  BY <1>0, <1>3 DEF Connect, NewWatcher
<1>4. ASSUME NEW u \in Watchers, Unserve(u) PROVE FALSE
  BY <1>0, <1>4 DEF Unserve, WatcherRecords
<1>5. ASSUME NEW u \in Watchers, ReadSessions(u) \/ Store(u) PROVE FALSE
  BY <1>0, <1>5 DEF ReadSessions, Store, WatcherRecords
<1>6. ASSUME NEW u \in Watchers, End(u) PROVE FALSE
  BY <1>0, <1>6 DEF End, NoWatcher, NewWatcher
<1>7. ASSUME NEW u \in Watchers, ReadRest(u), u # w PROVE FALSE
  BY <1>0, <1>7 DEF ReadRest
<1> QED
  BY <1>1, <1>2, <1>3, <1>4, <1>5, <1>6, <1>7
     DEF Next, Look, Want, Lose, Poll, Forget, vars

\* Each change is pushed once, by any number of watchers of a device that take
\* over from each other on any replicas, until a request of a look fails
\* (watchOnce, watchDevice).
THEOREM NoChangeIsPushedTwice == Spec => ChangesArePushedOnce
<1>1. Init => IInv /\ Remembered
  BY InitIsRight, RememberedInit
<1>2. IInv /\ Remembered /\ [Next]_vars => IInv' /\ Remembered'
  BY NextKeepsIInv, RememberedNext
<1>3. IInv /\ Remembered /\ [Next]_vars =>
        [\A w \in Watchers :
           watch'[w].at = "store" /\ watch[w].at = "read" /\ ~blind'
             => watch'[w].due \cap known = {}]_vars
  BY OnlyLooksTell, LookTells
<1> QED
  BY <1>1, <1>2, <1>3, PTL DEF Spec, ChangesArePushedOnce

-----------------------------------------------------------------------------
(* The task list                                                           *)

HIDE NotificationsAssumption
USE TasksAssumption

\* A set of numbers has a least one.
LEMMA LeastNumber ==
    ASSUME NEW T, T \subseteq Nat, T # {}
    PROVE  \E x \in T : \A y \in T : x <= y
<1> DEFINE R == OpToRel(<, Nat)
<1>1. \E x \in T : \A y \in T : <<y, x>> \notin R
  BY NatLessThanWellFounded, WFMin
<1>2. \A x, y \in T : <<y, x>> \notin R => x <= y
  <2> SUFFICES ASSUME NEW x \in T, NEW y \in T, ~(x <= y) PROVE <<y, x>> \in R
    OBVIOUS
  <2>1. y < x /\ x \in Nat /\ y \in Nat
    OBVIOUS
  <2> QED
    BY <2>1 DEF OpToRel
<1> QED
  BY <1>1, <1>2

\* Induction up to k, over the set of numbers of which a fact holds.
LEMMA InductionTo ==
    ASSUME NEW k \in Nat, NEW S, 0 \in S,
           \A n \in 0..k : n < k /\ n \in S => n + 1 \in S
    PROVE  \A n \in 0..k : n \in S
<1> DEFINE T == {n \in 0..k : n \notin S}
<1> SUFFICES ASSUME T # {} PROVE FALSE
  OBVIOUS
<1>1. PICK x \in T : \A y \in T : x <= y
  <2>1. T \subseteq Nat
    OBVIOUS
  <2> HIDE DEF T
  <2> QED
    BY <2>1, LeastNumber
<1>2. x # 0 /\ x - 1 \in 0..k /\ x - 1 < k /\ (x - 1) + 1 = x
  BY <1>1
<1>3. x - 1 \in S
  BY <1>1, <1>2
<1> QED
  BY <1>1, <1>2, <1>3

\* A finite set of numbers has a greatest one.
LEMMA GreatestNumber ==
    ASSUME NEW S, IsFiniteSet(S), S \subseteq Nat, S # {}
    PROVE  Max(S) \in S /\ \A x \in S : x <= Max(S)
<1> DEFINE Bounded(T) == \E b \in Nat : \A x \in T : x <= b
           Ns == {n \in Nat : \A T \in SUBSET S : Cardinality(T) = n => Bounded(T)}
<1>1. Cardinality(S) \in Nat
  BY FS_CardinalityType
<1>2. 0 \in Ns
  <2>1. ASSUME NEW T \in SUBSET S, Cardinality(T) = 0 PROVE Bounded(T)
    <3>1. T = {}
      BY <2>1, FS_Subset, FS_EmptySet
    <3> QED
      BY <3>1
  <2> QED
    BY <2>1
<1>3. ASSUME NEW n \in 0..Cardinality(S), n \in Ns PROVE n + 1 \in Ns
  <2>1. ASSUME NEW T \in SUBSET S, Cardinality(T) = n + 1 PROVE Bounded(T)
    <3> HIDE DEF Ns
    <3>0. n \in Nat /\ n + 1 # 0 /\ (n + 1) - 1 = n
      BY <1>1
    <3>1. IsFiniteSet(T)
      BY FS_Subset
    <3>2. PICK x \in T : TRUE
      BY <2>1, <3>0, <3>1, FS_EmptySet
    <3>3. Cardinality(T \ {x}) = n /\ T \ {x} \in SUBSET S
      BY <2>1, <3>0, <3>1, FS_RemoveElement
    <3>4. PICK b \in Nat : \A y \in T \ {x} : y <= b
      BY <1>3, <3>3 DEF Ns
    <3>5. b + x \in Nat /\ \A y \in T : y <= b + x
      BY <3>4
    <3> QED
      BY <3>5
  <2> QED
    BY <1>1, <2>1
<1>4. Cardinality(S) \in Ns
  <2> HIDE DEF Ns
  <2> QED
    BY <1>1, <1>2, <1>3, InductionTo
<1>5. Bounded(S)
  BY <1>4
<1> DEFINE B == {b \in Nat : \A x \in S : x <= b}
<1>6. PICK b \in B : \A c \in B : b <= c
  <2>1. B \subseteq Nat
    OBVIOUS
  <2>2. B # {}
    BY <1>5
  <2> HIDE DEF B
  <2> QED
    BY <2>1, <2>2, LeastNumber
<1>7. b \in S
  <2> SUFFICES ASSUME b \notin S PROVE FALSE
    OBVIOUS
  <2>1. \A x \in S : x <= b - 1
    BY <1>6
  <2>2. PICK x \in S : x \in Nat /\ x <= b - 1
    BY <2>1
  <2>3. b - 1 \in B
    BY <1>6, <2>1, <2>2
  <2> QED
    BY <1>6, <2>3
<1> QED
  BY <1>6, <1>7 DEF Max

LEMMA DaysCount ==
    ASSUME NEW t \in Nat
    PROVE  Day(t) \in Nat /\ Day(t) # NoDay
BY DEF Day, NoDay

\* A plan that was set by hand on the day of when.
HandSetOn(t, when) == t.planBy = "manual" /\ t.planOn = Day(when)
SamePlan(t, n) == n.plan = t.plan /\ n.planBy = t.planBy /\ n.planOn = t.planOn

\* Fields of a task, and what an edit leaves of them.
LEMMA NoteKeeps ==
    ASSUME NEW t, Tidy(t), NEW ref \in Entries
    PROVE  /\ Tidy(AddNote(t, ref))
           /\ AddNote(t, ref) = [t EXCEPT !.refs = AddNote(t, ref).refs]
BY DEF Tidy, TaskRecords, AddNote, IsFinished

LEMMA ArchivedIsTidy ==
    ASSUME NEW t, Tidy(t), NEW a \in BOOLEAN, a => IsFinished(t)
    PROVE  Tidy([t EXCEPT !.archived = a])
BY DEF Tidy, TaskRecords, IsFinished

LEMMA StatusKeeps ==
    ASSUME NEW t, Tidy(t), NEW status \in Statuses, NEW source \in Sources, NEW when \in Nat
    PROVE  LET n == SetStatus(t, status, source, when)
           IN  /\ Tidy(n) /\ n.status = status
               /\ n.key = t.key /\ n.plan = t.plan /\ n.planBy = t.planBy /\ n.planOn = t.planOn
<1>1. Day(when) \in Nat
  BY DaysCount
<1>2. <<source, "status", when>> \in Entries
  BY DEF Entries
<1> HIDE DEF Entries
<1> QED
  BY <1>1, <1>2 DEF Tidy, TaskRecords, SetStatus, AddNote, IsFinished, Finals, Statuses, NoDay

\* What n, which a replan has made of t, is.
Replanned(t, plan, auto, when, n) ==
    /\ Tidy(n) /\ n.status = t.status
    /\ plan = t.plan => n = t
    /\ plan # t.plan /\ ~auto => HandSetOn(n, when)

LEMMA ReplanKeeps ==
    ASSUME NEW t, Tidy(t), NEW plan \in Nat, NEW why \in BOOLEAN, NEW auto \in BOOLEAN,
           NEW source \in Sources, NEW when \in Nat
    PROVE  Replanned(t, plan, auto, when, Replan(t, plan, why, auto, source, when))
<1>1. Day(when) \in Nat
  BY DaysCount
<1>2. /\ <<source, "plan", when>> \in Entries
      /\ <<"auto", "plan", when>> \in Entries
  BY DEF Entries, Sources
<1> HIDE DEF Entries
<1> QED
  BY <1>1, <1>2 DEF Tidy, TaskRecords, Replan, Replanned, AddNote, IsFinished, NoOrder, HandSetOn

\* An edit leaves the plan alone, or sets it on that day as who asks; an automated
\* one leaves alone a plan that was set by hand that day.
LEMMA ApplyKeeps ==
    ASSUME NEW t, Tidy(t), NEW p \in Patches, NEW when \in Nat, ~Refused(t, p, when)
    PROVE  LET n == Apply(t, p, when)
           IN  /\ Tidy(n)
               /\ p.auto /\ HandSetOn(t, when) => SamePlan(t, n)
               /\ ~p.auto => SamePlan(t, n) \/ HandSetOn(n, when)
<1> DEFINE status == IF p.status = None THEN t.status ELSE p.status
           keyed == IF p.key = None THEN t ELSE [t EXCEPT !.key = p.key]
           ticked == IF p.status \in {None, t.status} THEN keyed
                     ELSE SetStatus(keyed, p.status, p.source, when)
           planned == IF p.plan = None THEN ticked
                      ELSE Replan(ticked, p.plan, p.why, p.auto, p.source, when)
           new == IF p.archived = None THEN planned ELSE [planned EXCEPT !.archived = p.archived]
<1>0. /\ p.key # None => p.key \in Keys \cup {NoKey}
      /\ p.status # None => p.status \in Statuses
      /\ p.plan # None => p.plan \in Nat
      /\ p.archived # None => p.archived \in BOOLEAN
      /\ p.auto \in BOOLEAN /\ p.why \in BOOLEAN /\ p.source \in Sources
  BY DEF Patches
<1>1. Tidy(keyed) /\ keyed.status = t.status /\ SamePlan(t, keyed)
  BY <1>0 DEF Tidy, TaskRecords, IsFinished, SamePlan
<1>2. Tidy(ticked) /\ ticked.status = status /\ SamePlan(t, ticked)
  <2> HIDE DEF keyed
  <2> QED
    BY <1>0, <1>1, StatusKeeps DEF SamePlan
<1>3. /\ Tidy(planned) /\ planned.status = status
      /\ p.plan \in {None, t.plan} => planned = ticked
      /\ p.plan \notin {None, t.plan} /\ ~p.auto => HandSetOn(planned, when)
  <2> HIDE DEF ticked, status
  <2>1. CASE p.plan = None
    BY <1>2, <2>1
  <2>2. CASE p.plan # None
    <3>1. planned = Replan(ticked, p.plan, p.why, p.auto, p.source, when) /\ p.plan \in Nat
      BY <1>0, <2>2
    <3> HIDE DEF planned
    <3>2. Replanned(ticked, p.plan, p.auto, when, planned)
      <4>1. Tidy(ticked) /\ p.plan \in Nat /\ p.why \in BOOLEAN /\ p.auto \in BOOLEAN /\ p.source \in Sources
        BY <1>0, <1>2, <3>1
      <4> QED
        BY <3>1, <4>1, ReplanKeeps, ZenonT(60)
    <3>3. ticked.plan = t.plan
      BY <1>2 DEF SamePlan
    <3> QED
      BY <1>2, <2>2, <3>2, <3>3 DEF Replanned
  <2> QED
    BY <2>1, <2>2
<1>4. ~(p.archived = TRUE /\ status \notin Finals)
  BY DEF Refused
<1>5. Tidy(new) /\ SamePlan(planned, new)
  <2> HIDE DEF planned, status
  <2>1. CASE p.archived = None
    BY <1>3, <2>1 DEF SamePlan
  <2>2. ASSUME NEW a \in BOOLEAN, a => status \in Finals, new = [planned EXCEPT !.archived = a]
        PROVE  Tidy(new) /\ SamePlan(planned, new)
    BY <1>3, <2>2 DEF Tidy, TaskRecords, IsFinished, SamePlan
  <2>3. CASE p.archived # None
    <3>1. p.archived \in BOOLEAN /\ new = [planned EXCEPT !.archived = p.archived]
      BY <1>0, <2>3
    <3>2. p.archived => status \in Finals
      BY <1>4, <3>1
    <3> HIDE DEF new
    <3> QED
      BY <2>2, <3>1, <3>2
  <2> QED
    BY <2>1, <2>3
<1>6. p.plan \notin {None, t.plan} => MayReplan([t EXCEPT !.status = status], p.auto, p.why, when)
  BY DEF Refused
<1>7. p.auto /\ HandSetOn(t, when) => p.plan \in {None, t.plan}
  <2> HIDE DEF status
  <2> QED
    BY <1>6 DEF MayReplan, HandSetOn, Tidy, TaskRecords
<1>8. new = Apply(t, p, when)
  BY DEF Apply
<1> HIDE DEF new, planned, ticked, keyed, status
<1> QED
  BY <1>0, <1>2, <1>3, <1>5, <1>7, <1>8 DEF SamePlan, HandSetOn

LEMMA NewIsTidy ==
    ASSUME NEW key \in Keys \cup {NoKey}, NEW status \in Statuses, NEW plan \in Nat,
           NEW source \in Sources, NEW refs \in SUBSET Entries, NEW when \in Nat
    PROVE  LET n == NewTask(key, status, plan, source, refs, when)
           IN  /\ Tidy(n)
               /\ source # "auto" /\ plan # Unplanned => HandSetOn(n, when)
<1>1. Day(when) \in Nat
  BY DaysCount
<1> QED
  BY <1>1 DEF NewTask, Tidy, TaskRecords, HandSetOn, NoDay, NoOrder, Unplanned, IsFinished

\* A proposal never reopens a finished task, nor moves a plan that was set by
\* hand that day.
LEMMA MergedKeeps ==
    ASSUME NEW t, Tidy(t), NEW pt \in Proposals, NEW when \in Nat
    PROVE  LET n == Merged(t, pt, when)
           IN  /\ Tidy(n)
               /\ IsFinished(t) => n.status = t.status
               /\ HandSetOn(t, when) => SamePlan(t, n)
<1> DEFINE news == ~(pt.refs \subseteq t.refs)
           noted == [t EXCEPT !.refs = t.refs \cup pt.refs]
           ticked == IF /\ pt.status \notin {None, t.status} /\ ~IsFinished(t)
                        /\ pt.status = "done" \/ news
                     THEN SetStatus(noted, pt.status, "auto", when) ELSE noted
           new == IF pt.replan # None /\ MayReplan(ticked, TRUE, pt.why, when)
                  THEN Replan(ticked, pt.replan, pt.why, TRUE, "auto", when) ELSE ticked
<1>0. /\ pt.status # None => pt.status \in Statuses
      /\ pt.replan # None => pt.replan \in Nat
      /\ pt.why \in BOOLEAN /\ pt.refs \subseteq Refs /\ "auto" \in Sources
  BY DEF Proposals, Sources
<1>1. Tidy(noted) /\ noted.status = t.status /\ SamePlan(t, noted)
  <2>1. pt.refs \subseteq Entries
    BY <1>0 DEF Entries
  <2> QED
    BY <2>1 DEF Tidy, TaskRecords, IsFinished, SamePlan
<1>2. Tidy(ticked) /\ SamePlan(t, ticked) /\ (IsFinished(t) => ticked.status = t.status)
  <2> HIDE DEF noted, news
  <2> QED
    BY <1>0, <1>1, StatusKeeps DEF SamePlan
<1>3. /\ Tidy(new) /\ new.status = ticked.status
      /\ HandSetOn(ticked, when) => new = ticked
  <2> HIDE DEF ticked
  <2> QED
    BY <1>0, <1>2, ReplanKeeps DEF MayReplan, HandSetOn, Replanned
<1>4. new = Merged(t, pt, when)
  BY DEF Merged
<1> HIDE DEF new, ticked, noted, news
<1> QED
  BY <1>2, <1>3, <1>4 DEF SamePlan, HandSetOn

-----------------------------------------------------------------------------
\* What is stored, but for what the database sees to: ids within the bound and
\* one task to a key.
StoredOK(m) ==
    /\ DOMAIN m = {"list", "seq", "since"} /\ m.seq \in Nat /\ m.since \in Nat \cup {None}
    /\ \A i \in DOMAIN m.list : i \in 1..m.seq /\ Tidy(m.list[i])

\* What the person has decided in m stands in n.
Stands(m, n, when) ==
    /\ DOMAIN m.list \subseteq DOMAIN n.list
    /\ \A i \in DOMAIN m.list :
          /\ IsFinished(m.list[i]) => n.list[i].status = m.list[i].status
          /\ HandSetOn(m.list[i], when) => SamePlan(m.list[i], n.list[i])

LEMMA StandsOn ==
    ASSUME NEW k, NEW m, NEW n, NEW when, Stands(k, m, when), Stands(m, n, when)
    PROVE  Stands(k, n, when)
BY DEF Stands, IsFinished, HandSetOn, SamePlan

LEMMA MergeOneKeeps ==
    ASSUME NEW m, StoredOK(m), NEW pt \in Proposals, NEW when \in Nat
    PROVE  LET n == MergeOne(m, pt, when) IN StoredOK(n) /\ Stands(m, n, when)
<1> DEFINE status == IF pt.status = None THEN "todo" ELSE pt.status
           new == NewTask(pt.key, status, pt.plan, "auto", pt.refs, when)
           old == Having(m.list, pt.key)
           n == MergeOne(m, pt, when)
<1> SUFFICES StoredOK(n) /\ Stands(m, n, when)
  OBVIOUS
<1>0. CASE pt.key = NoKey
  <2>1. n = m
    BY <1>0 DEF MergeOne
  <2> HIDE DEF n, old
  <2> QED
    BY <2>1 DEF Stands, SamePlan
<1>1. CASE pt.key # NoKey /\ old # {}
  <2>1. n = [m EXCEPT !.list = [i \in DOMAIN m.list |->
                                  IF i \in old THEN Merged(m.list[i], pt, when) ELSE m.list[i]]]
    BY <1>1 DEF MergeOne
  <2>2. /\ DOMAIN n = {"list", "seq", "since"} /\ n.seq = m.seq /\ n.since = m.since
        /\ DOMAIN n.list = DOMAIN m.list
        /\ \A i \in DOMAIN m.list : n.list[i] \in {m.list[i], Merged(m.list[i], pt, when)}
    <3> HIDE DEF n, old
    <3> QED
      BY <2>1 DEF StoredOK
  <2>3. ASSUME NEW i \in DOMAIN m.list
        PROVE  /\ i \in 1..m.seq /\ Tidy(n.list[i])
               /\ IsFinished(m.list[i]) => n.list[i].status = m.list[i].status
               /\ HandSetOn(m.list[i], when) => SamePlan(m.list[i], n.list[i])
    <3> HIDE DEF n, old
    <3>1. i \in 1..m.seq /\ Tidy(m.list[i])
      BY DEF StoredOK
    <3>2. CASE n.list[i] = m.list[i]
      BY <3>1, <3>2 DEF SamePlan
    <3>3. CASE n.list[i] = Merged(m.list[i], pt, when)
      BY <3>1, <3>3, MergedKeeps
    <3> QED
      BY <2>2, <3>2, <3>3
  <2> HIDE DEF n, old
  <2> QED
    BY <2>2, <2>3 DEF StoredOK, Stands
<1>2. CASE pt.key # NoKey /\ old = {} /\ status \in Finals
  <2>1. n = m
    BY <1>2 DEF MergeOne
  <2> HIDE DEF n, old
  <2> QED
    BY <2>1 DEF Stands, SamePlan
<1>3. CASE pt.key # NoKey /\ old = {} /\ status \notin Finals
  <2>1. n = [m EXCEPT !.list = Put(m.list, m.seq + 1, new), !.seq = m.seq + 1]
    BY <1>3 DEF MergeOne
  <2>2. Tidy(new)
    <3>1. /\ status \in Statuses /\ pt.key \in Keys \cup {NoKey} /\ pt.plan \in Nat
          /\ pt.refs \in SUBSET Entries /\ "auto" \in Sources
      BY DEF Proposals, Statuses, Entries, Sources
    <3> HIDE DEF status
    <3> QED
      BY <3>1, NewIsTidy
  <2> HIDE DEF n, old, new
  <2>3. m.seq \in Nat /\ m.seq + 1 \notin DOMAIN m.list
    BY DEF StoredOK
  <2>4. /\ DOMAIN n = {"list", "seq", "since"} /\ n.seq = m.seq + 1 /\ n.since = m.since
        /\ DOMAIN n.list = DOMAIN m.list \cup {m.seq + 1} /\ n.list[m.seq + 1] = new
        /\ \A i \in DOMAIN m.list : n.list[i] = m.list[i]
    BY <2>1, <2>3 DEF StoredOK, Put
  <2>5. StoredOK(n)
    BY <2>2, <2>3, <2>4 DEF StoredOK
  <2>6. Stands(m, n, when)
    BY <2>4 DEF Stands, SamePlan
  <2> QED
    BY <2>5, <2>6
<1> QED
  BY <1>0, <1>1, <1>2, <1>3

\* The states of a merge, from the first proposed task to the last.
IsMerging(f, m, proposal, when) ==
    f = [n \in 0..Len(proposal) |->
            IF n = 0 THEN m ELSE MergeOne(f[n - 1], proposal[n], when)]

LEMMA MergingExists ==
    ASSUME NEW m, NEW proposal, Len(proposal) \in Nat, NEW when
    PROVE  \E f : IsMerging(f, m, proposal, when)
<1> DEFINE To(k, f) == f = [n \in 0..k |-> IF n = 0 THEN m ELSE MergeOne(f[n - 1], proposal[n], when)]
           S == {k \in 0..Len(proposal) : \E f : To(k, f)}
<1>1. 0 \in S
  <2>1. To(0, [n \in 0..0 |-> m])
    OBVIOUS
  <2> HIDE DEF To
  <2> QED
    BY <2>1
<1>2. ASSUME NEW k \in 0..Len(proposal), k < Len(proposal), k \in S PROVE k + 1 \in S
  <2>1. PICK f : To(k, f)
    BY <1>2
  <2> DEFINE g == [n \in 0..k + 1 |->
                     IF n = k + 1 THEN MergeOne(f[k], proposal[k + 1], when) ELSE f[n]]
  <2>2. \A n \in 0..k + 1 : g[n] = IF n = 0 THEN m ELSE MergeOne(g[n - 1], proposal[n], when)
    BY <2>1
  <2>3. g = [n \in 0..k + 1 |-> g[n]]
    OBVIOUS
  <2> HIDE DEF g
  <2>4. To(k + 1, g)
    BY <2>2, <2>3
  <2>5. k + 1 \in 0..Len(proposal)
    BY <1>2
  <2> HIDE DEF To
  <2> QED
    BY <2>4, <2>5
<1>3. Len(proposal) \in S
  <2> HIDE DEF S
  <2>1. \A k \in 0..Len(proposal) : k < Len(proposal) /\ k \in S => k + 1 \in S
    BY <1>2
  <2>2. \A k \in 0..Len(proposal) : k \in S
    BY <1>1, <2>1, InductionTo
  <2> QED
    BY <2>2
<1> QED
  BY <1>3 DEF IsMerging

LEMMA MergeIsMerging ==
    ASSUME NEW m, NEW proposal, Len(proposal) \in Nat, NEW when
    PROVE  \E f : IsMerging(f, m, proposal, when) /\ Merge(m, proposal, when) = f[Len(proposal)]
<1> DEFINE f == CHOOSE f : IsMerging(f, m, proposal, when)
<1>1. IsMerging(f, m, proposal, when)
  BY MergingExists
<1>2. Merge(m, proposal, when) = f[Len(proposal)]
  BY DEF Merge, IsMerging
<1> QED
  BY <1>1, <1>2

\* A proposal of any length leaves the person's decisions as they are.
LEMMA MergeKeeps ==
    ASSUME NEW m, StoredOK(m), NEW proposal \in Seq(Proposals), NEW when \in Nat
    PROVE  LET n == Merge(m, proposal, when) IN StoredOK(n) /\ Stands(m, n, when)
<1>0. Len(proposal) \in Nat /\ \A n \in 1..Len(proposal) : proposal[n] \in Proposals
  OBVIOUS
<1>1. PICK f : IsMerging(f, m, proposal, when) /\ Merge(m, proposal, when) = f[Len(proposal)]
  BY <1>0, MergeIsMerging
<1> DEFINE S == {n \in 0..Len(proposal) : StoredOK(f[n]) /\ Stands(m, f[n], when)}
<1>2. 0 \in S
  <2>1. f[0] = m
    BY <1>0, <1>1 DEF IsMerging
  <2> QED
    BY <1>0, <2>1 DEF Stands, SamePlan
<1>3. ASSUME NEW n \in 0..Len(proposal), n < Len(proposal), n \in S PROVE n + 1 \in S
  <2>1. n + 1 \in 1..Len(proposal) /\ f[n + 1] = MergeOne(f[n], proposal[n + 1], when)
    <3>1. n + 1 \in 0..Len(proposal) /\ n + 1 # 0 /\ (n + 1) - 1 = n /\ n + 1 \in 1..Len(proposal)
      BY <1>0, <1>3
    <3>2. f[n + 1] = IF n + 1 = 0 THEN m ELSE MergeOne(f[(n + 1) - 1], proposal[n + 1], when)
      BY <1>1, <3>1, Zenon DEF IsMerging
    <3> QED
      BY <3>1, <3>2, Zenon
  <2>2. StoredOK(f[n + 1]) /\ Stands(f[n], f[n + 1], when)
    BY <1>0, <1>3, <2>1, MergeOneKeeps
  <2>3. Stands(m, f[n + 1], when)
    BY <1>3, <2>2, StandsOn
  <2> QED
    BY <2>1, <2>2, <2>3
<1>4. Len(proposal) \in S
  <2> HIDE DEF S
  <2>1. \A n \in 0..Len(proposal) : n < Len(proposal) /\ n \in S => n + 1 \in S
    BY <1>3
  <2>2. \A n \in 0..Len(proposal) : n \in S
    BY <1>0, <1>2, <2>1, InductionTo
  <2> QED
    BY <1>0, <2>2
<1> QED
  BY <1>1, <1>4

-----------------------------------------------------------------------------
\* A place in an order is a number.
LEMMA PlaceIsNat ==
    ASSUME NEW ids \in Seq(Nat), NEW i
    PROVE  Place(ids, i) \in Nat
<1> DEFINE P == {n \in DOMAIN ids : ids[n] = i} \cup {NoOrder}
<1>1. P \subseteq 0..Len(ids) /\ P # {} /\ Len(ids) \in Nat
  BY DEF NoOrder
<1>2. IsFiniteSet(P) /\ P \subseteq Nat
  <2> HIDE DEF P
  <2>1. IsFiniteSet(0..Len(ids)) /\ P \in SUBSET (0..Len(ids))
    BY <1>1, FS_Interval
  <2>2. IsFiniteSet(P)
    BY <2>1, FS_Subset
  <2> QED
    BY <1>1, <2>1, <2>2
<1>3. Max(P) \in P
  <2> HIDE DEF P
  <2> QED
    BY <1>1, <1>2, GreatestNumber
<1>4. Place(ids, i) = Max(P)
  BY DEF Place
<1> HIDE DEF P
<1> QED
  BY <1>2, <1>3, <1>4

\* The next id is above every id of the file.
LEMMA NextIdIsHigher ==
    ASSUME NEW q, IsExport(q)
    PROVE  NextId(q) - 1 \in Nat /\ \A i \in DOMAIN q.file : i \in 1..NextId(q) - 1
<1> DEFINE P == {0} \cup DOMAIN q.file
           R == {q.nextId, Max(P) + 1}
<1>1. DOMAIN q.file \subseteq Nat \ {0} /\ IsFiniteSet(DOMAIN q.file) /\ q.nextId \in Nat
  BY DEF IsExport
<1>2. Max(P) \in Nat /\ \A i \in P : i <= Max(P)
  <2>1. IsFiniteSet({0})
    BY FS_Singleton
  <2>2. IsFiniteSet(P)
    BY <1>1, <2>1, FS_Union
  <2>3. P \subseteq Nat /\ P # {}
    BY <1>1
  <2> HIDE DEF P
  <2> QED
    BY <2>2, <2>3, GreatestNumber
<1>3. Max(R) \in Nat /\ Max(P) + 1 <= Max(R)
  <2> HIDE DEF P
  <2>1. R \subseteq Nat /\ R # {}
    BY <1>1, <1>2
  <2>2. IsFiniteSet(R)
    <3>1. IsFiniteSet({q.nextId}) /\ R = {q.nextId} \cup {Max(P) + 1}
      BY FS_Singleton
    <3> HIDE DEF R
    <3> QED
      BY <3>1, FS_AddElement
  <2>3. Max(P) + 1 \in R
    OBVIOUS
  <2> HIDE DEF R
  <2> QED
    BY <2>1, <2>2, <2>3, GreatestNumber
<1>4. NextId(q) = Max(R)
  BY DEF NextId
<1> HIDE DEF R
<1>5. \A i \in DOMAIN q.file : i \in Nat \ {0} /\ i <= Max(P)
  BY <1>1, <1>2
<1> HIDE DEF P
<1> QED
  BY <1>2, <1>3, <1>4, <1>5

LEMMA ImportKeeps ==
    ASSUME NEW q, IsExport(q), NEW m, StoredOK(m), NEW when \in Nat
    PROVE  StoredOK([list |-> Imported(q.file, when), since |-> Since(m, q.since),
                     seq |-> NextId(q) - 1])
<1> DEFINE l == Imported(q.file, when)
<1>1. DOMAIN l = DOMAIN q.file /\ \A i \in DOMAIN l : Tidy(l[i])
  <2>1. \A i \in DOMAIN q.file : Tidy(q.file[i])
    BY DEF IsExport
  <2>2. ASSUME NEW i \in DOMAIN q.file PROVE Tidy(l[i])
    <3> DEFINE finished == IsFinished(q.file[i]) /\ q.file[i].doneOn < Day(when)
    <3>1. PICK a \in BOOLEAN : a = (q.file[i].archived \/ finished)
      OBVIOUS
    <3>2. l[i] = [q.file[i] EXCEPT !.archived = q.file[i].archived \/ finished]
      BY DEF Imported
    <3>3. a => IsFinished(q.file[i])
      BY <2>1, <3>1 DEF Tidy
    <3> HIDE DEF l, finished
    <3>4. l[i] = [q.file[i] EXCEPT !.archived = a]
      BY <3>1, <3>2, Zenon
    <3> QED
      BY <2>1, <3>3, <3>4, ArchivedIsTidy
  <2>3. DOMAIN l = DOMAIN q.file
    BY DEF Imported
  <2> QED
    BY <2>2, <2>3
<1>2. Since(m, q.since) \in Nat \cup {None}
  BY DEF IsExport, Since, StoredOK
<1>3. NextId(q) - 1 \in Nat /\ \A i \in DOMAIN q.file : i \in 1..NextId(q) - 1
  BY NextIdIsHigher
<1> DEFINE new == [list |-> l, since |-> Since(m, q.since), seq |-> NextId(q) - 1]
<1>4. /\ DOMAIN new = {"list", "seq", "since"} /\ new.list = l
      /\ new.since = Since(m, q.since) /\ new.seq = NextId(q) - 1
  OBVIOUS
<1>5. StoredOK(new)
  <2> HIDE DEF l, new
  <2> QED
    BY <1>1, <1>2, <1>3, <1>4 DEF StoredOK
<1> QED
  BY <1>5

-----------------------------------------------------------------------------
\* What a request makes of a list: its types, every task, the plans that were set
\* by hand, and who has set the others.
Follows(q, m, n, when) ==
    /\ StoredOK(n) /\ DOMAIN m.list \subseteq DOMAIN n.list
    /\ q.kind = "sync" => Stands(m, n, when)
    /\ Automated(q) =>
          \A i \in DOMAIN m.list : HandSetOn(m.list[i], when) => SamePlan(m.list[i], n.list[i])
    /\ \A i \in DOMAIN n.list :
          \/ i \in DOMAIN m.list /\ SamePlan(m.list[i], n.list[i])
          \/ q.kind = "import" /\ SamePlan(q.file[i], n.list[i])
          \/ q.kind # "import" /\ (MovedByHand(q, i) => HandSetOn(n.list[i], when))

\* One task becomes new, and the others stay.
LEMMA OneChanges ==
    ASSUME NEW q, NEW m, StoredOK(m), NEW when, NEW i \in DOMAIN m.list, NEW new, Tidy(new),
           q.kind \notin {"sync", "import"},
           Automated(q) /\ HandSetOn(m.list[i], when) => SamePlan(m.list[i], new),
           MovedByHand(q, i) => SamePlan(m.list[i], new) \/ HandSetOn(new, when)
    PROVE  Follows(q, m, [m EXCEPT !.list[i] = new], when)
<1> DEFINE n == [m EXCEPT !.list[i] = new]
<1>1. /\ DOMAIN n = {"list", "seq", "since"} /\ n.seq = m.seq /\ n.since = m.since
      /\ DOMAIN n.list = DOMAIN m.list /\ n.list[i] = new
      /\ \A j \in DOMAIN m.list : j # i => n.list[j] = m.list[j]
  BY DEF StoredOK
<1> HIDE DEF n
<1>2. StoredOK(n)
  BY <1>1 DEF StoredOK
<1>3. \A j \in DOMAIN m.list : j # i => SamePlan(m.list[j], n.list[j])
  BY <1>1 DEF SamePlan
<1> SUFFICES Follows(q, m, n, when)
  BY DEF n
<1> QED
  BY <1>1, <1>2, <1>3 DEF Follows

LEMMA NothingChanges ==
    ASSUME NEW q, NEW m, StoredOK(m), NEW when
    PROVE  Follows(q, m, m, when)
BY DEF Follows, Stands, SamePlan

LEMMA AddKeeps ==
    ASSUME NEW q \in [kind: {"add"}, key: Keys \cup {NoKey}, status: Statuses \ Finals,
                      plan: Nat, source: Sources],
           NEW m, StoredOK(m), NEW when \in Nat
    PROVE  Follows(q, m, Result(q, m, when), when)
<1> DEFINE new == NewTask(q.key, q.status, q.plan, q.source, {}, when)
           n == [m EXCEPT !.list = Put(m.list, m.seq + 1, new), !.seq = m.seq + 1]
<1>1. /\ Tidy(new)
      /\ q.source # "auto" /\ q.plan # Unplanned => HandSetOn(new, when)
  BY NewIsTidy DEF Statuses
<1>2. Result(q, m, when) = n
  BY DEF Result
<1> HIDE DEF new
<1>3. m.seq \in Nat /\ m.seq + 1 \notin DOMAIN m.list
  BY DEF StoredOK
<1>4. /\ DOMAIN n = {"list", "seq", "since"} /\ n.seq = m.seq + 1 /\ n.since = m.since
      /\ DOMAIN n.list = DOMAIN m.list \cup {m.seq + 1} /\ n.list[m.seq + 1] = new
      /\ \A i \in DOMAIN m.list : n.list[i] = m.list[i]
  BY <1>3 DEF StoredOK, Put
<1> HIDE DEF n
<1>5. StoredOK(n)
  BY <1>1, <1>3, <1>4 DEF StoredOK
<1>6. \A i \in DOMAIN m.list : SamePlan(m.list[i], n.list[i])
  BY <1>4 DEF SamePlan
<1>7. q.kind = "add"
  OBVIOUS
<1>8. Follows(q, m, n, when)
  BY <1>1, <1>4, <1>5, <1>6, <1>7 DEF Follows, MovedByHand, Automated
<1> QED
  BY <1>2, <1>8

LEMMA EditKeeps ==
    ASSUME NEW q \in [kind: {"edit"}, id: Nat, patch: Patches],
           NEW m, StoredOK(m), NEW when \in Nat
    PROVE  Follows(q, m, Result(q, m, when), when)
<1>0. q.kind = "edit" /\ q.patch \in Patches
  OBVIOUS
<1>1. CASE q.id \notin DOMAIN m.list \/ Refused(m.list[q.id], q.patch, when)
  <2>1. Result(q, m, when) = m
    BY <1>0, <1>1 DEF Result
  <2> QED
    BY <2>1, NothingChanges
<1>2. CASE q.id \in DOMAIN m.list /\ ~Refused(m.list[q.id], q.patch, when)
  <2> DEFINE t == m.list[q.id]
             new == Apply(t, q.patch, when)
  <2>1. Result(q, m, when) = [m EXCEPT !.list[q.id] = new]
    BY <1>0, <1>2 DEF Result
  <2>2. Tidy(t)
    BY <1>2 DEF StoredOK
  <2>3. /\ Tidy(new)
        /\ q.patch.auto /\ HandSetOn(t, when) => SamePlan(t, new)
        /\ ~q.patch.auto => SamePlan(t, new) \/ HandSetOn(new, when)
    BY <1>0, <1>2, <2>2, ApplyKeeps
  <2> HIDE DEF new
  <2>4. Follows(q, m, [m EXCEPT !.list[q.id] = new], when)
    BY <1>0, <1>2, <2>3, OneChanges DEF Automated, MovedByHand
  <2> QED
    BY <2>1, <2>4
<1> QED
  BY <1>1, <1>2

LEMMA NoteRequestKeeps ==
    ASSUME NEW q \in [kind: {"note"}, id: Nat, ref: Refs],
           NEW m, StoredOK(m), NEW when \in Nat
    PROVE  Follows(q, m, Result(q, m, when), when)
<1>0. q.kind = "note" /\ q.ref \in Entries
  BY DEF Entries
<1>1. CASE q.id \notin DOMAIN m.list
  <2>1. Result(q, m, when) = m
    BY <1>0, <1>1 DEF Result
  <2> QED
    BY <2>1, NothingChanges
<1>2. CASE q.id \in DOMAIN m.list
  <2> DEFINE new == AddNote(m.list[q.id], q.ref)
  <2>1. Result(q, m, when) = [m EXCEPT !.list[q.id] = new]
    BY <1>0, <1>2 DEF Result
  <2>2. Tidy(new)
    BY <1>0, <1>2, NoteKeeps DEF StoredOK
  <2> HIDE DEF new
  <2>3. Follows(q, m, [m EXCEPT !.list[q.id] = new], when)
    BY <1>0, <1>2, <2>2, OneChanges DEF Automated, MovedByHand
  <2> QED
    BY <2>1, <2>3
<1> QED
  BY <1>1, <1>2

LEMMA OrderIsTidy ==
    ASSUME NEW t, Tidy(t), NEW p \in Nat
    PROVE  Tidy([t EXCEPT !.order = p]) /\ SamePlan(t, [t EXCEPT !.order = p])
BY DEF Tidy, TaskRecords, IsFinished, SamePlan

LEMMA OrderKeeps ==
    ASSUME NEW q \in [kind: {"order"}, ids: Seq(Nat)],
           NEW m, StoredOK(m), NEW when \in Nat
    PROVE  Follows(q, m, Result(q, m, when), when)
<1>0. q.kind = "order" /\ q.ids \in Seq(Nat)
  OBVIOUS
<1>1. CASE ~(Range(q.ids) \subseteq DOMAIN m.list)
  <2>1. Result(q, m, when) = m
    BY <1>0, <1>1 DEF Result
  <2> QED
    BY <2>1, NothingChanges
<1>2. CASE Range(q.ids) \subseteq DOMAIN m.list
  <2> DEFINE n == [m EXCEPT !.list = [i \in DOMAIN m.list |->
                     IF i \in Range(q.ids) THEN [m.list[i] EXCEPT !.order = Place(q.ids, i)]
                     ELSE m.list[i]]]
  <2>1. Result(q, m, when) = n
    BY <1>0, <1>2 DEF Result
  <2>2. /\ DOMAIN n = {"list", "seq", "since"} /\ n.seq = m.seq /\ n.since = m.since
        /\ DOMAIN n.list = DOMAIN m.list
        /\ \A i \in DOMAIN m.list :
              n.list[i] \in {m.list[i], [m.list[i] EXCEPT !.order = Place(q.ids, i)]}
    BY DEF StoredOK
  <2> HIDE DEF n
  <2>3. ASSUME NEW i \in DOMAIN m.list
        PROVE  Tidy(n.list[i]) /\ SamePlan(m.list[i], n.list[i])
    <3>1. Tidy(m.list[i]) /\ Place(q.ids, i) \in Nat
      BY <1>0, PlaceIsNat DEF StoredOK
    <3>2. CASE n.list[i] = m.list[i]
      BY <3>1, <3>2 DEF SamePlan
    <3>3. CASE n.list[i] = [m.list[i] EXCEPT !.order = Place(q.ids, i)]
      BY <3>1, <3>3, OrderIsTidy
    <3> QED
      BY <2>2, <3>2, <3>3
  <2>4. StoredOK(n)
    BY <2>2, <2>3 DEF StoredOK
  <2>5. Follows(q, m, n, when)
    BY <1>0, <2>2, <2>3, <2>4 DEF Follows, Automated
  <2> QED
    BY <2>1, <2>5
<1> QED
  BY <1>1, <1>2

LEMMA SyncKeeps ==
    ASSUME NEW q \in [kind: {"sync"}, tasks: Seq(Proposals), dryRun: BOOLEAN,
                      syncedAt: Nat \cup {None}],
           NEW m, StoredOK(m), NEW when \in Nat
    PROVE  Follows(q, m, Result(q, m, when), when)
<1>0. /\ q.kind = "sync" /\ q.tasks \in Seq(Proposals) /\ q.dryRun \in BOOLEAN
      /\ q.syncedAt \in Nat \cup {None}
  OBVIOUS
<1>1. CASE q.dryRun
  <2>1. Result(q, m, when) = m
    BY <1>0, <1>1 DEF Result
  <2> QED
    BY <2>1, NothingChanges
<1>2. CASE ~q.dryRun
  <2> DEFINE x == Merge(m, q.tasks, when)
             n == [x EXCEPT !.since = Since(m, q.syncedAt)]
  <2>1. Result(q, m, when) = n
    BY <1>0, <1>2 DEF Result
  <2>2. StoredOK(x) /\ Stands(m, x, when)
    BY <1>0, MergeKeeps
  <2>3. Since(m, q.syncedAt) \in Nat \cup {None}
    BY <1>0 DEF Since, StoredOK
  <2> HIDE DEF x
  <2>4. /\ DOMAIN n = {"list", "seq", "since"} /\ n.seq = x.seq /\ n.list = x.list
        /\ n.since = Since(m, q.syncedAt)
    BY <2>2 DEF StoredOK
  <2> HIDE DEF n
  <2>5. StoredOK(n) /\ Stands(m, n, when)
    BY <2>2, <2>3, <2>4 DEF StoredOK, Stands
  <2>6. Follows(q, m, n, when)
    BY <1>0, <2>5 DEF Follows, Stands, Automated, MovedByHand
  <2> QED
    BY <2>1, <2>6
<1> QED
  BY <1>1, <1>2

LEMMA ImportRequestKeeps ==
    ASSUME NEW q, q.kind = "import", IsExport(q), NEW m, StoredOK(m), NEW when \in Nat
    PROVE  Follows(q, m, Result(q, m, when), when)
<1>1. CASE DOMAIN m.list # {}
  <2>1. Result(q, m, when) = m
    BY <1>1 DEF Result
  <2> QED
    BY <2>1, NothingChanges
<1>2. CASE DOMAIN m.list = {}
  <2> DEFINE n == [list |-> Imported(q.file, when), since |-> Since(m, q.since),
                   seq |-> NextId(q) - 1]
  <2>1. Result(q, m, when) = n
    BY <1>2 DEF Result
  <2>2. StoredOK(n)
    BY ImportKeeps
  <2>3. n.list = Imported(q.file, when)
    OBVIOUS
  <2> HIDE DEF n
  <2>4. \A i \in DOMAIN n.list : SamePlan(q.file[i], n.list[i])
    <3> SUFFICES ASSUME NEW i \in DOMAIN n.list PROVE SamePlan(q.file[i], n.list[i])
      OBVIOUS
    <3> DEFINE t == q.file[i]
               a == t.archived \/ (IsFinished(t) /\ t.doneOn < Day(when))
    <3>1. i \in DOMAIN q.file /\ n.list[i] = [t EXCEPT !.archived = a]
      BY <2>3 DEF Imported
    <3>2. t \in TaskRecords
      BY <3>1 DEF IsExport, Tidy
    <3> HIDE DEF t, a
    <3>3. SamePlan(t, n.list[i])
      BY <3>1, <3>2, Zenon DEF SamePlan, TaskRecords
    <3> QED
      BY <3>3 DEF t
  <2>5. Follows(q, m, n, when)
    BY <1>2, <2>2, <2>4 DEF Follows, Automated
  <2> QED
    BY <2>1, <2>5
<1> QED
  BY <1>1, <1>2

\* Whatever is asked of a list.
LEMMA ResultKeeps ==
    ASSUME NEW q \in Requests, NEW m, StoredOK(m), NEW when \in Nat
    PROVE  Follows(q, m, Result(q, m, when), when)
BY RequestsAssumption, AddKeeps, EditKeeps, NoteRequestKeeps, OrderKeeps, SyncKeeps,
   ImportRequestKeeps

-----------------------------------------------------------------------------
\* A transaction that can still write has read the list as it stands.
SnapshotsHold ==
    \A c \in Calls :
       call[c].at = "loaded" =>
          /\ call[c].rev \in 0..rev
          /\ call[c].rev = rev => call[c].snap = Stored

\* A plan whose day the ghost has was set by hand on that day, and no other has
\* set it since.
HandsAreNoted ==
    \A i \in Ids :
       byHand[i] # NoDay =>
          i \in DOMAIN list /\ list[i].planBy = "manual" /\ list[i].planOn = byHand[i]

TasksInv == TasksTypeOK /\ SnapshotsHold /\ HandsAreNoted

LEMMA TasksInvInit == TasksInit => TasksInv
<1> SUFFICES ASSUME TasksInit PROVE TasksInv
  OBVIOUS
<1>1. DOMAIN list = {}
  BY DEF TasksInit
<1>2. DOMAIN call = Calls /\ \A c \in Calls : call[c].at = "idle"
  BY DEF TasksInit, Idle
<1>3. byHand \in [Ids -> Nat] /\ \A i \in Ids : byHand[i] = NoDay
  BY DEF TasksInit, NoDay
<1>4. TasksTypeOK
  BY <1>1, <1>2, <1>3 DEF TasksInit, TasksTypeOK
<1> QED
  BY <1>2, <1>3, <1>4 DEF TasksInv, SnapshotsHold, HandsAreNoted

LEMMA StoredIsOK ==
    ASSUME TasksTypeOK
    PROVE  StoredOK(Stored)
<1>1. /\ DOMAIN Stored = {"list", "seq", "since"} /\ Stored.list = list
      /\ Stored.seq = seq /\ Stored.since = since
  BY DEF Stored
<1>2. ASSUME NEW i \in DOMAIN list PROVE i \in 1..seq /\ Tidy(list[i])
  <2>1. i \in Nat \ {0} /\ i <= seq /\ seq \in Nat /\ Tidy(list[i])
    BY DEF TasksTypeOK
  <2> QED
    BY <2>1
<1> QED
  BY <1>1, <1>2 DEF StoredOK, TasksTypeOK

\* A commit writes on the list as it stands.
LEMMA CommitIsCurrent ==
    ASSUME SnapshotsHold, NEW c \in Calls, Commit(c)
    PROVE  Write(c, Stored)
<1>1. CASE call[c].at = "loaded" /\ call[c].rev = rev /\ Write(c, call[c].snap)
  BY <1>1 DEF SnapshotsHold
<1> QED
  BY <1>1 DEF Commit

\* What a commit makes of the list, and of the day on which a person has set
\* each plan.
LEMMA WriteKeepsPlans ==
    ASSUME TasksInv, NEW c \in Calls, call[c].at \in {"begun", "loaded"}, Write(c, Stored)
    PROVE  /\ Follows(call[c].req, Stored, Stored', call[c].now)
           /\ Storable(Stored')
           /\ byHand' \in [Ids -> Nat]
           /\ HandsAreNoted'
<1> DEFINE q == call[c].req
           when == call[c].now
           new == Result(q, Stored, when)
<1>1. q \in Requests /\ when \in Nat /\ StoredOK(Stored)
  BY StoredIsOK DEF TasksInv, TasksTypeOK
<1>2. Follows(q, Stored, new, when)
  BY <1>1, ResultKeeps
<1>3. Storable(new) /\ Becomes(new) /\ Recorded(c, new)
  BY DEF Write
<1>4. StoredOK(new)
  BY <1>2 DEF Follows
<1> HIDE DEF new
<1>5. /\ Stored'.list = new.list /\ Stored'.seq = new.seq /\ Stored'.since = new.since
      /\ DOMAIN Stored' = {"list", "seq", "since"} /\ list' = new.list
  BY <1>3 DEF Stored, Becomes
<1>6. Follows(q, Stored, Stored', when) /\ Storable(Stored')
  BY <1>2, <1>3, <1>5 DEF Follows, StoredOK, Stands, Storable
<1>7. Stored.list = list /\ DOMAIN list \subseteq DOMAIN new.list /\ DOMAIN new.list \subseteq Ids
  BY <1>2, <1>3 DEF Stored, Follows, Storable
<1> DEFINE Plan(t) == <<t.plan, t.planBy, t.planOn>>
           Moved(i) == i \notin DOMAIN list \/ Plan(list[i]) # Plan(new.list[i])
           day(i) == IF i \notin DOMAIN new.list \/ ~Moved(i) THEN byHand[i]
                     ELSE IF q.kind = "import"
                          THEN IF q.file[i].planBy = "manual" THEN q.file[i].planOn ELSE NoDay
                     ELSE IF MovedByHand(q, i) THEN Day(when) ELSE NoDay
<1>8. byHand' = [i \in Ids |-> day(i)]
  BY <1>3 DEF Recorded
<1>9. byHand \in [Ids -> Nat] /\ HandsAreNoted /\ NoDay \in Nat /\ Day(when) \in Nat
  BY <1>1, DaysCount DEF TasksInv, TasksTypeOK, NoDay
<1>10. ASSUME NEW i \in Ids
       PROVE  /\ day(i) \in Nat
              /\ day(i) # NoDay =>
                    /\ i \in DOMAIN new.list /\ new.list[i].planBy = "manual"
                    /\ new.list[i].planOn = day(i)
  <2>1. CASE i \notin DOMAIN new.list
    <3>1. i \notin DOMAIN list
      BY <1>7, <2>1
    <3>2. day(i) = byHand[i] /\ byHand[i] = NoDay
      BY <1>9, <2>1, <3>1 DEF HandsAreNoted
    <3> QED
      BY <1>9, <3>2
  <2>2. CASE i \in DOMAIN new.list /\ ~Moved(i)
    <3>1. SamePlan(list[i], new.list[i]) /\ i \in DOMAIN list
      BY <2>2 DEF SamePlan
    <3>2. day(i) = byHand[i]
      BY <2>2
    <3> HIDE DEF day, Moved
    <3> QED
      BY <1>9, <2>2, <3>1, <3>2 DEF HandsAreNoted, SamePlan
  <2>3. CASE i \in DOMAIN new.list /\ Moved(i)
    <3>1. ~(i \in DOMAIN list /\ SamePlan(list[i], new.list[i]))
      BY <2>3 DEF SamePlan
    <3>2. \/ q.kind = "import" /\ SamePlan(q.file[i], new.list[i])
          \/ q.kind # "import" /\ (MovedByHand(q, i) => HandSetOn(new.list[i], when))
      BY <1>2, <1>7, <2>3, <3>1 DEF Follows
    <3>3. Tidy(new.list[i]) /\ new.list[i].planOn \in Nat
      BY <1>4, <2>3 DEF StoredOK, Tidy, TaskRecords
    <3>4. CASE q.kind = "import"
      <4>1. day(i) = IF q.file[i].planBy = "manual" THEN q.file[i].planOn ELSE NoDay
        BY <2>3, <3>4
      <4> HIDE DEF day, Moved, q
      <4> QED
        BY <1>9, <2>3, <3>2, <3>3, <3>4, <4>1 DEF SamePlan
    <3>5. CASE q.kind # "import"
      <4>1. day(i) = IF MovedByHand(q, i) THEN Day(when) ELSE NoDay
        BY <2>3, <3>5
      <4> HIDE DEF day, Moved, q, when
      <4> QED
        BY <1>9, <2>3, <3>2, <3>5, <4>1 DEF HandSetOn
    <3> QED
      BY <3>4, <3>5
  <2> QED
    BY <2>1, <2>2, <2>3
<1> HIDE DEF day, q, when
<1>11. byHand' \in [Ids -> Nat] /\ HandsAreNoted'
  BY <1>5, <1>8, <1>10 DEF HandsAreNoted
<1> QED
  BY <1>6, <1>11 DEF q, when

\* A write on the list as it stands keeps every snapshot of that version true:
\* either it changes nothing, or the version moves on.
LEMMA WriteKeepsSnapshots ==
    ASSUME TasksInv, NEW c \in Calls, Write(c, Stored)
    PROVE  SnapshotsHold' /\ rev' \in Nat
<1> DEFINE new == Result(call[c].req, Stored, call[c].now)
<1>0. DOMAIN call = Calls /\ rev \in Nat /\ SnapshotsHold
  BY DEF TasksInv, TasksTypeOK
<1>1. Stored' = [list |-> new.list, seq |-> new.seq, since |-> new.since]
  BY DEF Write, Becomes, Stored
<1>2. call' = [call EXCEPT ![c] = [at |-> "done", req |-> call[c].req, now |-> call[c].now]]
  BY DEF Write
<1>3. rev' \in {rev, rev + 1} /\ (rev' = rev => new = Stored)
  BY <1>0 DEF Write
<1>4. rev' = rev => Stored' = Stored
  BY <1>1, <1>3 DEF Stored
<1> HIDE DEF new
<1>5. ASSUME NEW d \in Calls, call'[d].at = "loaded"
      PROVE  /\ call'[d].rev \in 0..rev'
             /\ call'[d].rev = rev' => call'[d].snap = Stored'
  <2>1. call'[d] = call[d] /\ call[d].at = "loaded"
    BY <1>0, <1>2, <1>5
  <2>2. call[d].rev \in 0..rev /\ (call[d].rev = rev => call[d].snap = Stored)
    BY <1>0, <2>1 DEF SnapshotsHold
  <2> QED
    BY <1>0, <1>3, <1>4, <2>1, <2>2
<1> QED
  BY <1>0, <1>3, <1>5 DEF SnapshotsHold

LEMMA WriteKeeps ==
    ASSUME TasksInv, NEW c \in Calls, call[c].at \in {"begun", "loaded"}, Write(c, Stored)
    PROVE  TasksInv'
<1>1. /\ Follows(call[c].req, Stored, Stored', call[c].now) /\ Storable(Stored')
      /\ byHand' \in [Ids -> Nat] /\ HandsAreNoted'
  BY WriteKeepsPlans
<1>2. SnapshotsHold' /\ rev' \in Nat
  BY WriteKeepsSnapshots
<1>3. now' = now /\ call' = [call EXCEPT ![c] = [at |-> "done", req |-> @.req, now |-> @.now]]
  BY DEF Write
<1>4. Stored'.list = list' /\ Stored'.seq = seq' /\ Stored'.since = since'
  BY DEF Stored
<1>5. /\ seq' \in Nat /\ since' \in Nat \cup {None}
      /\ \A i \in DOMAIN list' : i <= seq' /\ Tidy(list'[i])
  BY <1>1, <1>4 DEF Follows, StoredOK
<1>6. /\ DOMAIN list' \subseteq Ids
      /\ \A i, j \in DOMAIN list' :
            list'[i].key = list'[j].key /\ list'[i].key # NoKey => i = j
  BY <1>1, <1>4 DEF Storable
<1>7. /\ DOMAIN call' = Calls
      /\ \A d \in Calls : call'[d].at \in {"begun", "loaded"} =>
            call'[d].req \in Requests /\ call'[d].now \in 0..now'
  BY <1>3 DEF TasksInv, TasksTypeOK
<1>8. now' \in 0..LastSecond
  BY <1>3 DEF TasksInv, TasksTypeOK
<1> QED
  BY <1>1, <1>2, <1>5, <1>6, <1>7, <1>8 DEF TasksInv, TasksTypeOK

LEMMA TasksInvNext == TasksInv /\ [TasksNext]_tasksVars => TasksInv'
<1> SUFFICES ASSUME TasksInv, [TasksNext]_tasksVars PROVE TasksInv'
  OBVIOUS
<1> USE DEF TasksInv
<1>1. CASE SecondPasses
  <2>1. now' \in 0..LastSecond /\ \A x \in 0..now : x \in 0..now'
    BY <1>1 DEF SecondPasses, TasksTypeOK
  <2>2. UNCHANGED <<list, seq, since, rev, call, byHand>>
    BY <1>1 DEF SecondPasses
  <2>3. TasksTypeOK'
    BY <2>1, <2>2 DEF TasksTypeOK
  <2> QED
    BY <2>2, <2>3 DEF SnapshotsHold, HandsAreNoted, Stored
<1>2. ASSUME NEW c \in Calls, Begin(c) PROVE TasksInv'
  <2>1. UNCHANGED <<now, list, seq, since, rev, byHand>>
    BY <1>2 DEF Begin
  <2>2. PICK q \in Requests : call' = [call EXCEPT ![c] = [at |-> "begun", req |-> q, now |-> now]]
    BY <1>2 DEF Begin
  <2>3. TasksTypeOK'
    BY <2>1, <2>2 DEF TasksTypeOK
  <2> QED
    BY <2>1, <2>2, <2>3 DEF SnapshotsHold, HandsAreNoted, Stored, TasksTypeOK
<1>3. ASSUME NEW c \in Calls, Load(c) PROVE TasksInv'
  <2>1. UNCHANGED <<now, list, seq, since, rev, byHand>> /\ call[c].at = "begun"
    BY <1>3 DEF Load
  <2>2. call' = [call EXCEPT ![c] = [at |-> "loaded", req |-> @.req, now |-> @.now,
                                     snap |-> Stored, rev |-> rev]]
    BY <1>3 DEF Load
  <2>3. TasksTypeOK'
    BY <2>1, <2>2 DEF TasksTypeOK
  <2> QED
    BY <2>1, <2>2, <2>3 DEF SnapshotsHold, HandsAreNoted, Stored, TasksTypeOK
<1>4. ASSUME NEW c \in Calls, Commit(c) PROVE TasksInv'
  <2>1. call[c].at \in {"begun", "loaded"}
    BY <1>4 DEF Commit
  <2>2. Write(c, Stored)
    BY <1>4, CommitIsCurrent
  <2> QED
    BY <2>1, <2>2, WriteKeeps
<1>5. ASSUME NEW c \in Calls, Fail(c) PROVE TasksInv'
  <2>1. UNCHANGED <<now, list, seq, since, rev, byHand>>
    BY <1>5 DEF Fail
  <2>2. call' = [call EXCEPT ![c] = [at |-> "failed"]]
    BY <1>5 DEF Fail
  <2>3. TasksTypeOK'
    BY <2>1, <2>2 DEF TasksTypeOK
  <2> QED
    BY <2>1, <2>2, <2>3 DEF SnapshotsHold, HandsAreNoted, Stored, TasksTypeOK
<1>6. CASE UNCHANGED tasksVars
  BY <1>6 DEF tasksVars, TasksTypeOK, SnapshotsHold, HandsAreNoted, Stored
<1> QED
  BY <1>1, <1>2, <1>3, <1>4, <1>5, <1>6 DEF TasksNext

LEMMA TasksInvHolds == TasksSpec => []TasksInv
BY TasksInvInit, TasksInvNext, PTL DEF TasksSpec

\* Whatever requests overlap (add, edit, note, order, merge and import of
\* db/tasks.go): only a finished task is archived or has a day on which it was
\* finished, no id is above the sequence, and no two tasks have one key.
THEOREM TasksTypeCorrect == TasksSpec => []TasksTypeOK
<1>1. TasksInv => TasksTypeOK
  BY DEF TasksInv
<1> QED
  BY <1>1, TasksInvHolds, PTL

\* Transactions that overlap see the list they change (inTx of db/tasks.go).
THEOREM SnapshotsAreCurrent == TasksSpec => []SnapshotsHold
<1>1. TasksInv => SnapshotsHold
  BY DEF TasksInv
<1> QED
  BY <1>1, TasksInvHolds, PTL

\* Only a commit changes what is stored or ends a call well.
LEMMA OnlyCommitsCount ==
    ASSUME TasksInv, [TasksNext]_tasksVars, NEW c \in Calls, Commits(c)
    PROVE  Commit(c)
<1>0. DOMAIN call = Calls
  BY DEF TasksInv, TasksTypeOK
<1>1. ASSUME NEW d \in Calls, Commit(d) PROVE Commit(c)
  <2>1. call' = [call EXCEPT ![d] = [at |-> "done", req |-> @.req, now |-> @.now]]
    BY <1>1 DEF Commit, Write
  <2>2. c = d
    BY <1>0, <2>1 DEF Commits
  <2> QED
    BY <1>1, <2>2
<1>2. ASSUME NEW d \in Calls, Begin(d) \/ Load(d) \/ Fail(d) PROVE FALSE
  BY <1>0, <1>2 DEF Begin, Load, Fail, Commits
<1>3. ~SecondPasses /\ ~(UNCHANGED tasksVars)
  BY DEF SecondPasses, tasksVars, Commits
<1> QED
  BY <1>1, <1>2, <1>3 DEF TasksNext

LEMMA StepIsAtomic ==
    ASSUME TasksInv, [TasksNext]_tasksVars, Stored' # Stored
    PROVE  \E c \in Calls : Commits(c) /\ Becomes(Result(call[c].req, Stored, call[c].now))
<1>1. PICK c \in Calls : Commit(c)
  BY DEF TasksNext, tasksVars, Stored, SecondPasses, Begin, Load, Fail
<1>2. Write(c, Stored)
  BY <1>1, CommitIsCurrent DEF TasksInv
<1>3. Becomes(Result(call[c].req, Stored, call[c].now))
  BY <1>2 DEF Write
<1>4. Commits(c)
  BY <1>1, <1>2 DEF Commit, Commits, Write, TasksInv, TasksTypeOK
<1> QED
  BY <1>3, <1>4

\* No edit of the list is lost (inTx of db/tasks.go): whatever processes read
\* and write at once, each change is made on the list as it stands.
THEOREM NoEditIsLost == TasksSpec => EditsAreAtomic
<1>1. TasksInv /\ [TasksNext]_tasksVars =>
        [Stored' # Stored =>
            \E c \in Calls :
               Commits(c) /\ Becomes(Result(call[c].req, Stored, call[c].now))]_tasksVars
  BY StepIsAtomic
<1> QED
  BY <1>1, TasksInvHolds, PTL DEF TasksSpec, EditsAreAtomic

LEMMA StepLetsDecisionsStand ==
    ASSUME TasksInv, [TasksNext]_tasksVars, NEW c \in Calls, NEW i \in DOMAIN list,
           Commits(c), Automated(call[c].req)
    PROVE  /\ call[c].req.kind = "sync" /\ IsFinished(list[i]) => list'[i].status = list[i].status
           /\ byHand[i] = Day(call[c].now) => list'[i].plan = list[i].plan
<1> DEFINE q == call[c].req
           when == call[c].now
<1>1. Commit(c) /\ call[c].at \in {"begun", "loaded"}
  BY OnlyCommitsCount DEF Commit
<1>2. Write(c, Stored)
  BY <1>1, CommitIsCurrent DEF TasksInv
<1>3. Follows(q, Stored, Stored', when)
  BY <1>1, <1>2, WriteKeepsPlans
<1>4. Stored.list = list /\ Stored'.list = list' /\ i \in Ids /\ when \in Nat
  BY <1>1 DEF Stored, TasksInv, TasksTypeOK
<1>5. q.kind = "sync" /\ IsFinished(list[i]) => list'[i].status = list[i].status
  BY <1>3, <1>4 DEF Follows, Stands
<1>6. ASSUME byHand[i] = Day(when) PROVE list'[i].plan = list[i].plan
  <2>1. byHand[i] # NoDay
    BY <1>4, <1>6, DaysCount
  <2>2. HandSetOn(list[i], when)
    BY <1>4, <1>6, <2>1 DEF TasksInv, HandsAreNoted, HandSetOn
  <2>3. SamePlan(list[i], list'[i])
    BY <1>3, <1>4, <2>2 DEF Follows
  <2> QED
    BY <2>3 DEF SamePlan
<1> QED
  BY <1>5, <1>6

\* "The person's decisions win" (edit.go, sync.go): what is automated reopens no
\* finished task and moves no plan that a person has set on the day its call
\* began, in whatever order the calls of all processes read and write.
THEOREM DecisionsWin == TasksSpec => DecisionsStand
<1>1. TasksInv /\ [TasksNext]_tasksVars =>
        [\A c \in Calls, i \in DOMAIN list :
            Commits(c) /\ Automated(call[c].req) =>
               /\ call[c].req.kind = "sync" /\ IsFinished(list[i]) => list'[i].status = list[i].status
               /\ byHand[i] = Day(call[c].now) => list'[i].plan = list[i].plan]_tasksVars
  BY StepLetsDecisionsStand
<1> QED
  BY <1>1, TasksInvHolds, PTL DEF TasksSpec, DecisionsStand
=============================================================================
