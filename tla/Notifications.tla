---------------------------- MODULE Notifications ----------------------------
(***************************************************************************)
(* The hub's watchers of one device: notifications and the cross-device    *)
(* board (src/internal/hub/notify.go), over the tunnels that start and end *)
(* a watcher (serveDevice in hub.go) and the replicas' polls of each other *)
(* (cluster.go).                                                           *)
(*                                                                         *)
(* A watcher looks at its device through its tunnel: the sessions, the     *)
(* pending approvals, the claudes at a dialog before they have a session,  *)
(* and the scheduled restart.  Each of these subjects has a signature; one *)
(* that differs from that of the look before is pushed, unless the subject *)
(* was pushed a moment ago, and the first look pushes nothing.             *)
(*                                                                         *)
(* Watchers are numbered in the order their tunnels begin.  HubTunnels has *)
(* the tunnels in full; here a dead one is found in one step, by yamux or  *)
(* by the drop request of the replica the device has moved to.             *)
(***************************************************************************)
EXTENDS Naturals, FiniteSets

CONSTANTS
    Replicas,
    Portal,       \* the replica the operator's portal asks
    Sessions,
    Spawns,       \* hosted claudes that have no session yet
    Restart,      \* the device's scheduled restart, a subject as well
    Tools,        \* what a pending approval is about
    NoSnapshot,
    Cooldown,     \* sessionCooldown, in ticks
    MaxWatchers,  \* bound: tunnels of the device, one after the other
    MaxChanges,   \* bound: changes on the device
    MaxFaults     \* bound: failed requests, forgotten peers

ASSUME NotificationsAssumption ==
    /\ Portal \in Replicas /\ IsFiniteSet(Replicas)
    /\ NoSnapshot \notin [rows: [Sessions -> {"none", "done", "needs"}], at: Nat \ {0}]
    /\ Restart \notin Sessions \cup Spawns /\ Sessions \cap Spawns = {}
    /\ Tools \cap {"none", "done", "dialog", "approval", "pending", "expired"} = {}
    /\ {Cooldown, MaxWatchers, MaxChanges, MaxFaults} \subseteq Nat

VARIABLES
    wait,     \* what each subject of the device wants from the operator
    up,       \* the watcher whose tunnel the device's end still serves, or 0
    watch,    \* the watchers
    conns,    \* h.conns of each replica: the watcher of the device, or 0
    snaps,    \* h.snapshots of each replica
    views,    \* what Portal last heard of each other replica's
    known,    \* subjects whose present wait some watcher has seen
    blind,    \* has a watcher gone on after a failed request?
    changes,
    faults

vars == <<wait, up, watch, conns, snaps, views, known, blind, changes, faults>>

Subjects == Sessions \cup Spawns \cup {Restart}
Watchers == 1..MaxWatchers
Running == {"asleep", "read", "store"}

WaitsOf(x) ==
    IF x \in Sessions THEN {"none", "done", "dialog"} \cup Tools
    ELSE IF x \in Spawns THEN {"none", "dialog"}
    ELSE {"none", "pending", "expired"}

\* A session's row says that an approval is pending, not for which tool.
RowOf(g) == IF g \in Tools THEN "approval" ELSE g

Kind(g) == IF g \in {"none", "done"} THEN g ELSE "needs"

Signatures == {"none", "done", "dialog", "approval", "pending", "expired"} \cup Tools
Rows == [Sessions -> {"none", "done", "needs"}]
Snapshots == [rows: Rows, at: Nat \ {0}] \cup {NoSnapshot}

WatcherRecords ==
    [rep: Replicas,
     at: {"no", "gone"} \cup Running,
     done: BOOLEAN,                      \* has its context ended?
     first: BOOLEAN,                     \* st.first
     seen: [Subjects -> Signatures],     \* st.attention, st.restart
     got: [Subjects -> Signatures],      \* of the look under way
     cool: [(Sessions \cup Spawns) \X {"needs", "done"} -> 0..Cooldown], \* st.lastSent
     due: SUBSET Subjects]               \* ns

TypeOK ==
    /\ wait \in [Subjects -> UNION {WaitsOf(x) : x \in Subjects}]
    /\ \A x \in Subjects : wait[x] \in WaitsOf(x)
    /\ up \in Watchers \cup {0}
    /\ watch \in [Watchers -> WatcherRecords]
    /\ conns \in [Replicas -> Watchers \cup {0}]
    /\ \A r \in Replicas : conns[r] # 0 =>
          watch[conns[r]].rep = r /\ watch[conns[r]].at \in Running
    /\ snaps \in [Replicas -> Snapshots]
    /\ views \in [Replicas -> Snapshots]
    /\ known \subseteq Subjects
    /\ blind \in BOOLEAN
    /\ changes \in 0..MaxChanges /\ faults \in 0..MaxFaults

Nothing == [x \in Subjects |-> "none"]

\* newWatchState
NewWatcher(r) ==
    [rep |-> r, at |-> "asleep", done |-> FALSE, first |-> TRUE,
     seen |-> Nothing, got |-> Nothing, due |-> {},
     cool |-> [k \in (Sessions \cup Spawns) \X {"needs", "done"} |-> 0]]

NoWatcher(at) == [NewWatcher(Portal) EXCEPT !.at = at]

Init ==
    /\ wait = Nothing
    /\ up = 0
    /\ watch = [w \in Watchers |-> NoWatcher("no")]
    /\ conns = [r \in Replicas |-> 0]
    /\ snaps = [r \in Replicas |-> NoSnapshot]
    /\ views = [p \in Replicas |-> NoSnapshot]
    /\ known = {}
    /\ blind = FALSE
    /\ changes = 0 /\ faults = 0

Fault == faults < MaxFaults /\ faults' = faults + 1

Tunnels == <<up, conns>>
Board == <<snaps, views>>

-----------------------------------------------------------------------------
(* The device                                                              *)

Want(x) ==
    /\ changes < MaxChanges
    /\ \E g \in WaitsOf(x) \ {wait[x]} :
          /\ x = Restart => (wait[x] = "pending" \/ g = "pending")
          /\ wait' = [wait EXCEPT ![x] = g]
    /\ known' = known \ {x}
    /\ changes' = changes + 1
    /\ UNCHANGED <<Tunnels, Board, watch, blind, faults>>

\* Time passes for the cooldowns.
Tick ==
    /\ \E w \in Watchers : \E k \in DOMAIN watch[w].cool : watch[w].cool[k] > 0
    /\ watch' = [w \in Watchers |->
                    [watch[w] EXCEPT !.cool = [k \in DOMAIN @ |-> IF @[k] = 0 THEN 0 ELSE @[k] - 1]]]
    /\ UNCHANGED <<Tunnels, Board, wait, known, blind, changes, faults>>

-----------------------------------------------------------------------------
(* The tunnel                                                              *)

\* serveDevice: the new tunnel takes the table's entry and a watcher starts.  A
\* device keeps one tunnel: an older one is dead, and closed here or elsewhere
\* (Unserve).
Connect(r) ==
    /\ up = 0
    /\ \E w \in Watchers :
          /\ watch[w].at = "no" /\ \A v \in 1..(w - 1) : watch[v].at # "no"
          /\ up' = w
          /\ watch' = [watch EXCEPT ![w] = NewWatcher(r)]
          /\ conns' = [conns EXCEPT ![r] = w]
    /\ UNCHANGED <<Board, wait, known, blind, changes, faults>>

\* The device's end goes, or the hub closes the tunnel; it may be a while until
\* the hub has done with it.
Lose ==
    /\ up # 0
    /\ up' = 0
    /\ UNCHANGED <<Board, wait, watch, conns, known, blind, changes, faults>>

\* The hub's end is found dead by yamux's keep-alive, closed for a newer one or
\* dropped (handleDrop): the entry goes if it is still this tunnel's, and the
\* watcher's context ends.
Unserve(w) ==
    /\ watch[w].at \in Running /\ ~watch[w].done /\ up # w
    /\ conns' = [r \in Replicas |-> IF conns[r] = w THEN 0 ELSE conns[r]]
    /\ watch' = [watch EXCEPT ![w].done = TRUE]
    /\ up' = up
    /\ UNCHANGED <<Board, wait, known, blind, changes, faults>>

-----------------------------------------------------------------------------
(* A look                                                                  *)

\* w's requests reach the device; one may fail all the same.
Reads(w) == up = w
Fails(w) == IF Reads(w) THEN Fault ELSE UNCHANGED faults

\* The ticker's next look, which may come with the end of the context: GET
\* /api/sessions, without which there is no look.
ReadSessions(w) ==
    /\ watch[w].at = "asleep"
    /\ \/ /\ Reads(w)
          /\ watch' = [watch EXCEPT ![w].at = "read",
                                    ![w].got = [x \in Subjects |->
                                       IF x \in Sessions THEN RowOf(wait[x]) ELSE "none"]]
          /\ UNCHANGED faults
       \/ Fails(w) /\ UNCHANGED watch
    /\ UNCHANGED <<Tunnels, Board, wait, known, blind, changes>>

Key(x, g) == <<x, Kind(g)>>
Cooling(w, x, g) == x # Restart /\ watch[w].cool[Key(x, g)] > 0

\* Does w push x, now that its signature is g?
Due(w, x, g) ==
    /\ ~watch[w].first
    /\ g # "none" /\ g # watch[w].seen[x]
    /\ ~Cooling(w, x, g)

\* Mutant: only what is pushed is remembered, not what the first look found.
LookedAndTold(w, got) ==
    LET due == {x \in Subjects : Due(w, x, got[x])} IN
    [watch[w] EXCEPT
        !.at = "store", !.first = FALSE, !.due = due,
        !.seen = [x \in Subjects |-> IF x \in due \/ got[x] = "none" THEN got[x] ELSE @[x]],
        !.cool = [k \in DOMAIN @ |-> IF k[1] \in due /\ k = Key(k[1], got[k[1]])
                                     THEN Cooldown ELSE @[k]]]

\* What this look makes of the watcher (the end of watchOnce, restartNotice).
Looked(w, got) ==
    LET due == {x \in Subjects : Due(w, x, got[x])} IN
    [watch[w] EXCEPT
        !.at = "store", !.first = FALSE, !.seen = got, !.due = due,
        !.cool = [k \in DOMAIN @ |-> IF k[1] \in due /\ k = Key(k[1], got[k[1]])
                                     THEN Cooldown ELSE @[k]]]

\* GET /api/approvals names the tool of a session's approval, GET /pty/ the
\* spawns that ask, GET /api/restart the schedule.  Each may fail: then the
\* row's own words stand, nobody asks, and nothing is scheduled.
ReadRest(w) ==
    /\ watch[w].at = "read"
    /\ \E missed \in SUBSET {Sessions, Spawns, {Restart}} :
          LET unread == UNION missed
              got == [x \in Subjects |->
                        IF x \in Sessions
                        THEN IF watch[w].got[x] = "approval" /\ wait[x] \in Tools /\ x \notin unread
                             THEN wait[x] ELSE watch[w].got[x]
                        ELSE IF x \in unread THEN "none" ELSE wait[x]] IN
          /\ IF missed = {} THEN Reads(w) /\ UNCHANGED faults ELSE Fails(w)
          /\ Reads(w) \/ Subjects \subseteq unread
          /\ watch' = [watch EXCEPT ![w] = Looked(w, got)]
          /\ known' = known \cup {x \in Subjects : wait[x] # "none" /\ got[x] = wait[x]}
          /\ blind' = (blind \/ missed # {})
    /\ UNCHANGED <<Tunnels, Board, wait, changes>>

\* The peers' snapshots that Portal has heard of.
Heard == {views[p] : p \in Replicas \ {Portal}}
Newest(S) == CHOOSE s \in S : \A t \in S : t.at <= s.at

\* allSnapshots: the newest of what this replica and the others have.
BoardShown ==
    LET S == ({snaps[Portal]} \cup Heard) \ {NoSnapshot} IN
    IF S = {} THEN NoSnapshot ELSE Newest(S)

\* The times that snapshots were taken at, by their order only.
Held == ({snaps[r] : r \in Replicas} \cup {views[r] : r \in Replicas}) \ {NoSnapshot}
Times == {s.at : s \in Held}
Earlier(t) == Cardinality({u \in Times : u <= t})
Ranked(s) == IF s = NoSnapshot THEN s ELSE [s EXCEPT !.at = Earlier(@)]

\* storeSnapshot
StoreSnapshot(w) ==
    /\ snaps' = [r \in Replicas |->
                   IF r = watch[w].rep
                   THEN [rows |-> [x \in Sessions |-> Kind(watch[w].got[x])],
                         at |-> Cardinality(Times) + 1]
                   ELSE Ranked(snaps[r])]
    /\ views' = [p \in Replicas |-> Ranked(views[p])]

\* Mutant: the board is stored only when there is something to push.
StoreNews(w) ==
    /\ watch[w].at = "store"
    /\ IF watch[w].due = {} THEN UNCHANGED Board ELSE StoreSnapshot(w)
    /\ watch' = [watch EXCEPT ![w].at = "asleep", ![w].got = Nothing, ![w].due = {}]
    /\ UNCHANGED <<Tunnels, wait, known, blind, changes, faults>>

\* The snapshot, and then a push to every subscription; what fails is not sent
\* again.
Store(w) ==
    /\ watch[w].at = "store"
    /\ StoreSnapshot(w)
    /\ watch' = [watch EXCEPT ![w].at = "asleep", ![w].got = Nothing, ![w].due = {}]
    /\ UNCHANGED <<Tunnels, wait, known, blind, changes, faults>>

\* Mutant: the snapshot is left behind.
EndAndLeave(w) ==
    /\ watch[w].at = "asleep" /\ watch[w].done
    /\ watch' = [watch EXCEPT ![w] = NoWatcher("gone")]
    /\ UNCHANGED <<Tunnels, Board, wait, known, blind, changes, faults>>

\* The context has ended; the deferred dropSnapshot deletes the device's
\* snapshot, whichever watcher has stored it.
End(w) ==
    /\ watch[w].at = "asleep" /\ watch[w].done
    /\ watch' = [watch EXCEPT ![w] = NoWatcher("gone")]
    /\ snaps' = [snaps EXCEPT ![watch[w].rep] = NoSnapshot]
    /\ UNCHANGED <<Tunnels, views, wait, known, blind, changes, faults>>

-----------------------------------------------------------------------------
(* The board of several replicas                                           *)

\* Portal's cluster.refresh, answered by p's handleState: a snapshot is only
\* told of while the device is connected.
Poll(p) ==
    /\ p # Portal
    /\ views' = [views EXCEPT ![p] = IF conns[p] = 0 THEN NoSnapshot ELSE snaps[p]]
    /\ views' # views
    /\ UNCHANGED <<Tunnels, wait, watch, snaps, known, blind, changes, faults>>

\* A peer that does not answer for clusterStale is forgotten.
Forget(p) ==
    /\ views[p] # NoSnapshot
    /\ Fault
    /\ views' = [views EXCEPT ![p] = NoSnapshot]
    /\ UNCHANGED <<Tunnels, wait, watch, snaps, known, blind, changes>>

-----------------------------------------------------------------------------
Look(w) ==
    \/ ReadSessions(w)
    \/ ReadRest(w)
    \/ Store(w)

Next ==
    \/ \E x \in Subjects : Want(x)
    \/ Tick
    \/ Lose
    \/ \E r \in Replicas : Connect(r)
    \/ \E w \in Watchers : Unserve(w) \/ Look(w) \/ End(w)
    \/ \E p \in Replicas : Poll(p) \/ Forget(p)

\* A watcher goes on, its ticker ticks, a select with two ready cases takes
\* each in the end, dead tunnels are found and the replicas poll each other.
Fairness ==
    /\ \A w \in Watchers : /\ WF_vars(Look(w)) /\ SF_vars(End(w))
                           /\ WF_vars(Unserve(w))
    /\ \A p \in Replicas : WF_vars(Poll(p))

Spec == Init /\ [][Next]_vars
FairSpec == Spec /\ Fairness

-----------------------------------------------------------------------------
(* Properties                                                              *)

\* A replica that has a snapshot of the device has a watcher that will drop
\* it: a board never shows the sessions of a device that is gone for good
\* (the deferred dropSnapshot of watchDevice).
SnapshotsAreWatched ==
    \A r \in Replicas :
        snaps[r] # NoSnapshot => \E w \in Watchers : watch[w].rep = r /\ watch[w].at \in Running

\* Each change is pushed once: what some watcher has seen is not pushed by it
\* again nor by the watcher of a later tunnel, on this replica or another,
\* while it lasts.  (A failed request breaks this: what was known is forgotten
\* and is news to the next look.)
ChangesArePushedOnce ==
    [][\A w \in Watchers :
          watch'[w].at = "store" /\ watch[w].at = "read" /\ ~blind'
             => watch'[w].due \cap known = {}]_vars

\* In the end the board, whichever replica the portal asks, shows what the
\* device's sessions want, or nothing of them when it is not connected:
\* whatever a late dropSnapshot of an older watcher has deleted, and whatever
\* an older poll has left.
BoardCatchesUp ==
    <>[](IF up = 0 THEN BoardShown = NoSnapshot
         ELSE /\ BoardShown # NoSnapshot
              /\ BoardShown.rows = [x \in Sessions |-> Kind(wait[x])])

\* Not true of the code: a wait that begins while a watcher is at work is
\* pushed when it is first seen.  A signature says the tool only, and a
\* session that was pushed less than Cooldown ago is not pushed.
NewWaitsArePushed ==
    [][\A w \in Watchers, x \in Sessions :
          /\ watch'[w].at = "store" /\ watch[w].at = "read"
          /\ ~watch[w].first /\ ~blind'
          /\ x \in known' \ known
          => x \in watch'[w].due]_vars
=============================================================================
