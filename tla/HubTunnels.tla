------------------------------ MODULE HubTunnels ------------------------------
(***************************************************************************)
(* The tunnels between the devices and the replicas of the hub             *)
(* (src/internal/hub/hub.go, cluster.go; src/internal/server/hub.go on the *)
(* device).                                                                *)
(*                                                                         *)
(* A device dials whichever replica the load balancer names, which looks   *)
(* its token up in its copy of the shared state (StateSecret has the       *)
(* document and its writes; here a write is one step, and a read finds any *)
(* version that was current after the copy's) and keeps the tunnel in its  *)
(* table.  Rotating the token or deleting the device closes the     *)
(* tunnel here and asks the other replicas to close theirs; so does a new  *)
(* tunnel for the older ones.                                              *)
(*                                                                         *)
(* A dropConn(id) that has been decided on and not yet run is an element   *)
(* of "dropping": it closes whatever tunnel the table holds by then.       *)
(***************************************************************************)
EXTENDS Naturals, FiniteSets

CONSTANTS
    Replicas,
    Devices,
    Letters,
    NoLetter,     \* hub.json has none yet
    NoTunnel,
    MaxTunnels,   \* bound: tunnels at a time, the ones going away included
    MaxMail,      \* bound: drop requests under way when a tunnel starts
    MaxChanges,   \* bound: operator's changes
    MaxFaults     \* bound: lost links, lost requests, restarts; stamps, test dials

ASSUME HubAssumption ==
    /\ Replicas # {} /\ IsFiniteSet(Replicas)
    /\ Letters # {} /\ NoLetter \notin Letters
    /\ NoTunnel \notin Nat
    /\ {MaxTunnels, MaxMail, MaxChanges, MaxFaults} \subseteq Nat

VARIABLES
    state,     \* the shared state: version, tokens, letters
    past,      \* the versions it has had: a read may come late
    copy,      \* each replica's copy of it
    box,       \* each device: hub.json and the hub_enabled setting
    tun,       \* the tunnels
    conns,     \* h.conns of each replica: the tunnel of each device
    dropping,  \* dropConn calls about to run
    mail,      \* POST /cluster/drop requests on their way
    changes,   \* operator's changes so far
    faults     \* faults and stamps so far

vars == <<state, past, copy, box, tun, conns, dropping, mail, changes, faults>>

NoToken == 0
Slots == 1..MaxTunnels
Tunnels == {t \in Slots : tun[t] # NoTunnel}
Peers(r) == Replicas \ {r}

Versions == Nat
Tokens == Nat

Documents == [rv: Versions, tok: [Devices -> Tokens], letter: [Devices -> Letters]]

TunnelRecords ==
    [dev: Devices, rep: Replicas,
     tok: Tokens,                        \* dc.tokenHash
     letter: Letters,                    \* the letter the hub answers with
     cfg: Tokens \X (Letters \cup {NoLetter}), \* hub.json as it was dialled with
     hub: {"authed", "open", "dropped", "closed", "gone"},
     up: BOOLEAN,                        \* is the device's end open?
     since: Nat,                         \* 0 until it is in the table
     late: BOOLEAN]                      \* was its token already void by then?

ASSUME TunnelAssumption == NoTunnel \notin TunnelRecords

TypeOK ==
    /\ state \in Documents /\ past \subseteq Documents
    /\ copy \in [Replicas -> Documents]
    /\ box \in [Devices -> [tok: Tokens, letter: Letters \cup {NoLetter}, on: BOOLEAN]]
    /\ tun \in [Slots -> TunnelRecords \cup {NoTunnel}]
    /\ conns \in [Replicas -> [Devices -> Tunnels \cup {NoTunnel}]]
    /\ dropping \subseteq [rep: Replicas, dev: Devices, why: {"here", "peer", "state"}]
    /\ mail \subseteq [to: Replicas, dev: Devices, since: Nat]
    /\ changes \in 0..MaxChanges /\ faults \in 0..MaxFaults

\* Every device has joined; which letter it has makes no difference.
Init ==
    /\ state = [rv |-> 1, tok |-> [d \in Devices |-> 1],
                letter |-> [d \in Devices |-> CHOOSE l \in Letters : TRUE]]
    /\ past = {state}
    /\ copy = [r \in Replicas |-> state]
    /\ box = [d \in Devices |-> [tok |-> 1, letter |-> state.letter[d], on |-> TRUE]]
    /\ tun = [t \in Slots |-> NoTunnel]
    /\ conns = [r \in Replicas |-> [d \in Devices |-> NoTunnel]]
    /\ dropping = {}
    /\ mail = {}
    /\ changes = 0 /\ faults = 0

Change == changes < MaxChanges /\ changes' = changes + 1 /\ faults' = faults
Fault == faults < MaxFaults /\ faults' = faults + 1 /\ changes' = changes

-----------------------------------------------------------------------------
(* The shared state and each replica's copy                                *)

\* The tunnels r holds on a token that doc does not have (revalidateConns).
Stale(r, doc) ==
    {[rep |-> r, dev |-> d, why |-> "state"] :
        d \in {e \in Devices : /\ conns[r][e] # NoTunnel
                               /\ doc.tok[e] # tun[conns[r][e]].tok}}

\* Mutant: nothing is done about a change another replica made.
RereadOnly(r, doc) ==
    /\ doc.rv > copy[r].rv
    /\ copy' = [copy EXCEPT ![r] = doc]
    /\ UNCHANGED dropping

\* k8sStore.refresh, which keeps the newer of the copy and what it read, and
\* onChange when that is new.
Reread(r, doc) ==
    /\ doc.rv > copy[r].rv
    /\ copy' = [copy EXCEPT ![r] = doc]
    /\ dropping' = dropping \cup Stale(r, doc)

Refresh(r) ==
    /\ \E doc \in past : Reread(r, doc)
    /\ UNCHANGED <<state, past, box, tun, conns, mail, changes, faults>>

\* A write of r: it succeeds on the latest version only, which is r's copy then.
Write(r, doc) ==
    /\ copy[r] = state
    /\ state' = [doc EXCEPT !.rv = state.rv + 1]
    /\ past' = past \cup {state'}
    /\ copy' = [copy EXCEPT ![r] = state']

\* serveDevice's last-seen stamp, once a minute.
Touch(r) ==
    /\ Fault
    /\ \E d \in Devices : conns[r][d] # NoTunnel
    /\ Write(r, state)
    /\ UNCHANGED <<box, tun, conns, dropping, mail>>

DropHere(r, d) == dropping' = dropping \cup {[rep |-> r, dev |-> d, why |-> "here"]}

\* dropEverywhere: no "since", and the peers re-read the state first.
DropEverywhere(r, d) == mail' = mail \cup {[to |-> p, dev |-> d, since |-> 0] : p \in Peers(r)}

RotateDevice(r, d) ==
    /\ Change
    /\ state.tok[d] # NoToken
    /\ Write(r, [state EXCEPT !.tok[d] = @ + 1])
    /\ DropHere(r, d)
    /\ DropEverywhere(r, d)
    /\ UNCHANGED <<box, tun, conns>>

DeleteDevice(r, d) ==
    /\ Change
    /\ state.tok[d] # NoToken
    /\ Write(r, [state EXCEPT !.tok[d] = NoToken])
    /\ DropHere(r, d)
    /\ DropEverywhere(r, d)
    /\ UNCHANGED <<box, tun, conns>>

\* The device learns its letter when it dials again: its tunnel here is dropped.
SetLetter(r, d) ==
    /\ Change
    /\ state.tok[d] # NoToken
    /\ \E l \in Letters \ {state.letter[d]} : Write(r, [state EXCEPT !.letter[d] = l])
    /\ DropHere(r, d)
    /\ UNCHANGED <<box, tun, conns, mail>>

\* A tunnel is forgotten once both its ends are closed.
Closed(t, hub, up) ==
    IF hub = "gone" /\ ~up THEN NoTunnel ELSE [tun[t] EXCEPT !.hub = hub, !.up = up]

\* Mutant: the tunnel is closed and stays in the table.
DropConnLeft(r, d) ==
    /\ \E x \in dropping : x.rep = r /\ x.dev = d /\ dropping' = dropping \ {x}
    /\ tun' = IF conns[r][d] = NoTunnel THEN tun
              ELSE [tun EXCEPT ![conns[r][d]] = Closed(conns[r][d], "gone", @.up)]
    /\ UNCHANGED <<state, past, copy, box, conns, mail, changes, faults>>

\* Taken out of the table under the lock, an open tunnel is closed after it.
Dropped(hub) == IF hub = "open" THEN "dropped" ELSE hub

DropConn(r, d) ==
    /\ \E x \in dropping : x.rep = r /\ x.dev = d /\ dropping' = dropping \ {x}
    /\ conns' = [conns EXCEPT ![r][d] = NoTunnel]
    /\ tun' = IF conns[r][d] = NoTunnel THEN tun
              ELSE [tun EXCEPT ![conns[r][d]].hub = Dropped(@)]
    /\ UNCHANGED <<state, past, copy, box, mail, changes, faults>>

-----------------------------------------------------------------------------
(* A tunnel                                                                *)

Mine(d) == {t \in Tunnels : tun[t].dev = d /\ tun[t].up}

\* hubLoop dials with what it has just read; handleAgent finds the token in
\* r's copy.  (A token it does not find is refused, and the device waits.)
Dial(d, r) ==
    /\ box[d].on /\ box[d].tok # NoToken /\ Mine(d) = {}
    /\ copy[r].tok[d] = box[d].tok
    /\ Slots \ Tunnels # {}
    /\ tun' = [tun EXCEPT ![CHOOSE t \in Slots \ Tunnels : TRUE] =
                  [dev |-> d, rep |-> r, tok |-> box[d].tok,
                   letter |-> copy[r].letter[d], cfg |-> <<box[d].tok, box[d].letter>>,
                   hub |-> "authed", up |-> TRUE, since |-> 0, late |-> FALSE]]
    /\ UNCHANGED <<state, past, copy, box, conns, dropping, mail, changes, faults>>

\* `ccdash hub join` first dials with the token it was given, and closes the
\* tunnel as soon as it has it: the hub serves it like any other.
TestDial(d, r) ==
    /\ Fault
    /\ copy[r].tok[d] # NoToken
    /\ Slots \ Tunnels # {}
    /\ tun' = [tun EXCEPT ![CHOOSE t \in Slots \ Tunnels : TRUE] =
                  [dev |-> d, rep |-> r, tok |-> copy[r].tok[d],
                   letter |-> copy[r].letter[d], cfg |-> <<copy[r].tok[d], NoLetter>>,
                   hub |-> "authed", up |-> FALSE, since |-> 0, late |-> FALSE]]
    /\ UNCHANGED <<state, past, copy, box, conns, dropping, mail>>

\* Starting times are kept as their order among the ones still spoken of.
Starts == {tun[t].since : t \in Tunnels} \cup {m.since : m \in mail}
Rank(since) == Cardinality({s \in Starts : 0 < s /\ s <= since})
Latest == Cardinality(Starts \ {0}) + 1

\* serveDevice: the newest tunnel wins; the peers are told of it.  On the
\* device hubServeOnce writes down the letter.
Serve(t) ==
    LET r == tun[t].rep
        d == tun[t].dev
        Kept(u) == [tun[u] EXCEPT !.since = Rank(@), !.hub = IF u = conns[r][d] THEN Dropped(@) ELSE @]
    IN  /\ tun[t].hub = "authed"
        /\ Cardinality(mail) < MaxMail
        /\ tun' = [u \in Slots |->
                     IF u \notin Tunnels THEN NoTunnel
                     ELSE IF u # t THEN Kept(u)
                     ELSE [tun[t] EXCEPT !.hub = "open", !.since = Latest,
                                         !.late = copy[r].tok[d] # tun[t].tok]]
        /\ conns' = [conns EXCEPT ![r][d] = t]
        /\ mail' = {[m EXCEPT !.since = Rank(@)] : m \in mail} \cup
                   {[to |-> p, dev |-> d, since |-> Latest] : p \in Peers(r)}
        /\ box' = IF tun[t].up /\ box[d].tok # NoToken
                  THEN [box EXCEPT ![d].letter = tun[t].letter] ELSE box
        /\ UNCHANGED <<state, past, copy, dropping, changes, faults>>

\* The hub's end is closed by whoever took it out of the table, or learns that
\* the device's is gone (a close, or the keepalive).
HubNotices(t) ==
    /\ tun[t].hub = "dropped" \/ (tun[t].hub = "open" /\ ~tun[t].up)
    /\ tun' = [tun EXCEPT ![t].hub = "closed"]
    /\ UNCHANGED <<state, past, copy, box, conns, dropping, mail, changes, faults>>

\* Mutant: the entry is removed whichever tunnel it holds by then.
UnserveAny(t) ==
    /\ tun[t].hub = "closed"
    /\ conns' = [conns EXCEPT ![tun[t].rep][tun[t].dev] = NoTunnel]
    /\ tun' = [tun EXCEPT ![t] = Closed(t, "gone", tun[t].up)]
    /\ UNCHANGED <<state, past, copy, box, dropping, mail, changes, faults>>

\* serveDevice ends: it leaves the table to a newer tunnel.
Unserve(t) ==
    /\ tun[t].hub = "closed"
    /\ LET r == tun[t].rep
           d == tun[t].dev
       IN  conns' = IF conns[r][d] = t THEN [conns EXCEPT ![r][d] = NoTunnel] ELSE conns
    /\ tun' = [tun EXCEPT ![t] = Closed(t, "gone", tun[t].up)]
    /\ UNCHANGED <<state, past, copy, box, dropping, mail, changes, faults>>

DeviceNotices(t) ==
    /\ tun[t].hub \in {"closed", "gone"} /\ tun[t].up
    /\ tun' = [tun EXCEPT ![t] = Closed(t, tun[t].hub, FALSE)]
    /\ UNCHANGED <<state, past, copy, box, conns, dropping, mail, changes, faults>>

\* The device's network changes, or it gives the dial up.
LoseLink(t) ==
    /\ Fault
    /\ tun[t].up
    /\ tun' = [tun EXCEPT ![t] = Closed(t, tun[t].hub, FALSE)]
    /\ UNCHANGED <<state, past, copy, box, conns, dropping, mail>>

\* hubWatch: hub.json is not what was dialled with, or the hub is off.
Watch(t) ==
    LET b == box[tun[t].dev]
    IN  /\ tun[t].up /\ tun[t].since # 0
        /\ ~b.on \/ tun[t].cfg # <<b.tok, b.letter>>
        /\ tun' = [tun EXCEPT ![t] = Closed(t, tun[t].hub, FALSE)]
        /\ UNCHANGED <<state, past, copy, box, conns, dropping, mail, changes, faults>>

\* `ccdash hub join` with the token the portal shows, and `ccdash hub leave`.
Join(d) ==
    /\ state.tok[d] \notin {NoToken, box[d].tok}
    /\ box' = [box EXCEPT ![d].tok = state.tok[d], ![d].letter = NoLetter]
    /\ UNCHANGED <<state, past, copy, tun, conns, dropping, mail, changes, faults>>

Leave(d) ==
    /\ Change
    /\ box' = [box EXCEPT ![d].tok = NoToken, ![d].letter = NoLetter]
    /\ UNCHANGED <<state, past, copy, tun, conns, dropping, mail>>

TurnOff(d) ==
    /\ Change
    /\ box' = [box EXCEPT ![d].on = FALSE]
    /\ UNCHANGED <<state, past, copy, tun, conns, dropping, mail>>

TurnOn(d) ==
    /\ ~box[d].on
    /\ box' = [box EXCEPT ![d].on = TRUE]
    /\ UNCHANGED <<state, past, copy, tun, conns, dropping, mail, changes, faults>>

-----------------------------------------------------------------------------
(* Between the replicas                                                    *)

\* Does a drop request say this tunnel of the table is to go?
Outdated(t, since) == t # NoTunnel /\ (since = 0 \/ tun[t].since < since)

HandleDrop(m) ==
    LET held == conns[m.to][m.dev]
        told == IF Outdated(held, m.since)
                THEN {[rep |-> m.to, dev |-> m.dev, why |-> "peer"]} ELSE {}
    IN  /\ mail' = mail \ {m}
        /\ \/ /\ m.since = 0
              /\ \E doc \in past :
                    /\ doc.rv > copy[m.to].rv
                    /\ copy' = [copy EXCEPT ![m.to] = doc]
                    /\ dropping' = dropping \cup told \cup Stale(m.to, doc)
           \/ \* also when the state can't be re-read
              copy' = copy /\ dropping' = dropping \cup told
        /\ UNCHANGED <<state, past, box, tun, conns, changes, faults>>

LoseMail(m) ==
    /\ Fault
    /\ mail' = mail \ {m}
    /\ UNCHANGED <<state, past, copy, box, tun, conns, dropping>>

Restart(r) ==
    /\ Fault
    /\ \E doc \in past : doc.rv >= copy[r].rv /\ copy' = [copy EXCEPT ![r] = doc]
    /\ tun' = [t \in Slots |-> IF t \in Tunnels /\ tun[t].rep = r
                               THEN Closed(t, "gone", tun[t].up) ELSE tun[t]]
    /\ conns' = [conns EXCEPT ![r] = [d \in Devices |-> NoTunnel]]
    /\ dropping' = {x \in dropping : x.rep # r}
    /\ UNCHANGED <<state, past, box, mail>>

Next ==
    \/ \E r \in Replicas : Refresh(r) \/ Touch(r) \/ Restart(r)
    \/ \E r \in Replicas, d \in Devices :
          \/ RotateDevice(r, d) \/ DeleteDevice(r, d) \/ SetLetter(r, d) \/ DropConn(r, d) \/ Dial(d, r)
          \/ TestDial(d, r)
    \/ \E t \in Tunnels :
          \/ Serve(t) \/ HubNotices(t) \/ Unserve(t)
          \/ DeviceNotices(t) \/ LoseLink(t) \/ Watch(t)
    \/ \E d \in Devices : Join(d) \/ Leave(d) \/ TurnOff(d) \/ TurnOn(d)
    \/ \E m \in mail : HandleDrop(m) \/ LoseMail(m)

\* The tickers go on, the calls return, and a closed end is noticed.
Fairness ==
    /\ \A r \in Replicas : WF_vars(Refresh(r))
    /\ \A r \in Replicas, d \in Devices : WF_vars(DropConn(r, d))
    /\ \A d \in Devices : WF_vars(\E r \in Replicas : Dial(d, r))
    /\ \A t \in Slots :
          /\ WF_vars(t \in Tunnels /\ Serve(t))
          /\ WF_vars(t \in Tunnels /\ HubNotices(t))
          /\ WF_vars(t \in Tunnels /\ Unserve(t))
          /\ WF_vars(t \in Tunnels /\ DeviceNotices(t))
          /\ WF_vars(t \in Tunnels /\ Watch(t))
    /\ WF_vars(\E m \in mail : HandleDrop(m))

Spec == Init /\ [][Next]_vars
FairSpec == Spec /\ Fairness

-----------------------------------------------------------------------------
(* Safety                                                                  *)

\* A tunnel that is open on the hub's side is the one in the table: replacing
\* it, dropping it and its own end (which runs late, when a newer tunnel may
\* have taken the entry) never leave an open tunnel that nothing is sent
\* through and nobody is about to close.
OpenIsServed ==
    \A t \in Tunnels : tun[t].hub = "open" => conns[tun[t].rep][tun[t].dev] = t

\* A tunnel on a token that this replica's copy has stopped vouching for is on
\* its way out, whoever wrote the change and in whatever order the drop
\* requests, the re-reads and the reconnects come.  The exception is a dial
\* that had been let in before and reached the table after the change.
RevokedIsOnItsWayOut ==
    \A r \in Replicas, d \in Devices :
        LET t == conns[r][d]
        IN  t # NoTunnel /\ copy[r].tok[d] # tun[t].tok
            => tun[t].late \/ \E x \in dropping : x.rep = r /\ x.dev = d

-----------------------------------------------------------------------------
(* Liveness: operators and faults stop (the bounds), and then              *)

Wanted(d) == box[d].on /\ box[d].tok # NoToken /\ box[d].tok = state.tok[d]

Connected(d) ==
    /\ Cardinality({r \in Replicas : conns[r][d] # NoTunnel}) = 1
    /\ \A r \in Replicas :
          conns[r][d] # NoTunnel => tun[conns[r][d]].up /\ tun[conns[r][d]].hub = "open"

\* A device that is joined with the token of the day and has the hub on ends
\* up with one live tunnel on one replica: stale copies, lost drop
\* requests, drops meant for an earlier tunnel and half-open links included.
WantedIsConnected == \A d \in Devices : <>[]Wanted(d) => <>[]Connected(d)

\* Not true of the code: rotating or deleting a device cuts its tunnel. A dial
\* that was let in before the change registers after it, and stays.
RevokedIsCut ==
    \A d \in Devices :
        <>[](box[d].tok # state.tok[d]) => <>[](\A r \in Replicas : conns[r][d] = NoTunnel)

\* Not true of the code: after a change of its letter the device learns it when its tunnel reconnects,
\* so the tunnel is dropped.
LetterIsLearnt ==
    \A d \in Devices : <>[]Wanted(d) => <>[](box[d].letter = state.letter[d])
=============================================================================
