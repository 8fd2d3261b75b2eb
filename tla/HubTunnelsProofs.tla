--------------------------- MODULE HubTunnelsProofs ---------------------------
(* That the replicas' tables hold the open tunnels, and that a tunnel on a     *)
(* token that is void is on its way out.                                       *)
EXTENDS HubTunnels, FiniteSetTheorems, TLAPS

-----------------------------------------------------------------------------
(* The inductive invariant                                                     *)

Told(r, d) == \E x \in dropping : x.rep = r /\ x.dev = d

\* The table has a replica's own tunnels, which it is still to take out.
TableInv ==
    \A r \in Replicas, d \in Devices : conns[r][d] # NoTunnel =>
        LET t == conns[r][d]
        IN  tun[t].rep = r /\ tun[t].dev = d /\ tun[t].hub \in {"open", "closed"}

HubInv ==
    /\ TypeOK /\ IsFiniteSet(mail)
    /\ TableInv /\ OpenIsServed /\ RevokedIsOnItsWayOut

USE HubAssumption, TunnelAssumption

-----------------------------------------------------------------------------
(* Lemmas about the operators                                                  *)

LEMMA SlotType == ASSUME NEW t \in Slots PROVE t \in Nat /\ t # NoTunnel
BY DEF Slots

LEMMA TunnelType ==
    ASSUME TypeOK, NEW t \in Tunnels
    PROVE  /\ t \in Slots /\ tun[t] \in TunnelRecords
           /\ tun[t].dev \in Devices /\ tun[t].rep \in Replicas
           /\ tun[t].hub \in {"authed", "open", "dropped", "closed", "gone"}
           /\ tun[t].up \in BOOLEAN /\ tun[t].since \in Nat /\ tun[t].late \in BOOLEAN
<1>1. t \in Slots /\ tun[t] \in TunnelRecords
  BY DEF Tunnels, TypeOK
<1> QED
  BY <1>1 DEF TunnelRecords

LEMMA TableType ==
    ASSUME TypeOK, NEW r \in Replicas, NEW d \in Devices
    PROVE  /\ conns[r][d] \in Tunnels \cup {NoTunnel}
           /\ conns[r][d] \in Slots \cup {NoTunnel}
BY DEF TypeOK, Tunnels

\* What is left of a tunnel one of whose ends closes.
LEMMA ClosedType ==
    ASSUME TypeOK, NEW t \in Tunnels,
           NEW hub \in {"authed", "open", "dropped", "closed", "gone"}, NEW up \in BOOLEAN
    PROVE  /\ hub = "gone" /\ ~up => Closed(t, hub, up) = NoTunnel
           /\ ~(hub = "gone" /\ ~up) =>
                 LET v == Closed(t, hub, up)
                 IN  /\ v \in TunnelRecords /\ v # NoTunnel
                     /\ v.dev = tun[t].dev /\ v.rep = tun[t].rep
                     /\ v.tok = tun[t].tok /\ v.late = tun[t].late
                     /\ v.hub = hub
<1> DEFINE v == [tun[t] EXCEPT !.hub = hub, !.up = up]
<1>1. tun[t] \in TunnelRecords
  BY TunnelType
<1>2. /\ v \in TunnelRecords
      /\ v.dev = tun[t].dev /\ v.rep = tun[t].rep
      /\ v.tok = tun[t].tok /\ v.late = tun[t].late /\ v.hub = hub
  BY <1>1 DEF TunnelRecords
<1>3. Closed(t, hub, up) = IF hub = "gone" /\ ~up THEN NoTunnel ELSE v
  BY DEF Closed
<1> HIDE DEF v
<1> QED
  BY <1>2, <1>3

LEMMA DroppedType ==
    ASSUME TypeOK, NEW t \in Tunnels
    PROVE  /\ Dropped(tun[t].hub) \in {"authed", "open", "dropped", "closed", "gone"}
           /\ Dropped(tun[t].hub) # "open"
BY TunnelType DEF Dropped

LEMMA FiniteImage ==
    ASSUME NEW S, IsFiniteSet(S), NEW f
    PROVE  IsFiniteSet({f[x] : x \in S})
<1> DEFINE g == [x \in S |-> f[x]]
           T == {f[x] : x \in S}
<1>1. g \in Surjection(S, T)
  BY DEF Surjection
<1> QED
  BY <1>1, FS_Surjection

\* Starting times are numbers, and few.
LEMMA RankType ==
    ASSUME TypeOK, IsFiniteSet(mail)
    PROVE  /\ \A since : Rank(since) \in Nat
           /\ Latest \in Nat /\ Latest # 0
<1>1. IsFiniteSet({tun[t].since : t \in Tunnels})
  <2> DEFINE f == [t \in Tunnels |-> tun[t].since]
  <2>1. IsFiniteSet(Slots)
    BY FS_Interval DEF Slots
  <2>2. IsFiniteSet(Tunnels)
    BY <2>1, FS_Subset DEF Tunnels
  <2>3. IsFiniteSet({f[t] : t \in Tunnels})
    BY <2>2, FiniteImage
  <2>4. {f[t] : t \in Tunnels} = {tun[t].since : t \in Tunnels}
    OBVIOUS
  <2> QED
    BY <2>3, <2>4
<1>2. IsFiniteSet({m.since : m \in mail})
  <2> DEFINE f == [m \in mail |-> m.since]
  <2>1. IsFiniteSet({f[m] : m \in mail})
    BY FiniteImage
  <2>2. {f[m] : m \in mail} = {m.since : m \in mail}
    OBVIOUS
  <2> QED
    BY <2>1, <2>2
<1>3. IsFiniteSet(Starts)
  BY <1>1, <1>2, FS_Union DEF Starts
<1>4. ASSUME NEW since PROVE Rank(since) \in Nat
  <2>1. {s \in Starts : 0 < s /\ s <= since} \in SUBSET Starts
    OBVIOUS
  <2>2. IsFiniteSet({s \in Starts : 0 < s /\ s <= since})
    BY <1>3, <2>1, FS_Subset
  <2> QED
    BY <2>2, FS_CardinalityType DEF Rank
<1>5. Cardinality(Starts \ {0}) \in Nat
  BY <1>3, FS_RemoveElement, FS_CardinalityType
<1> QED
  BY <1>4, <1>5 DEF Latest

-----------------------------------------------------------------------------
(* The shared state                                                            *)

\* The tunnels and the tables are as they were; what a copy says of a token
\* changes to what the tunnel has, or the tunnel is to be dropped.
LEMMA StateStep ==
    ASSUME HubInv, TypeOK', IsFiniteSet(mail'), UNCHANGED <<tun, conns>>,
           \A r \in Replicas, d \in Devices :
              /\ Told(r, d) => Told(r, d)'
              /\ conns[r][d] # NoTunnel =>
                    \/ copy'[r].tok[d] \in {copy[r].tok[d], tun[conns[r][d]].tok}
                    \/ Told(r, d)'
    PROVE  HubInv'
<1>1. Tunnels' = Tunnels
  BY DEF Tunnels
<1>2. TableInv' /\ OpenIsServed'
  BY <1>1 DEF HubInv, TableInv, OpenIsServed
<1>3. RevokedIsOnItsWayOut'
  BY DEF HubInv, RevokedIsOnItsWayOut, Told
<1> QED
  BY <1>2, <1>3 DEF HubInv

LEMMA WriteStep ==
    ASSUME HubInv, NEW r \in Replicas, NEW doc \in Documents, Write(r, doc)
    PROVE  /\ state' \in Documents /\ past' \subseteq Documents
           /\ copy' \in [Replicas -> Documents]
           /\ copy'[r].tok = doc.tok /\ copy[r].tok = state.tok
           /\ \A p \in Replicas : p # r => copy'[p] = copy[p]
<1>1. /\ state \in Documents /\ copy \in [Replicas -> Documents] /\ past \subseteq Documents
      /\ copy[r] = state /\ state' = [doc EXCEPT !.rv = state.rv + 1]
      /\ copy' = [copy EXCEPT ![r] = state'] /\ past' = past \cup {state'}
  BY DEF HubInv, TypeOK, Write
<1>2. state' \in Documents /\ state'.tok = doc.tok
  BY <1>1 DEF Documents, Versions
<1> QED
  BY <1>1, <1>2

LEMMA TouchKeeps ==
    ASSUME HubInv, NEW r \in Replicas, Touch(r)
    PROVE  HubInv'
<1>1. /\ Write(r, state) /\ state \in Documents /\ IsFiniteSet(mail)
      /\ UNCHANGED <<box, tun, conns, dropping, mail>> /\ TypeOK
      /\ faults < MaxFaults /\ faults' = faults + 1 /\ changes' = changes
  BY DEF Touch, Fault, HubInv, TypeOK
<1>2. /\ state' \in Documents /\ past' \subseteq Documents /\ copy' \in [Replicas -> Documents]
      /\ \A p \in Replicas : copy'[p].tok = copy[p].tok
  BY <1>1, WriteStep
<1>3. TypeOK'
  BY <1>1, <1>2 DEF TypeOK, Tunnels
<1> QED
  BY <1>1, <1>2, <1>3, StateStep DEF Told

\* A device's token changes, and its tunnel here is to be dropped.
LEMMA RevokeStep ==
    ASSUME HubInv, NEW r \in Replicas, NEW d \in Devices, NEW tok \in Nat,
           Change, Write(r, [state EXCEPT !.tok[d] = tok]),
           DropHere(r, d), DropEverywhere(r, d), UNCHANGED <<box, tun, conns>>
    PROVE  HubInv'
<1> DEFINE doc == [state EXCEPT !.tok[d] = tok]
           new == {[to |-> p, dev |-> d, since |-> 0] : p \in Peers(r)}
<1>1. doc \in Documents /\ \A e \in Devices : e # d => doc.tok[e] = state.tok[e]
  BY DEF HubInv, TypeOK, Documents, Tokens
<1> HIDE DEF doc
<1>2. /\ state' \in Documents /\ past' \subseteq Documents /\ copy' \in [Replicas -> Documents]
      /\ \A p \in Replicas, e \in Devices :
            p # r \/ e # d => copy'[p].tok[e] = copy[p].tok[e]
  BY <1>1, WriteStep DEF doc
<1>3. dropping' = dropping \cup {[rep |-> r, dev |-> d, why |-> "here"]}
  BY DEF DropHere
<1>4. Told(r, d)' /\ \A p \in Replicas, e \in Devices : Told(p, e) => Told(p, e)'
  <2>1. dropping \subseteq dropping' /\ [rep |-> r, dev |-> d, why |-> "here"] \in dropping'
    BY <1>3
  <2>2. Told(r, d)'
    BY <2>1 DEF Told
  <2>3. ASSUME NEW p \in Replicas, NEW e \in Devices PROVE Told(p, e) => Told(p, e)'
    BY <2>1 DEF Told
  <2> QED
    BY <2>2, <2>3
<1>5. mail' = mail \cup new
  BY DEF DropEverywhere
<1>6. IsFiniteSet(new)
  <2> DEFINE f == [p \in Peers(r) |-> [to |-> p, dev |-> d, since |-> 0]]
  <2>1. IsFiniteSet(Peers(r))
    BY FS_RemoveElement DEF Peers
  <2>2. IsFiniteSet({f[p] : p \in Peers(r)})
    BY <2>1, FiniteImage
  <2>3. {f[p] : p \in Peers(r)} = new
    OBVIOUS
  <2> QED
    BY <2>2, <2>3
<1>7. IsFiniteSet(mail')
  BY <1>5, <1>6, FS_Union DEF HubInv
<1>8. mail' \subseteq [to: Replicas, dev: Devices, since: Nat]
  BY <1>5 DEF HubInv, TypeOK, Peers
<1>9. dropping' \subseteq [rep: Replicas, dev: Devices, why: {"here", "peer", "state"}]
  BY <1>3 DEF HubInv, TypeOK
<1>10. TypeOK'
  BY <1>2, <1>8, <1>9 DEF HubInv, TypeOK, Tunnels, Change
<1> QED
  BY <1>2, <1>4, <1>7, <1>10, StateStep

LEMMA RotateDeviceKeeps ==
    ASSUME HubInv, NEW r \in Replicas, NEW d \in Devices, RotateDevice(r, d)
    PROVE  HubInv'
<1> DEFINE tok == state.tok[d] + 1
<1>1. tok \in Nat
  BY DEF HubInv, TypeOK, Documents, Tokens
<1>2. [state EXCEPT !.tok[d] = @ + 1] = [state EXCEPT !.tok[d] = tok]
  BY DEF HubInv, TypeOK, Documents, Tokens
<1> HIDE DEF tok
<1> QED
  BY <1>1, <1>2, RevokeStep DEF RotateDevice

LEMMA DeleteDeviceKeeps ==
    ASSUME HubInv, NEW r \in Replicas, NEW d \in Devices, DeleteDevice(r, d)
    PROVE  HubInv'
<1>1. NoToken \in Nat
  BY DEF NoToken
<1> QED
  BY <1>1, RevokeStep DEF DeleteDevice

LEMMA SetLetterKeeps ==
    ASSUME HubInv, NEW r \in Replicas, NEW d \in Devices, SetLetter(r, d)
    PROVE  HubInv'
<1>1. PICK l \in Letters : Write(r, [state EXCEPT !.letter[d] = l])
  BY DEF SetLetter
<1> DEFINE doc == [state EXCEPT !.letter[d] = l]
<1>2. doc \in Documents /\ doc.tok = state.tok
  BY DEF HubInv, TypeOK, Documents
<1> HIDE DEF doc
<1>3. /\ state' \in Documents /\ past' \subseteq Documents /\ copy' \in [Replicas -> Documents]
      /\ \A p \in Replicas : copy'[p].tok = copy[p].tok
  BY <1>1, <1>2, WriteStep DEF doc
<1>4. dropping' = dropping \cup {[rep |-> r, dev |-> d, why |-> "here"]}
  BY DEF SetLetter, DropHere
<1>5. TypeOK'
  BY <1>3, <1>4 DEF SetLetter, HubInv, TypeOK, Tunnels, Change
<1> QED
  BY <1>3, <1>4, <1>5, StateStep DEF SetLetter, Told, HubInv

\* A replica reads the state again: what its copy stops vouching for is dropped.
LEMMA RereadStep ==
    ASSUME HubInv, NEW r \in Replicas, NEW doc \in Documents, TypeOK', IsFiniteSet(mail'),
           UNCHANGED <<tun, conns>>,
           copy' = [copy EXCEPT ![r] = doc],
           dropping \cup Stale(r, doc) \subseteq dropping'
    PROVE  HubInv'
<1>1. \A p \in Replicas : copy'[p] = IF p = r THEN doc ELSE copy[p]
  BY DEF HubInv, TypeOK
<1>2. ASSUME NEW p \in Replicas, NEW d \in Devices PROVE Told(p, d) => Told(p, d)'
  BY DEF Told
<1>3. ASSUME NEW d \in Devices, conns[r][d] # NoTunnel, doc.tok[d] # tun[conns[r][d]].tok
      PROVE  Told(r, d)'
  <2>1. [rep |-> r, dev |-> d, why |-> "state"] \in Stale(r, doc)
    BY <1>3 DEF Stale
  <2> QED
    BY <2>1 DEF Told
<1> QED
  BY <1>1, <1>2, <1>3, StateStep

LEMMA StaleType ==
    ASSUME NEW r \in Replicas, NEW doc
    PROVE  Stale(r, doc) \subseteq [rep: Replicas, dev: Devices, why: {"here", "peer", "state"}]
BY DEF Stale

LEMMA RefreshKeeps ==
    ASSUME HubInv, NEW r \in Replicas, Refresh(r)
    PROVE  HubInv'
<1>1. PICK doc \in past : Reread(r, doc)
  BY DEF Refresh
<1>2. /\ doc \in Documents
      /\ copy' = [copy EXCEPT ![r] = doc] /\ dropping' = dropping \cup Stale(r, doc)
      /\ UNCHANGED <<state, past, box, tun, conns, mail, changes, faults>>
  BY <1>1 DEF Refresh, Reread, HubInv, TypeOK
<1>3. TypeOK'
  BY <1>2, StaleType DEF HubInv, TypeOK, Tunnels
<1> QED
  BY <1>2, <1>3, RereadStep DEF HubInv

LEMMA HandleDropKeeps ==
    ASSUME HubInv, NEW m \in mail, HandleDrop(m)
    PROVE  HubInv'
<1> DEFINE r == m.to
           d == m.dev
           told == IF Outdated(conns[r][d], m.since)
                   THEN {[rep |-> r, dev |-> d, why |-> "peer"]} ELSE {}
<1>1. /\ mail' = mail \ {m}
      /\ UNCHANGED <<state, past, box, tun, conns, changes, faults>>
      /\ \/ \E doc \in past : /\ copy' = [copy EXCEPT ![r] = doc]
                               /\ dropping' = dropping \cup told \cup Stale(r, doc)
         \/ copy' = copy /\ dropping' = dropping \cup told
  BY DEF HandleDrop
<1>2. r \in Replicas /\ d \in Devices /\ TypeOK
  BY DEF HubInv, TypeOK
<1>3. IsFiniteSet(mail')
  BY <1>1, FS_RemoveElement DEF HubInv
<1>4. told \subseteq [rep: Replicas, dev: Devices, why: {"here", "peer", "state"}]
  BY <1>2
<1> HIDE DEF told, r, d
<1>5. ASSUME NEW doc \in past, copy' = [copy EXCEPT ![r] = doc],
             dropping' = dropping \cup told \cup Stale(r, doc)
      PROVE  HubInv'
  <2>1. doc \in Documents
    BY <1>2 DEF TypeOK
  <2>2. TypeOK'
    BY <1>1, <1>2, <1>4, <1>5, <2>1, StaleType DEF TypeOK, Tunnels
  <2> QED
    BY <1>1, <1>2, <1>3, <1>5, <2>1, <2>2, RereadStep
<1>6. CASE copy' = copy /\ dropping' = dropping \cup told
  <2>1. \A p \in Replicas, e \in Devices : Told(p, e) => Told(p, e)'
    <3> SUFFICES ASSUME NEW p \in Replicas, NEW e \in Devices, Told(p, e) PROVE Told(p, e)'
      OBVIOUS
    <3> QED
      BY <1>6 DEF Told
  <2>2. TypeOK'
    BY <1>1, <1>2, <1>4, <1>6 DEF TypeOK, Tunnels
  <2> QED
    BY <1>1, <1>3, <1>6, <2>1, <2>2, StateStep
<1> QED
  BY <1>1, <1>5, <1>6

\* What the devices do to their hub.json, and lost requests.
LEMMA AsideStep ==
    ASSUME HubInv, TypeOK', IsFiniteSet(mail'),
           UNCHANGED <<state, past, copy, tun, conns, dropping>>
    PROVE  HubInv'
<1>1. \A p \in Replicas, e \in Devices : Told(p, e)' = Told(p, e)
  BY DEF Told
<1> QED
  BY <1>1, StateStep

LEMMA DeviceKeeps ==
    ASSUME HubInv, NEW d \in Devices, Join(d) \/ Leave(d) \/ TurnOff(d) \/ TurnOn(d)
    PROVE  HubInv'
<1>1. /\ UNCHANGED <<state, past, copy, tun, conns, dropping, mail>> /\ TypeOK /\ IsFiniteSet(mail)
      /\ changes' \in 0..MaxChanges /\ faults' \in 0..MaxFaults
  BY DEF HubInv, TypeOK, Join, Leave, TurnOff, TurnOn, Change
<1>2. box' \in [Devices -> [tok: Tokens, letter: Letters \cup {NoLetter}, on: BOOLEAN]]
  <2>1. ASSUME NEW tok \in Tokens,
               box' = [box EXCEPT ![d].tok = tok, ![d].letter = NoLetter]
        PROVE  box' \in [Devices -> [tok: Tokens, letter: Letters \cup {NoLetter}, on: BOOLEAN]]
    <3>1. [box[d] EXCEPT !.tok = tok, !.letter = NoLetter]
             \in [tok: Tokens, letter: Letters \cup {NoLetter}, on: BOOLEAN]
      BY <1>1 DEF TypeOK
    <3>2. \A e \in Devices : box'[e] = IF e = d THEN [box[d] EXCEPT !.tok = tok, !.letter = NoLetter]
                                       ELSE box[e]
      BY <1>1, <2>1 DEF TypeOK
    <3>3. box' = [e \in Devices |-> box'[e]]
      BY <1>1, <2>1 DEF TypeOK
    <3> QED
      BY <1>1, <3>1, <3>2, <3>3 DEF TypeOK
  <2>2. CASE Join(d) \/ Leave(d)
    <3>1. state.tok[d] \in Tokens /\ NoToken \in Tokens
      BY <1>1 DEF TypeOK, Documents, Tokens, NoToken
    <3> QED
      BY <2>1, <2>2, <3>1 DEF Join, Leave
  <2>3. CASE TurnOff(d) \/ TurnOn(d)
    <3>1. PICK on \in BOOLEAN : box' = [box EXCEPT ![d].on = on]
      BY <2>3 DEF TurnOff, TurnOn
    <3>2. [box[d] EXCEPT !.on = on] \in [tok: Tokens, letter: Letters \cup {NoLetter}, on: BOOLEAN]
      BY <1>1 DEF TypeOK
    <3> QED
      BY <1>1, <3>1, <3>2 DEF TypeOK
  <2> QED
    BY <2>2, <2>3
<1>3. TypeOK'
  BY <1>1, <1>2 DEF TypeOK, Tunnels
<1> QED
  BY <1>1, <1>3, AsideStep

LEMMA LoseMailKeeps ==
    ASSUME HubInv, NEW m \in mail, LoseMail(m)
    PROVE  HubInv'
<1>1. IsFiniteSet(mail')
  BY FS_RemoveElement DEF LoseMail, HubInv
<1>2. TypeOK'
  BY DEF LoseMail, Fault, HubInv, TypeOK, Tunnels
<1> QED
  BY <1>1, <1>2, AsideStep DEF LoseMail

-----------------------------------------------------------------------------
(* The tunnels                                                                 *)

\* Tunnels end, leave the tables, and are forgotten; new ones are let in.
LEMMA TunnelStep ==
    ASSUME HubInv, TypeOK', IsFiniteSet(mail'),
           \A r \in Replicas : copy'[r].tok = copy[r].tok \/ \A d \in Devices : conns'[r][d] = NoTunnel,
           \A r \in Replicas, d \in Devices :
              \/ conns'[r][d] = NoTunnel
              \/ conns'[r][d] = conns[r][d] /\ tun'[conns[r][d]].hub \in {"open", "closed"},
           \A r \in Replicas, d \in Devices :
              conns'[r][d] # NoTunnel /\ Told(r, d) => Told(r, d)',
           \A t \in Tunnels' :
              \/ /\ t \in Tunnels
                 /\ tun'[t].rep = tun[t].rep /\ tun'[t].dev = tun[t].dev
                 /\ tun'[t].tok = tun[t].tok /\ tun'[t].late = tun[t].late
                 /\ tun'[t].hub = "open" =>
                       /\ tun[t].hub = "open"
                       /\ conns'[tun[t].rep][tun[t].dev] = conns[tun[t].rep][tun[t].dev]
              \/ t \notin Tunnels /\ tun'[t].hub = "authed"
    PROVE  HubInv'
<1>1. \A r \in Replicas, d \in Devices : conns'[r][d] # NoTunnel =>
          /\ conns[r][d] # NoTunnel /\ conns'[r][d] = conns[r][d]
          /\ conns[r][d] \in Tunnels /\ conns[r][d] \in Tunnels'
          /\ tun'[conns[r][d]].hub \in {"open", "closed"}
  BY DEF HubInv, TypeOK
<1>2. TableInv'
  BY <1>1 DEF HubInv, TableInv
<1>3. OpenIsServed'
  BY DEF HubInv, OpenIsServed
<1>4. RevokedIsOnItsWayOut'
  <2> SUFFICES ASSUME NEW r \in Replicas, NEW d \in Devices, NEW t, t = conns'[r][d],
                      t # NoTunnel, copy'[r].tok[d] # tun'[t].tok, ~tun'[t].late
               PROVE  Told(r, d)'
    BY DEF RevokedIsOnItsWayOut, Told
  <2>1. /\ t = conns[r][d] /\ t \in Tunnels /\ t \in Tunnels'
        /\ copy'[r].tok = copy[r].tok
    BY <1>1
  <2>2. tun'[t].tok = tun[t].tok /\ tun'[t].late = tun[t].late
    BY <2>1
  <2>3. Told(r, d)
    BY <2>1, <2>2 DEF HubInv, RevokedIsOnItsWayOut, Told
  <2> QED
    BY <2>3
<1> QED
  BY <1>2, <1>3, <1>4 DEF HubInv

\* One end of a tunnel closes.
LEMMA EndStep ==
    ASSUME HubInv, NEW t \in Tunnels,
           NEW hub \in {"authed", "open", "dropped", "closed", "gone"}, NEW up \in BOOLEAN,
           hub \in {tun[t].hub, "closed", "gone"},
           tun' = [tun EXCEPT ![t] = Closed(t, hub, up)],
           \A r \in Replicas, d \in Devices :
              conns'[r][d] = IF conns[r][d] = t /\ hub = "gone" THEN NoTunnel ELSE conns[r][d],
           conns' \in [Replicas -> [Devices -> Slots \cup {NoTunnel}]],
           changes' \in 0..MaxChanges, faults' \in 0..MaxFaults,
           UNCHANGED <<state, past, copy, box, dropping, mail>>
    PROVE  HubInv'
<1>0. TypeOK /\ t \in Slots /\ TableInv /\ tun \in [Slots -> TunnelRecords \cup {NoTunnel}]
  BY TunnelType DEF HubInv, TypeOK
<1>1. \A u \in Slots : tun'[u] = IF u = t THEN Closed(t, hub, up) ELSE tun[u]
  BY <1>0
<1>2. /\ Closed(t, hub, up) = NoTunnel => hub = "gone"
      /\ Closed(t, hub, up) # NoTunnel =>
            LET v == Closed(t, hub, up)
            IN  /\ v \in TunnelRecords
                /\ v.dev = tun[t].dev /\ v.rep = tun[t].rep
                /\ v.tok = tun[t].tok /\ v.late = tun[t].late /\ v.hub = hub
  BY <1>0, ClosedType
<1>3. /\ \A u \in Tunnels : u # t => u \in Tunnels' /\ tun'[u] = tun[u]
      /\ \A u \in Tunnels' : u \in Tunnels
      /\ t \in Tunnels' <=> Closed(t, hub, up) # NoTunnel
  BY <1>0, <1>1 DEF Tunnels
<1>4. tun' \in [Slots -> TunnelRecords \cup {NoTunnel}]
  BY <1>0, <1>2
<1>5. ASSUME NEW r \in Replicas, NEW d \in Devices, conns'[r][d] # NoTunnel
      PROVE  /\ conns'[r][d] = conns[r][d] /\ conns[r][d] \in Tunnels'
             /\ tun'[conns[r][d]].hub \in {"open", "closed"}
  <2>1. /\ conns'[r][d] = conns[r][d] /\ conns[r][d] \in Tunnels
        /\ tun[conns[r][d]].hub \in {"open", "closed"}
        /\ conns[r][d] = t => hub # "gone"
    BY <1>0, <1>5, TableType DEF TableInv
  <2>2. CASE conns[r][d] = t
    BY <1>0, <1>1, <1>2, <1>3, <2>1, <2>2
  <2>3. CASE conns[r][d] # t
    BY <1>3, <2>1, <2>3
  <2> QED
    BY <2>1, <2>2, <2>3
<1>6. conns' \in [Replicas -> [Devices -> Tunnels' \cup {NoTunnel}]]
  BY <1>5
<1>7. TypeOK'
  BY <1>0, <1>4, <1>6 DEF TypeOK
<1>8. IsFiniteSet(mail')
  BY DEF HubInv
<1>9. \A u \in Tunnels' :
          /\ u \in Tunnels
          /\ tun'[u].rep = tun[u].rep /\ tun'[u].dev = tun[u].dev
          /\ tun'[u].tok = tun[u].tok /\ tun'[u].late = tun[u].late
          /\ tun'[u].hub = "open" =>
                /\ tun[u].hub = "open"
                /\ conns'[tun[u].rep][tun[u].dev] = conns[tun[u].rep][tun[u].dev]
  <2> SUFFICES ASSUME NEW u \in Tunnels'
               PROVE  /\ u \in Tunnels
                      /\ tun'[u].rep = tun[u].rep /\ tun'[u].dev = tun[u].dev
                      /\ tun'[u].tok = tun[u].tok /\ tun'[u].late = tun[u].late
                      /\ tun'[u].hub = "open" =>
                            /\ tun[u].hub = "open"
                            /\ conns[tun[u].rep][tun[u].dev] = t => hub # "gone"
    BY <1>0, <1>3, TunnelType
  <2>1. CASE u = t
    BY <1>0, <1>1, <1>2, <1>3, <2>1
  <2>2. CASE u # t
    BY <1>0, <1>3, <2>2 DEF HubInv, OpenIsServed
  <2> QED
    BY <2>1, <2>2
<1>10. \A r \in Replicas, d \in Devices : Told(r, d)' = Told(r, d)
  BY DEF Told
<1> QED
  BY <1>5, <1>7, <1>8, <1>9, <1>10, TunnelStep

\* A tunnel that is gone on the hub's side, or was never served, is in no table.
LEMMA NotInTable ==
    ASSUME HubInv, NEW t \in Tunnels, tun[t].hub \notin {"open", "closed"}
    PROVE  \A r \in Replicas, d \in Devices : conns[r][d] # t
BY TunnelType, SlotType DEF HubInv, TableInv

LEMMA NoticeKeeps ==
    ASSUME HubInv, NEW t \in Tunnels,
           HubNotices(t) \/ DeviceNotices(t) \/ LoseLink(t) \/ Watch(t)
    PROVE  HubInv'
<1>1. /\ TypeOK /\ conns \in [Replicas -> [Devices -> Slots \cup {NoTunnel}]]
      /\ UNCHANGED <<state, past, copy, box, conns, dropping, mail>>
      /\ changes' \in 0..MaxChanges /\ faults' \in 0..MaxFaults
  <2>1. TypeOK /\ conns \in [Replicas -> [Devices -> Slots \cup {NoTunnel}]]
    BY DEF HubInv, TypeOK, Tunnels
  <2>2. /\ UNCHANGED <<state, past, copy, box, conns, dropping, mail, changes>>
        /\ faults' \in {faults, faults + 1} /\ (faults' = faults \/ faults < MaxFaults)
    BY DEF HubNotices, DeviceNotices, LoseLink, Watch, Fault
  <2> QED
    BY <2>1, <2>2 DEF TypeOK
<1>2. CASE HubNotices(t)
  <2>1. /\ tun' = [tun EXCEPT ![t].hub = "closed"]
        /\ tun \in [Slots -> TunnelRecords \cup {NoTunnel}] /\ tun[t] \in TunnelRecords
    BY <1>1, <1>2, TunnelType DEF HubNotices, TypeOK
  <2>2. [tun[t] EXCEPT !.hub = "closed"] = [tun[t] EXCEPT !.hub = "closed", !.up = tun[t].up]
    BY <2>1 DEF TunnelRecords
  <2>3. tun' = [tun EXCEPT ![t] = Closed(t, "closed", tun[t].up)]
    BY <2>1, <2>2 DEF Closed
  <2> QED
    BY <1>1, <2>3, TunnelType, EndStep
<1>3. CASE ~HubNotices(t)
  <2>1. tun' = [tun EXCEPT ![t] = Closed(t, tun[t].hub, FALSE)]
    BY <1>3 DEF DeviceNotices, LoseLink, Watch
  <2>2. tun[t].hub = "gone" => \A r \in Replicas, d \in Devices : conns[r][d] # t
    BY NotInTable
  <2>3. tun[t].hub \in {"authed", "open", "dropped", "closed", "gone"}
    BY <1>1, TunnelType
  <2>4. ASSUME NEW hub \in {"authed", "open", "dropped", "closed", "gone"}, hub = tun[t].hub
        PROVE  HubInv'
    BY <1>1, <2>1, <2>2, <2>4, EndStep
  <2> QED
    BY <2>3, <2>4
<1> QED
  BY <1>2, <1>3

LEMMA UnserveKeeps ==
    ASSUME HubInv, NEW t \in Tunnels, Unserve(t)
    PROVE  HubInv'
<1> DEFINE r == tun[t].rep
           d == tun[t].dev
<1>1. /\ TypeOK /\ conns \in [Replicas -> [Devices -> Slots \cup {NoTunnel}]]
      /\ changes' \in 0..MaxChanges /\ faults' \in 0..MaxFaults
      /\ UNCHANGED <<state, past, copy, box, dropping, mail>>
      /\ tun' = [tun EXCEPT ![t] = Closed(t, "gone", tun[t].up)]
      /\ conns' = IF conns[r][d] = t THEN [conns EXCEPT ![r][d] = NoTunnel] ELSE conns
  BY DEF HubInv, TypeOK, Tunnels, Unserve
<1>2. r \in Replicas /\ d \in Devices /\ t # NoTunnel
  BY <1>1, TunnelType, SlotType
<1>3. \A p \in Replicas, e \in Devices : conns[p][e] = t => p = r /\ e = d
  BY <1>2 DEF HubInv, TableInv
<1> HIDE DEF r, d
<1>4. /\ conns' \in [Replicas -> [Devices -> Slots \cup {NoTunnel}]]
      /\ \A p \in Replicas, e \in Devices :
            conns'[p][e] = IF conns[p][e] = t THEN NoTunnel ELSE conns[p][e]
  BY <1>1, <1>2, <1>3
<1>5. ASSUME NEW hub \in {"authed", "open", "dropped", "closed", "gone"}, hub = "gone",
             NEW up \in BOOLEAN, up = tun[t].up
      PROVE  HubInv'
  <2>1. /\ tun' = [tun EXCEPT ![t] = Closed(t, hub, up)]
        /\ \A p \in Replicas, e \in Devices :
              conns'[p][e] = IF conns[p][e] = t /\ hub = "gone" THEN NoTunnel ELSE conns[p][e]
    BY <1>1, <1>4, <1>5
  <2>2. /\ changes' \in 0..MaxChanges /\ faults' \in 0..MaxFaults
        /\ UNCHANGED <<state, past, copy, box, dropping, mail>>
        /\ conns' \in [Replicas -> [Devices -> Slots \cup {NoTunnel}]]
        /\ hub \in {tun[t].hub, "closed", "gone"}
    BY <1>1, <1>4, <1>5
  <2> QED
    BY <2>1, <2>2, EndStep, ZenonT(60)
<1>6. tun[t].up \in BOOLEAN
  BY <1>1, TunnelType
<1> QED
  BY <1>5, <1>6

\* A tunnel is let in.
LEMMA LetInStep ==
    ASSUME HubInv, NEW u \in Slots \ Tunnels, NEW v \in TunnelRecords, v.hub = "authed",
           tun' = [tun EXCEPT ![u] = v], changes' = changes, faults' \in 0..MaxFaults,
           UNCHANGED <<state, past, copy, box, conns, dropping, mail>>
    PROVE  HubInv'
<1>1. TypeOK /\ tun \in [Slots -> TunnelRecords \cup {NoTunnel}]
  BY DEF HubInv, TypeOK
<1>2. /\ Tunnels' = Tunnels \cup {u}
      /\ \A t \in Tunnels : tun'[t] = tun[t]
      /\ tun'[u] = v /\ tun' \in [Slots -> TunnelRecords \cup {NoTunnel}]
  BY <1>1 DEF Tunnels
<1>3. TypeOK'
  BY <1>1, <1>2 DEF TypeOK
<1>4. IsFiniteSet(mail')
  BY DEF HubInv
<1>5. \A p \in Replicas, e \in Devices : Told(p, e)' = Told(p, e)
  BY DEF Told
<1>6. \A p \in Replicas, e \in Devices :
          \/ conns[p][e] = NoTunnel
          \/ tun'[conns[p][e]].hub \in {"open", "closed"}
  BY <1>1, <1>2, TableType DEF HubInv, TableInv
<1> QED
  BY <1>2, <1>3, <1>4, <1>5, <1>6, TunnelStep

LEMMA DialKeeps ==
    ASSUME HubInv, NEW d \in Devices, NEW r \in Replicas, Dial(d, r) \/ TestDial(d, r)
    PROVE  HubInv'
<1> DEFINE v(tok, cfg, up) ==
               [dev |-> d, rep |-> r, tok |-> tok, letter |-> copy[r].letter[d], cfg |-> cfg,
                hub |-> "authed", up |-> up, since |-> 0, late |-> FALSE]
<1>1. /\ TypeOK /\ changes' = changes /\ faults' \in 0..MaxFaults
      /\ UNCHANGED <<state, past, copy, box, conns, dropping, mail>>
  BY DEF HubInv, TypeOK, Dial, TestDial, Fault
<1>2. ASSUME NEW tok \in Tokens, NEW l \in Letters \cup {NoLetter}, NEW up \in BOOLEAN
      PROVE  v(tok, <<tok, l>>, up) \in TunnelRecords /\ v(tok, <<tok, l>>, up).hub = "authed"
  <2>1. copy[r].letter[d] \in Letters
    BY <1>1 DEF TypeOK, Documents
  <2> QED
    BY <2>1 DEF TunnelRecords
<1>3. CASE Dial(d, r)
  <2>1. PICK u \in Slots \ Tunnels : tun' = [tun EXCEPT ![u] = v(box[d].tok, <<box[d].tok, box[d].letter>>, TRUE)]
    BY <1>3 DEF Dial
  <2>2. box[d].tok \in Tokens /\ box[d].letter \in Letters \cup {NoLetter}
    BY <1>1 DEF TypeOK
  <2> HIDE DEF v
  <2> QED
    BY <1>1, <1>2, <2>1, <2>2, LetInStep
<1>4. CASE TestDial(d, r)
  <2>1. PICK u \in Slots \ Tunnels : tun' = [tun EXCEPT ![u] = v(copy[r].tok[d], <<copy[r].tok[d], NoLetter>>, FALSE)]
    BY <1>4 DEF TestDial
  <2>2. copy[r].tok[d] \in Tokens
    BY <1>1 DEF TypeOK, Documents
  <2> HIDE DEF v
  <2> QED
    BY <1>1, <1>2, <2>1, <2>2, LetInStep
<1> QED
  BY <1>3, <1>4

LEMMA DropConnKeeps ==
    ASSUME HubInv, NEW r \in Replicas, NEW d \in Devices, DropConn(r, d)
    PROVE  HubInv'
<1> DEFINE t == conns[r][d]
<1>1. /\ TypeOK /\ tun \in [Slots -> TunnelRecords \cup {NoTunnel}]
      /\ conns \in [Replicas -> [Devices -> Tunnels \cup {NoTunnel}]]
      /\ conns' = [conns EXCEPT ![r][d] = NoTunnel]
      /\ tun' = IF t = NoTunnel THEN tun ELSE [tun EXCEPT ![t].hub = Dropped(@)]
      /\ UNCHANGED <<state, past, copy, box, mail, changes, faults>>
      /\ \E x \in dropping : x.rep = r /\ x.dev = d /\ dropping' = dropping \ {x}
  BY DEF HubInv, TypeOK, DropConn
<1>2. t \in Tunnels \cup {NoTunnel}
  BY <1>1
<1>3. \A p \in Replicas, e \in Devices :
          conns'[p][e] = IF p = r /\ e = d THEN NoTunnel ELSE conns[p][e]
  BY <1>1
<1> HIDE DEF t
<1>4. ASSUME NEW u \in Tunnels
      PROVE  /\ tun'[u] \in TunnelRecords
             /\ tun'[u].rep = tun[u].rep /\ tun'[u].dev = tun[u].dev
             /\ tun'[u].tok = tun[u].tok /\ tun'[u].late = tun[u].late
             /\ tun'[u].hub = IF u = t THEN Dropped(tun[u].hub) ELSE tun[u].hub
  <2>1. tun[u] \in TunnelRecords /\ u \in Slots /\ u # NoTunnel
    BY <1>1, TunnelType, SlotType
  <2>2. tun'[u] = IF u = t THEN [tun[u] EXCEPT !.hub = Dropped(@)] ELSE tun[u]
    BY <1>1, <2>1
  <2> QED
    BY <1>1, <2>1, <2>2, DroppedType DEF TunnelRecords
<1>5. \A u \in Slots : u \notin Tunnels => tun'[u] = NoTunnel
  BY <1>1, <1>2 DEF Tunnels
<1>6. Tunnels' = Tunnels
  BY <1>4, <1>5 DEF Tunnels
<1>7. TypeOK'
  <2>1. tun' = [u \in Slots |-> tun'[u]]
    BY <1>1
  <2>2. tun' \in [Slots -> TunnelRecords \cup {NoTunnel}]
    BY <1>4, <1>5, <2>1
  <2>3. conns' \in [Replicas -> [Devices -> Tunnels' \cup {NoTunnel}]]
    BY <1>1, <1>6
  <2>4. dropping' \subseteq [rep: Replicas, dev: Devices, why: {"here", "peer", "state"}]
    BY <1>1 DEF TypeOK
  <2> QED
    BY <1>1, <2>2, <2>3, <2>4 DEF TypeOK
<1>8. IsFiniteSet(mail')
  BY <1>1 DEF HubInv
<1>9. \A p \in Replicas, e \in Devices : conns'[p][e] # NoTunnel /\ Told(p, e) => Told(p, e)'
  <2> SUFFICES ASSUME NEW p \in Replicas, NEW e \in Devices, p # r \/ e # d, Told(p, e)
               PROVE  Told(p, e)'
    BY <1>3
  <2> QED
    BY <1>1 DEF Told
<1>10. \A p \in Replicas, e \in Devices :
          \/ conns'[p][e] = NoTunnel
          \/ conns'[p][e] = conns[p][e] /\ tun'[conns[p][e]].hub \in {"open", "closed"}
  <2> SUFFICES ASSUME NEW p \in Replicas, NEW e \in Devices, conns'[p][e] # NoTunnel
               PROVE  conns'[p][e] = conns[p][e] /\ tun'[conns[p][e]].hub \in {"open", "closed"}
    OBVIOUS
  <2>1. /\ p # r \/ e # d
        /\ conns'[p][e] = conns[p][e] /\ conns[p][e] \in Tunnels
        /\ tun[conns[p][e]].rep = p /\ tun[conns[p][e]].dev = e
        /\ tun[conns[p][e]].hub \in {"open", "closed"}
    BY <1>1, <1>3, TableType DEF HubInv, TableInv
  <2>2. t # NoTunnel => tun[t].rep = r /\ tun[t].dev = d
    BY DEF HubInv, TableInv, t
  <2>3. conns[p][e] # t
    BY <1>2, <2>1, <2>2
  <2> QED
    BY <1>4, <2>1, <2>3
<1>11. \A u \in Tunnels : tun'[u].hub = "open" =>
          /\ tun[u].hub = "open"
          /\ conns'[tun[u].rep][tun[u].dev] = conns[tun[u].rep][tun[u].dev]
  BY <1>1, <1>3, <1>4, TunnelType, DroppedType DEF HubInv, OpenIsServed, t
<1> QED
  BY <1>1, <1>4, <1>6, <1>7, <1>8, <1>9, <1>10, <1>11, TunnelStep

LEMMA RestartKeeps ==
    ASSUME HubInv, NEW r \in Replicas, Restart(r)
    PROVE  HubInv'
<1>0. PICK doc \in past : copy' = [copy EXCEPT ![r] = doc]
  BY DEF Restart
<1>1. /\ TypeOK /\ tun \in [Slots -> TunnelRecords \cup {NoTunnel}]
      /\ conns \in [Replicas -> [Devices -> Tunnels \cup {NoTunnel}]]
      /\ copy \in [Replicas -> Documents] /\ doc \in Documents
      /\ copy' = [copy EXCEPT ![r] = doc]
      /\ tun' = [t \in Slots |-> IF t \in Tunnels /\ tun[t].rep = r
                                 THEN Closed(t, "gone", tun[t].up) ELSE tun[t]]
      /\ conns' = [conns EXCEPT ![r] = [d \in Devices |-> NoTunnel]]
      /\ dropping' = {x \in dropping : x.rep # r}
      /\ UNCHANGED <<state, past, box, mail, changes>>
      /\ faults' \in 0..MaxFaults
  BY <1>0 DEF HubInv, TypeOK, Restart, Fault
<1>2. ASSUME NEW t \in Tunnels, tun[t].rep = r
      PROVE  \/ tun'[t] = NoTunnel
             \/ /\ tun'[t] \in TunnelRecords /\ tun'[t].hub = "gone"
                /\ tun'[t].dev = tun[t].dev /\ tun'[t].rep = tun[t].rep
                /\ tun'[t].tok = tun[t].tok /\ tun'[t].late = tun[t].late
  <2>1. tun'[t] = Closed(t, "gone", tun[t].up) /\ tun[t].up \in BOOLEAN
    BY <1>1, <1>2, TunnelType
  <2> QED
    BY <1>1, <2>1, ClosedType
<1>3. \A t \in Slots : (t \in Tunnels /\ tun[t].rep = r) \/ tun'[t] = tun[t]
  BY <1>1
<1>4. /\ tun' \in [Slots -> TunnelRecords \cup {NoTunnel}]
      /\ \A t \in Tunnels' : t \in Tunnels
      /\ \A t \in Tunnels : tun[t].rep # r => t \in Tunnels'
  <2>1. \A t \in Slots : tun'[t] \in TunnelRecords \cup {NoTunnel}
    BY <1>1, <1>2, <1>3
  <2>2. tun' = [t \in Slots |-> tun'[t]]
    BY <1>1
  <2> QED
    BY <1>3, <2>1, <2>2 DEF Tunnels
<1>5. \A p \in Replicas, d \in Devices :
          /\ p = r => conns'[p][d] = NoTunnel
          /\ p # r => conns'[p][d] = conns[p][d]
  BY <1>1
<1>6. ASSUME NEW p \in Replicas, NEW d \in Devices, conns'[p][d] # NoTunnel
      PROVE  /\ conns'[p][d] = conns[p][d] /\ conns[p][d] \in Tunnels'
             /\ tun'[conns[p][d]].hub \in {"open", "closed"}
  <2>1. /\ p # r /\ conns[p][d] \in Tunnels /\ tun[conns[p][d]].rep = p
        /\ tun[conns[p][d]].hub \in {"open", "closed"}
        /\ conns[p][d] \in Slots
    BY <1>1, <1>5, <1>6, TableType, SlotType DEF HubInv, TableInv
  <2> QED
    BY <1>3, <1>4, <1>5, <2>1
<1>7. TypeOK'
  <2>1. conns' \in [Replicas -> [Devices -> Tunnels' \cup {NoTunnel}]]
    <3>1. conns' \in [Replicas -> [Devices -> Tunnels \cup {NoTunnel}]]
      BY <1>1
    <3> QED
      BY <1>6, <3>1
  <2> QED
    BY <1>1, <1>4, <2>1 DEF TypeOK
<1>8. IsFiniteSet(mail')
  BY <1>1 DEF HubInv
<1>9. \A p \in Replicas, d \in Devices : conns'[p][d] # NoTunnel /\ Told(p, d) => Told(p, d)'
  BY <1>1, <1>5 DEF Told
<1>10. \A p \in Replicas : copy'[p].tok = copy[p].tok \/ \A d \in Devices : conns'[p][d] = NoTunnel
  BY <1>1, <1>5
<1>11. ASSUME NEW t \in Tunnels'
       PROVE  /\ t \in Tunnels
              /\ tun'[t].rep = tun[t].rep /\ tun'[t].dev = tun[t].dev
              /\ tun'[t].tok = tun[t].tok /\ tun'[t].late = tun[t].late
              /\ tun'[t].hub = "open" =>
                    /\ tun[t].hub = "open"
                    /\ conns'[tun[t].rep][tun[t].dev] = conns[tun[t].rep][tun[t].dev]
  <2>1. t \in Tunnels /\ tun'[t] # NoTunnel /\ t \in Slots
    BY <1>4 DEF Tunnels
  <2>2. CASE tun[t].rep = r
    BY <1>2, <2>1, <2>2
  <2>3. CASE tun[t].rep # r
    BY <1>1, <1>3, <1>5, <2>1, <2>3, TunnelType
  <2> QED
    BY <2>1, <2>2, <2>3
<1> QED
  BY <1>6, <1>7, <1>8, <1>9, <1>10, <1>11, TunnelStep

\* The newest tunnel takes the entry, and the one it takes it from is closed.
LEMMA ServeKeeps ==
    ASSUME HubInv, NEW t \in Tunnels, Serve(t)
    PROVE  HubInv'
<1> DEFINE r == tun[t].rep
           d == tun[t].dev
           old == conns[r][d]
           late == copy[r].tok[d] # tun[t].tok
           Kept(u) == [tun[u] EXCEPT !.since = Rank(@), !.hub = IF u = old THEN Dropped(@) ELSE @]
           served == [tun[t] EXCEPT !.hub = "open", !.since = Latest, !.late = late]
           told == {[to |-> p, dev |-> d, since |-> Latest] : p \in Peers(r)}
           ranked == {[m EXCEPT !.since = Rank(@)] : m \in mail}
<1>1. /\ TypeOK /\ tun \in [Slots -> TunnelRecords \cup {NoTunnel}] /\ IsFiniteSet(mail)
      /\ conns \in [Replicas -> [Devices -> Tunnels \cup {NoTunnel}]]
      /\ tun[t].hub = "authed"
      /\ tun' = [u \in Slots |-> IF u \notin Tunnels THEN NoTunnel
                                 ELSE IF u # t THEN Kept(u) ELSE served]
      /\ conns' = [conns EXCEPT ![r][d] = t]
      /\ mail' = ranked \cup told
      /\ box' = IF tun[t].up /\ box[d].tok # NoToken
                THEN [box EXCEPT ![d].letter = tun[t].letter] ELSE box
      /\ UNCHANGED <<state, past, copy, dropping, changes, faults>>
  BY DEF HubInv, TypeOK, Serve
<1>2. /\ r \in Replicas /\ d \in Devices /\ t \in Slots /\ t # NoTunnel
      /\ tun[t] \in TunnelRecords /\ old \in Tunnels \cup {NoTunnel}
  BY <1>1, TunnelType, SlotType
<1>3. \A p \in Replicas, e \in Devices : conns[p][e] # t
  BY <1>1, NotInTable
<1>4. Latest \in Nat /\ \A since : Rank(since) \in Nat
  BY <1>1, RankType
<1>5. ASSUME NEW u \in Tunnels
      PROVE  /\ Kept(u) \in TunnelRecords
             /\ Kept(u).rep = tun[u].rep /\ Kept(u).dev = tun[u].dev
             /\ Kept(u).tok = tun[u].tok /\ Kept(u).late = tun[u].late
             /\ Kept(u).hub = IF u = old THEN Dropped(tun[u].hub) ELSE tun[u].hub
  <2> DEFINE hub == IF u = old THEN Dropped(tun[u].hub) ELSE tun[u].hub
             since == Rank(tun[u].since)
  <2>1. tun[u] \in TunnelRecords /\ since \in Nat /\ hub \in {"authed", "open", "dropped", "closed", "gone"}
    BY <1>1, <1>4, TunnelType, DroppedType
  <2>2. Kept(u) = [tun[u] EXCEPT !.since = since, !.hub = hub]
    BY <2>1 DEF TunnelRecords
  <2> HIDE DEF Kept, hub, since
  <2>3. LET v == [tun[u] EXCEPT !.since = since, !.hub = hub]
        IN  /\ v \in TunnelRecords /\ v.rep = tun[u].rep /\ v.dev = tun[u].dev
            /\ v.tok = tun[u].tok /\ v.late = tun[u].late /\ v.hub = hub
    BY <2>1 DEF TunnelRecords
  <2> QED
    BY <2>2, <2>3 DEF hub
<1>6. /\ served \in TunnelRecords
      /\ served.rep = r /\ served.dev = d /\ served.tok = tun[t].tok
      /\ served.late = late /\ served.hub = "open"
  <2>1. late \in BOOLEAN
    OBVIOUS
  <2> HIDE DEF late
  <2> QED
    BY <1>2, <1>4, <2>1 DEF TunnelRecords
<1>7. told \subseteq [to: Replicas, dev: Devices, since: Nat] /\ IsFiniteSet(told)
  <2> DEFINE f == [p \in Peers(r) |-> [to |-> p, dev |-> d, since |-> Latest]]
  <2>1. IsFiniteSet(Peers(r))
    BY FS_RemoveElement DEF Peers
  <2>2. IsFiniteSet({f[p] : p \in Peers(r)})
    BY <2>1, FiniteImage
  <2>3. {f[p] : p \in Peers(r)} = told
    OBVIOUS
  <2>4. IsFiniteSet(told)
    BY <2>2, <2>3
  <2>5. \A p \in Peers(r) :
            [to |-> p, dev |-> d, since |-> Latest] \in [to: Replicas, dev: Devices, since: Nat]
    BY <1>2, <1>4 DEF Peers
  <2> QED
    BY <2>4, <2>5
<1>8. ranked \subseteq [to: Replicas, dev: Devices, since: Nat] /\ IsFiniteSet(ranked)
  <2> DEFINE f == [m \in mail |-> [m EXCEPT !.since = Rank(@)]]
  <2>0. IsFiniteSet(mail)
    BY DEF HubInv
  <2>1. {f[m] : m \in mail} = ranked
    OBVIOUS
  <2> HIDE DEF f
  <2>2. IsFiniteSet({f[m] : m \in mail})
    BY <2>0, FiniteImage
  <2>3. \A m \in mail : m \in [to: Replicas, dev: Devices, since: Nat]
    BY <1>1 DEF TypeOK
  <2>4. \A m \in mail :
            [m EXCEPT !.since = Rank(@)] \in [to: Replicas, dev: Devices, since: Nat]
    BY <1>4, <2>3
  <2>5. IsFiniteSet(ranked)
    BY <2>1, <2>2
  <2> QED
    BY <2>4, <2>5
<1>9. box' \in [Devices -> [tok: Tokens, letter: Letters \cup {NoLetter}, on: BOOLEAN]]
  <2>1. tun[t].letter \in Letters
    BY <1>2 DEF TunnelRecords
  <2>2. [box[d] EXCEPT !.letter = tun[t].letter]
           \in [tok: Tokens, letter: Letters \cup {NoLetter}, on: BOOLEAN]
    <3>1. box[d] \in [tok: Tokens, letter: Letters \cup {NoLetter}, on: BOOLEAN]
      BY <1>1, <1>2 DEF TypeOK
    <3> QED
      BY <2>1, <3>1
  <2>3. \/ box' = box
        \/ box' = [box EXCEPT ![d] = [box[d] EXCEPT !.letter = tun[t].letter]]
    BY ZenonT(60) DEF Serve
  <2> QED
    BY <1>1, <1>2, <2>2, <2>3 DEF TypeOK
<1>10. /\ IsFiniteSet(mail') /\ mail' \subseteq [to: Replicas, dev: Devices, since: Nat]
  BY <1>1, <1>7, <1>8, FS_Union
<1>11. \A p \in Replicas, e \in Devices :
           conns'[p][e] = IF p = r /\ e = d THEN t ELSE conns[p][e]
  BY <1>1, <1>2
<1>12. /\ tun'[t] = served
       /\ \A u \in Slots : u \notin Tunnels => tun'[u] = NoTunnel
       /\ \A u \in Tunnels : u # t => tun'[u] = Kept(u)
  BY <1>1, <1>2 DEF Tunnels
<1> HIDE DEF r, d, old, late, Kept, served, told, ranked
<1>13. Tunnels' = Tunnels
  BY <1>5, <1>6, <1>12 DEF Tunnels
<1>14. TypeOK'
  <2>1. tun' = [u \in Slots |-> tun'[u]]
    BY <1>1
  <2>2. tun' \in [Slots -> TunnelRecords \cup {NoTunnel}]
    BY <1>2, <1>5, <1>6, <1>12, <2>1
  <2>3. conns' \in [Replicas -> [Devices -> Tunnels' \cup {NoTunnel}]]
    BY <1>1, <1>2, <1>13
  <2> QED
    BY <1>1, <1>9, <1>10, <2>2, <2>3 DEF TypeOK
<1>15. ASSUME NEW p \in Replicas, NEW e \in Devices, conns[p][e] # NoTunnel, p # r \/ e # d
       PROVE  /\ conns'[p][e] = conns[p][e] /\ conns[p][e] \in Tunnels
              /\ conns[p][e] # t /\ conns[p][e] # old
              /\ tun'[conns[p][e]] = Kept(conns[p][e])
  <2>1. /\ conns'[p][e] = conns[p][e] /\ conns[p][e] \in Tunnels /\ conns[p][e] # t
        /\ tun[conns[p][e]].rep = p /\ tun[conns[p][e]].dev = e
    BY <1>1, <1>3, <1>11, <1>15, TableType DEF HubInv, TableInv
  <2>2. old # NoTunnel => tun[old].rep = r /\ tun[old].dev = d
    BY <1>2 DEF HubInv, TableInv, old
  <2> QED
    BY <1>12, <1>15, <2>1, <2>2
<1>16. TableInv'
  <2> SUFFICES ASSUME NEW p \in Replicas, NEW e \in Devices, conns'[p][e] # NoTunnel
               PROVE  LET u == conns'[p][e]
                      IN  tun'[u].rep = p /\ tun'[u].dev = e /\ tun'[u].hub \in {"open", "closed"}
    BY DEF TableInv
  <2>1. CASE p = r /\ e = d
    BY <1>6, <1>11, <1>12, <2>1
  <2>2. CASE p # r \/ e # d
    BY <1>5, <1>11, <1>15, <2>2 DEF HubInv, TableInv
  <2> QED
    BY <2>1, <2>2
<1>17. OpenIsServed'
  <2> SUFFICES ASSUME NEW u \in Tunnels, tun'[u].hub = "open"
               PROVE  conns'[tun'[u].rep][tun'[u].dev] = u
    BY <1>13 DEF OpenIsServed
  <2>1. CASE u = t
    BY <1>2, <1>6, <1>11, <1>12, <2>1
  <2>2. CASE u # t
    <3>1. /\ tun[u].hub = "open" /\ u # old
          /\ tun'[u].rep = tun[u].rep /\ tun'[u].dev = tun[u].dev
          /\ tun[u].rep \in Replicas /\ tun[u].dev \in Devices
      BY <1>1, <1>5, <1>12, <2>2, TunnelType, DroppedType
    <3>2. conns[tun[u].rep][tun[u].dev] = u
      BY <3>1 DEF HubInv, OpenIsServed
    <3> QED
      BY <1>11, <3>1, <3>2 DEF old
  <2> QED
    BY <2>1, <2>2
<1>18. RevokedIsOnItsWayOut'
  <2> SUFFICES ASSUME NEW p \in Replicas, NEW e \in Devices, conns'[p][e] # NoTunnel,
                      copy[p].tok[e] # tun'[conns'[p][e]].tok
               PROVE  tun'[conns'[p][e]].late \/ Told(p, e)
    BY <1>1 DEF RevokedIsOnItsWayOut, Told
  <2>1. CASE p = r /\ e = d
    BY <1>6, <1>11, <1>12, <2>1 DEF late
  <2>2. CASE p # r \/ e # d
    BY <1>5, <1>11, <1>15, <2>2 DEF HubInv, RevokedIsOnItsWayOut, Told
  <2> QED
    BY <2>1, <2>2
<1> QED
  BY <1>10, <1>14, <1>16, <1>17, <1>18 DEF HubInv

-----------------------------------------------------------------------------
(* The theorems                                                                *)

LEMMA HubInit == Init => HubInv
<1> SUFFICES ASSUME Init PROVE HubInv
  OBVIOUS
<1>1. state \in Documents
  BY DEF Init, Documents, Versions, Tokens
<1>2. /\ \A r \in Replicas : copy[r] = state
      /\ \A t \in Slots : tun[t] = NoTunnel
      /\ \A r \in Replicas, d \in Devices : conns[r][d] = NoTunnel
      /\ Tunnels = {} /\ mail = {}
  BY DEF Init, Tunnels
<1>3. TypeOK
  <2>1. \A d \in Devices : state.letter[d] \in Letters
    BY <1>1 DEF Documents
  <2>2. box \in [Devices -> [tok: Tokens, letter: Letters \cup {NoLetter}, on: BOOLEAN]]
    BY <2>1 DEF Init, Tokens
  <2>3. 0 \in 0..MaxChanges /\ 0 \in 0..MaxFaults
    OBVIOUS
  <2> QED
    BY <1>1, <1>2, <2>2, <2>3 DEF Init, TypeOK
<1>4. TableInv /\ OpenIsServed /\ RevokedIsOnItsWayOut
  BY <1>2 DEF TableInv, OpenIsServed, RevokedIsOnItsWayOut
<1> QED
  BY <1>2, <1>3, <1>4, FS_EmptySet DEF HubInv

LEMMA HubNext == HubInv /\ [Next]_vars => HubInv'
<1> SUFFICES ASSUME HubInv, [Next]_vars PROVE HubInv'
  OBVIOUS
<1>1. ASSUME NEW r \in Replicas, Refresh(r) \/ Touch(r) \/ Restart(r) PROVE HubInv'
  BY <1>1, RefreshKeeps, TouchKeeps, RestartKeeps
<1>2. ASSUME NEW r \in Replicas, NEW d \in Devices,
             \/ RotateDevice(r, d) \/ DeleteDevice(r, d) \/ SetLetter(r, d)
             \/ DropConn(r, d) \/ Dial(d, r) \/ TestDial(d, r)
      PROVE  HubInv'
  BY <1>2, RotateDeviceKeeps, DeleteDeviceKeeps, SetLetterKeeps, DropConnKeeps, DialKeeps
<1>3. ASSUME NEW t \in Tunnels,
             \/ Serve(t) \/ HubNotices(t) \/ Unserve(t)
             \/ DeviceNotices(t) \/ LoseLink(t) \/ Watch(t)
      PROVE  HubInv'
  BY <1>3, ServeKeeps, UnserveKeeps, NoticeKeeps
<1>4. ASSUME NEW d \in Devices, Join(d) \/ Leave(d) \/ TurnOff(d) \/ TurnOn(d) PROVE HubInv'
  BY <1>4, DeviceKeeps
<1>5. ASSUME NEW m \in mail, HandleDrop(m) \/ LoseMail(m) PROVE HubInv'
  BY <1>5, HandleDropKeeps, LoseMailKeeps
<1>6. CASE UNCHANGED vars
  <2>1. TypeOK' /\ IsFiniteSet(mail') /\ UNCHANGED <<state, past, copy, tun, conns, dropping>>
    BY <1>6 DEF vars, HubInv, TypeOK, Tunnels
  <2> QED
    BY <2>1, AsideStep
<1> QED
  BY <1>1, <1>2, <1>3, <1>4, <1>5, <1>6 DEF Next

\* The inductive invariant holds of every reachable state.
THEOREM HubInvariant == Spec => []HubInv
BY HubInit, HubNext, PTL DEF Spec

\* The state, the copies, the tables and the requests have their types: a table
\* never names a tunnel that is forgotten.
THEOREM HubTypeCorrect == Spec => []TypeOK
<1>1. HubInv => TypeOK
  BY DEF HubInv
<1> QED
  BY HubInvariant, <1>1, PTL

\* Replacing a tunnel, dropping it and its late end never leave an open tunnel
\* outside the table.
THEOREM OpenServed == Spec => []OpenIsServed
<1>1. HubInv => OpenIsServed
  BY DEF HubInv
<1> QED
  BY HubInvariant, <1>1, PTL

\* A tunnel whose token this replica's copy has void is about to be dropped,
\* unless it was let in before the change and reached the table after it.
THEOREM RevokedOnItsWayOut == Spec => []RevokedIsOnItsWayOut
<1>1. HubInv => RevokedIsOnItsWayOut
  BY DEF HubInv
<1> QED
  BY HubInvariant, <1>1, PTL
===============================================================================
