----------------------------- MODULE PtyHostProofs -----------------------------
(* That the map of the hosted claudes and the claudes agree, as long as no two *)
(* requests are about one conversation.                                        *)
EXTENDS PtyHost, FiniteSetTheorems, TLAPS

-----------------------------------------------------------------------------
(* The inductive invariant                                                     *)

\* A request has c in hand: it has just spawned it, or has taken it off the map.
InHand(c) == \E q \in Requesters : req[q].child = c /\ req[q].at # "found"

Starting(q) == req[q].at \in {"spawn", "file"}

\* What a request knows and holds.
RequestInv ==
    \A q \in Requesters :
        /\ req[q].sid \in rows \cup {None}
        /\ req[q].at \in {"idle", "spawn", "check"} <=> req[q].child = None
        /\ req[q].at \in {"found", "check"} => req[q].sid # None
        /\ req[q].at = "found" /\ Alive(req[q].child) => req[q].sid \in Ran(req[q].child)
        /\ req[q].at \in {"file", "removed", "closing"} => ptys[req[q].child] # req[q].child

\* A claude that is about to be filed is in nobody else's hands.
FileInv ==
    \A q \in Requesters : req[q].at = "file" =>
        LET c == req[q].child
        IN  /\ child[c].state \in {"up", "gone"}
            /\ child[c].sid = req[q].sid /\ child[c].past = {}
            /\ Filed(c) = {} /\ scan.runs[c] = None
            /\ \A p \in Requesters : p # q => req[p].child # c

\* No two requests are about one conversation, or about one live claude.
ApartInv ==
    \A p, q \in Requesters : p # q =>
        /\ About(p) \cap About(q) = {}
        /\ req[p].child = req[q].child => ~Alive(req[p].child)

\* A key pid-<N> is N's; a child that was not spawned is nowhere; a session two
\* claudes have run has a row by then.
ChildInv ==
    \A c \in Children :
        /\ ptys[c] \in {c, None}
        /\ child[c].state = "none" =>
              /\ child[c] = NoChild /\ Filed(c) = {} /\ scan.runs[c] = None
              /\ \A q \in Requesters : req[q].child # c
        /\ Alive(c) /\ scan.runs[c] # None => scan.runs[c] \in Ran(c)
        /\ \A d \in Children \ {c} : Ran(c) \cap (Ran(d) \cup {scan.runs[d]}) \subseteq rows

\* The lists of sessions to resume are of sessions with a row.
QueueInv == queue \subseteq rows /\ (file = None \/ file \subseteq rows)

\* A live claude is in a request's hand, or filed under its session as soon as
\* that has a row, ...
FiledInv ==
    \A c \in Children : Alive(c) /\ child[c].sid # None =>
        \/ ptys[child[c].sid] = c
        \/ ptys[child[c].sid] = None /\ child[c].sid \notin rows
        \/ InHand(c)

\* ... and filed under some key that no request is about to replace.
ReachInv ==
    \A c \in Children : Alive(c) =>
        \/ InHand(c)
        \/ \E k \in Filed(c) : \A q \in Requesters : Starting(q) => req[q].sid # k

\* Who is about to run a session is the only one.
StartInv ==
    \A q \in Requesters : Starting(q) /\ req[q].sid # None =>
        \A c \in Children : Alive(c) /\ child[c].sid = req[q].sid => c = req[q].child

\* A tick that has listed a transcript without a row has seen, or will see,
\* who runs it.
ScanInv ==
    \A c \in Children : Alive(c) /\ child[c].sid \in scan.found \ rows =>
        /\ child[c].past = {}
        /\ scan.at = "seen" => scan.runs[c] = child[c].sid
        /\ scan.at = "looked" /\ ptys[child[c].sid] = None /\ ~InHand(c)
           => scan.runs[c] = child[c].sid

PtyInv ==
    /\ TypeOK
    /\ RequestInv /\ FileInv /\ ApartInv /\ ChildInv /\ QueueInv
    /\ FiledInv /\ ReachInv /\ StartInv /\ ScanInv
    /\ OneClaudePerConversation /\ KeysNameTheirConversations

\* What the keys of the claudes need, whether or not requests overlap: what is
\* about to be filed runs the session it was started for.
KeyInv ==
    /\ \A q \in Requesters : req[q].at = "file" =>
          /\ req[q].child \in Children
          /\ child[req[q].child].state # "none"
          /\ child[req[q].child].sid = req[q].sid
    /\ \A c \in Children :
          /\ child[c].state = "none" => Filed(c) = {} /\ scan.runs[c] = None
          /\ Alive(c) /\ scan.runs[c] # None => scan.runs[c] \in Ran(c)
    /\ KeysNameTheirConversations

USE PtyAssumption

-----------------------------------------------------------------------------
(* Lemmas about the operators                                                  *)

LEMMA ReqType ==
    ASSUME TypeOK, NEW q \in Requesters
    PROVE  /\ req[q] \in RequestStates
           /\ req[q].sid \in Sessions \cup {None} /\ req[q].child \in Children \cup {None}
           /\ req[q].at \in {"idle", "spawn", "file", "found", "removed", "closing", "check"}
BY DEF TypeOK, RequestStates

\* One request moves on: the others keep what they have.
LEMMA OneRequest ==
    ASSUME TypeOK, NEW q \in Requesters, NEW r, req' = [req EXCEPT ![q] = r]
    PROVE  /\ req'[q] = r
           /\ \A p \in Requesters : p # q => req'[p] = req[p]
           /\ r \in RequestStates => req' \in [Requesters -> RequestStates]
BY DEF TypeOK

\* A live claude whose session has a row, and is not filed under it, is in the
\* hand of a request about that session.
LEMMA RunnersAreInHand ==
    ASSUME PtyInv, NEW c \in Children, Alive(c),
           child[c].sid \in rows, ~Alive(ptys[child[c].sid])
    PROVE  \E p \in Requesters :
              req[p].child = c /\ req[p].at # "found" /\ child[c].sid \in About(p)
<1>1. child[c].sid # None
  BY DEF PtyInv, TypeOK
<1>2. InHand(c)
  BY <1>1 DEF PtyInv, FiledInv
<1>3. PICK p \in Requesters : req[p].child = c /\ req[p].at # "found"
  BY <1>2 DEF InHand
<1>4. child[c].sid \in About(p)
  BY <1>1, <1>3 DEF About, Ran, Alive
<1> QED
  BY <1>3, <1>4

\* A step of a request that changes nothing else.
LEMMA RequestStep ==
    ASSUME PtyInv, NEW q \in Requesters, TypeOK', QueueInv',
           UNCHANGED <<child, ptys, rows, scan>>,
           \A p \in Requesters : p # q => req'[p] = req[p],
           \* what q knows and holds
           req'[q].sid \in rows \cup {None},
           req'[q].at \in {"idle", "spawn", "check"} <=> req'[q].child = None,
           req'[q].at \in {"found", "check"} => req'[q].sid # None,
           req'[q].at = "found" /\ Alive(req'[q].child) => req'[q].sid \in Ran(req'[q].child),
           req'[q].at # "file",
           req'[q].at \in {"removed", "closing"} => ptys[req'[q].child] # req'[q].child,
           \* what q takes up is nobody's
           \A p \in Requesters : p # q =>
              /\ About(p) \cap About(q)' = {}
              /\ req'[q].child = req[p].child /\ req[p].child # None =>
                    ~Alive(req[p].child) /\ req[p].at # "file",
           req'[q].child # None => child[req'[q].child].state # "none",
           Starting(q)' /\ req'[q].sid # None =>
              /\ ~Alive(ptys[req'[q].sid])
              /\ \A c \in Children : Alive(c) => child[c].sid # req'[q].sid,
           \* what q lets go is dead
           req[q].child # None /\ Alive(req[q].child) /\ req[q].at # "found" =>
              req'[q].child = req[q].child /\ req'[q].at # "found"
    PROVE  PtyInv'
<1> USE DEF PtyInv
<1>1. /\ \A c \in Children : Ran(c)' = Ran(c) /\ Filed(c)' = Filed(c)
      /\ \A c : Alive(c)' = Alive(c)
  BY DEF Ran, Filed, Alive
<1>2. \A p \in Requesters : p # q => About(p)' = About(p)
  BY DEF About, Ran
<1>3. \A c \in Children : Alive(c) /\ InHand(c) => InHand(c)'
  BY DEF InHand, Alive
<1>4. \A p \in Requesters : req'[p].child \in Children \cup {None}
  BY ReqType DEF TypeOK, RequestStates
<1>5. RequestInv'
  BY <1>1, <1>4 DEF RequestInv
<1>6. FileInv'
  <2> SUFFICES ASSUME NEW p \in Requesters, req'[p].at = "file" PROVE
        LET c == req[p].child
        IN  /\ p # q /\ req'[p] = req[p] /\ c # None
            /\ child[c].state \in {"up", "gone"}
            /\ child[c].sid = req[p].sid /\ child[c].past = {}
            /\ Filed(c) = {} /\ scan.runs[c] = None
            /\ \A o \in Requesters : o # p => req'[o].child # c
    BY <1>1, <1>4 DEF FileInv
  <2> QED
    BY ReqType DEF FileInv, RequestInv
<1>7. ApartInv'
  <2> SUFFICES ASSUME NEW p \in Requesters, NEW o \in Requesters, p # o
               PROVE  /\ About(p)' \cap About(o)' = {}
                      /\ req'[p].child = req'[o].child => ~Alive(req'[p].child)
    BY <1>1 DEF ApartInv
  <2>1. CASE p # q /\ o # q
    BY <2>1, <1>2 DEF ApartInv
  <2>2. CASE p = q
    BY <2>2, <1>2 DEF Alive
  <2>3. CASE o = q
    BY <2>3, <1>2 DEF Alive
  <2> QED
    BY <2>1, <2>2, <2>3
<1>8. ChildInv'
  BY <1>1 DEF ChildInv
<1>9. FiledInv'
  BY <1>1, <1>3 DEF FiledInv
<1>10. ReachInv'
  <2> SUFFICES ASSUME NEW c \in Children, Alive(c), ~InHand(c)'
               PROVE  \E k \in Filed(c) : \A p \in Requesters : Starting(p)' => req'[p].sid # k
    BY <1>1 DEF ReachInv
  <2>1. PICK k \in Filed(c) : \A p \in Requesters : Starting(p) => req[p].sid # k
    BY <1>3 DEF ReachInv
  <2>2. ptys[k] = c /\ k # None
    BY DEF Filed, Keys
  <2> QED
    BY <2>1, <2>2 DEF Starting
<1>11. StartInv'
  <2> SUFFICES ASSUME NEW p \in Requesters, Starting(p)', req'[p].sid # None,
                      NEW c \in Children, Alive(c), child[c].sid = req'[p].sid
               PROVE  c = req'[p].child
    BY <1>1 DEF StartInv
  <2> QED
    BY DEF StartInv, Starting
<1>12. ScanInv'
  BY <1>1, <1>3 DEF ScanInv
<1>13. OneClaudePerConversation' /\ KeysNameTheirConversations'
  BY <1>1 DEF OneClaudePerConversation, KeysNameTheirConversations, Ran
<1> QED
  BY <1>5, <1>6, <1>7, <1>8, <1>9, <1>10, <1>11, <1>12, <1>13

-----------------------------------------------------------------------------
(* Requests                                                                    *)

\* A request that begins to start a claude, when none is filed, is the only one
\* that can come to run the session.
LEMMA NobodyRuns ==
    ASSUME PtyInv, NEW q \in Requesters, NEW s \in rows, ~Alive(ptys[s]),
           \A p \in Requesters : p # q => s \notin About(p),
           req[q].at \in {"idle", "check"}
    PROVE  \A c \in Children : Alive(c) => child[c].sid # s
<1> SUFFICES ASSUME NEW c \in Children, Alive(c), child[c].sid = s PROVE FALSE
  OBVIOUS
<1>1. PICK p \in Requesters :
          req[p].child = c /\ req[p].at # "found" /\ child[c].sid \in About(p)
  BY RunnersAreInHand
<1>2. p # q
  BY <1>1 DEF PtyInv, RequestInv
<1> QED
  BY <1>1, <1>2

LEMMA StartKeeps ==
    ASSUME PtyInv, ~Overlap, NEW q \in Clients, NEW sid \in Sessions \cup {None},
           Start(q, sid)
    PROVE  PtyInv'
<1> DEFINE r == [kind |-> "start", at |-> "spawn", sid |-> sid, child |-> None]
<1>1. /\ q \in Requesters /\ req[q].at = "idle" /\ TypeOK
      /\ UNCHANGED <<child, ptys, rows, queue, file, scan, server>>
      /\ req' = [req EXCEPT ![q] = r]
      /\ sid # None => sid \in rows /\ ~Alive(ptys[sid])
      /\ \A p \in Requesters : About(p) \cap ({sid} \ {None}) = {}
  BY DEF Start, Free, Requesters, PtyInv
<1>2. req'[q] = r /\ \A p \in Requesters : p # q => req'[p] = req[p]
  BY <1>1, OneRequest
<1>3. TypeOK' /\ QueueInv'
  BY <1>1 DEF TypeOK, PtyInv, QueueInv, RequestStates
<1>4. sid # None => \A c \in Children : Alive(c) => child[c].sid # sid
  BY <1>1, NobodyRuns
<1>5. req[q].child = None
  BY <1>1 DEF PtyInv, RequestInv
<1>6. About(q)' = {sid} \ {None}
  BY <1>2 DEF About
<1> QED
  BY <1>1, <1>2, <1>3, <1>4, <1>5, <1>6, RequestStep DEF Starting

LEMMA CheckKeeps ==
    ASSUME PtyInv, NEW q \in Requesters, Check(q)
    PROVE  PtyInv'
<1> DEFINE sid == req[q].sid
           r == IF Alive(ptys[sid]) THEN Idle
                ELSE [kind |-> req[q].kind, at |-> "spawn", sid |-> sid, child |-> None]
<1>1. /\ req[q].at = "check" /\ TypeOK
      /\ UNCHANGED <<child, ptys, rows, queue, file, scan, server>>
      /\ req' = [req EXCEPT ![q] = r]
  BY DEF Check, PtyInv
<1>2. /\ sid \in rows /\ sid # None
      /\ req[q].child = None /\ About(q) = {sid}
  BY <1>1 DEF PtyInv, RequestInv, About
<1>3. req'[q] = r /\ \A p \in Requesters : p # q => req'[p] = req[p]
  BY <1>1, OneRequest
<1>4. TypeOK' /\ QueueInv'
  BY <1>1, <1>2, ReqType DEF TypeOK, PtyInv, QueueInv, RequestStates, Idle
<1>5. \A p \in Requesters : p # q => sid \notin About(p)
  BY <1>2 DEF PtyInv, ApartInv
<1>6. About(q)' \subseteq {sid}
  BY <1>3 DEF About, Idle
<1>7. ~Alive(ptys[sid]) => \A c \in Children : Alive(c) => child[c].sid # sid
  BY <1>1, <1>2, <1>5, NobodyRuns
<1>8. /\ r.child = None /\ r.at \in {"idle", "spawn"}
      /\ r.at = "spawn" => r.sid = sid /\ ~Alive(ptys[sid])
      /\ r.sid \in {sid, None}
  BY DEF Idle
<1> HIDE DEF r, sid
<1> QED
  BY <1>1, <1>2, <1>3, <1>4, <1>5, <1>6, <1>7, <1>8, RequestStep DEF Starting

LEMMA FindRestartKeeps ==
    ASSUME PtyInv, ~Overlap, NEW q \in Clients, NEW name \in Keys, FindRestart(q, name)
    PROVE  PtyInv'
<1> DEFINE c == ptys[name]
<1>1. PICK sid \in (IF name \in Sessions THEN {name} ELSE SessionKeys(c)) \cap rows :
          /\ q \in Requesters /\ req[q].at = "idle" /\ TypeOK
          /\ UNCHANGED <<child, ptys, rows, queue, file, scan, server>>
          /\ req' = [req EXCEPT ![q] =
                        [kind |-> "restart", at |-> "found", sid |-> sid, child |-> c]]
          /\ \A p \in Requesters : About(p) \cap (Ran(c) \cup {sid}) = {}
  BY DEF FindRestart, Free, Requesters, PtyInv
<1>2. c \in Children /\ sid \in Sessions /\ sid # None /\ ptys[sid] = c
  BY <1>1 DEF FindRestart, TypeOK, SessionKeys, Filed
<1>3. req'[q] = [kind |-> "restart", at |-> "found", sid |-> sid, child |-> c]
      /\ \A p \in Requesters : p # q => req'[p] = req[p]
  BY <1>1, OneRequest
<1>4. TypeOK' /\ QueueInv'
  BY <1>1, <1>2, ReqType DEF TypeOK, PtyInv, QueueInv, RequestStates
<1>5. About(q)' = {sid} \cup Ran(c)
  BY <1>1, <1>2, <1>3 DEF About, Ran
<1>6. ~Alive(c) \/ sid \in Ran(c)
  BY <1>2 DEF PtyInv, KeysNameTheirConversations
<1>7. name \in Filed(c) /\ child[c].state # "none"
  BY <1>2 DEF Filed, PtyInv, ChildInv
<1>8. \A p \in Requesters : req[p].child = c => ~Alive(c) /\ req[p].at # "file"
  BY <1>1, <1>2, <1>6, <1>7 DEF About, PtyInv, FileInv
<1>9. c # None /\ req[q].child = None
  BY <1>1, <1>2 DEF PtyInv, RequestInv
<1> HIDE DEF c
<1> QED
  BY <1>1, <1>2, <1>3, <1>4, <1>5, <1>6, <1>7, <1>8, <1>9, RequestStep DEF Starting

LEMMA ClosedKeeps ==
    ASSUME PtyInv, NEW q \in Requesters, Closed(q)
    PROVE  PtyInv'
<1> DEFINE r == IF req[q].kind = "restart"
                THEN [req[q] EXCEPT !.at = "check", !.child = None] ELSE Idle
<1>1. /\ req[q].at = "closing" /\ child[req[q].child].state \in {"gone", "reaped"}
      /\ TypeOK
      /\ UNCHANGED <<child, ptys, rows, queue, file, scan, server>>
      /\ req' = [req EXCEPT ![q] = r]
  BY DEF Closed, PtyInv
<1>2. req'[q] = r /\ \A p \in Requesters : p # q => req'[p] = req[p]
  BY <1>1, OneRequest, ZenonT(60)
<1>3. req[q] \in RequestStates /\ (req[q].kind = "restart" => req[q].sid \in rows)
  BY <1>1 DEF TypeOK
<1>4. /\ r.child = None /\ r.at \in {"idle", "check"} /\ r.sid \in {None, req[q].sid}
      /\ r.at = "check" => req[q].kind = "restart" /\ r.sid = req[q].sid
      /\ r.kind = "restart" => r.sid \in rows
      /\ r \in RequestStates
  BY <1>3 DEF Idle, RequestStates
<1>5. TypeOK' /\ QueueInv'
  BY <1>1, <1>2, <1>3, <1>4 DEF TypeOK, PtyInv, QueueInv
<1>6. About(q)' \subseteq About(q)
  BY <1>2, <1>4 DEF About
<1>7. \A p \in Requesters : p # q => About(p) \cap About(q) = {}
  BY DEF PtyInv, ApartInv
<1>8. ~Alive(req[q].child) /\ req[q].sid \in rows \cup {None}
  BY <1>1 DEF Alive, PtyInv, RequestInv
<1>9. None \notin rows
  BY <1>1 DEF TypeOK
<1> HIDE DEF r
<1> QED
  BY <1>1, <1>2, <1>3, <1>4, <1>5, <1>6, <1>7, <1>8, <1>9, RequestStep DEF Starting

LEMMA ResumeKeeps ==
    ASSUME PtyInv, ~Overlap, NEW s \in Sessions, Resume(s)
    PROVE  PtyInv'
<1> DEFINE q == Resumer
           r == [kind |-> "start", at |-> "check", sid |-> s, child |-> None]
<1>1. /\ q \in Requesters /\ req[q].at = "idle" /\ TypeOK
      /\ UNCHANGED <<child, ptys, rows, file, scan, server>>
      /\ queue' = queue \ {s} /\ s \in rows
      /\ req' = [req EXCEPT ![q] = r]
      /\ \A p \in Requesters : About(p) \cap {s} = {}
  BY DEF Resume, Free, Requesters, PtyInv, QueueInv
<1>2. req'[q] = r /\ \A p \in Requesters : p # q => req'[p] = req[p]
  BY <1>1, OneRequest
<1>3. TypeOK' /\ QueueInv'
  BY <1>1 DEF TypeOK, PtyInv, QueueInv, RequestStates
<1>4. req[q].child = None
  BY <1>1 DEF PtyInv, RequestInv
<1>5. About(q)' = {s}
  BY <1>2 DEF About
<1> HIDE DEF q
<1> QED
  BY <1>1, <1>2, <1>3, <1>4, <1>5, RequestStep DEF Starting

LEMMA SpawnKeeps ==
    ASSUME PtyInv, NEW q \in Requesters, Spawn(q)
    PROVE  PtyInv'
<1>1. CASE req' = [req EXCEPT ![q] = Idle] /\ UNCHANGED child
  <2>1. /\ req[q].at = "spawn" /\ TypeOK
        /\ UNCHANGED <<child, ptys, rows, queue, file, scan, server>>
    BY <1>1 DEF Spawn, PtyInv
  <2>2. req'[q] = Idle /\ \A p \in Requesters : p # q => req'[p] = req[p]
    BY <1>1, <2>1, OneRequest
  <2>3. TypeOK' /\ QueueInv'
    BY <1>1, <2>1 DEF TypeOK, PtyInv, QueueInv, RequestStates, Idle
  <2>4. req[q].child = None
    BY <2>1 DEF PtyInv, RequestInv
  <2>5. About(q)' = {}
    BY <2>2 DEF About, Idle
  <2> QED
    BY <2>1, <2>2, <2>3, <2>4, <2>5, RequestStep DEF Starting, Idle
<1>2. ASSUME NEW c \in Children, child[c].state = "none",
             child' = [child EXCEPT ![c] =
                          [state |-> "up", sid |-> req[q].sid, past |-> {}]],
             req' = [req EXCEPT ![q].at = "file", ![q].child = c]
      PROVE  PtyInv'
  <2> DEFINE s == req[q].sid
  <2>1. /\ req[q].at = "spawn" /\ TypeOK /\ req[q].child = None
        /\ s \in rows \cup {None} /\ rows \subseteq Sessions /\ scan.found \subseteq Sessions
        /\ UNCHANGED <<ptys, rows, queue, file, scan, server>>
    BY <1>2 DEF Spawn, PtyInv, RequestInv, TypeOK
  <2>2. /\ child'[c] = [state |-> "up", sid |-> s, past |-> {}]
        /\ \A d \in Children \ {c} : child'[d] = child[d]
    BY <1>2, <2>1 DEF TypeOK
  <2>0. req'[q] = [req[q] EXCEPT !.at = "file", !.child = c]
    BY <1>2, <2>1 DEF TypeOK
  <2>3. \A p \in Requesters : p # q => req'[p] = req[p]
    BY <1>2, <2>1 DEF TypeOK
  <2>4. req'[q].at = "file" /\ req'[q].child = c /\ req'[q].sid = s
    BY <2>0, <2>1, ReqType DEF RequestStates
  <2>5. /\ child[c] = NoChild /\ Filed(c) = {} /\ scan.runs[c] = None
        /\ \A p \in Requesters : req[p].child # c
    BY <1>2 DEF PtyInv, ChildInv
  <2>6. TypeOK'
    <3>1. child' \in [Children -> ChildStates]
      BY <1>2, <2>1 DEF TypeOK, ChildStates
    <3>2. req'[q] \in RequestStates /\ req'[q].kind = req[q].kind
      BY <2>0, <2>1, ReqType DEF RequestStates
    <3>3. req' \in [Requesters -> RequestStates]
      <4>1. req' = [p \in Requesters |-> req'[p]]
        BY <1>2, <2>1, Zenon DEF TypeOK
      <4>2. \A p \in Requesters : req'[p] \in RequestStates
        BY <2>1, <2>3, <3>2, ReqType
      <4> QED
        BY ONLY <4>1, <4>2, Zenon
    <3>4. \A p \in Requesters : req'[p].kind = "restart" => req'[p].sid \in rows
      BY <2>1, <2>3, <2>4, <3>2 DEF TypeOK
    <3> QED
      BY <2>1, <3>1, <3>3, <3>4 DEF TypeOK
  <2>7. /\ Ran(c) = {} /\ Ran(c)' = {s} \ {None} /\ Alive(c)' /\ ~Alive(c)
        /\ \A d \in Children \ {c} : Ran(d)' = Ran(d) /\ Alive(d)' = Alive(d)
        /\ \A d \in Children : Filed(d)' = Filed(d)
        /\ ~Alive(None) /\ ~Alive(None)'
        /\ c # None
    BY <2>1, <2>2, <2>5 DEF Ran, Filed, Alive, NoChild
  <2>8. \A p \in Requesters : About(p)' = About(p)
    BY <2>1, <2>3, <2>4, <2>5, <2>7, ReqType DEF About
  <2>9. /\ InHand(c)'
        /\ \A d \in Children : InHand(d) => InHand(d)'
    BY <2>1, <2>3, <2>4 DEF InHand
  <2>10. \A p \in Requesters : /\ req[p].child \in Children \cup {None}
                               /\ Starting(p)' = Starting(p) /\ req'[p].sid = req[p].sid
    BY <2>1, <2>3, <2>4, ReqType DEF Starting
  <2>11. ptys \in [Keys -> Children \cup {None}] /\ \A k \in Keys : ptys[k] # c
    BY <2>1, <2>5 DEF TypeOK, Filed
  <2> HIDE DEF s
  <2>12. RequestInv'
    BY <2>1, <2>3, <2>4, <2>5, <2>7, <2>10, <2>11 DEF PtyInv, RequestInv, Keys
  <2>13. FileInv'
    BY <2>1, <2>2, <2>3, <2>4, <2>5, <2>7, <2>10 DEF PtyInv, FileInv, RequestInv
  <2>14. ApartInv'
    BY <2>3, <2>4, <2>5, <2>7, <2>8, <2>10 DEF PtyInv, ApartInv
  <2>15. ChildInv'
    BY <2>1, <2>2, <2>3, <2>4, <2>5, <2>7 DEF PtyInv, ChildInv
  <2>16. QueueInv'
    BY <2>1 DEF PtyInv, QueueInv
  <2>17. FiledInv'
    BY <2>1, <2>2, <2>7, <2>9 DEF PtyInv, FiledInv
  <2>18. ReachInv'
    BY <2>7, <2>9, <2>10 DEF PtyInv, ReachInv
  <2>19. \A d \in Children : Alive(d) => child[d].sid = None \/ child[d].sid # s
    BY <2>1 DEF PtyInv, StartInv, Starting, s, Alive
  <2>20. StartInv'
    <3> SUFFICES ASSUME NEW p \in Requesters, Starting(p), req[p].sid # None,
                        NEW d \in Children, Alive(d)', child'[d].sid = req[p].sid
                 PROVE  d = req'[p].child
      BY <2>10 DEF StartInv
    <3>1. CASE p = q
      BY <3>1, <2>2, <2>4, <2>7, <2>19 DEF s
    <3>2. CASE p # q /\ d = c
      <4>1. req[p].sid \in About(p) \cap About(q)
        BY <3>2, <2>2 DEF About, s
      <4> QED
        BY <3>2, <4>1 DEF PtyInv, ApartInv
    <3>3. CASE p # q /\ d # c
      BY <3>3, <2>2, <2>3, <2>7 DEF PtyInv, StartInv
    <3> QED
      BY <3>1, <3>2, <3>3
  <2>21. ScanInv'
    BY <2>1, <2>2, <2>7, <2>9 DEF PtyInv, ScanInv
  <2>22. OneClaudePerConversation'
    BY <2>2, <2>7, <2>19 DEF PtyInv, OneClaudePerConversation
  <2>23. KeysNameTheirConversations'
    BY <2>1, <2>7, <2>11 DEF PtyInv, KeysNameTheirConversations, Keys
  <2> QED
    BY <2>6, <2>12, <2>13, <2>14, <2>15, <2>16, <2>17, <2>18, <2>20, <2>21, <2>22, <2>23
       DEF PtyInv
<1> QED
  BY <1>1, <1>2 DEF Spawn

LEMMA FileKeeps ==
    ASSUME PtyInv, NEW q \in Requesters, File(q)
    PROVE  PtyInv'
<1>0. PICK c \in Children : c = req[q].child
  BY ReqType DEF File, PtyInv, RequestInv
<1> DEFINE s == req[q].sid
           name == IF s = None THEN c ELSE s
<1>1. /\ req[q].at = "file" /\ TypeOK
      /\ ptys' = [ptys EXCEPT ![name] = c] /\ req' = [req EXCEPT ![q] = Idle]
      /\ UNCHANGED <<child, rows, queue, file, scan, server>>
  BY <1>0 DEF File, PtyInv
<1>2. /\ c \in Children /\ c # None /\ s \in rows \cup {None} /\ rows \subseteq Sessions
      /\ scan.found \subseteq Sessions
      /\ child[c].sid = s /\ child[c].state # "none" /\ Filed(c) = {} /\ scan.runs[c] = None
      /\ \A p \in Requesters : p # q => req[p].child # c
  BY <1>0, <1>1 DEF PtyInv, RequestInv, FileInv, TypeOK
<1>3. req'[q] = Idle /\ \A p \in Requesters : p # q => req'[p] = req[p]
  BY <1>1, OneRequest
<1>4. name \in Keys /\ name # None /\ (name \in Children => name = c) /\ (s # None => name = s)
  BY <1>2 DEF Keys
<1> HIDE DEF name, s
<1>5. ptys'[name] = c /\ \A k \in Keys \ {name} : ptys'[k] = ptys[k]
  BY <1>1, <1>4 DEF TypeOK
<1>6. /\ Filed(c)' = {name}
      /\ \A d \in Children \ {c} : Filed(d)' = Filed(d) \ {name}
  BY <1>2, <1>4, <1>5 DEF Filed
<1>7. /\ \A d \in Children : Ran(d)' = Ran(d)
      /\ \A d : Alive(d)' = Alive(d)
  BY <1>1 DEF Ran, Alive
<1>8. About(q)' = {} /\ \A p \in Requesters : p # q => About(p)' = About(p)
  BY <1>1, <1>3 DEF About, Idle, Ran
<1>9. \A d \in Children : d # c => (InHand(d) <=> InHand(d)')
  BY <1>0, <1>2, <1>3 DEF InHand, Idle
<1>10. ptys \in [Keys -> Children \cup {None}] /\ \A k \in Keys : ptys[k] # c
  BY <1>1, <1>2 DEF TypeOK, Filed
<1>11. \A p \in Requesters : req[p].child \in Children \cup {None} /\ req[p].sid \in Sessions \cup {None}
  BY <1>1, ReqType
<1>12. TypeOK'
  BY <1>1, <1>2, <1>4 DEF TypeOK, RequestStates, Idle
<1>13. RequestInv'
  <2> SUFFICES ASSUME NEW p \in Requesters, p # q, req[p].at \in {"file", "removed", "closing"}
               PROVE  ptys'[req[p].child] # req[p].child
    BY <1>1, <1>3, <1>7, <1>11 DEF PtyInv, RequestInv, Idle, Alive, Ran
  <2> QED
    BY <1>2, <1>4, <1>5, <1>11 DEF PtyInv, RequestInv, Keys
<1>14. FileInv'
  <2> SUFFICES ASSUME NEW p \in Requesters, p # q, req[p].at = "file",
                      NEW d \in Children, d = req[p].child
               PROVE  Filed(d)' = {}
    BY <1>1, <1>2, <1>3, <1>11 DEF PtyInv, FileInv, RequestInv, Idle
  <2>1. d # c /\ Filed(d) = {}
    BY <1>2 DEF PtyInv, FileInv
  <2> QED
    BY <1>6, <2>1
<1>15. ApartInv'
  BY <1>1, <1>3, <1>7, <1>8 DEF PtyInv, ApartInv, Idle, Alive
<1>16. ChildInv'
  <2>1. \A d \in Children : ptys'[d] \in {d, None}
    BY <1>4, <1>5 DEF PtyInv, ChildInv, Keys
  <2>2. ASSUME NEW d \in Children, child[d].state = "none"
        PROVE  Filed(d)' = {} /\ \A p \in Requesters : req'[p].child # d
    BY <1>2, <1>3, <1>6, <2>2 DEF PtyInv, ChildInv, Idle
  <2> QED
    BY <1>1, <1>7, <2>1, <2>2 DEF PtyInv, ChildInv
<1>17. QueueInv'
  BY <1>1 DEF PtyInv, QueueInv
<1>18. \A d \in Children : Alive(d) /\ d # c => child[d].sid # name
  <2> SUFFICES ASSUME NEW d \in Children, Alive(d), d # c, child[d].sid = name PROVE FALSE
    OBVIOUS
  <2>1. name \in Sessions /\ s = name
    BY <1>2, <1>4 DEF TypeOK, ChildStates, PtyInv, name
  <2> QED
    BY <1>0, <1>1, <1>4, <2>1 DEF PtyInv, StartInv, Starting, s
<1>19. FiledInv'
  <2> SUFFICES ASSUME NEW d \in Children, Alive(d), child[d].sid # None, ~InHand(d)'
               PROVE  \/ ptys'[child[d].sid] = d
                      \/ ptys'[child[d].sid] = None /\ child[d].sid \notin rows
    BY <1>1, <1>7 DEF FiledInv
  <2>1. CASE d = c
    BY <2>1, <1>2, <1>4, <1>5
  <2>2. CASE d # c
    <3>1. child[d].sid \in Keys \ {name}
      BY <2>2, <1>18, <1>1 DEF TypeOK, ChildStates, Keys
    <3> QED
      BY <2>2, <3>1, <1>5, <1>9 DEF PtyInv, FiledInv
  <2> QED
    BY <2>1, <2>2
<1>20. ReachInv'
  <2> SUFFICES ASSUME NEW d \in Children, Alive(d), ~InHand(d)'
               PROVE  \E k \in Filed(d)' :
                         \A p \in Requesters : Starting(p)' => req'[p].sid # k
    BY <1>7 DEF ReachInv
  <2>1. CASE d = c
    <3>1. ASSUME NEW p \in Requesters, Starting(p)', req'[p].sid = name PROVE FALSE
      <4>1. p # q /\ req[p].sid = name
        BY <3>1, <1>3 DEF Starting, Idle
      <4>2. name \in Sessions /\ s = name
        BY <1>4, <1>11, <4>1 DEF name
      <4>3. name \in About(p) \cap About(q)
        BY <1>4, <4>1, <4>2 DEF About, s
      <4> QED
        BY <4>1, <4>3 DEF PtyInv, ApartInv
    <3> QED
      BY <2>1, <3>1, <1>6
  <2>2. CASE d # c
    <3>1. PICK k \in Filed(d) : \A p \in Requesters : Starting(p) => req[p].sid # k
      BY <2>2, <1>9 DEF PtyInv, ReachInv
    <3>2. k # name
      <4>1. CASE s # None
        BY <4>1, <3>1, <1>1, <1>4 DEF Starting, s
      <4>2. CASE s = None
        BY <4>2, <2>2, <3>1, <1>2 DEF name, Filed, PtyInv, ChildInv, Alive
      <4> QED
        BY <4>1, <4>2
    <3> QED
      BY <2>2, <3>1, <3>2, <1>3, <1>6 DEF Starting, Idle
  <2> QED
    BY <2>1, <2>2
<1>21. StartInv'
  BY <1>1, <1>3, <1>7 DEF PtyInv, StartInv, Starting, Idle
<1>22. ScanInv'
  <2> SUFFICES ASSUME NEW d \in Children, Alive(d), child[d].sid \in scan.found \ rows
               PROVE  /\ child[d].past = {}
                      /\ scan.at = "seen" => scan.runs[d] = child[d].sid
                      /\ scan.at = "looked" /\ ptys'[child[d].sid] = None /\ ~InHand(d)'
                         => scan.runs[d] = child[d].sid
    BY <1>1, <1>7 DEF ScanInv
  <2>1. d # c /\ child[d].sid \in Keys
    BY <1>2 DEF Keys
  <2>2. ptys'[child[d].sid] = None => ptys[child[d].sid] = None
    BY <2>1, <1>2, <1>5
  <2> QED
    BY <2>1, <2>2, <1>9 DEF PtyInv, ScanInv
<1>23. OneClaudePerConversation'
  BY <1>1, <1>7 DEF PtyInv, OneClaudePerConversation
<1>24. KeysNameTheirConversations'
  <2> SUFFICES ASSUME NEW t \in Sessions, Alive(ptys'[t]) PROVE t \in Ran(ptys'[t])
    BY <1>1 DEF KeysNameTheirConversations, Alive, Ran
  <2>1. CASE t = name
    BY <2>1, <1>2, <1>4, <1>5 DEF Ran, name
  <2>2. CASE t # name
    BY <2>2, <1>1, <1>5 DEF PtyInv, KeysNameTheirConversations, Keys
  <2> QED
    BY <2>1, <2>2
<1> QED
  BY <1>12, <1>13, <1>14, <1>15, <1>16, <1>17, <1>19, <1>20, <1>21, <1>22, <1>23, <1>24
     DEF PtyInv

LEMMA KeysDropped ==
    ASSUME TypeOK, NEW c \in Children, ptys' = Without(c)
    PROVE  /\ Filed(c)' = {}
           /\ \A d \in Children \ {c} : Filed(d)' = Filed(d)
           /\ ptys' \in [Keys -> Children \cup {None}]
           /\ \A k \in Keys : /\ ptys'[k] # c
                              /\ ptys'[k] = ptys[k] \/ (ptys[k] = c /\ ptys'[k] = None)
BY DEF TypeOK, Without, Filed

\* A request takes all keys of c off the map.
LEMMA RemovalStep ==
    ASSUME PtyInv, NEW q \in Requesters, NEW c \in Children, TypeOK',
           UNCHANGED <<child, rows, queue, file, scan>>,
           ptys' = Without(c),
           \A p \in Requesters : p # q => req'[p] = req[p],
           req'[q].at = "removed", req'[q].child = c,
           req'[q].sid \in rows \cup {None},
           req[q].at \in {"idle", "found"}, req[q].child \in {c, None},
           child[c].state # "none",
           \A p \in Requesters : p # q =>
              /\ About(p) \cap About(q)' = {}
              /\ req[p].child = c => ~Alive(c) /\ req[p].at # "file"
    PROVE  PtyInv'
<1> USE DEF PtyInv
<1>1. /\ \A d \in Children : Ran(d)' = Ran(d)
      /\ \A d : Alive(d)' = Alive(d)
      /\ ~Alive(None)
  BY DEF Ran, Alive
<1>2. \A p \in Requesters : p # q => About(p)' = About(p)
  BY DEF About, Ran
<1>3. InHand(c)' /\ \A d \in Children : InHand(d) => InHand(d)'
  BY DEF InHand
<1>4. \A p \in Requesters : /\ req[p].child \in Children \cup {None}
                            /\ req[p].sid \in Sessions \cup {None}
  BY ReqType
<1>5. /\ Filed(c)' = {}
      /\ \A d \in Children \ {c} : Filed(d)' = Filed(d)
      /\ \A k \in Keys : /\ ptys'[k] # c
                         /\ ptys'[k] = ptys[k] \/ (ptys[k] = c /\ ptys'[k] = None)
  BY KeysDropped
<1>6. ptys \in [Keys -> Children \cup {None}] /\ c # None
  BY DEF TypeOK
<1>7. RequestInv'
  <2>1. ASSUME NEW p \in Requesters, req'[p].at \in {"file", "removed", "closing"}
        PROVE  ptys'[req'[p].child] # req'[p].child
    BY <2>1, <1>4, <1>5, <1>6 DEF RequestInv, Keys
  <2>2. ASSUME NEW p \in Requesters, p # q
        PROVE  /\ req'[p].sid \in rows' \cup {None}
               /\ req'[p].at \in {"idle", "spawn", "check"} <=> req'[p].child = None
               /\ req'[p].at \in {"found", "check"} => req'[p].sid # None
               /\ (req'[p].at = "found" /\ Alive(req[p].child)
                      => req'[p].sid \in Ran(req[p].child))
               /\ Alive(req[p].child)' = Alive(req[p].child)
               /\ Alive(req[p].child) => Ran(req[p].child)' = Ran(req[p].child)
    BY <2>2 DEF RequestInv, Alive, Ran
  <2> QED
    BY <1>6, <2>1, <2>2 DEF RequestInv, Alive, Ran
<1>8. FileInv'
  <2> SUFFICES ASSUME NEW p \in Requesters, p # q, req[p].at = "file",
                      NEW d \in Children, d = req[p].child
               PROVE  Filed(d)' = {} /\ d # c
    BY <1>4, SMTT(40) DEF FileInv, RequestInv
  <2>1. Filed(d) = {}
    BY DEF FileInv
  <2> QED
    BY <1>5, <2>1
<1>9. ApartInv'
  BY <1>1, <1>2 DEF ApartInv
<1>10. ChildInv'
  <2>1. ASSUME NEW d \in Children
        PROVE  ptys'[d] \in {d, None}
    BY <1>5, <1>6 DEF ChildInv, Keys
  <2>2. ASSUME NEW d \in Children, child[d].state = "none"
        PROVE  Filed(d)' = {} /\ \A p \in Requesters : req'[p].child # d
    BY <2>2, <1>5 DEF ChildInv
  <2> QED
    BY <1>1, <2>1, <2>2 DEF ChildInv
<1>11. QueueInv'
  BY DEF QueueInv
<1>12. FiledInv'
  <2> SUFFICES ASSUME NEW d \in Children, Alive(d), child[d].sid # None, ~InHand(d)'
               PROVE  \/ ptys'[child[d].sid] = d
                      \/ ptys'[child[d].sid] = None /\ child[d].sid \notin rows
    BY <1>1 DEF FiledInv
  <2>1. d # c /\ child[d].sid \in Keys /\ ~InHand(d)
    BY <1>3 DEF TypeOK, ChildStates, Keys
  <2> QED
    BY <2>1, <1>5 DEF FiledInv
<1>13. ReachInv'
  <2> SUFFICES ASSUME NEW d \in Children, Alive(d), ~InHand(d)'
               PROVE  \E k \in Filed(d)' :
                         \A p \in Requesters : Starting(p)' => req'[p].sid # k
    BY <1>1 DEF ReachInv
  <2>1. d # c /\ ~InHand(d)
    BY <1>3
  <2> QED
    BY <2>1, <1>5 DEF ReachInv, Starting
<1>14. StartInv'
  BY <1>1 DEF StartInv, Starting
<1>15. ScanInv'
  <2> SUFFICES ASSUME NEW d \in Children, Alive(d), child[d].sid \in scan.found \ rows
               PROVE  /\ child[d].past = {}
                      /\ scan.at = "seen" => scan.runs[d] = child[d].sid
                      /\ scan.at = "looked" /\ ptys'[child[d].sid] = None /\ ~InHand(d)'
                         => scan.runs[d] = child[d].sid
    BY <1>1 DEF ScanInv
  <2>1. child[d].sid \in Keys /\ child[d].sid # None
    BY DEF TypeOK, Keys
  <2>2. ptys'[child[d].sid] = None /\ ~InHand(d)' => ptys[child[d].sid] = None
    <3> SUFFICES ASSUME ~InHand(d)', ptys[child[d].sid] = c PROVE FALSE
      BY <1>5, <2>1
    <3> QED
      BY <1>3, <1>6, <2>1 DEF FiledInv
  <2> QED
    BY <2>2, <1>3 DEF ScanInv
<1>16. OneClaudePerConversation'
  BY <1>1 DEF OneClaudePerConversation
<1>17. KeysNameTheirConversations'
  <2> SUFFICES ASSUME NEW t \in Sessions, Alive(ptys'[t]) PROVE t \in Ran(ptys'[t])
    BY DEF KeysNameTheirConversations, Alive, Ran
  <2> QED
    BY <1>1, <1>5 DEF KeysNameTheirConversations, Keys
<1> QED
  BY <1>7, <1>8, <1>9, <1>10, <1>11, <1>12, <1>13, <1>14, <1>15, <1>16, <1>17

LEMMA RemoveKeysKeeps ==
    ASSUME PtyInv, NEW q \in Requesters, RemoveKeys(q)
    PROVE  PtyInv'
<1>0. PICK c \in Children : c = req[q].child
  BY ReqType DEF RemoveKeys, PtyInv, RequestInv
<1>1. /\ req[q].at = "found" /\ TypeOK
      /\ UNCHANGED <<child, rows, queue, file, scan, server>>
      /\ ptys' = Without(c) /\ req' = [req EXCEPT ![q].at = "removed"]
  BY <1>0 DEF RemoveKeys, PtyInv
<1>2. req'[q] = [req[q] EXCEPT !.at = "removed"] /\ \A p \in Requesters : p # q => req'[p] = req[p]
  BY <1>1 DEF TypeOK
<1>3. req'[q].at = "removed" /\ req'[q].child = c /\ req'[q].sid = req[q].sid
  BY <1>0, <1>1, <1>2, ReqType DEF RequestStates
<1>4. TypeOK'
  BY <1>0, <1>1, KeysDropped DEF TypeOK, RequestStates
<1>5. About(q)' = About(q)
  BY <1>0, <1>1, <1>3 DEF About, Ran
<1>6. /\ req[q].sid \in rows \cup {None} /\ child[c].state # "none"
      /\ \A p \in Requesters : p # q =>
            /\ About(p) \cap About(q) = {}
            /\ req[p].child = c => ~Alive(c) /\ req[p].at # "file"
  BY <1>0 DEF PtyInv, RequestInv, ChildInv, ApartInv, FileInv
<1> QED
  BY <1>0, <1>1, <1>2, <1>3, <1>4, <1>5, <1>6, RemovalStep

LEMMA DeletePTYKeeps ==
    ASSUME PtyInv, ~Overlap, NEW q \in Clients, NEW name \in Keys, DeletePTY(q, name)
    PROVE  PtyInv'
<1> DEFINE r == [kind |-> "close", at |-> "removed", sid |-> None, child |-> ptys[name]]
<1>0. PICK c \in Children : c = ptys[name]
  BY DEF DeletePTY, PtyInv, TypeOK
<1>1. /\ q \in Requesters /\ req[q].at = "idle" /\ TypeOK
      /\ UNCHANGED <<child, rows, queue, file, scan, server>>
      /\ ptys' = Without(c) /\ req' = [req EXCEPT ![q] = r]
      /\ \A p \in Requesters : About(p) \cap Ran(c) = {}
  BY <1>0 DEF DeletePTY, Free, Requesters, PtyInv
<1>2. req'[q] = r /\ \A p \in Requesters : p # q => req'[p] = req[p]
  BY <1>1, OneRequest, ZenonT(60)
<1>3. TypeOK'
  BY <1>0, <1>1, KeysDropped DEF TypeOK, RequestStates
<1>4. About(q)' = Ran(c)
  BY <1>0, <1>1, <1>2 DEF About, Ran, TypeOK
<1>5. name \in Filed(c) /\ child[c].state # "none" /\ req[q].child = None
  BY <1>0, <1>1 DEF Filed, PtyInv, ChildInv, RequestInv
<1>6. ASSUME NEW p \in Requesters, req[p].child = c, Alive(c) PROVE FALSE
  <2>1. Ran(c) = {}
    BY <1>1, <1>6 DEF About, Alive
  <2>2. name = c
    BY <1>0, <1>6, <2>1 DEF PtyInv, KeysNameTheirConversations, ChildInv, Keys, Alive
  <2>3. req[p].at \in {"file", "removed", "closing"}
    BY <1>6, <2>1, ReqType DEF PtyInv, RequestInv, Alive
  <2> QED
    BY <1>0, <1>6, <2>2, <2>3 DEF PtyInv, RequestInv
<1>7. \A p \in Requesters : req[p].child = c => req[p].at # "file"
  BY <1>5 DEF PtyInv, FileInv
<1> QED
  BY <1>0, <1>1, <1>2, <1>3, <1>4, <1>5, <1>6, <1>7, RemovalStep

-----------------------------------------------------------------------------
(* Claudes                                                                     *)

\* Claudes that end keep their sessions and their keys.
LEMMA EndingStep ==
    ASSUME PtyInv, TypeOK', UNCHANGED <<ptys, rows, queue, file, scan>>,
           \A c \in Children :
              /\ child'[c].sid = child[c].sid /\ child'[c].past = child[c].past
              /\ \/ child'[c] = child[c]
                 \/ /\ child[c].state \in {"up", "ending"}
                    /\ child'[c].state \in {"ending", "gone"},
           \A q \in Requesters :
              /\ req'[q].sid = req[q].sid /\ req'[q].child = req[q].child
              /\ req'[q].at = req[q].at \/ (req[q].at = "removed" /\ req'[q].at = "closing")
              /\ req[q].at = "file" => child'[req[q].child].state \in {"up", "gone"}
    PROVE  PtyInv'
<1> USE DEF PtyInv
<1>1. /\ \A c \in Children : Ran(c)' = Ran(c) /\ Filed(c)' = Filed(c) /\ (Alive(c)' => Alive(c))
      /\ ~Alive(None)' /\ ~Alive(None)
  BY DEF Ran, Filed, Alive
<1>2. \A q \in Requesters :
          /\ req[q].child \in Children \cup {None}
          /\ Starting(q)' = Starting(q)
          /\ req'[q].at = "found" <=> req[q].at = "found"
          /\ req'[q].at = "file" <=> req[q].at = "file"
          /\ req'[q].at \in {"idle", "spawn", "check"} <=> req[q].at \in {"idle", "spawn", "check"}
          /\ req'[q].at \in {"found", "check"} <=> req[q].at \in {"found", "check"}
          /\ req'[q].at \in {"file", "removed", "closing"} <=>
                req[q].at \in {"file", "removed", "closing"}
  BY ReqType DEF Starting
<1>3. \A q \in Requesters : About(q)' = About(q)
  BY <1>2 DEF About, Ran
<1>4. \A c \in Children : InHand(c)' = InHand(c)
  BY <1>2 DEF InHand
<1>5. \A q \in Requesters : req[q].child \in Children =>
          /\ Ran(req[q].child)' = Ran(req[q].child)
          /\ Alive(req[q].child)' => Alive(req[q].child)
  BY DEF Ran, Alive
<1>6. RequestInv'
  BY <1>1, <1>2, <1>5 DEF RequestInv
<1>7. FileInv'
  <2> SUFFICES ASSUME NEW q \in Requesters, req[q].at = "file",
                      NEW c \in Children, c = req[q].child
               PROVE  /\ child'[c].state \in {"up", "gone"}
                      /\ child'[c].sid = req[q].sid /\ child'[c].past = {}
                      /\ Filed(c)' = {} /\ scan.runs[c] = None
                      /\ \A p \in Requesters : p # q => req[p].child # c
    BY <1>2 DEF FileInv, RequestInv
  <2> QED
    BY <1>1 DEF FileInv
<1>8. ApartInv'
  BY <1>1, <1>2, <1>3, <1>5 DEF ApartInv
<1>9. ChildInv'
  BY <1>1, <1>2 DEF ChildInv
<1>10. QueueInv'
  BY DEF QueueInv
<1>11. FiledInv' /\ ReachInv' /\ ScanInv'
  BY <1>1, <1>2, <1>4 DEF FiledInv, ReachInv, ScanInv
<1>12. StartInv'
  BY <1>1, <1>2 DEF StartInv
<1>13. OneClaudePerConversation'
  BY <1>1 DEF OneClaudePerConversation
<1>14. KeysNameTheirConversations'
  <2> SUFFICES ASSUME NEW s \in Sessions, Alive(ptys[s])' PROVE s \in Ran(ptys[s])'
    BY DEF KeysNameTheirConversations
  <2>1. ptys[s] \in Children
    BY <1>1 DEF TypeOK, Keys, Alive
  <2>2. Alive(ptys[s]) /\ Ran(ptys[s])' = Ran(ptys[s])
    BY <2>1 DEF Alive, Ran
  <2> QED
    BY <2>2 DEF KeysNameTheirConversations
<1> QED
  BY <1>6, <1>7, <1>8, <1>9, <1>10, <1>11, <1>12, <1>13, <1>14

LEMMA CloseKeeps ==
    ASSUME PtyInv, NEW q \in Requesters, Close(q)
    PROVE  PtyInv'
<1>0. PICK c \in Children : c = req[q].child
  BY ReqType DEF Close, PtyInv, RequestInv
<1>1. /\ req[q].at = "removed" /\ TypeOK
      /\ UNCHANGED <<ptys, rows, queue, file, scan, server>>
      /\ child' = [child EXCEPT ![c].state = Ending(@)]
      /\ req' = [req EXCEPT ![q].at = "closing"]
  BY <1>0 DEF Close, PtyInv
<1>2. child \in [Children -> ChildStates]
  BY <1>1 DEF TypeOK
<1>3. /\ child'[c] = [child[c] EXCEPT !.state = Ending(child[c].state)]
      /\ \A d \in Children : d # c => child'[d] = child[d]
  BY <1>1, <1>2
<1>4. /\ child'[c].sid = child[c].sid /\ child'[c].past = child[c].past
      /\ child'[c].state = Ending(child[c].state)
      /\ child[c].state # "up" => child'[c] = child[c]
      /\ child'[c] \in ChildStates
  BY <1>2, <1>3 DEF ChildStates, Ending
<1>5. /\ req'[q] = [req[q] EXCEPT !.at = "closing"]
      /\ \A p \in Requesters : p # q => req'[p] = req[p]
  BY <1>1 DEF TypeOK
<1>6. /\ req'[q].at = "closing" /\ req'[q].child = c /\ req'[q].sid = req[q].sid
      /\ req'[q].kind = req[q].kind
  BY <1>0, <1>1, <1>5, ReqType DEF RequestStates
<1>7. TypeOK'
  <2>1. child' \in [Children -> ChildStates]
    BY <1>1, <1>2, <1>4
  <2>2. req' \in [Requesters -> RequestStates]
    BY <1>1 DEF TypeOK, RequestStates
  <2> QED
    BY <1>1, <1>5, <1>6, <2>1, <2>2 DEF TypeOK
<1>8. \A p \in Requesters : req[p].at = "file" =>
          /\ p # q /\ req[p].child # c /\ req[p].child \in Children
          /\ child[req[p].child].state \in {"up", "gone"}
  BY <1>0, <1>1, ReqType DEF PtyInv, FileInv, RequestInv
<1>9. \A d \in Children :
          /\ child'[d].sid = child[d].sid /\ child'[d].past = child[d].past
          /\ \/ child'[d] = child[d]
             \/ child[d].state \in {"up", "ending"} /\ child'[d].state \in {"ending", "gone"}
  BY <1>3, <1>4 DEF Ending
<1> QED
  BY <1>0, <1>1, <1>3, <1>5, <1>6, <1>7, <1>8, <1>9, EndingStep

LEMMA ExitKeeps ==
    ASSUME PtyInv, NEW c \in Children, Exit(c)
    PROVE  PtyInv'
<1>1. /\ child[c].state \in {"up", "ending"} /\ TypeOK
      /\ UNCHANGED <<ptys, rows, req, queue, file, scan, server>>
      /\ child' = [child EXCEPT ![c].state = "gone"]
  BY DEF Exit, PtyInv
<1>2. child \in [Children -> ChildStates]
  BY <1>1 DEF TypeOK
<1>3. /\ child'[c] = [child[c] EXCEPT !.state = "gone"]
      /\ \A d \in Children : d # c => child'[d] = child[d]
  BY <1>1, <1>2
<1>4. /\ child'[c].sid = child[c].sid /\ child'[c].past = child[c].past
      /\ child'[c].state = "gone"
  BY <1>2, <1>3 DEF ChildStates
<1>5. TypeOK'
  BY <1>1 DEF TypeOK, ChildStates
<1>6. \A p \in Requesters : req[p].at = "file" =>
          req[p].child \in Children /\ child'[req[p].child].state \in {"up", "gone"}
  BY <1>1, <1>3, <1>4, ReqType DEF PtyInv, FileInv, RequestInv
<1> QED
  BY <1>1, <1>3, <1>4, <1>5, <1>6, EndingStep

\* A live claude takes a session nobody uses.
LEMMA NamedStep ==
    ASSUME PtyInv, TypeOK', UNCHANGED <<ptys, rows, req, queue, file, scan>>,
           NEW c \in Children, child[c].state = "up", Settled(c),
           NEW s \in Unused,
           \A d \in Children : d # c => child'[d] = child[d],
           child'[c].state = "up", child'[c].sid = s, Ran(c)' = Ran(c) \cup {s}
    PROVE  PtyInv'
<1> USE DEF PtyInv
<1>1. /\ s \in Sessions /\ s \notin rows /\ s \notin scan.found /\ ptys[s] = None /\ s # None
      /\ \A d \in Children : s \notin Ran(d) /\ s # scan.runs[d]
  BY DEF Unused
<1>2. /\ \A d \in Children : d # c => Ran(d)' = Ran(d) /\ child[d].sid \in Ran(d) \cup {None}
      /\ \A d \in Children : Filed(d)' = Filed(d) /\ Alive(d)' = Alive(d)
      /\ ~Alive(None)' /\ ~Alive(None) /\ Alive(c)
  BY DEF Ran, Filed, Alive
<1>3. \A q \in Requesters :
          /\ req[q].child \in Children \cup {None} /\ req[q].sid \in rows \cup {None}
          /\ req[q].sid # s
  BY <1>1, ReqType DEF RequestInv
<1>4. \A q \in Requesters :
          /\ s \notin About(q)
          /\ About(q)' = About(q) \cup IF req[q].child = c THEN {s} ELSE {}
  BY <1>1, <1>2, <1>3 DEF About
<1>5. \A d \in Children : InHand(d)' = InHand(d)
  BY DEF InHand
<1>6. RequestInv'
  <2> SUFFICES ASSUME NEW q \in Requesters, req[q].at = "found", Alive(req[q].child)'
               PROVE  req[q].sid \in Ran(req[q].child)'
    BY DEF RequestInv
  <2>1. PICK d \in Children : d = req[q].child
    BY <1>2, <1>3
  <2>2. req[q].sid \in Ran(d)
    BY <1>2, <2>1 DEF RequestInv, Alive
  <2>3. req[q].sid \in Ran(d)'
    BY <1>2, <2>2
  <2> QED
    BY <2>1, <2>3 DEF Ran
<1>7. FileInv'
  <2> SUFFICES ASSUME NEW q \in Requesters, req[q].at = "file",
                      NEW d \in Children, d = req[q].child
               PROVE  /\ child'[d].state \in {"up", "gone"}
                      /\ child'[d].sid = req[q].sid /\ child'[d].past = {}
                      /\ Filed(d)' = {} /\ scan.runs[d] = None
                      /\ \A p \in Requesters : p # q => req[p].child # d
    BY <1>3 DEF FileInv, RequestInv
  <2> QED
    BY <1>2 DEF FileInv, Settled
<1>8. ApartInv'
  <2> SUFFICES ASSUME NEW p \in Requesters, NEW q \in Requesters, p # q
               PROVE  /\ About(p)' \cap About(q)' = {}
                      /\ req[p].child = req[q].child => ~Alive(req[p].child)'
    BY DEF ApartInv
  <2>1. req[p].child = req[q].child => ~Alive(req[p].child) /\ req[p].child # c
    BY <1>2 DEF ApartInv
  <2>2. req[p].child = req[q].child => ~Alive(req[p].child)'
    BY <1>3, <2>1 DEF Alive
  <2>3. About(p) \cap About(q) = {}
    BY DEF ApartInv
  <2> QED
    BY <1>4, <2>1, <2>2, <2>3
<1>9. ChildInv'
  <2>1. ASSUME NEW d \in Children
        PROVE  /\ ptys[d] \in {d, None}
               /\ child'[d].state = "none" =>
                     /\ child'[d] = NoChild /\ Filed(d)' = {} /\ scan.runs[d] = None
                     /\ \A q \in Requesters : req[q].child # d
               /\ Alive(d)' /\ scan.runs[d] # None => scan.runs[d] \in Ran(d)'
    BY <1>2 DEF ChildInv
  <2>2. ASSUME NEW d \in Children, NEW e \in Children \ {d}
        PROVE  Ran(d)' \cap (Ran(e)' \cup {scan.runs[e]}) \subseteq rows
    <3>1. Ran(d) \cap (Ran(e) \cup {scan.runs[e]}) \subseteq rows
      BY DEF ChildInv
    <3>2. /\ Ran(d)' = Ran(d) \cup IF d = c THEN {s} ELSE {}
          /\ Ran(e)' = Ran(e) \cup IF e = c THEN {s} ELSE {}
      BY <1>2
    <3> QED
      BY <1>1, <3>1, <3>2
  <2> QED
    BY <2>1, <2>2 DEF ChildInv
<1>10. QueueInv'
  BY DEF QueueInv
<1>11. FiledInv'
  BY <1>1, <1>2, <1>5 DEF FiledInv
<1>12. ReachInv'
  BY <1>2, <1>5 DEF ReachInv, Starting
<1>13. StartInv'
  BY <1>2, <1>3 DEF StartInv, Starting
<1>14. ScanInv'
  BY <1>1, <1>2, <1>5 DEF ScanInv
<1>15. OneClaudePerConversation'
  <2> SUFFICES ASSUME NEW d \in Children, NEW e \in Children, d # e, Alive(d)', Alive(e)',
                      child'[d].sid = child'[e].sid, child'[d].sid # None
               PROVE  FALSE
    BY DEF OneClaudePerConversation
  <2>1. d # c /\ e # c
    BY <1>1, <1>2
  <2> QED
    BY <1>2, <2>1 DEF OneClaudePerConversation
<1>16. KeysNameTheirConversations'
  <2> SUFFICES ASSUME NEW t \in Sessions, Alive(ptys[t])' PROVE t \in Ran(ptys[t])'
    BY DEF KeysNameTheirConversations
  <2>1. PICK d \in Children : d = ptys[t]
    BY <1>2 DEF TypeOK, Keys, Alive
  <2>2. t \in Ran(d)
    BY <1>2, <2>1 DEF KeysNameTheirConversations, Alive
  <2>3. t \in Ran(d)'
    BY <1>2, <2>2
  <2> QED
    BY <2>1, <2>3 DEF Ran
<1> QED
  BY <1>6, <1>7, <1>8, <1>9, <1>10, <1>11, <1>12, <1>13, <1>14, <1>15, <1>16

LEMMA BeginKeeps ==
    ASSUME PtyInv, NEW c \in Children, Begin(c)
    PROVE  PtyInv'
<1>1. PICK s \in Unused : child' = [child EXCEPT ![c].sid = s]
  BY DEF Begin
<1>2. /\ child[c].state = "up" /\ child[c].sid = None /\ Settled(c)
      /\ UNCHANGED <<ptys, rows, req, queue, file, scan, server>>
      /\ TypeOK /\ child \in [Children -> ChildStates] /\ s \in Sessions
  BY DEF Begin, PtyInv, TypeOK, Unused
<1>3. /\ child'[c] = [child[c] EXCEPT !.sid = s]
      /\ \A d \in Children : d # c => child'[d] = child[d]
  BY <1>1, <1>2
<1>4. /\ child'[c].state = "up" /\ child'[c].sid = s /\ child'[c].past = child[c].past
  BY <1>2, <1>3 DEF ChildStates
<1>5. TypeOK'
  BY <1>1, <1>2 DEF TypeOK, ChildStates
<1>6. Ran(c)' = Ran(c) \cup {s}
  BY <1>2, <1>4 DEF Ran
<1> QED
  BY <1>2, <1>3, <1>4, <1>5, <1>6, NamedStep

LEMMA ClearKeeps ==
    ASSUME PtyInv, NEW c \in Children, Clear(c)
    PROVE  PtyInv'
<1>1. PICK s \in Unused :
          child' = [child EXCEPT ![c].sid = s, ![c].past = @ \cup {child[c].sid}]
  BY DEF Clear
<1>2. /\ child[c].state = "up" /\ child[c].sid # None /\ Settled(c)
      /\ UNCHANGED <<ptys, rows, req, queue, file, scan, server>>
      /\ TypeOK /\ child \in [Children -> ChildStates] /\ s \in Sessions
  BY DEF Clear, PtyInv, TypeOK, Unused
<1>3. /\ child'[c] = [child[c] EXCEPT !.sid = s, !.past = @ \cup {child[c].sid}]
      /\ \A d \in Children : d # c => child'[d] = child[d]
  BY <1>1, <1>2
<1>4. /\ child'[c].state = "up" /\ child'[c].sid = s
      /\ child'[c].past = child[c].past \cup {child[c].sid}
      /\ child'[c] \in ChildStates
  <2>1. /\ child[c] \in ChildStates /\ child[c].past \subseteq Sessions
        /\ child[c].sid \in Sessions
    BY <1>2 DEF ChildStates
  <2>2. child[c].past \cup {child[c].sid} \in SUBSET Sessions
    BY <2>1
  <2> QED
    BY <1>2, <1>3, <2>1, <2>2 DEF ChildStates
<1>5. TypeOK'
  <2>1. child' \in [Children -> ChildStates]
    BY <1>1, <1>2, <1>3, <1>4
  <2> QED
    BY <1>2, <2>1 DEF TypeOK
<1>6. Ran(c)' = Ran(c) \cup {s}
  BY <1>2, <1>4 DEF Ran
<1> QED
  BY <1>2, <1>3, <1>4, <1>5, <1>6, NamedStep

LEMMA ReapKeeps ==
    ASSUME PtyInv, NEW c \in Children, Reap(c)
    PROVE  PtyInv'
<1> USE DEF PtyInv
<1>0. /\ child[c].state = "gone" /\ Settled(c) /\ TypeOK
      /\ UNCHANGED <<rows, req, queue, file, scan, server>>
      /\ child' = [child EXCEPT ![c] = ReapedChild] /\ ptys' = Without(c)
  BY DEF Reap
<1>1. /\ child'[c].state = "reaped" /\ child'[c].sid = None /\ child'[c].past = {}
      /\ \A d \in Children : d # c => child'[d] = child[d]
  BY <1>0 DEF TypeOK, ReapedChild, NoChild
<1>2. /\ Filed(c)' = {}
      /\ \A d \in Children \ {c} : Filed(d)' = Filed(d)
      /\ ptys' \in [Keys -> Children \cup {None}]
      /\ \A k \in Keys : /\ ptys'[k] # c
                         /\ ptys'[k] = ptys[k] \/ (ptys[k] = c /\ ptys'[k] = None)
  BY <1>0, KeysDropped
<1>3. /\ Ran(c)' = {} /\ \A d \in Children \ {c} : Ran(d)' = Ran(d) /\ Alive(d)' = Alive(d)
      /\ ~Alive(c) /\ ~Alive(c)' /\ ~Alive(None)'
  BY <1>0, <1>1 DEF Ran, Alive
<1>4. \A q \in Requesters : /\ req[q].child \in Children \cup {None}
                            /\ req[q].at = "file" => req[q].child \in Children \ {c}
  BY <1>0, ReqType DEF Settled, RequestInv
<1>5. \A q \in Requesters : About(q)' \subseteq About(q)
  BY <1>0, <1>3, <1>4 DEF About
<1>6. \A d \in Children : InHand(d)' = InHand(d)
  BY <1>0 DEF InHand
<1>7. TypeOK'
  <2>1. ReapedChild \in ChildStates
    BY DEF ReapedChild, NoChild, ChildStates
  <2> QED
    BY <1>0, <1>2, <2>1 DEF TypeOK
<1>8. RequestInv'
  <2>1. ASSUME NEW q \in Requesters, req[q].at = "found", Alive(req[q].child)'
        PROVE  req[q].sid \in Ran(req[q].child)'
    <3>1. PICK d \in Children \ {c} : d = req[q].child
      BY <1>0, <1>3, <1>4, <2>1
    <3>2. req[q].sid \in Ran(d)
      BY <1>0, <1>3, <2>1, <3>1 DEF RequestInv, Alive
    <3>3. req[q].sid \in Ran(d)'
      BY <1>3, <3>2
    <3> QED
      BY <1>0, <3>1, <3>3 DEF Ran
  <2>2. ASSUME NEW q \in Requesters, req[q].at \in {"file", "removed", "closing"}
        PROVE  ptys'[req[q].child] # req[q].child
    BY <1>0, <1>2, <1>4, <2>2 DEF RequestInv, Keys
  <2> QED
    BY <1>0, <2>1, <2>2 DEF RequestInv
<1>9. FileInv'
  <2> SUFFICES ASSUME NEW q \in Requesters, req[q].at = "file",
                      NEW d \in Children \ {c}, d = req[q].child
               PROVE  /\ child'[d].state \in {"up", "gone"}
                      /\ child'[d].sid = req[q].sid /\ child'[d].past = {}
                      /\ Filed(d)' = {} /\ scan.runs[d] = None
                      /\ \A p \in Requesters : p # q => req[p].child # d
    BY <1>0, <1>4 DEF FileInv
  <2> QED
    BY <1>1, <1>2 DEF FileInv
<1>10. ApartInv'
  <2> SUFFICES ASSUME NEW p \in Requesters, NEW q \in Requesters, p # q
               PROVE  /\ About(p)' \cap About(q)' = {}
                      /\ req[p].child = req[q].child => ~Alive(req[p].child)'
    BY <1>0 DEF ApartInv
  <2>1. About(p) \cap About(q) = {} /\ (req[p].child = req[q].child => ~Alive(req[p].child))
    BY DEF ApartInv
  <2>2. Alive(req[p].child)' => Alive(req[p].child)
    BY <1>1, <1>3, <1>4, <1>0 DEF Alive
  <2> QED
    BY <1>5, <2>1, <2>2
<1>11. ChildInv'
  <2>1. ASSUME NEW d \in Children
        PROVE  /\ ptys'[d] \in {d, None}
               /\ child'[d].state = "none" =>
                     /\ child'[d] = NoChild /\ Filed(d)' = {} /\ scan.runs[d] = None
                     /\ \A q \in Requesters : req[q].child # d
               /\ Alive(d)' /\ scan.runs[d] # None => scan.runs[d] \in Ran(d)'
    BY <1>1, <1>2, <1>3 DEF ChildInv, Keys
  <2>2. ASSUME NEW d \in Children, NEW e \in Children \ {d}
        PROVE  Ran(d)' \cap (Ran(e)' \cup {scan.runs[e]}) \subseteq rows
    BY <1>3 DEF ChildInv
  <2> QED
    BY <1>0, <2>1, <2>2 DEF ChildInv
<1>12. QueueInv'
  BY <1>0 DEF QueueInv
<1>13. FiledInv'
  <2> SUFFICES ASSUME NEW d \in Children \ {c}, Alive(d), child[d].sid # None, ~InHand(d)
               PROVE  \/ ptys'[child[d].sid] = d
                      \/ ptys'[child[d].sid] = None /\ child[d].sid \notin rows
    BY <1>0, <1>1, <1>3, <1>6 DEF FiledInv
  <2>1. child[d].sid \in Keys
    BY DEF TypeOK, ChildStates, Keys
  <2> QED
    BY <2>1, <1>2 DEF FiledInv
<1>14. ReachInv'
  <2> SUFFICES ASSUME NEW d \in Children \ {c}, Alive(d), ~InHand(d)
               PROVE  \E k \in Filed(d) : \A q \in Requesters : Starting(q) => req[q].sid # k
    BY <1>0, <1>2, <1>3, <1>6 DEF ReachInv, Starting
  <2> QED
    BY DEF ReachInv
<1>15. StartInv'
  BY <1>0, <1>1, <1>3 DEF StartInv, Starting
<1>16. ScanInv'
  <2> SUFFICES ASSUME NEW d \in Children \ {c}, Alive(d), child[d].sid \in scan.found \ rows
               PROVE  /\ child[d].past = {}
                      /\ scan.at = "seen" => scan.runs[d] = child[d].sid
                      /\ scan.at = "looked" /\ ptys'[child[d].sid] = None /\ ~InHand(d)
                         => scan.runs[d] = child[d].sid
    BY <1>0, <1>1, <1>3, <1>6 DEF ScanInv
  <2>1. child[d].sid \in Keys /\ child[d].sid # None
    BY DEF TypeOK, Keys
  <2>2. ptys'[child[d].sid] = None /\ ~InHand(d) => ptys[child[d].sid] = None
    BY <1>2, <2>1 DEF FiledInv
  <2> QED
    BY <2>2 DEF ScanInv
<1>17. OneClaudePerConversation'
  BY <1>1, <1>3 DEF OneClaudePerConversation
<1>18. KeysNameTheirConversations'
  <2> SUFFICES ASSUME NEW t \in Sessions, Alive(ptys[t])' PROVE t \in Ran(ptys[t])'
    BY DEF KeysNameTheirConversations
  <2>1. PICK d \in Children \ {c} : d = ptys'[t]
    BY <1>2, <1>3 DEF Keys
  <2>2. ptys[t] = d /\ Alive(d)
    BY <1>2, <1>3, <2>1 DEF Keys, Alive
  <2>3. t \in Ran(d)
    BY <2>2 DEF KeysNameTheirConversations
  <2>4. t \in Ran(d)'
    BY <1>3, <2>3
  <2> QED
    BY <2>1, <2>4 DEF Ran
<1> QED
  BY <1>7, <1>8, <1>9, <1>10, <1>11, <1>12, <1>13, <1>14, <1>15, <1>16, <1>17, <1>18

-----------------------------------------------------------------------------
(* Hooks and ticks                                                             *)

\* Sessions get rows, and are filed under claudes.
LEMMA FilingStep ==
    ASSUME PtyInv, TypeOK', UNCHANGED <<child, req, queue, file>>,
           rows \subseteq rows', scan' \in {scan, NoScan},
           \A k \in Keys : ptys'[k] # ptys[k] =>
              /\ k \in Sessions /\ ptys[k] = None
              /\ ptys'[k] \in Children /\ child[ptys'[k]].state # "none"
              /\ Alive(ptys'[k]) => k \in Ran(ptys'[k])
              /\ \A q \in Requesters : req[q].at = "file" => req[q].child # ptys'[k],
           \A c \in Children :
              Alive(c) /\ child[c].sid # None /\ ~InHand(c) /\ ptys[child[c].sid] = None
              => \/ ptys'[child[c].sid] = c
                 \/ ptys'[child[c].sid] = None /\ child[c].sid \notin rows'
    PROVE  PtyInv'
<1> USE DEF PtyInv
<1>1. /\ \A c \in Children : /\ Ran(c)' = Ran(c) /\ Filed(c) \subseteq Filed(c)'
                             /\ Alive(c)' = Alive(c) /\ InHand(c)' = InHand(c)
      /\ ~Alive(None)
  BY DEF Ran, Filed, Alive, InHand, TypeOK, Keys
<1>2. \A q \in Requesters : /\ req[q].child \in Children \cup {None}
                            /\ About(q)' = About(q)
  BY ReqType DEF About, Ran
<1>3. /\ \A c \in Children : scan'.runs[c] \in {scan.runs[c], None}
      /\ scan'.at \in {"seen", "looked"} => scan' = scan
      /\ scan'.found \subseteq scan.found
  BY DEF NoScan
<1>4. RequestInv'
  <2>1. \A c \in Children : ptys'[c] = ptys[c]
    BY DEF Keys
  <2> QED
    BY <1>2, <2>1 DEF RequestInv, Alive, Ran
<1>5. FileInv'
  <2> SUFFICES ASSUME NEW q \in Requesters, req[q].at = "file",
                      NEW c \in Children, c = req[q].child
               PROVE  /\ child[c].state \in {"up", "gone"}
                      /\ child[c].sid = req[q].sid /\ child[c].past = {}
                      /\ Filed(c)' = {} /\ scan'.runs[c] = None
                      /\ \A p \in Requesters : p # q => req[p].child # c
    BY <1>2 DEF FileInv, RequestInv
  <2>1. Filed(c) = {} /\ scan.runs[c] = None
    BY DEF FileInv
  <2>2. Filed(c)' = {}
    BY <2>1 DEF Filed
  <2> QED
    BY <1>3, <2>1, <2>2 DEF FileInv
<1>6. ApartInv'
  BY <1>2 DEF ApartInv, Alive
<1>7. ChildInv'
  <2>1. ASSUME NEW c \in Children, child[c].state = "none" PROVE Filed(c)' = {}
    BY <2>1 DEF Filed, ChildInv
  <2>2. \A c \in Children : ptys'[c] = ptys[c]
    BY DEF Keys
  <2>3. ASSUME NEW d \in Children, NEW e \in Children \ {d}
        PROVE  Ran(d)' \cap (Ran(e)' \cup {scan'.runs[e]}) \subseteq rows'
    <3>1. Ran(d) \cap (Ran(e) \cup {scan.runs[e]}) \subseteq rows /\ None \notin Ran(d)
      BY DEF ChildInv, Ran
    <3> QED
      BY <1>1, <1>3, <3>1
  <2> QED
    BY <1>1, <1>3, <2>1, <2>2, <2>3 DEF ChildInv
<1>8. QueueInv'
  BY DEF QueueInv
<1>9. FiledInv'
  <2> SUFFICES ASSUME NEW c \in Children, Alive(c), child[c].sid # None, ~InHand(c)
               PROVE  \/ ptys'[child[c].sid] = c
                      \/ ptys'[child[c].sid] = None /\ child[c].sid \notin rows'
    BY <1>1 DEF FiledInv
  <2>1. child[c].sid \in Keys /\ c # None
    BY DEF TypeOK, ChildStates, Keys
  <2> QED
    BY <2>1 DEF FiledInv
<1>10. ReachInv'
  BY <1>1 DEF ReachInv, Starting
<1>11. StartInv'
  BY <1>1 DEF StartInv, Starting
<1>12. ScanInv'
  <2> SUFFICES ASSUME NEW c \in Children, Alive(c), child[c].sid \in scan'.found \ rows'
               PROVE  /\ child[c].past = {}
                      /\ scan'.at = "seen" => scan'.runs[c] = child[c].sid
                      /\ scan'.at = "looked" /\ ptys'[child[c].sid] = None /\ ~InHand(c)
                         => scan'.runs[c] = child[c].sid
    BY <1>1 DEF ScanInv
  <2>1. child[c].sid \in Keys
    BY DEF TypeOK, Keys
  <2>2. ptys'[child[c].sid] = None => ptys[child[c].sid] = None
    BY <2>1
  <2> QED
    BY <1>3, <2>2 DEF ScanInv
<1>13. OneClaudePerConversation'
  BY <1>1 DEF OneClaudePerConversation
<1>14. KeysNameTheirConversations'
  <2> SUFFICES ASSUME NEW t \in Sessions, Alive(ptys[t])' PROVE t \in Ran(ptys[t])'
    BY DEF KeysNameTheirConversations
  <2>1. PICK d \in Children \cup {None} : d = ptys'[t]
    BY DEF TypeOK, Keys
  <2>2. d \in Children /\ Alive(d)
    BY <1>1, <2>1 DEF Alive
  <2>3. t \in Ran(d)
    BY <2>1, <2>2 DEF KeysNameTheirConversations, Keys
  <2>4. t \in Ran(d)'
    BY <1>1, <2>2, <2>3
  <2> QED
    BY <2>1, <2>4 DEF Ran
<1> QED
  BY <1>4, <1>5, <1>6, <1>7, <1>8, <1>9, <1>10, <1>11, <1>12, <1>13, <1>14

LEMMA HookKeeps ==
    ASSUME PtyInv, NEW c \in Children, NEW s \in Sessions, Hook(c, s)
    PROVE  PtyInv'
<1>1. /\ s \in Ran(c) /\ rows' = rows \cup {s} /\ TypeOK
      /\ ptys' = IF ptys[s] = None /\ Filed(c) # {} THEN [ptys EXCEPT ![s] = c] ELSE ptys
      /\ UNCHANGED <<child, req, queue, file, scan, server>>
  BY DEF Hook, PtyInv
<1>2. TypeOK'
  BY <1>1 DEF TypeOK, Keys
<1>3. \A k \in Keys : ptys'[k] # ptys[k] =>
          k = s /\ ptys[k] = None /\ ptys'[k] = c /\ Filed(c) # {}
  BY <1>1 DEF TypeOK
<1>4. Filed(c) # {} => /\ child[c].state # "none"
                       /\ \A q \in Requesters : req[q].at = "file" => req[q].child # c
  BY DEF PtyInv, ChildInv, FileInv
<1>5. ASSUME NEW d \in Children, Alive(d), child[d].sid # None, ~InHand(d),
             ptys[child[d].sid] = None
      PROVE  \/ ptys'[child[d].sid] = d
             \/ ptys'[child[d].sid] = None /\ child[d].sid \notin rows'
  <2>1. child[d].sid \notin rows /\ child[d].sid \in Keys /\ d # None
    BY <1>1, <1>5 DEF PtyInv, FiledInv, TypeOK, ChildStates, Keys
  <2>2. CASE child[d].sid # s
    BY <1>1, <1>3, <1>5, <2>1, <2>2
  <2>3. CASE child[d].sid = s
    <3>1. s \in Ran(d)
      BY <1>5, <2>3 DEF Ran
    <3>2. d = c
      BY <1>1, <2>1, <2>3, <3>1 DEF PtyInv, ChildInv
    <3>3. Filed(c) # {}
      BY <1>5, <3>2 DEF PtyInv, ReachInv
    <3> QED
      BY <1>1, <1>5, <2>1, <2>3, <3>2, <3>3 DEF TypeOK
  <2> QED
    BY <2>2, <2>3
<1> QED
  BY <1>1, <1>2, <1>3, <1>4, <1>5, FilingStep

LEMMA AliasKeeps ==
    ASSUME PtyInv, Alias
    PROVE  PtyInv'
<1>1. /\ scan.at = "looked" /\ TypeOK
      /\ ptys' = Aliased /\ rows' = rows \cup scan.found /\ scan' = NoScan
      /\ UNCHANGED <<child, req, queue, file, server>>
  BY DEF Alias, PtyInv
<1>2. \A k \in Keys :
          \/ ptys'[k] = ptys[k] /\ (ptys[k] = None => \A c \in Children : scan.runs[c] # k)
          \/ ptys[k] = None /\ ptys'[k] \in Children /\ scan.runs[ptys'[k]] = k
  BY <1>1 DEF Aliased
<1>3. TypeOK'
  <2>1. ptys' \in [Keys -> Children \cup {None}]
    BY <1>1, <1>2 DEF Aliased, TypeOK
  <2>2. NoScan \in [at: {"idle", "scanned", "seen", "looked"}, found: SUBSET Sessions,
                    runs: [Children -> Sessions \cup {None}]]
    BY DEF NoScan
  <2> QED
    BY <1>1, <2>1, <2>2 DEF TypeOK
<1>4. ASSUME NEW k \in Keys, ptys'[k] # ptys[k], NEW d \in Children, d = ptys'[k]
      PROVE  /\ k \in Sessions /\ ptys[k] = None /\ child[d].state # "none"
             /\ Alive(d) => k \in Ran(d)
             /\ \A q \in Requesters : req[q].at = "file" => req[q].child # d
  <2>1. scan.runs[d] = k /\ ptys[k] = None
    BY <1>2, <1>4
  <2>2. k \in Sessions /\ k # None
    BY <1>1, <2>1 DEF TypeOK, Keys
  <2> QED
    BY <2>1, <2>2 DEF PtyInv, ChildInv, FileInv
<1>5. ASSUME NEW d \in Children, Alive(d), child[d].sid # None, ~InHand(d),
             ptys[child[d].sid] = None
      PROVE  \/ ptys'[child[d].sid] = d
             \/ ptys'[child[d].sid] = None /\ child[d].sid \notin rows'
  <2>1. /\ child[d].sid \notin rows /\ child[d].sid \in Keys
        /\ child[d].sid \in Ran(d) /\ d # None
    BY <1>1, <1>5 DEF PtyInv, FiledInv, TypeOK, ChildStates, Keys, Ran
  <2>2. \A e \in Children : scan.runs[e] = child[d].sid => e = d
    BY <2>1 DEF PtyInv, ChildInv
  <2>3. scan.runs[d] # child[d].sid => child[d].sid \notin scan.found
    BY <1>1, <1>5, <2>1 DEF PtyInv, ScanInv
  <2> QED
    BY <1>1, <1>2, <1>5, <2>1, <2>2, <2>3
<1>6. \A k \in Keys : ptys'[k] # ptys[k] => ptys'[k] \in Children
  BY <1>2
<1> QED
  BY <1>1, <1>3, <1>4, <1>5, <1>6, FilingStep

\* A tick looks, and changes nothing else.
LEMMA LookingStep ==
    ASSUME PtyInv, TypeOK', UNCHANGED <<child, ptys, rows, req, queue, file>>,
           \A c \in Children :
              \/ scan'.runs[c] \in {scan.runs[c], None}
              \/ /\ child[c].state # "none" /\ scan'.runs[c] = child[c].sid
                 /\ \A q \in Requesters : req[q].at = "file" => req[q].child # c,
           ScanInv'
    PROVE  PtyInv'
<1> USE DEF PtyInv
<1>1. /\ \A c \in Children : /\ Ran(c)' = Ran(c) /\ Filed(c)' = Filed(c)
                             /\ Alive(c)' = Alive(c) /\ InHand(c)' = InHand(c)
                             /\ None \notin Ran(c)
      /\ \A q \in Requesters : About(q)' = About(q) /\ req[q].child \in Children \cup {None}
  BY ReqType DEF Ran, Filed, Alive, InHand, About
<1>2. RequestInv' /\ QueueInv' /\ KeysNameTheirConversations'
  BY DEF RequestInv, QueueInv, KeysNameTheirConversations, Alive, Ran
<1>3. FileInv'
  <2> SUFFICES ASSUME NEW q \in Requesters, req[q].at = "file",
                      NEW c \in Children, c = req[q].child
               PROVE  /\ child[c].state \in {"up", "gone"}
                      /\ child[c].sid = req[q].sid /\ child[c].past = {}
                      /\ Filed(c) = {} /\ scan'.runs[c] = None
                      /\ \A p \in Requesters : p # q => req[p].child # c
    BY <1>1 DEF FileInv, RequestInv
  <2> QED
    BY DEF FileInv
<1>4. ApartInv'
  BY <1>1 DEF ApartInv, Alive
<1>5. ChildInv'
  <2>1. ASSUME NEW c \in Children
        PROVE  /\ child[c].state = "none" => scan'.runs[c] = None
               /\ Alive(c) /\ scan'.runs[c] # None => scan'.runs[c] \in Ran(c)
               /\ scan'.runs[c] \in Ran(c) \cup {scan.runs[c], None}
    BY DEF Alive, Ran, ChildInv
  <2>2. ASSUME NEW d \in Children, NEW e \in Children \ {d}
        PROVE  Ran(d)' \cap (Ran(e)' \cup {scan'.runs[e]}) \subseteq rows'
    BY <1>1, <2>1 DEF ChildInv
  <2> QED
    BY <1>1, <2>1, <2>2 DEF ChildInv
<1>6. FiledInv' /\ ReachInv' /\ StartInv' /\ OneClaudePerConversation'
  BY <1>1 DEF FiledInv, ReachInv, StartInv, Starting, OneClaudePerConversation
<1> QED
  BY <1>2, <1>3, <1>4, <1>5, <1>6

LEMMA ScanKeeps ==
    ASSUME PtyInv, Scan
    PROVE  PtyInv'
<1>1. /\ UNCHANGED <<child, ptys, rows, req, queue, file, server>> /\ TypeOK
      /\ scan' = [NoScan EXCEPT !.at = "scanned", !.found = Transcripts]
  BY DEF Scan, PtyInv
<1>2. /\ scan' = [at |-> "scanned", found |-> Transcripts,
                  runs |-> [c \in Children |-> None]]
      /\ Transcripts \subseteq Sessions
  <2>1. \A c \in Children : Ran(c) \subseteq Sessions
    BY <1>1 DEF Ran, TypeOK, ChildStates
  <2>2. Transcripts \subseteq Sessions
    BY <2>1 DEF Transcripts
  <2> QED
    BY <1>1, <2>2 DEF NoScan
<1>3. TypeOK'
  BY <1>1, <1>2 DEF TypeOK
<1>4. ScanInv'
  <2> SUFFICES ASSUME NEW c \in Children, Alive(c), child[c].sid \in Transcripts \ rows
               PROVE  child[c].past = {}
    BY <1>1, <1>2 DEF ScanInv, Alive
  <2>1. PICK d \in Children : child[d].past = {} /\ child[c].sid \in Ran(d)
    BY DEF Transcripts
  <2>2. child[c].sid \in Ran(c)
    BY <2>1 DEF Ran
  <2> QED
    BY <2>1, <2>2 DEF PtyInv, ChildInv
<1>5. \A c \in Children : scan'.runs[c] = None
  BY <1>2
<1> QED
  BY <1>1, <1>3, <1>4, <1>5, LookingStep

LEMMA SnapshotKeeps ==
    ASSUME PtyInv, Snapshot
    PROVE  PtyInv'
<1> DEFINE up(c) == child[c].state \in {"up", "ending"} /\ Settled(c)
           seen == [c \in Children |-> IF up(c) THEN child[c].sid ELSE None]
<1>1. /\ UNCHANGED <<child, ptys, rows, req, queue, file, server>> /\ TypeOK
      /\ scan' = [scan EXCEPT !.at = "seen", !.runs = seen]
  BY DEF Snapshot, PtyInv
<1>2. seen \in [Children -> Sessions \cup {None}]
  BY <1>1 DEF TypeOK, ChildStates
<1>3. /\ scan' = [at |-> "seen", found |-> scan.found, runs |-> seen]
      /\ scan.found \subseteq Sessions
  BY <1>1 DEF TypeOK
<1>4. TypeOK'
  <2> HIDE DEF seen
  <2> QED
    BY <1>1, <1>2, <1>3 DEF TypeOK
<1>5. ScanInv'
  <2> SUFFICES ASSUME NEW c \in Children, Alive(c), child[c].sid \in scan.found \ rows
               PROVE  child[c].past = {} /\ up(c)
    BY <1>1, <1>3 DEF ScanInv, Alive
  <2>1. child[c].past = {}
    BY DEF PtyInv, ScanInv
  <2>2. Settled(c)
    <3> SUFFICES ASSUME NEW q \in Requesters, req[q].at = "file", req[q].child = c PROVE FALSE
      BY DEF Settled
    <3>1. child[c].sid = req[q].sid /\ req[q].sid \in rows \cup {None}
      BY DEF PtyInv, FileInv, RequestInv
    <3> QED
      BY <1>3, <3>1
  <2> QED
    BY <2>1, <2>2 DEF Alive
<1>6. \A c \in Children :
          \/ scan'.runs[c] \in {scan.runs[c], None}
          \/ /\ child[c].state # "none" /\ scan'.runs[c] = child[c].sid
             /\ \A q \in Requesters : req[q].at = "file" => req[q].child # c
  BY <1>3 DEF Settled
<1> QED
  BY <1>1, <1>4, <1>5, <1>6, LookingStep

LEMMA LookKeeps ==
    ASSUME PtyInv, Look
    PROVE  PtyInv'
<1> DEFINE pending == {c \in Children : Alive(c) /\ ptys[c] = c /\ SessionKeys(c) = {}}
           seen == [c \in Children |-> IF c \in pending THEN scan.runs[c] ELSE None]
<1>1. /\ UNCHANGED <<child, ptys, rows, req, queue, file, server>> /\ TypeOK
      /\ scan.at = "seen" /\ scan' = [scan EXCEPT !.at = "looked", !.runs = seen]
  BY DEF Look, PtyInv
<1>2. seen \in [Children -> Sessions \cup {None}]
  BY <1>1 DEF TypeOK
<1>3. /\ scan' = [at |-> "looked", found |-> scan.found, runs |-> seen]
      /\ scan.found \subseteq Sessions
  BY <1>1 DEF TypeOK
<1>4. TypeOK'
  <2> HIDE DEF seen
  <2> QED
    BY <1>1, <1>2, <1>3 DEF TypeOK
<1>5. ScanInv'
  <2> SUFFICES ASSUME NEW c \in Children, Alive(c), child[c].sid \in scan.found \ rows
               PROVE  /\ child[c].past = {} /\ scan.runs[c] = child[c].sid
                      /\ ptys[child[c].sid] = None /\ ~InHand(c) => c \in pending
    <3>1. /\ scan'.found = scan.found /\ scan'.at = "looked"
          /\ \A d \in Children : d \in pending => scan'.runs[d] = scan.runs[d]
      BY <1>3
    <3>2. \A d \in Children : Alive(d)' = Alive(d)
      BY <1>1 DEF Alive
    <3>3. \A d \in Children : InHand(d)' = InHand(d)
      BY <1>1 DEF InHand
    <3> HIDE DEF pending
    <3> QED
      BY <1>1, <3>1, <3>2, <3>3 DEF ScanInv
  <2>1. /\ child[c].past = {} /\ child[c].sid # None
        /\ scan.runs[c] = child[c].sid
    BY <1>1, <1>3 DEF PtyInv, ScanInv
  <2>2. ASSUME ptys[child[c].sid] = None, ~InHand(c) PROVE c \in pending
    <3>1. PICK k \in Filed(c) : TRUE
      BY <2>2 DEF PtyInv, ReachInv
    <3>2. Ran(c) = {child[c].sid}
      BY <2>1 DEF Ran
    <3>3. c # None
      BY DEF Alive
    <3>4. SessionKeys(c) = {}
      BY <2>2, <3>2, <3>3 DEF PtyInv, KeysNameTheirConversations, SessionKeys, Filed
    <3>5. k \in Children /\ ptys[k] = c
      BY <3>1, <3>4 DEF SessionKeys, Filed, Keys
    <3>6. ptys[c] = c
      BY <3>3, <3>5 DEF PtyInv, ChildInv
    <3> QED
      BY <3>4, <3>6
  <2> QED
    BY <2>1, <2>2
<1>6. \A c \in Children : scan'.runs[c] \in {scan.runs[c], None}
  BY <1>3
<1> QED
  BY <1>1, <1>4, <1>5, <1>6, LookingStep

LEMMA HookOfReapedKeeps ==
    ASSUME PtyInv, NEW s \in Sessions, HookOfReaped(s)
    PROVE  PtyInv'
<1>1. /\ s \in Unused /\ rows' = rows \cup {s} /\ TypeOK
      /\ UNCHANGED <<child, ptys, req, queue, file, scan, server>>
  BY DEF HookOfReaped, PtyInv
<1>2. TypeOK'
  BY <1>1 DEF TypeOK
<1>3. ASSUME NEW c \in Children, Alive(c), child[c].sid # None, ~InHand(c),
             ptys[child[c].sid] = None
      PROVE  child[c].sid \notin rows'
  <2>1. child[c].sid \notin rows
    BY <1>3 DEF PtyInv, FiledInv, Alive
  <2>2. s # child[c].sid
    BY <1>1, <1>3 DEF Unused, Ran
  <2> QED
    BY <1>1, <2>1, <2>2
<1> QED
  BY <1>1, <1>2, <1>3, FilingStep

LEMMA RegisterKeeps ==
    ASSUME PtyInv, ~Overlap, NEW c \in Children, NEW s \in Sessions, Register(c, s)
    PROVE  PtyInv'
<1>1. /\ ptys[c] = c /\ s \in rows /\ s \in Ran(c) /\ ptys[s] \in {c, None}
      /\ ptys' = [ptys EXCEPT ![s] = c] /\ TypeOK
      /\ UNCHANGED <<child, rows, req, queue, file, scan, server>>
  BY DEF Register, PtyInv
<1>2. TypeOK'
  BY <1>1 DEF TypeOK, Keys
<1>3. \A k \in Keys : ptys'[k] # ptys[k] => k = s /\ ptys[k] = None /\ ptys'[k] = c
  BY <1>1 DEF TypeOK
<1>4. c \in Filed(c)
  BY <1>1 DEF Filed, Keys
<1>5. /\ child[c].state # "none"
      /\ \A q \in Requesters : req[q].at = "file" => req[q].child # c
  BY <1>4 DEF PtyInv, ChildInv, FileInv
<1>6. ASSUME NEW d \in Children, Alive(d), child[d].sid # None, ~InHand(d),
             ptys[child[d].sid] = None
      PROVE  \/ ptys'[child[d].sid] = d
             \/ ptys'[child[d].sid] = None /\ child[d].sid \notin rows
  <2>1. child[d].sid \notin rows /\ child[d].sid \in Keys
    BY <1>1, <1>6 DEF PtyInv, FiledInv, TypeOK, ChildStates, Keys, Alive
  <2> QED
    BY <1>1, <1>3, <1>6, <2>1
<1> QED
  BY <1>1, <1>2, <1>3, <1>5, <1>6, FilingStep

-----------------------------------------------------------------------------
(* The collector                                                               *)

\* Only the lists of sessions to resume change.
LEMMA QueueStep ==
    ASSUME PtyInv, TypeOK', QueueInv', UNCHANGED <<child, ptys, rows, req, scan>>
    PROVE  PtyInv'
<1>1. /\ \A c \in Children : Ran(c)' = Ran(c) /\ Filed(c)' = Filed(c)
      /\ \A c : Alive(c)' = Alive(c)
  BY DEF Ran, Filed, Alive
<1>2. /\ \A c \in Children : InHand(c)' = InHand(c)
      /\ \A q \in Requesters : /\ About(q)' = About(q) /\ Starting(q)' = Starting(q)
                               /\ req[q].child \in Children \cup {None}
  BY ReqType DEF InHand, About, Ran, Starting, PtyInv
<1>3. RequestInv' /\ FileInv' /\ ApartInv'
  BY <1>1, <1>2 DEF PtyInv, RequestInv, FileInv, ApartInv, Filed, Ran, Alive
<1>4. ChildInv' /\ FiledInv' /\ ReachInv' /\ StartInv' /\ ScanInv'
  BY <1>1, <1>2 DEF PtyInv, ChildInv, FiledInv, ReachInv, StartInv, ScanInv
<1>5. OneClaudePerConversation' /\ KeysNameTheirConversations'
  BY <1>1 DEF PtyInv, OneClaudePerConversation, KeysNameTheirConversations, Ran
<1> QED
  BY <1>3, <1>4, <1>5 DEF PtyInv

LEMMA SaveKeeps ==
    ASSUME PtyInv, Save
    PROVE  PtyInv'
<1>1. TypeOK' /\ QueueInv' /\ UNCHANGED <<child, ptys, rows, req, scan>>
  BY DEF Save, PtyInv, TypeOK, QueueInv, Hosted
<1> QED
  BY <1>1, QueueStep

LEMMA BootKeeps ==
    ASSUME PtyInv, Boot
    PROVE  PtyInv'
<1>1. TypeOK' /\ QueueInv' /\ UNCHANGED <<child, ptys, rows, req, scan>>
  BY DEF Boot, PtyInv, TypeOK, QueueInv
<1> QED
  BY <1>1, QueueStep

\* Who is still up after closeAllPTYs was filed nowhere, so a request has it.
LEMMA CloseAllKeeps ==
    ASSUME PtyInv, CloseAll
    PROVE  PtyInv'
<1> USE DEF PtyInv
<1>0. /\ UNCHANGED <<rows, req, queue, file, scan>> /\ TypeOK
      /\ server' = [server EXCEPT !.phase = "closed"]
      /\ child' = [c \in Children |->
                      IF Filed(c) = {} THEN child[c]
                      ELSE [child[c] EXCEPT !.state = Ending(@)]]
      /\ ptys' = [k \in Keys |-> None]
  BY DEF CloseAll
<1>1. \A c \in Children :
          /\ child[c] \in ChildStates
          /\ child'[c] = IF Filed(c) = {} THEN child[c]
                         ELSE [child[c] EXCEPT !.state = Ending(child[c].state)]
  BY <1>0 DEF TypeOK
<1>2. \A c \in Children :
          /\ child'[c] \in ChildStates
          /\ child'[c].sid = child[c].sid /\ child'[c].past = child[c].past
          /\ child'[c].state = IF Filed(c) = {} THEN child[c].state
                               ELSE Ending(child[c].state)
  <2>1. ASSUME NEW c \in Children
        PROVE  LET r == [child[c] EXCEPT !.state = Ending(child[c].state)]
               IN  /\ r \in ChildStates /\ r.sid = child[c].sid /\ r.past = child[c].past
                   /\ r.state = Ending(child[c].state)
    BY <1>1 DEF ChildStates, Ending
  <2> QED
    BY <1>1, <2>1
<1>3. /\ \A c \in Children : /\ Ran(c)' = Ran(c) /\ Filed(c)' = {} /\ InHand(c)' = InHand(c)
                             /\ Alive(c)' => Alive(c) /\ Filed(c) = {}
      /\ ~Alive(None)'
  BY <1>0, <1>2 DEF Ran, Filed, Alive, InHand, Ending
<1>4. \A q \in Requesters : /\ req[q].child \in Children \cup {None}
                            /\ About(q)' = About(q)
  BY <1>0, <1>3, ReqType DEF About
<1>5. \A c \in Children : Alive(c)' => InHand(c) /\ InHand(c)'
  BY <1>3 DEF ReachInv
<1>6. TypeOK'
  <2>1. child' \in [Children -> ChildStates]
    BY <1>0, <1>2
  <2> QED
    BY <1>0, <2>1 DEF TypeOK
<1>7. RequestInv'
  <2>1. ASSUME NEW q \in Requesters, req[q].at = "found", Alive(req[q].child)'
        PROVE  req[q].sid \in Ran(req[q].child)'
    <3>1. PICK d \in Children : d = req[q].child
      BY <1>0, <1>3, <1>4, <2>1
    <3>2. req[q].sid \in Ran(d)
      BY <1>0, <1>3, <2>1, <3>1 DEF RequestInv, Alive
    <3>3. req[q].sid \in Ran(d)'
      BY <1>3, <3>2
    <3> QED
      BY <1>0, <3>1, <3>3 DEF Ran
  <2>2. ASSUME NEW q \in Requesters, req[q].at \in {"file", "removed", "closing"}
        PROVE  ptys'[req[q].child] # req[q].child
    BY <1>0, <1>4, <2>2 DEF RequestInv, Keys
  <2> QED
    BY <1>0, <2>1, <2>2 DEF RequestInv
<1>8. FileInv'
  <2> SUFFICES ASSUME NEW q \in Requesters, req[q].at = "file",
                      NEW c \in Children, c = req[q].child
               PROVE  /\ child'[c].state \in {"up", "gone"}
                      /\ child'[c].sid = req[q].sid /\ child'[c].past = {}
                      /\ Filed(c)' = {} /\ scan.runs[c] = None
                      /\ \A p \in Requesters : p # q => req[p].child # c
    BY <1>0, <1>4, SMTT(40) DEF FileInv, RequestInv
  <2> QED
    BY <1>2, <1>3 DEF FileInv
<1>9. ApartInv'
  <2> SUFFICES ASSUME NEW p \in Requesters, NEW q \in Requesters, p # q
               PROVE  /\ About(p) \cap About(q) = {}
                      /\ req[p].child = req[q].child => ~Alive(req[p].child)'
    BY <1>0, <1>4 DEF ApartInv
  <2>1. About(p) \cap About(q) = {} /\ (req[p].child = req[q].child => ~Alive(req[p].child))
    BY DEF ApartInv
  <2>2. Alive(req[p].child)' => Alive(req[p].child)
    BY <1>0, <1>2, <1>4 DEF Alive, Ending
  <2> QED
    BY <2>1, <2>2
<1>10. ChildInv'
  <2>1. ASSUME NEW c \in Children
        PROVE  /\ ptys'[c] \in {c, None}
               /\ child'[c].state = "none" =>
                     /\ child'[c] = NoChild /\ Filed(c)' = {} /\ scan.runs[c] = None
                     /\ \A q \in Requesters : req[q].child # c
               /\ Alive(c)' /\ scan.runs[c] # None => scan.runs[c] \in Ran(c)'
    BY <1>0, <1>1, <1>2, <1>3 DEF ChildInv, Keys, Ending
  <2>2. ASSUME NEW d \in Children, NEW e \in Children \ {d}
        PROVE  Ran(d)' \cap (Ran(e)' \cup {scan.runs[e]}) \subseteq rows
    BY <1>3 DEF ChildInv
  <2> QED
    BY <1>0, <2>1, <2>2 DEF ChildInv
<1>11. QueueInv'
  BY <1>0 DEF QueueInv
<1>12. FiledInv' /\ ReachInv'
  BY <1>5 DEF FiledInv, ReachInv
<1>13. StartInv'
  BY <1>0, <1>2, <1>3 DEF StartInv, Starting
<1>14. ScanInv'
  BY <1>0, <1>2, <1>3, <1>5 DEF ScanInv
<1>15. OneClaudePerConversation'
  BY <1>2, <1>3 DEF OneClaudePerConversation
<1>16. KeysNameTheirConversations'
  BY <1>0 DEF KeysNameTheirConversations, Alive, Keys
<1> QED
  BY <1>6, <1>7, <1>8, <1>9, <1>10, <1>11, <1>12, <1>13, <1>14, <1>15, <1>16

LEMMA DieKeeps ==
    ASSUME PtyInv, Die
    PROVE  PtyInv'
<1> USE DEF PtyInv
<1>0. /\ UNCHANGED <<rows, file>> /\ TypeOK
      /\ server' = [server EXCEPT !.phase = "down"]
      /\ child' = [c \in Children |->
                      IF child[c].state = "none" THEN NoChild ELSE ReapedChild]
      /\ ptys' = [k \in Keys |-> None] /\ req' = [q \in Requesters |-> Idle]
      /\ queue' = {} /\ scan' = NoScan
  BY DEF Die
<1>1. \A c \in Children :
          /\ child'[c] \in {NoChild, ReapedChild} /\ ~Alive(c)'
          /\ child'[c].state = "none" => child'[c] = NoChild
          /\ Ran(c)' = {} /\ Filed(c)' = {} /\ scan'.runs[c] = None
  BY <1>0 DEF NoChild, ReapedChild, Alive, Ran, Filed, NoScan
<1>2. \A q \in Requesters : /\ req'[q].at = "idle" /\ req'[q].kind = "none"
                            /\ req'[q].sid = None /\ req'[q].child = None
                            /\ About(q)' = {}
  BY <1>0 DEF Idle, About
<1>3. TypeOK'
  <2>1. child' \in [Children -> ChildStates]
    BY <1>0 DEF NoChild, ReapedChild, ChildStates
  <2>2. req' \in [Requesters -> RequestStates]
    BY <1>0 DEF Idle, RequestStates
  <2>3. scan' \in [at: {"idle", "scanned", "seen", "looked"}, found: SUBSET Sessions,
                   runs: [Children -> Sessions \cup {None}]]
    BY <1>0 DEF NoScan
  <2> QED
    BY <1>0, <1>2, <2>1, <2>2, <2>3 DEF TypeOK
<1>4. RequestInv' /\ FileInv'
  BY <1>2 DEF RequestInv, FileInv
<1>5. ApartInv'
  BY <1>2 DEF ApartInv, Alive
<1>6. ChildInv'
  BY <1>0, <1>1, <1>2 DEF ChildInv, Keys
<1>7. QueueInv'
  BY <1>0 DEF QueueInv
<1>8. FiledInv' /\ ReachInv' /\ StartInv' /\ ScanInv' /\ OneClaudePerConversation'
  BY <1>1 DEF FiledInv, ReachInv, StartInv, ScanInv, OneClaudePerConversation
<1>9. KeysNameTheirConversations'
  BY <1>0 DEF KeysNameTheirConversations, Alive, Keys
<1> QED
  BY <1>3, <1>4, <1>5, <1>6, <1>7, <1>8, <1>9

-----------------------------------------------------------------------------
(* The theorems                                                                *)

LEMMA PtyInit == Init => PtyInv
<1> SUFFICES ASSUME Init PROVE PtyInv
  OBVIOUS
<1>1. /\ child = [c \in Children |-> NoChild] /\ ptys = [k \in Keys |-> None]
      /\ rows = Known /\ req = [q \in Requesters |-> Idle]
      /\ queue = {} /\ file \in {None, Known} /\ scan = NoScan
      /\ server = [phase |-> "down", starts |-> 0]
  BY DEF Init
<1>2. \A c \in Children : /\ child[c] = NoChild /\ ~Alive(c) /\ Ran(c) = {}
                          /\ Filed(c) = {} /\ scan.runs[c] = None
  BY <1>1 DEF NoChild, Alive, Ran, Filed, NoScan
<1>3. \A q \in Requesters : /\ req[q].at = "idle" /\ req[q].kind = "none"
                            /\ req[q].sid = None /\ req[q].child = None
                            /\ About(q) = {}
  BY <1>1 DEF Idle, About
<1>4. TypeOK
  <2>1. child \in [Children -> ChildStates]
    BY <1>1 DEF NoChild, ChildStates
  <2>2. req \in [Requesters -> RequestStates]
    BY <1>1 DEF Idle, RequestStates
  <2>3. scan \in [at: {"idle", "scanned", "seen", "looked"}, found: SUBSET Sessions,
                  runs: [Children -> Sessions \cup {None}]]
    BY <1>1 DEF NoScan
  <2> QED
    BY <1>1, <1>3, <2>1, <2>2, <2>3 DEF TypeOK
<1>5. RequestInv /\ FileInv
  BY <1>3 DEF RequestInv, FileInv
<1>6. ApartInv
  BY <1>3 DEF ApartInv, Alive
<1>7. ChildInv
  BY <1>1, <1>2, <1>3 DEF ChildInv, Keys
<1>8. QueueInv
  BY <1>1 DEF QueueInv
<1>9. FiledInv /\ ReachInv /\ StartInv /\ ScanInv /\ OneClaudePerConversation
  BY <1>2 DEF FiledInv, ReachInv, StartInv, ScanInv, OneClaudePerConversation
<1>10. KeysNameTheirConversations
  BY <1>1 DEF KeysNameTheirConversations, Alive, Keys
<1> QED
  BY <1>4, <1>5, <1>6, <1>7, <1>8, <1>9, <1>10 DEF PtyInv

LEMMA PtyNext == ~Overlap /\ PtyInv /\ [Next]_vars => PtyInv'
<1> SUFFICES ASSUME ~Overlap, PtyInv, [Next]_vars PROVE PtyInv'
  OBVIOUS
<1>1. ASSUME NEW q \in Clients, NEW sid \in Sessions \cup {None}, Start(q, sid) PROVE PtyInv'
  BY <1>1, StartKeeps
<1>2. ASSUME NEW q \in Clients, NEW name \in Keys, FindRestart(q, name) PROVE PtyInv'
  BY <1>2, FindRestartKeeps
<1>3. ASSUME NEW q \in Clients, NEW name \in Keys, DeletePTY(q, name) PROVE PtyInv'
  BY <1>3, DeletePTYKeeps
<1>4. ASSUME NEW q \in Requesters,
             Spawn(q) \/ File(q) \/ Check(q) \/ RemoveKeys(q) \/ Close(q) \/ Closed(q)
      PROVE  PtyInv'
  BY <1>4, SpawnKeeps, FileKeeps, CheckKeeps, RemoveKeysKeeps, CloseKeeps, ClosedKeeps
<1>5. ASSUME NEW c \in Children, Begin(c) \/ Clear(c) \/ Exit(c) \/ Reap(c) PROVE PtyInv'
  BY <1>5, BeginKeeps, ClearKeeps, ExitKeeps, ReapKeeps
<1>6. CASE UNCHANGED vars
  <2>1. TypeOK' /\ QueueInv' /\ UNCHANGED <<child, ptys, rows, req, scan>>
    BY <1>6 DEF vars, PtyInv, TypeOK, QueueInv
  <2> QED
    BY <2>1, QueueStep
<1>7. ASSUME NEW c \in Children, NEW s \in Sessions, Hook(c, s) \/ Register(c, s)
      PROVE  PtyInv'
  BY <1>7, HookKeeps, RegisterKeeps
<1>8. ASSUME NEW s \in Sessions, Resume(s) \/ HookOfReaped(s) PROVE PtyInv'
  BY <1>8, ResumeKeeps, HookOfReapedKeeps
<1>9. ASSUME Scan \/ Snapshot \/ Look \/ Alias \/ Save \/ CloseAll \/ Die \/ Boot PROVE PtyInv'
  BY <1>9, ScanKeeps, SnapshotKeeps, LookKeeps, AliasKeeps, SaveKeeps, CloseAllKeeps, DieKeeps, BootKeeps
<1> QED
  BY <1>1, <1>2, <1>3, <1>4, <1>5, <1>6, <1>7, <1>8, <1>9 DEF Next

-----------------------------------------------------------------------------
(* What holds of requests that overlap, too                                    *)

LEMMA TypeInit == Init => TypeOK
BY PtyInit DEF PtyInv

LEMMA TypeStep == TypeOK /\ [Next]_vars => TypeOK'
<1> SUFFICES ASSUME TypeOK, [Next]_vars PROVE TypeOK'
  OBVIOUS
<1>0. /\ Clients \subseteq Requesters /\ Resumer \in Requesters
      /\ child \in [Children -> ChildStates] /\ req \in [Requesters -> RequestStates]
      /\ Idle \in RequestStates
      /\ \A q \in Requesters : req[q].kind = "restart" => req[q].sid \in rows
  BY DEF TypeOK, Requesters, RequestStates, Idle
\* One request changes, and is of a kind that any may be, or of a session with a row.
<1>1. ASSUME NEW q \in Requesters, NEW r \in RequestStates,
             r.kind = "restart" => r.sid \in rows,
             req' = [req EXCEPT ![q] = r], rows' = rows
      PROVE  /\ req' \in [Requesters -> RequestStates]
             /\ \A p \in Requesters : req'[p].kind = "restart" => req'[p].sid \in rows'
  BY <1>0, <1>1
<1>2. ASSUME NEW q \in Clients, NEW sid \in Sessions \cup {None}, Start(q, sid) PROVE TypeOK'
  <2> DEFINE r == [kind |-> "start", at |-> "spawn", sid |-> sid, child |-> None]
  <2>1. r \in RequestStates /\ r.kind # "restart"
    BY DEF RequestStates
  <2>2. req' = [req EXCEPT ![q] = r]
    BY <1>2 DEF Start
  <2> HIDE DEF r
  <2> QED
    BY <1>0, <1>1, <1>2, <2>1, <2>2 DEF TypeOK, Start
<1>3. ASSUME NEW q \in Clients, NEW name \in Keys, FindRestart(q, name) PROVE TypeOK'
  <2>1. PICK sid \in rows :
            req' = [req EXCEPT ![q] = [kind |-> "restart", at |-> "found", sid |-> sid,
                                       child |-> ptys[name]]]
    BY <1>3 DEF FindRestart
  <2> DEFINE r == [kind |-> "restart", at |-> "found", sid |-> sid, child |-> ptys[name]]
  <2>2. r \in RequestStates /\ r.sid \in rows
    BY DEF TypeOK, RequestStates
  <2> HIDE DEF r
  <2>3. req' = [req EXCEPT ![q] = r]
    BY <2>1 DEF r
  <2> QED
    BY <1>0, <1>1, <1>3, <2>2, <2>3 DEF TypeOK, FindRestart
<1>4. ASSUME NEW q \in Clients, NEW name \in Keys, DeletePTY(q, name) PROVE TypeOK'
  <2> DEFINE r == [kind |-> "close", at |-> "removed", sid |-> None, child |-> ptys[name]]
  <2>1. r \in RequestStates /\ r.kind # "restart"
    BY DEF TypeOK, RequestStates
  <2>2. req' = [req EXCEPT ![q] = r] /\ ptys' = Without(ptys[name])
    BY <1>4 DEF DeletePTY
  <2>3. ptys' \in [Keys -> Children \cup {None}]
    BY <2>2 DEF TypeOK, Without
  <2> HIDE DEF r
  <2> QED
    BY <1>0, <1>1, <1>4, <2>1, <2>2, <2>3 DEF TypeOK, DeletePTY
<1>5. ASSUME NEW q \in Requesters, Spawn(q) PROVE TypeOK'
  <2>1. CASE req' = [req EXCEPT ![q] = Idle] /\ UNCHANGED child
    BY <1>0, <1>1, <1>5, <2>1 DEF TypeOK, Spawn, Idle
  <2>2. ASSUME NEW c \in Children,
               child' = [child EXCEPT ![c] = [state |-> "up", sid |-> req[q].sid, past |-> {}]],
               req' = [req EXCEPT ![q].at = "file", ![q].child = c]
        PROVE  TypeOK'
    <3> DEFINE r == [req[q] EXCEPT !.at = "file", !.child = c]
    <3>1. r \in RequestStates /\ (r.kind = "restart" => r.sid \in rows)
      BY <1>0 DEF RequestStates
    <3>2. child' \in [Children -> ChildStates]
      BY <1>0, <2>2, ReqType DEF ChildStates
    <3>3. req' = [req EXCEPT ![q] = r]
      BY <1>0, <2>2
    <3> HIDE DEF r
    <3> QED
      BY <1>0, <1>1, <1>5, <3>1, <3>2, <3>3 DEF TypeOK, Spawn
  <2> QED
    BY <1>5, <2>1, <2>2 DEF Spawn
<1>6. ASSUME NEW q \in Requesters, File(q) PROVE TypeOK'
  <2>1. req' = [req EXCEPT ![q] = Idle] /\ ptys' \in [Keys -> Children \cup {None}]
    BY <1>6, ReqType DEF TypeOK, File
  <2> QED
    BY <1>0, <1>1, <1>6, <2>1 DEF TypeOK, File, Idle
<1>7. ASSUME NEW q \in Requesters, Check(q) PROVE TypeOK'
  <2> DEFINE r == IF Alive(ptys[req[q].sid]) THEN Idle
                  ELSE [kind |-> req[q].kind, at |-> "spawn", sid |-> req[q].sid,
                        child |-> None]
  <2>1. r \in RequestStates /\ (r.kind = "restart" => r.sid \in rows)
    BY <1>0 DEF RequestStates, Idle
  <2>2. req' = [req EXCEPT ![q] = r]
    BY <1>7 DEF Check
  <2> HIDE DEF r
  <2> QED
    BY <1>0, <1>1, <1>7, <2>1, <2>2 DEF TypeOK, Check
<1>8. ASSUME NEW q \in Requesters, NEW at \in {"removed", "closing"},
             req' = [req EXCEPT ![q].at = at], rows' = rows
      PROVE  /\ req' \in [Requesters -> RequestStates]
             /\ \A p \in Requesters : req'[p].kind = "restart" => req'[p].sid \in rows'
  <2> DEFINE r == [req[q] EXCEPT !.at = at]
  <2>1. r \in RequestStates /\ (r.kind = "restart" => r.sid \in rows)
    BY <1>0 DEF RequestStates
  <2>2. req' = [req EXCEPT ![q] = r]
    BY <1>8
  <2> HIDE DEF r
  <2> QED
    BY <1>1, <1>8, <2>1, <2>2
<1>9. ASSUME NEW q \in Requesters, RemoveKeys(q) PROVE TypeOK'
  <2>1. req' = [req EXCEPT ![q].at = "removed"] /\ UNCHANGED rows
    BY <1>9 DEF RemoveKeys
  <2>2. ptys' \in [Keys -> Children \cup {None}]
    BY <1>9 DEF TypeOK, RemoveKeys, Without
  <2> QED
    BY <1>8, <1>9, <2>1, <2>2 DEF TypeOK, RemoveKeys
<1>10. ASSUME NEW q \in Requesters, Close(q) PROVE TypeOK'
  <2>1. req' = [req EXCEPT ![q].at = "closing"] /\ UNCHANGED rows
    BY <1>10 DEF Close
  <2>2. child' = [child EXCEPT ![req[q].child].state = Ending(@)]
    BY <1>10 DEF Close
  <2>3. \A c \in Children : [child[c] EXCEPT !.state = Ending(@)] \in ChildStates
    BY <1>0 DEF ChildStates, Ending
  <2>4. child' \in [Children -> ChildStates]
    BY <1>0, <2>2, <2>3
  <2> QED
    BY <1>8, <1>10, <2>1, <2>4 DEF TypeOK, Close
<1>11. ASSUME NEW q \in Requesters, Closed(q) PROVE TypeOK'
  <2> DEFINE r == IF req[q].kind = "restart"
                  THEN [req[q] EXCEPT !.at = "check", !.child = None] ELSE Idle
  <2>1. r \in RequestStates /\ (r.kind = "restart" => r.sid \in rows)
    BY <1>0 DEF RequestStates, Idle
  <2>2. req' = [req EXCEPT ![q] = r]
    BY <1>11 DEF Closed
  <2> HIDE DEF r
  <2> QED
    BY <1>0, <1>1, <1>11, <2>1, <2>2 DEF TypeOK, Closed
<1>12. ASSUME NEW s \in Sessions, Resume(s) PROVE TypeOK'
  <2> DEFINE r == [kind |-> "start", at |-> "check", sid |-> s, child |-> None]
  <2>1. r \in RequestStates /\ r.kind # "restart"
    BY DEF RequestStates
  <2>2. req' = [req EXCEPT ![Resumer] = r]
    BY <1>12 DEF Resume
  <2> HIDE DEF r
  <2> QED
    BY <1>0, <1>1, <1>12, <2>1, <2>2 DEF TypeOK, Resume
<1>13. ASSUME NEW c \in Children, NEW r \in ChildStates,
              child' = [child EXCEPT ![c] = r],
              UNCHANGED <<rows, req, queue, file, scan, server>>,
              ptys' \in [Keys -> Children \cup {None}]
       PROVE  TypeOK'
  BY <1>0, <1>13 DEF TypeOK
<1>14. ASSUME NEW c \in Children, Begin(c) \/ Clear(c) PROVE TypeOK'
  <2>1. PICK s \in Sessions :
            \/ child' = [child EXCEPT ![c].sid = s]
            \/ /\ child' = [child EXCEPT ![c].sid = s, ![c].past = @ \cup {child[c].sid}]
               /\ child[c].sid # None
    BY <1>14 DEF Begin, Clear, Unused
  <2>2. child[c] \in ChildStates /\ child[c].past \subseteq Sessions
        /\ child[c].sid \in Sessions \cup {None}
    BY <1>0 DEF ChildStates
  <2>3. child[c].sid # None => child[c].past \cup {child[c].sid} \in SUBSET Sessions
    BY <2>2
  <2>4. \/ child' = [child EXCEPT ![c] = [child[c] EXCEPT !.sid = s]]
        \/ /\ child' = [child EXCEPT ![c] =
                           [child[c] EXCEPT !.sid = s, !.past = @ \cup {child[c].sid}]]
           /\ child[c].sid # None
    BY <1>0, <2>1
  <2>5. /\ [child[c] EXCEPT !.sid = s] \in ChildStates
        /\ child[c].sid # None =>
              [child[c] EXCEPT !.sid = s, !.past = @ \cup {child[c].sid}] \in ChildStates
    BY <2>2, <2>3 DEF ChildStates
  <2>6. /\ UNCHANGED <<rows, req, queue, file, scan, server>>
        /\ ptys' \in [Keys -> Children \cup {None}]
    BY <1>14 DEF Begin, Clear, TypeOK
  <2> QED
    BY <1>13, <2>4, <2>5, <2>6
<1>15. ASSUME NEW c \in Children, Exit(c) PROVE TypeOK'
  <2>1. /\ child' = [child EXCEPT ![c] = [child[c] EXCEPT !.state = "gone"]]
        /\ [child[c] EXCEPT !.state = "gone"] \in ChildStates
    BY <1>0, <1>15 DEF Exit, ChildStates
  <2> QED
    BY <1>13, <1>15, <2>1 DEF Exit, TypeOK
<1>16. ASSUME NEW c \in Children, Reap(c) PROVE TypeOK'
  <2>1. child' = [child EXCEPT ![c] = ReapedChild] /\ ReapedChild \in ChildStates
    BY <1>16 DEF Reap, ReapedChild, NoChild, ChildStates
  <2>2. ptys' \in [Keys -> Children \cup {None}]
    BY <1>16 DEF TypeOK, Reap, Without
  <2> QED
    BY <1>13, <1>16, <2>1, <2>2 DEF Reap
<1>17. ASSUME NEW c \in Children, NEW s \in Sessions, Hook(c, s) \/ Register(c, s) PROVE TypeOK'
  BY <1>17 DEF TypeOK, Hook, Register, Keys
<1>18. ASSUME Scan PROVE TypeOK'
  <2>1. Transcripts \subseteq Sessions
    <3>1. \A c \in Children : Ran(c) \subseteq Sessions
      BY <1>0 DEF Ran, ChildStates
    <3> QED
      BY <3>1 DEF Transcripts
  <2> QED
    BY <1>18, <2>1 DEF TypeOK, Scan, NoScan
<1>19. ASSUME Look PROVE TypeOK'
  <2> DEFINE pending == {c \in Children : Alive(c) /\ ptys[c] = c /\ SessionKeys(c) = {}}
             seen == [c \in Children |-> IF c \in pending THEN scan.runs[c] ELSE None]
  <2>1. seen \in [Children -> Sessions \cup {None}]
    BY DEF TypeOK
  <2>2. scan' = [scan EXCEPT !.at = "looked", !.runs = seen]
    BY <1>19 DEF Look
  <2> HIDE DEF seen
  <2> QED
    BY <1>19, <2>1, <2>2 DEF TypeOK, Look
<1>20. ASSUME Alias PROVE TypeOK'
  <2>1. ptys' \in [Keys -> Children \cup {None}]
    <3>1. ASSUME NEW k \in Keys
          PROVE  Aliased[k] \in Children \cup {None}
      BY DEF Aliased, TypeOK
    <3> QED
      BY <1>20, <3>1 DEF Alias, Aliased
  <2> QED
    BY <1>20, <2>1 DEF TypeOK, Alias, NoScan
<1>21. ASSUME CloseAll PROVE TypeOK'
  <2>1. child' \in [Children -> ChildStates]
    <3>1. \A c \in Children : [child[c] EXCEPT !.state = Ending(@)] \in ChildStates
      BY <1>0 DEF ChildStates, Ending
    <3> QED
      BY <1>0, <1>21, <3>1 DEF CloseAll
  <2> QED
    BY <1>21, <2>1 DEF TypeOK, CloseAll
<1>22. ASSUME Die PROVE TypeOK'
  <2>1. NoChild \in ChildStates /\ ReapedChild \in ChildStates
    BY DEF NoChild, ReapedChild, ChildStates
  <2>2. NoScan \in [at: {"idle", "scanned", "seen", "looked"}, found: SUBSET Sessions,
                    runs: [Children -> Sessions \cup {None}]]
    BY DEF NoScan
  <2>3. /\ req' \in [Requesters -> RequestStates]
        /\ \A q \in Requesters : req'[q].kind # "restart"
    BY <1>0, <1>22 DEF Die, Idle
  <2> QED
    BY <1>22, <2>1, <2>2, <2>3 DEF TypeOK, Die
<1>23. ASSUME Save \/ Boot PROVE TypeOK'
  BY <1>23 DEF TypeOK, Save, Boot, Hosted
<1>24. CASE UNCHANGED vars
  BY <1>24 DEF TypeOK, vars
<1>25. ASSUME Snapshot PROVE TypeOK'
  <2> DEFINE seen == [c \in Children |-> IF child[c].state \in {"up", "ending"} /\ Settled(c)
                                         THEN child[c].sid ELSE None]
  <2>1. seen \in [Children -> Sessions \cup {None}]
    BY <1>0 DEF ChildStates
  <2>2. scan' = [scan EXCEPT !.at = "seen", !.runs = seen]
    BY <1>25 DEF Snapshot
  <2> HIDE DEF seen
  <2> QED
    BY <1>25, <2>1, <2>2 DEF TypeOK, Snapshot
<1>26. ASSUME NEW s \in Sessions, HookOfReaped(s) PROVE TypeOK'
  BY <1>26 DEF TypeOK, HookOfReaped
<1> QED
  BY <1>2, <1>3, <1>4, <1>5, <1>6, <1>7, <1>9, <1>10, <1>11, <1>12, <1>14, <1>15, <1>16,
     <1>17, <1>18, <1>19, <1>20, <1>21, <1>22, <1>23, <1>24, <1>25, <1>26 DEF Next

\* Every value of the model has its type, however requests overlap.
THEOREM PtyTypeCorrect == Spec => []TypeOK
BY TypeInit, TypeStep, PTL DEF Spec

LEMMA KeyInit == Init => KeyInv
<1> SUFFICES ASSUME Init PROVE KeyInv
  OBVIOUS
<1>1. PtyInv
  BY PtyInit
<1>2. \A q \in Requesters : req[q].at = "idle"
  BY DEF Init, Idle
<1> QED
  BY <1>1, <1>2 DEF KeyInv, PtyInv, ChildInv

\* Keys are dropped, a tick forgets, and a live claude goes on with what it runs.
LEMMA DroppingStep ==
    ASSUME TypeOK, TypeOK', KeyInv,
           \A k \in Keys : ptys'[k] \in {ptys[k], None},
           \A c \in Children :
              /\ scan'.runs[c] \in {scan.runs[c], None}
              /\ Alive(c)' => Alive(c) /\ Ran(c) \subseteq Ran(c)'
              /\ child'[c].state = "none" => child[c].state = "none",
           \A q \in Requesters : req'[q].at = "file" =>
              /\ req[q].at = "file" /\ req'[q] = req[q]
              /\ child'[req[q].child].sid = child[req[q].child].sid
    PROVE  KeyInv'
<1>1. \A q \in Requesters : req'[q].at = "file" =>
          /\ req'[q].child \in Children
          /\ child'[req'[q].child].state # "none"
          /\ child'[req'[q].child].sid = req'[q].sid
  BY DEF KeyInv
<1>2. ASSUME NEW c \in Children, child'[c].state = "none"
      PROVE  Filed(c)' = {} /\ scan'.runs[c] = None
  <2>1. Filed(c) = {} /\ scan.runs[c] = None /\ c # None
    BY <1>2 DEF KeyInv
  <2>2. \A k \in Keys : ptys'[k] # c
    BY <2>1 DEF Filed
  <2> QED
    BY <1>2, <2>1, <2>2 DEF Filed
<1>3. \A c \in Children : Alive(c)' /\ scan'.runs[c] # None => scan'.runs[c] \in Ran(c)'
  BY DEF KeyInv
<1>4. KeysNameTheirConversations'
  <2> SUFFICES ASSUME NEW s \in Sessions, Alive(ptys[s])' PROVE s \in Ran(ptys[s])'
    BY DEF KeysNameTheirConversations
  <2>1. PICK c \in Children : c = ptys'[s]
    BY DEF TypeOK, Keys, Alive
  <2>2. ptys[s] = c /\ Alive(c)
    BY <2>1 DEF Keys, Alive
  <2>3. s \in Ran(c)
    BY <2>2 DEF KeyInv, KeysNameTheirConversations
  <2>4. s \in Ran(c)'
    BY <2>1, <2>2, <2>3 DEF Alive
  <2> QED
    BY <2>1, <2>4 DEF Ran
<1> QED
  BY <1>1, <1>2, <1>3, <1>4 DEF KeyInv

\* The claudes go on; whoever is filed, or seen, under a session runs it.
LEMMA FilesStep ==
    ASSUME TypeOK, TypeOK', KeyInv, UNCHANGED child,
           \A k \in Keys :
              \/ ptys'[k] = ptys[k]
              \/ /\ ptys'[k] \in Children /\ child[ptys'[k]].state # "none"
                 /\ k \in Sessions /\ Alive(ptys'[k]) => k \in Ran(ptys'[k]),
           \A c \in Children :
              \/ scan'.runs[c] \in {scan.runs[c], None}
              \/ child[c].state # "none" /\ scan'.runs[c] \in Ran(c) \cup {None},
           \A q \in Requesters : req'[q].at = "file" => req'[q] = req[q]
    PROVE  KeyInv'
<1>1. \A c \in Children : Alive(c)' = Alive(c) /\ Ran(c)' = Ran(c)
  BY DEF Alive, Ran
<1>2. \A q \in Requesters : req'[q].at = "file" =>
          /\ req'[q].child \in Children
          /\ child'[req'[q].child].state # "none"
          /\ child'[req'[q].child].sid = req'[q].sid
  BY DEF KeyInv
<1>3. ASSUME NEW c \in Children, child[c].state = "none"
      PROVE  Filed(c)' = {} /\ scan'.runs[c] = None
  BY <1>3 DEF KeyInv, Filed
<1>4. \A c \in Children : Alive(c)' /\ scan'.runs[c] # None => scan'.runs[c] \in Ran(c)'
  BY <1>1 DEF KeyInv
<1>5. KeysNameTheirConversations'
  <2> SUFFICES ASSUME NEW s \in Sessions, Alive(ptys[s])' PROVE s \in Ran(ptys[s])'
    BY DEF KeysNameTheirConversations
  <2>1. PICK c \in Children : c = ptys'[s]
    BY DEF TypeOK, Keys, Alive
  <2>2. Alive(c)
    BY <2>1 DEF Alive
  <2>3. s \in Ran(c)
    BY <2>1, <2>2 DEF KeyInv, KeysNameTheirConversations, Keys
  <2>4. s \in Ran(c)'
    BY <1>1, <2>3
  <2> QED
    BY <2>1, <2>4 DEF Ran
<1> QED
  BY <1>1, <1>2, <1>3, <1>4, <1>5 DEF KeyInv

LEMMA KeyStep == TypeOK /\ KeyInv /\ [Next]_vars => KeyInv'
<1> SUFFICES ASSUME TypeOK, KeyInv, [Next]_vars, TypeOK' PROVE KeyInv'
  BY TypeStep
<1>0. /\ child \in [Children -> ChildStates] /\ req \in [Requesters -> RequestStates]
      /\ Clients \subseteq Requesters /\ Resumer \in Requesters
      /\ \A c \in Children : Ran(c) = (child[c].past \cup {child[c].sid}) \ {None}
      /\ \A q \in Requesters : req[q].child \in Children \cup {None}
  BY ReqType DEF TypeOK, Requesters, Ran
\* A request that leaves the claudes alone, or drops keys.
<1>1. ASSUME NEW q \in Requesters, UNCHANGED <<child, scan>>, req'[q].at # "file",
             \A p \in Requesters : p # q => req'[p] = req[p],
             \A k \in Keys : ptys'[k] \in {ptys[k], None}
      PROVE  KeyInv'
  <2>1. \A c \in Children : Alive(c)' = Alive(c) /\ Ran(c)' = Ran(c)
    BY <1>1 DEF Alive, Ran
  <2> QED
    BY <1>1, <2>1, DroppingStep
<1>2. ASSUME NEW q \in Clients, NEW sid \in Sessions \cup {None}, Start(q, sid) PROVE KeyInv'
  <2>1. /\ req'[q].at = "spawn" /\ \A p \in Requesters : p # q => req'[p] = req[p]
        /\ UNCHANGED <<child, ptys, scan>>
    BY <1>0, <1>2 DEF Start
  <2> QED
    BY <1>0, <1>1, <2>1
<1>3. ASSUME NEW q \in Clients, NEW name \in Keys, FindRestart(q, name) PROVE KeyInv'
  <2>1. /\ req'[q].at = "found" /\ \A p \in Requesters : p # q => req'[p] = req[p]
        /\ UNCHANGED <<child, ptys, scan>>
    BY <1>0, <1>3 DEF FindRestart
  <2> QED
    BY <1>0, <1>1, <2>1
<1>4. ASSUME NEW q \in Clients, NEW name \in Keys, DeletePTY(q, name) PROVE KeyInv'
  <2>1. /\ req'[q].at = "removed" /\ \A p \in Requesters : p # q => req'[p] = req[p]
        /\ UNCHANGED <<child, scan>> /\ \A k \in Keys : ptys'[k] \in {ptys[k], None}
    BY <1>0, <1>4 DEF DeletePTY, Without
  <2> QED
    BY <1>0, <1>1, <2>1
<1>5. ASSUME NEW q \in Requesters, Check(q) PROVE KeyInv'
  <2>1. /\ req'[q].at \in {"idle", "spawn"} /\ \A p \in Requesters : p # q => req'[p] = req[p]
        /\ UNCHANGED <<child, ptys, scan>>
    BY <1>0, <1>5 DEF Check, Idle
  <2> QED
    BY <1>1, <2>1
<1>6. ASSUME NEW q \in Requesters, RemoveKeys(q) PROVE KeyInv'
  <2>1. /\ req' = [req EXCEPT ![q].at = "removed"] /\ UNCHANGED <<child, scan>>
        /\ \A k \in Keys : ptys'[k] \in {ptys[k], None}
    BY <1>6 DEF RemoveKeys, Without
  <2>2. req'[q] = [req[q] EXCEPT !.at = "removed"] /\ \A p \in Requesters : p # q => req'[p] = req[p]
    BY <1>0, <2>1
  <2>3. req'[q].at = "removed"
    BY <1>0, <2>2 DEF RequestStates
  <2> QED
    BY <1>1, <2>1, <2>2, <2>3
<1>7. ASSUME NEW q \in Requesters, Closed(q) PROVE KeyInv'
  <2> DEFINE r == IF req[q].kind = "restart"
                  THEN [req[q] EXCEPT !.at = "check", !.child = None] ELSE Idle
  <2>1. r.at \in {"check", "idle"}
    BY <1>0 DEF RequestStates, Idle
  <2>2. req' = [req EXCEPT ![q] = r] /\ UNCHANGED <<child, ptys, scan>>
    BY <1>7 DEF Closed
  <2> HIDE DEF r
  <2>3. req'[q] = r /\ \A p \in Requesters : p # q => req'[p] = req[p]
    BY <1>0, <2>2
  <2> QED
    BY <1>1, <2>1, <2>2, <2>3
<1>8. ASSUME NEW s \in Sessions, Resume(s) PROVE KeyInv'
  <2>1. /\ req'[Resumer].at = "check"
        /\ \A p \in Requesters : p # Resumer => req'[p] = req[p]
        /\ UNCHANGED <<child, ptys, scan>>
    BY <1>0, <1>8 DEF Resume
  <2> QED
    BY <1>0, <1>1, <2>1
<1>9. ASSUME NEW q \in Requesters, Spawn(q) PROVE KeyInv'
  <2>1. CASE req' = [req EXCEPT ![q] = Idle] /\ UNCHANGED child
    <3>1. /\ req'[q].at = "idle" /\ \A p \in Requesters : p # q => req'[p] = req[p]
          /\ UNCHANGED <<ptys, scan>>
      BY <1>0, <1>9, <2>1 DEF Spawn, Idle
    <3> QED
      BY <1>1, <2>1, <3>1
  <2>2. ASSUME NEW c \in Children, child[c].state = "none",
               child' = [child EXCEPT ![c] = [state |-> "up", sid |-> req[q].sid, past |-> {}]],
               req' = [req EXCEPT ![q].at = "file", ![q].child = c]
        PROVE  KeyInv'
    <3>1. /\ child'[c].state = "up" /\ child'[c].sid = req[q].sid
          /\ \A d \in Children : d # c => child'[d] = child[d]
          /\ \A d \in Children \ {c} : Alive(d)' = Alive(d) /\ Ran(d)' = Ran(d)
          /\ UNCHANGED <<ptys, scan>>
      BY <1>0, <1>9, <2>2 DEF Spawn, Alive, Ran
    <3>2. /\ req'[q] = [req[q] EXCEPT !.at = "file", !.child = c]
          /\ \A p \in Requesters : p # q => req'[p] = req[p]
      BY <1>0, <2>2
    <3>3. req'[q].child = c /\ req'[q].sid = req[q].sid
      BY <1>0, <3>2 DEF RequestStates
    <3>4. Filed(c) = {} /\ scan.runs[c] = None
      BY <2>2 DEF KeyInv
    <3>5. \A p \in Requesters : req'[p].at = "file" =>
              /\ req'[p].child \in Children
              /\ child'[req'[p].child].state # "none"
              /\ child'[req'[p].child].sid = req'[p].sid
      <4>1. ASSUME NEW p \in Requesters, p # q, req[p].at = "file",
                   NEW d, d = req[p].child
            PROVE  /\ d \in Children \ {c} /\ child[d].state # "none"
                   /\ child[d].sid = req[p].sid
        BY <2>2, <4>1 DEF KeyInv
      <4>2. ASSUME NEW p \in Requesters, p # q, req'[p].at = "file"
            PROVE  /\ req'[p].child \in Children
                   /\ child'[req'[p].child].state # "none"
                   /\ child'[req'[p].child].sid = req'[p].sid
        BY <3>1, <3>2, <4>1, <4>2
      <4>3. /\ req'[q].child \in Children
            /\ child'[req'[q].child].state # "none"
            /\ child'[req'[q].child].sid = req'[q].sid
        BY <3>1, <3>3
      <4> QED
        BY <4>2, <4>3
    <3>6. \A d \in Children :
              /\ child'[d].state = "none" => Filed(d)' = {} /\ scan'.runs[d] = None
              /\ Alive(d)' /\ scan'.runs[d] # None => scan'.runs[d] \in Ran(d)'
      BY <3>1, <3>4 DEF KeyInv, Filed
    <3>7. KeysNameTheirConversations'
      <4> SUFFICES ASSUME NEW s \in Sessions, Alive(ptys[s])' PROVE s \in Ran(ptys[s])'
        BY DEF KeysNameTheirConversations
      <4>1. PICK d \in Children : d = ptys[s]
        BY <3>1 DEF TypeOK, Keys, Alive
      <4>2. d # c
        BY <3>4, <4>1 DEF Filed, Keys
      <4>3. s \in Ran(d)
        BY <3>1, <4>1, <4>2 DEF KeyInv, KeysNameTheirConversations, Alive
      <4>4. s \in Ran(d)' /\ ptys'[s] = d
        BY <3>1, <4>1, <4>2, <4>3
      <4> QED
        BY <4>4 DEF Ran
    <3> QED
      BY <3>5, <3>6, <3>7 DEF KeyInv
  <2> QED
    BY <1>9, <2>1, <2>2 DEF Spawn
<1>10. ASSUME NEW q \in Requesters, File(q) PROVE KeyInv'
  <2>1. PICK c \in Children : c = req[q].child /\ child[c].state # "none" /\ child[c].sid = req[q].sid
    BY <1>10 DEF File, KeyInv
  <2>2. PICK name \in Keys :
            /\ name = IF req[q].sid = None THEN c ELSE req[q].sid
            /\ ptys' = [ptys EXCEPT ![name] = c]
    BY <1>10, <2>1, ReqType DEF File, Keys
  <2>3. name \in Sessions => name \in Ran(c)
    BY <1>0, <2>1, <2>2
  <2>4. /\ UNCHANGED <<child, scan>> /\ req'[q].at = "idle"
        /\ \A p \in Requesters : p # q => req'[p] = req[p]
        /\ \A k \in Keys : ptys'[k] = IF k = name THEN c ELSE ptys[k]
    BY <1>0, <1>10, <2>2 DEF File, Idle, TypeOK
  <2> QED
    BY <2>1, <2>3, <2>4, FilesStep
<1>11. ASSUME NEW c \in Children,
              \/ Begin(c) \/ Clear(c) \/ Exit(c) \/ Reap(c)
              \/ \E q \in Requesters : Close(q) /\ c = req[q].child
       PROVE  KeyInv'
  <2>1. /\ \A d \in Children : d # c => child'[d] = child[d]
        /\ child'[c].state \notin {"none"} \/ child'[c] = child[c]
        /\ \/ child'[c].sid = child[c].sid
           \/ Settled(c)
        /\ child'[c].state = "up" => child[c].state = "up" /\ Ran(c) \subseteq Ran(c)'
        /\ UNCHANGED scan
    <3>1. CASE Begin(c)
      BY <1>0, <3>1 DEF Begin, Ran, ChildStates
    <3>2. CASE Clear(c)
      BY <1>0, <3>2 DEF Clear, Ran, ChildStates
    <3>3. CASE Exit(c) \/ Reap(c)
      BY <1>0, <3>3 DEF Exit, Reap, ReapedChild, NoChild, ChildStates
    <3>4. ASSUME NEW q \in Requesters, Close(q), c = req[q].child
          PROVE  /\ \A d \in Children : d # c => child'[d] = child[d]
                 /\ child'[c] = [child[c] EXCEPT !.state = Ending(@)]
                 /\ UNCHANGED scan
      BY <1>0, <3>4 DEF Close
    <3>5. LET r == [child[c] EXCEPT !.state = Ending(@)]
          IN  r.state # "up" /\ r.sid = child[c].sid /\ (r.state = "none" => r = child[c])
      BY <1>0 DEF ChildStates, Ending
    <3> QED
      BY <1>11, <3>1, <3>2, <3>3, <3>4, <3>5
  <2>2. /\ \A k \in Keys : ptys'[k] \in {ptys[k], None}
        /\ \A q \in Requesters : req'[q].at = "file" => req'[q] = req[q]
    <3>1. CASE Begin(c) \/ Clear(c) \/ Exit(c) \/ Reap(c)
      BY <3>1 DEF Begin, Clear, Exit, Reap, Without
    <3>2. ASSUME NEW q \in Requesters, Close(q)
          PROVE  /\ UNCHANGED ptys /\ req'[q].at = "closing"
                 /\ \A p \in Requesters : p # q => req'[p] = req[p]
      BY <1>0, <3>2 DEF Close, RequestStates
    <3> QED
      BY <1>11, <3>1, <3>2
  <2>3. ASSUME NEW q \in Requesters, req'[q].at = "file"
        PROVE  child'[req[q].child].sid = child[req[q].child].sid
    BY <2>1, <2>2, <2>3 DEF Settled, KeyInv
  <2>4. \A d \in Children :
            /\ Alive(d)' => Alive(d) /\ Ran(d) \subseteq Ran(d)'
            /\ child'[d].state = "none" => child[d].state = "none"
    BY <2>1 DEF Alive, Ran
  <2> QED
    BY <2>1, <2>2, <2>3, <2>4, DroppingStep
<1>12. ASSUME NEW q \in Requesters, Close(q) PROVE KeyInv'
  <2>1. CASE req[q].child \in Children
    BY <1>11, <1>12, <2>1
  <2>2. CASE req[q].child = None
    <3>1. UNCHANGED <<child, ptys, scan>>
      BY <1>0, <1>12, <2>2 DEF Close
    <3>2. req'[q].at = "closing" /\ \A p \in Requesters : p # q => req'[p] = req[p]
      BY <1>0, <1>12 DEF Close, RequestStates
    <3> QED
      BY <1>1, <3>1, <3>2
  <2> QED
    BY <1>0, <2>1, <2>2
<1>13. ASSUME NEW c \in Children, NEW s \in Sessions, Hook(c, s) PROVE KeyInv'
  <2>1. /\ s \in Ran(c) /\ UNCHANGED <<child, req, scan>>
        /\ \A k \in Keys : ptys'[k] = ptys[k] \/ (ptys'[k] = c /\ k = s /\ Filed(c) # {})
    BY <1>13 DEF Hook, TypeOK
  <2>2. Filed(c) # {} => child[c].state # "none"
    BY DEF KeyInv
  <2> QED
    BY <2>1, <2>2, FilesStep
<1>14. ASSUME NEW c \in Children, NEW s \in Sessions, Register(c, s) PROVE KeyInv'
  <2>1. /\ ptys[c] = c /\ s \in Ran(c) /\ UNCHANGED <<child, req, scan>>
        /\ \A k \in Keys : ptys'[k] = ptys[k] \/ (ptys'[k] = c /\ k = s)
    BY <1>14 DEF Register, TypeOK
  <2>2. child[c].state # "none"
    BY <2>1 DEF KeyInv, Filed, Keys
  <2> QED
    BY <2>1, <2>2, FilesStep
<1>15. ASSUME Scan PROVE KeyInv'
  <2>1. UNCHANGED <<child, ptys, req>> /\ \A c \in Children : scan'.runs[c] = None
    BY <1>15 DEF Scan, NoScan
  <2> QED
    BY <2>1, FilesStep
<1>16. ASSUME Look PROVE KeyInv'
  <2>1. UNCHANGED <<child, ptys, req>>
        /\ \A c \in Children : scan'.runs[c] \in {scan.runs[c], None}
    BY <1>16 DEF Look, TypeOK
  <2> QED
    BY <2>1, FilesStep
<1>17. ASSUME Alias PROVE KeyInv'
  <2>1. UNCHANGED <<child, req>> /\ \A c \in Children : scan'.runs[c] = None
    BY <1>17 DEF Alias, NoScan
  <2>2. \A k \in Keys :
            \/ ptys'[k] = ptys[k]
            \/ ptys'[k] \in Children /\ scan.runs[ptys'[k]] = k
    BY <1>17 DEF Alias, Aliased
  <2>3. \A c \in Children : scan.runs[c] # None =>
            child[c].state # "none" /\ (Alive(c) => scan.runs[c] \in Ran(c))
    BY DEF KeyInv
  <2>4. None \notin Keys
    BY DEF Keys
  <2> QED
    BY <2>1, <2>2, <2>3, <2>4, FilesStep
<1>18. ASSUME CloseAll PROVE KeyInv'
  <2>1. /\ \A k \in Keys : ptys'[k] = None
        /\ UNCHANGED <<req, scan>>
        /\ \A c \in Children :
              child'[c] \in {child[c], [child[c] EXCEPT !.state = Ending(child[c].state)]}
    BY <1>0, <1>18 DEF CloseAll
  <2>2. \A c \in Children :
            LET r == [child[c] EXCEPT !.state = Ending(child[c].state)]
            IN  /\ r.state # "up" /\ r.sid = child[c].sid
                /\ r.state = "none" => child[c].state = "none"
    BY <1>0 DEF ChildStates, Ending
  <2>3. \A c \in Children :
            /\ child'[c].sid = child[c].sid
            /\ Alive(c)' => Alive(c) /\ Ran(c) \subseteq Ran(c)'
            /\ child'[c].state = "none" => child[c].state = "none"
    BY <2>1, <2>2 DEF Alive, Ran
  <2>4. \A q \in Requesters : req[q].at = "file" => req[q].child \in Children
    BY DEF KeyInv
  <2> QED
    BY <2>1, <2>3, <2>4, DroppingStep
<1>19. ASSUME Die PROVE KeyInv'
  <2>1. /\ \A k \in Keys : ptys'[k] = None
        /\ \A q \in Requesters : req'[q].at = "idle"
        /\ \A c \in Children : /\ scan'.runs[c] = None /\ ~Alive(c)'
                               /\ child'[c].state = "none" => child[c].state = "none"
    BY <1>19 DEF Die, Idle, NoScan, NoChild, ReapedChild, Alive
  <2> QED
    BY <2>1, DroppingStep
<1>20. ASSUME Save \/ Boot \/ UNCHANGED vars PROVE KeyInv'
  <2>1. UNCHANGED <<child, ptys, req, scan>>
    BY <1>20 DEF Save, Boot, vars
  <2> QED
    BY <2>1, FilesStep
<1>21. ASSUME Snapshot PROVE KeyInv'
  <2> DEFINE up(c) == child[c].state \in {"up", "ending"} /\ Settled(c)
  <2>1. UNCHANGED <<child, ptys, req>>
        /\ \A c \in Children : scan'.runs[c] = IF up(c) THEN child[c].sid ELSE None
    BY <1>21 DEF Snapshot, TypeOK
  <2>2. \A c \in Children : up(c) =>
            child[c].state # "none" /\ child[c].sid \in Ran(c) \cup {None}
    BY <1>0
  <2> HIDE DEF up
  <2> QED
    BY <2>1, <2>2, FilesStep
<1>22. ASSUME NEW s \in Sessions, HookOfReaped(s) PROVE KeyInv'
  <2>1. UNCHANGED <<child, ptys, req, scan>>
    BY <1>22 DEF HookOfReaped
  <2> QED
    BY <2>1, FilesStep
<1> QED
  BY <1>2, <1>3, <1>4, <1>5, <1>6, <1>7, <1>8, <1>9, <1>10, <1>11, <1>12, <1>13, <1>14,
     <1>15, <1>16, <1>17, <1>18, <1>19, <1>20, <1>21, <1>22 DEF Next

\* What is typed to a session goes to a claude that has run it, however the
\* requests, the hooks and the ticks that file it overlap.
THEOREM KeysNameConversations == Spec => []KeysNameTheirConversations
<1>1. Init => TypeOK /\ KeyInv
  BY TypeInit, KeyInit
<1>2. TypeOK /\ KeyInv /\ [Next]_vars => TypeOK' /\ KeyInv'
  BY TypeStep, KeyStep
<1>3. KeyInv => KeysNameTheirConversations
  BY DEF KeyInv
<1> QED
  BY <1>1, <1>2, <1>3, PTL DEF Spec

-----------------------------------------------------------------------------
(* What holds when no two requests are about one conversation                  *)

LEMMA PtyInvariant ==
    ASSUME ~Overlap
    PROVE  Spec => []PtyInv
<1>1. Init => PtyInv
  BY PtyInit
<1>2. PtyInv /\ [Next]_vars => PtyInv'
  BY PtyNext
<1> QED
  BY <1>1, <1>2, PTL DEF Spec

\* Neither a restart, nor a resume, nor a start makes a second claude of a
\* conversation, as long as no other request is about it at the time.
THEOREM OneClaude ==
    ASSUME ~Overlap
    PROVE  Spec => []OneClaudePerConversation
<1>1. PtyInv => OneClaudePerConversation
  BY DEF PtyInv
<1> QED
  BY PtyInvariant, <1>1, PTL

\* A claude that was not told to end stays on the map until a request takes it
\* off: dropping the keys of the one before it, and filing the one after it,
\* leave it a key.
THEOREM ClaudesAreReachable ==
    ASSUME ~Overlap
    PROVE  Spec => []EveryClaudeIsReachable
<1>1. PtyInv => EveryClaudeIsReachable
  BY DEF PtyInv, ReachInv, EveryClaudeIsReachable, InHand
<1> QED
  BY PtyInvariant, <1>1, PTL
=============================================================================
