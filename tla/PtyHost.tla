-------------------------------- MODULE PtyHost --------------------------------
(***************************************************************************)
(* The claudes a collector hosts in PTYs, and the map they are found by    *)
(* (src/internal/server/pty.go, restart.go).                               *)
(*                                                                         *)
(* A PTY is filed under pid-<N> or the session it resumes, and under each  *)
(* session its claude is later seen to run.  Starting one checks the map,  *)
(* spawns and files in three steps; a restart removes the old claude's     *)
(* keys, ends it, and starts another; a planned stop saves the hosted      *)
(* sessions, and the next collector resumes them one by one.               *)
(*                                                                         *)
(* The key pid-<N> and the hook tag of a child are the child itself.       *)
(***************************************************************************)
EXTENDS Naturals, FiniteSets

CONSTANTS
    Sessions,  \* conversations of claude
    Known,     \* those with a row before anything runs
    Children,  \* bound: claudes spawned
    Clients,   \* bound: requests under way
    Overlap,   \* may two requests be about one conversation at a time (and a
               \* PTY be registered while it exits, or another has the session)?
    MaxStarts, \* bound: starts of the collector
    None

ASSUME PtyAssumption ==
    /\ Known \subseteq Sessions
    /\ Overlap \in BOOLEAN
    /\ MaxStarts \in Nat
    /\ Sessions \cap Children = {}
    /\ None \notin Sessions \cup Children \cup Clients

VARIABLES
    child,    \* the claudes
    ptys,     \* s.ptyMap
    rows,     \* sessions with a row: what a client can name
    req,      \* requests under way; resumeSaved makes them too
    queue,    \* what resumeSaved has still to start
    file,     \* resume-on-start.json, None when there is none
    scan,     \* a discovery tick under way
    server    \* the collector's process

vars == <<child, ptys, rows, req, queue, file, scan, server>>

Resumer == "resumeSaved"
Requesters == Clients \cup {Resumer}
Keys == Sessions \cup Children

\* A claude is up until Close is called on it; then it ends.  It is reaped
\* when the goroutine waiting for its exit has dropped its keys.
ChildStates ==
    [state: {"none", "up", "ending", "gone", "reaped"},
     sid: Sessions \cup {None}, past: SUBSET Sessions]

NoChild == [state |-> "none", sid |-> None, past |-> {}]
ReapedChild == [NoChild EXCEPT !.state = "reaped"]

Alive(c) == c # None /\ child[c].state = "up"
Ran(c) == (child[c].past \cup {child[c].sid}) \ {None}
Filed(c) == {k \in Keys : ptys[k] = c}
SessionKeys(c) == Filed(c) \cap Sessions
Without(c) == [k \in Keys |-> IF ptys[k] = c THEN None ELSE ptys[k]]

\* A session id nobody uses.  (One whose claude is gone before it was noted
\* anywhere is forgotten.)
Unused ==
    {s \in Sessions : /\ s \notin rows \cup scan.found
                     /\ ptys[s] = None
                     /\ \A c \in Children : s \notin Ran(c) \cup {scan.runs[c]}}

Idle == [kind |-> "none", at |-> "idle", sid |-> None, child |-> None]

RequestStates ==
    [kind: {"none", "start", "restart", "close"},
     at: {"idle", "spawn", "file", "found", "removed", "closing", "check"},
     sid: Sessions \cup {None}, child: Children \cup {None}]

NoScan == [at |-> "idle", found |-> {}, runs |-> [c \in Children |-> None]]

Init ==
    /\ child = [c \in Children |-> NoChild]
    /\ ptys = [k \in Keys |-> None]
    /\ rows = Known
    /\ req = [q \in Requesters |-> Idle]
    /\ queue = {}
    /\ file \in {None, Known}
    /\ scan = NoScan
    /\ server = [phase |-> "down", starts |-> 0]

Up == server.phase = "up"
Running == server.phase # "down"

-----------------------------------------------------------------------------
(* Starting a claude: startPTY. *)

\* The conversations a request is about.
About(q) ==
    ({req[q].sid} \ {None})
    \cup (IF req[q].child = None THEN {} ELSE Ran(req[q].child))

Free(sessions) ==
    Overlap \/ \A q \in Requesters : About(q) \cap sessions = {}

\* POST /pty/start.  A live claude of the session is reused: nothing changes.
\* (The TUI, the portal and the MCP servers name the session to resume twice.)
Start(q, sid) ==
    /\ Up
    /\ req[q].at = "idle"
    /\ Free({sid} \ {None})
    /\ sid # None => sid \in rows /\ ~Alive(ptys[sid])
    /\ req' = [req EXCEPT ![q] =
                  [kind |-> "start", at |-> "spawn", sid |-> sid, child |-> None]]
    /\ UNCHANGED <<child, ptys, rows, queue, file, scan, server>>

\* The child is started (or is not, and the request fails).
Spawn(q) ==
    /\ req[q].at = "spawn"
    /\ \/ \E c \in Children :
            /\ child[c].state = "none"
            /\ child' = [child EXCEPT ![c] =
                            [state |-> "up", sid |-> req[q].sid, past |-> {}]]
            /\ req' = [req EXCEPT ![q].at = "file", ![q].child = c]
       \/ /\ req' = [req EXCEPT ![q] = Idle]
          /\ UNCHANGED child
    /\ UNCHANGED <<ptys, rows, queue, file, scan, server>>

\* Its entry replaces whatever was filed under that key.
File(q) ==
    LET key == IF req[q].sid = None THEN req[q].child ELSE req[q].sid IN
    /\ req[q].at = "file"
    /\ ptys' = [ptys EXCEPT ![key] = req[q].child]
    /\ req' = [req EXCEPT ![q] = Idle]
    /\ UNCHANGED <<child, rows, queue, file, scan, server>>

\* startPTY's look in the map, for a restart and for a resume.
Check(q) ==
    /\ req[q].at = "check"
    /\ req' = [req EXCEPT ![q] =
                  IF Alive(ptys[@.sid]) THEN Idle
                  ELSE [kind |-> @.kind, at |-> "spawn", sid |-> @.sid,
                        child |-> None]]
    /\ UNCHANGED <<child, ptys, rows, queue, file, scan, server>>

-----------------------------------------------------------------------------
(* Ending one: DELETE /pty/{key}, POST /pty/{key}/restart. *)

\* Mutant: a claude that has no session yet is not refused.
FindAnyRestart(q, key) ==
    LET c == ptys[key] IN
    /\ Up
    /\ req[q].at = "idle"
    /\ c # None
    /\ \E sid \in IF key \in Sessions THEN {key} ELSE SessionKeys(c) \cup {None} :
          /\ Free(Ran(c) \cup ({sid} \ {None}))
          /\ req' = [req EXCEPT ![q] =
                        [kind |-> "restart", at |-> "found", sid |-> sid, child |-> c]]
    /\ UNCHANGED <<child, ptys, rows, queue, file, scan, server>>

\* handlePTYRestart: the entry, and a session key of it (sessionKeyOf).
FindRestart(q, key) ==
    LET c == ptys[key] IN
    /\ Up
    /\ req[q].at = "idle"
    /\ c # None
    /\ \E sid \in (IF key \in Sessions THEN {key} ELSE SessionKeys(c)) \cap rows :
          /\ Free(Ran(c) \cup {sid})
          /\ req' = [req EXCEPT ![q] =
                        [kind |-> "restart", at |-> "found", sid |-> sid, child |-> c]]
    /\ UNCHANGED <<child, ptys, rows, queue, file, scan, server>>

RemoveKeys(q) ==
    /\ req[q].at = "found"
    /\ ptys' = Without(req[q].child)
    /\ req' = [req EXCEPT ![q].at = "removed"]
    /\ UNCHANGED <<child, rows, queue, file, scan, server>>

\* handlePTYClose: the look and the removal are one.
DeletePTY(q, key) ==
    LET c == ptys[key] IN
    /\ Up
    /\ req[q].at = "idle"
    /\ c # None
    /\ Free(Ran(c))
    /\ ptys' = Without(c)
    /\ req' = [req EXCEPT ![q] =
                  [kind |-> "close", at |-> "removed", sid |-> None, child |-> c]]
    /\ UNCHANGED <<child, rows, queue, file, scan, server>>

\* Session.Close: the first call ends the child and waits for its exit.  (A
\* second one returns at once; a restart waits for the exit all the same, and
\* nothing follows the second Close of a DELETE.)
Ending(state) == IF state = "up" THEN "ending" ELSE state

Close(q) ==
    /\ req[q].at = "removed"
    /\ child' = [child EXCEPT ![req[q].child].state = Ending(@)]
    /\ req' = [req EXCEPT ![q].at = "closing"]
    /\ UNCHANGED <<ptys, rows, queue, file, scan, server>>

Closed(q) ==
    /\ req[q].at = "closing"
    /\ child[req[q].child].state \in {"gone", "reaped"}
    /\ req' = [req EXCEPT ![q] =
                  IF @.kind = "restart" THEN [@ EXCEPT !.at = "check", !.child = None]
                  ELSE Idle]
    /\ UNCHANGED <<child, ptys, rows, queue, file, scan, server>>

-----------------------------------------------------------------------------
(* The claudes themselves, outside the collector. *)

\* spawnPTY files a child sooner than claude comes up.
Settled(c) == \A q \in Requesters : req[q].at = "file" => req[q].child # c

\* A new claude takes a session id; /clear takes another one.
Begin(c) ==
    /\ child[c].state = "up" /\ child[c].sid = None
    /\ Settled(c)
    /\ \E s \in Unused : child' = [child EXCEPT ![c].sid = s]
    /\ UNCHANGED <<ptys, rows, req, queue, file, scan, server>>

Clear(c) ==
    /\ child[c].state = "up" /\ child[c].sid # None
    /\ Settled(c)
    /\ \E s \in Unused :
          child' = [child EXCEPT ![c].sid = s, ![c].past = @ \cup {child[c].sid}]
    /\ UNCHANGED <<ptys, rows, req, queue, file, scan, server>>

Exit(c) ==
    /\ child[c].state \in {"up", "ending"}
    /\ child' = [child EXCEPT ![c].state = "gone"]
    /\ UNCHANGED <<ptys, rows, req, queue, file, scan, server>>

\* Mutant: the keys the claude was started and seen under are dropped,
\* whoever is filed there now.
ReapByName(c) ==
    /\ Running
    /\ child[c].state = "gone"
    /\ Settled(c)
    /\ child' = [child EXCEPT ![c] = ReapedChild]
    /\ ptys' = [k \in Keys |-> IF k \in Ran(c) \cup {c} THEN None ELSE ptys[k]]
    /\ UNCHANGED <<rows, req, queue, file, scan, server>>

\* The goroutine started once the entry is filed: drop every key of it.
Reap(c) ==
    /\ Running
    /\ child[c].state = "gone"
    /\ Settled(c)
    /\ child' = [child EXCEPT ![c] = ReapedChild]
    /\ ptys' = Without(c)
    /\ UNCHANGED <<rows, req, queue, file, scan, server>>

-----------------------------------------------------------------------------
(* Which claude runs which session. *)

\* Mutant: a session is filed under the claude of any hook with a tag.
HookUntagged(c, s) ==
    /\ Up
    /\ s \in Ran(c)
    /\ rows' = rows \cup {s}
    /\ \/ /\ ptys[s] = None
          /\ \E d \in Children : Filed(d) # {} /\ ptys' = [ptys EXCEPT ![s] = d]
       \/ /\ ptys[s] # None \/ Filed(c) = {}
          /\ UNCHANGED ptys
    /\ UNCHANGED <<child, req, queue, file, scan, server>>

\* A hook of c, for a session it runs or ran (hooks come late): ensureSession
\* files the session under the tag (aliasPTYByTag), then writes its row.
Hook(c, s) ==
    /\ Up
    /\ s \in Ran(c)
    /\ rows' = rows \cup {s}
    /\ ptys' = IF ptys[s] = None /\ Filed(c) # {} THEN [ptys EXCEPT ![s] = c]
               ELSE ptys
    /\ UNCHANGED <<child, req, queue, file, scan, server>>

\* A hook of a claude that was reaped (and whose session is forgotten here)
\* finds no entry with its tag: it writes the row.
HookOfReaped(s) ==
    /\ Up
    /\ \E c \in Children : child[c].state = "reaped"
    /\ s \in Unused
    /\ rows' = rows \cup {s}
    /\ UNCHANGED <<child, ptys, req, queue, file, scan, server>>

\* A discovery tick lists the transcripts, and then the processes.  (What is
\* typed after a /clear is typed after its hook.)
Transcripts == UNION {Ran(c) : c \in {d \in Children : child[d].past = {}}}

Scan ==
    /\ Up
    /\ scan.at = "idle"
    /\ scan' = [NoScan EXCEPT !.at = "scanned", !.found = Transcripts]
    /\ UNCHANGED <<child, ptys, rows, req, queue, file, server>>

\* procmap.Snapshot: what the claudes run, as they have written it down.
Snapshot ==
    /\ scan.at = "scanned"
    /\ scan' = [scan EXCEPT !.at = "seen",
                   !.runs = [c \in Children |->
                                IF child[c].state \in {"up", "ending"} /\ Settled(c)
                                THEN child[c].sid ELSE None]]
    /\ UNCHANGED <<child, ptys, rows, req, queue, file, server>>

\* aliasPTYsByParent is about the spawns that have no session key.
Look ==
    LET pending == {c \in Children :
                       Alive(c) /\ ptys[c] = c /\ SessionKeys(c) = {}}
    IN
    /\ scan.at = "seen"
    /\ scan' = [scan EXCEPT !.at = "looked",
                   !.runs = [c \in Children |->
                                IF c \in pending THEN scan.runs[c] ELSE None]]
    /\ UNCHANGED <<child, ptys, rows, req, queue, file, server>>

\* The map, once the sessions seen that have no key are filed.
Aliased ==
    [k \in Keys |->
        IF ptys[k] = None /\ \E c \in Children : scan.runs[c] = k
        THEN CHOOSE c \in Children : scan.runs[c] = k
        ELSE ptys[k]]

\* Mutant: the transcripts are listed after the processes.
AliasThenScan ==
    /\ scan.at = "looked"
    /\ ptys' = Aliased
    /\ rows' = rows \cup Transcripts
    /\ scan' = NoScan
    /\ UNCHANGED <<child, req, queue, file, server>>

\* Then the rows of the transcripts are written.
Alias ==
    /\ scan.at = "looked"
    /\ ptys' = Aliased
    /\ rows' = rows \cup scan.found
    /\ scan' = NoScan
    /\ UNCHANGED <<child, req, queue, file, server>>

\* POST /pty/{key}/register: the TUI saw the row of a session with this PID,
\* which may have left it since.
Register(c, s) ==
    /\ Up
    /\ ptys[c] = c
    /\ Overlap \/ (Alive(c) /\ ptys[s] \in {c, None})
    /\ s \in rows \cap Ran(c)
    /\ ptys' = [ptys EXCEPT ![s] = c]
    /\ UNCHANGED <<child, rows, req, queue, file, scan, server>>

-----------------------------------------------------------------------------
(* The collector stops and starts. *)

\* hostedSessions: the live claudes under each session key that has a row.
Hosted == {s \in rows : Alive(ptys[s])}

\* POST /api/restart and POST /shutdown?resume=1 save the hosted sessions,
\* and ask for a stop.
Save ==
    /\ Up
    /\ file' = Hosted
    /\ UNCHANGED <<child, ptys, rows, req, queue, scan, server>>

\* The stop (asked for, or a signal) cancels the context and closes the
\* listeners; closeAllPTYs waits for nobody.  Requests and resumeSaved go on.
CloseAll ==
    /\ Up
    /\ server' = [server EXCEPT !.phase = "closed"]
    /\ child' = [c \in Children |->
                    IF Filed(c) = {} THEN child[c]
                    ELSE [child[c] EXCEPT !.state = Ending(@)]]
    /\ ptys' = [k \in Keys |-> None]
    /\ UNCHANGED <<rows, req, queue, file, scan>>

\* The process ends or re-execs, or is killed: its terminals hang up.
Die ==
    /\ server.phase = "closed" =>
          \A c \in Children :
              child[c].state = "ending" => \E q \in Requesters : req[q].child = c
    /\ Running
    /\ server' = [server EXCEPT !.phase = "down"]
    /\ child' = [c \in Children |->
                    IF child[c].state = "none" THEN NoChild ELSE ReapedChild]
    /\ ptys' = [k \in Keys |-> None]
    /\ req' = [q \in Requesters |-> Idle]
    /\ queue' = {}
    /\ scan' = NoScan
    /\ UNCHANGED <<rows, file>>

\* resumeSaved reads the list and removes it; one that is stale is dropped.
Boot ==
    /\ server.phase = "down"
    /\ server.starts < MaxStarts
    /\ server' = [phase |-> "up", starts |-> server.starts + 1]
    /\ queue' \in {{}, IF file = None THEN {} ELSE file}
    /\ file' = None
    /\ UNCHANGED <<child, ptys, rows, req, scan>>

Resume(s) ==
    /\ Running
    /\ req[Resumer].at = "idle"
    /\ s \in queue
    /\ Free({s})
    /\ queue' = queue \ {s}
    /\ req' = [req EXCEPT ![Resumer] =
                  [kind |-> "start", at |-> "check", sid |-> s, child |-> None]]
    /\ UNCHANGED <<child, ptys, rows, file, scan, server>>

Next ==
    \/ \E q \in Clients :
        \/ \E sid \in Sessions \cup {None} : Start(q, sid)
        \/ \E key \in Keys : FindRestart(q, key) \/ DeletePTY(q, key)
    \/ \E q \in Requesters :
        Spawn(q) \/ File(q) \/ Check(q) \/ RemoveKeys(q) \/ Close(q) \/ Closed(q)
    \/ \E c \in Children :
        \/ Begin(c) \/ Clear(c) \/ Exit(c) \/ Reap(c)
        \/ \E s \in Sessions : Hook(c, s) \/ Register(c, s)
    \/ \E s \in Sessions : Resume(s) \/ HookOfReaped(s)
    \/ Scan \/ Snapshot \/ Look \/ Alias
    \/ Save \/ CloseAll \/ Die \/ Boot

Spec == Init /\ [][Next]_vars

-----------------------------------------------------------------------------
TypeOK ==
    /\ child \in [Children -> ChildStates]
    /\ ptys \in [Keys -> Children \cup {None}]
    /\ rows \subseteq Sessions
    /\ req \in [Requesters -> RequestStates]
    /\ \A q \in Requesters : req[q].kind = "restart" => req[q].sid \in rows
    /\ queue \subseteq Sessions
    /\ file = None \/ file \subseteq Sessions
    /\ scan \in [at: {"idle", "scanned", "seen", "looked"}, found: SUBSET Sessions,
                 runs: [Children -> Sessions \cup {None}]]
    /\ server \in [phase: {"down", "up", "closed"}, starts: 0..MaxStarts]

\* Two claudes never run one conversation (startPTY reuses a live entry; the
\* hosted claudes are closed before a resume, restart.go:16-17).
OneClaudePerConversation ==
    \A c, d \in Children :
        Alive(c) /\ Alive(d) /\ child[c].sid = child[d].sid /\ child[c].sid # None
        => c = d

\* Every claude that was not told to end can be found, so that it can be
\* listed, closed and saved: the keys a claude leaves behind are not dropped
\* after they were given to its successor (spawnPTY's exit goroutine).
EveryClaudeIsReachable ==
    \A c \in Children : Alive(c) =>
        Filed(c) # {} \/ \E q \in Requesters : req[q].child = c

\* What is typed to a session goes to a claude that has run it
\* (aliasPTYByTag, aliasPTYsByParent, handlePTYRegister).
KeysNameTheirConversations ==
    \A s \in Sessions : Alive(ptys[s]) => s \in Ran(ptys[s])

\* A restart loses no hosted session (restart.go:3): those that the restart
\* before it has not resumed yet are saved again.
RestartsLoseNoSession ==
    [][server.phase = "closed" /\ server'.phase = "down" /\ file # None
       => queue \subseteq file]_vars
=============================================================================
