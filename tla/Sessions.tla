------------------------------ MODULE Sessions ------------------------------
(***************************************************************************)
(* One session's row in the collector's list (src/internal/db/db.go), and  *)
(* all who write it: Claude Code's hooks (server/server.go), the discovery *)
(* loop, which reads the session's transcript and its process              *)
(* (discovery/discovery.go, procmap/procmap.go) and then archives what has *)
(* been idle (server/autoarchive.go), and the operator.                    *)
(*                                                                         *)
(* Hooks are posted from the background: they arrive in any order, late,   *)
(* or never.  The loop reads the transcript, the process and the clock one *)
(* after the other and writes the row later, so what it writes may be      *)
(* older than what a hook has just written.                                *)
(*                                                                         *)
(* A transcript is known by the times of its last entry and last prompt,   *)
(* and by the last entrypoint that a claude wrote into it: "cli" in a      *)
(* terminal, "sdk" for `claude -p`, none for an old claude.                *)
(***************************************************************************)
EXTENDS Naturals, FiniteSets

CONSTANTS
    Clients,     \* entrypoints that the session's claudes have, or write down none
    Telling,     \* entrypoints whose claudes run a hook script that tells it
    RecentAge,   \* six hours: a stopped session counts as recent
    ArchiveAge,  \* auto_archive_days
    DayLength,
    MaxTime,     \* bound: the clock stops
    MaxOpens,    \* bound: claudes that run the session
    MaxHooks     \* bound: hooks on their way, at most one of a kind

Entrypoints == {"cli", "sdk"}
Unknown == ""

ASSUME SessionsAssumption ==
    /\ Clients \subseteq Entrypoints \cup {Unknown}
    /\ Telling \subseteq Entrypoints
    /\ {RecentAge, ArchiveAge, MaxTime, MaxOpens, MaxHooks} \subseteq Nat
    /\ DayLength \in Nat \ {0}
    /\ MaxTime > 0

VARIABLES
    now,
    claude,      \* the process that runs the session
    transcript,
    hooks,       \* posted, not handled yet
    row,
    scan,        \* what refreshDiscovery has read
    day,         \* KeyAutoArchiveLast
    news,        \* has anything been done that a look of the operator could not show?
    byHand,      \* has the operator archived the session?
    filed        \* is the session one that is to be kept from the list?

vars == <<now, claude, transcript, hooks, row, scan, day, news, byHand, filed>>

Times == 0..MaxTime
Statuses == {"active", "idle", "recent", "stopped"}
Kinds == {"startup", "resume", "compact", "prompt", "tool", "stop", "end"}
Hooks == [kind: Kinds, ep: Entrypoints \cup {Unknown}]

NoRow == [status |-> "none"]
Rows ==
    [status: Statuses, seen: Times, act: Times, look: Times, young: BOOLEAN,
     archived: BOOLEAN, auto: BOOLEAN, ep: Entrypoints \cup {Unknown}]
NoScan == [at |-> "off"]
Scans ==
    [at: {"listed"}, status: Statuses, entry: Times, prompt: Times, ep: Entrypoints \cup {Unknown}]
    \cup [at: {"ready"}, status: Statuses, entry: Times, prompt: Times, ep: Entrypoints \cup {Unknown}]
    \cup {[at |-> "tail"], NoScan}

TypeOK ==
    /\ now \in 1..MaxTime
    /\ claude \in [at: {"new", "idle", "busy", "gone", "never"}, ep: Entrypoints \cup {Unknown}, opens: 0..MaxOpens]
    /\ transcript \in [entry: Times, prompt: Times, ep: Entrypoints \cup {Unknown}]
    /\ hooks \subseteq Hooks
    /\ row \in Rows \cup {NoRow}
    /\ scan \in Scans
    /\ day \in Times
    /\ {news, byHand, filed} \subseteq BOOLEAN

Larger(a, b) == IF a > b THEN a ELSE b
Headless(ep) == ep = "sdk"
Exists == row # NoRow
Day(t) == t \div DayLength

-----------------------------------------------------------------------------
(* The row *)

\* What an upsert brings: a status, an entrypoint if known, the time of an
\* activity (0 for none), a last_seen and how to merge it, and whether
\* HideHeadless asks for a headless session to be filed away.
Files(s) == s.hide /\ Headless(s.ep)

Inserted(s) ==
    [status |-> s.status, seen |-> s.seen, act |-> s.act, look |-> now, young |-> s.ep = Unknown,
     archived |-> Files(s), auto |-> Files(s), ep |-> s.ep]

\* lastSeenMode: overwrite, leave as is, or only move forward.
MergedSeen(seen, s) ==
    CASE s.mode = "set" -> s.seen
      [] s.mode = "keep" -> seen
      [] s.mode = "max" -> Larger(s.seen, seen)

\* Mutant: only a new row is filed, not one that a hook made.
MergeUnfiled(r, s) ==
    LET ep == IF s.ep = Unknown THEN r.ep ELSE s.ep
        returns == r.auto /\ ~Headless(ep) /\ (s.status \in {"active", "idle"} \/ s.seen > r.seen)
    IN [status |-> s.status, seen |-> MergedSeen(r.seen, s), act |-> Larger(s.act, r.act), look |-> r.look,
        young |-> r.young /\ ep = Unknown, ep |-> ep,
        archived |-> r.archived /\ ~returns, auto |-> r.auto /\ ~returns]

\* A headless session is filed when it is first seen to be headless, if the
\* row is young: its entrypoint was not known, and headlessClassifyWindow is
\* not over.  Any other that was archived automatically comes back when it
\* runs or has been seen later.
Merge(r, s) ==
    LET ep == IF s.ep = Unknown THEN r.ep ELSE s.ep
        files == Files(s) /\ r.young /\ ~r.archived
        returns == r.auto /\ ~Headless(ep) /\ (s.status \in {"active", "idle"} \/ s.seen > r.seen)
    IN [status |-> s.status, seen |-> MergedSeen(r.seen, s), act |-> Larger(s.act, r.act), look |-> r.look,
        young |-> r.young /\ ep = Unknown, ep |-> ep,
        archived |-> files \/ (r.archived /\ ~returns), auto |-> files \/ (r.auto /\ ~returns)]

Upsert(s) == row' = IF Exists THEN Merge(row, s) ELSE Inserted(s)

\* A session that is first seen to be headless while hide_headless is off is
\* not one to be kept from the list.
Spares(s) == Headless(s.ep) /\ ~s.hide /\ ~(Exists /\ Headless(row.ep))

\* Mutant: Claude's own word for its state is stored.
RunningAsTold(at) == at

\* classifyStatus: what Claude says of itself, or else how old the transcript is.
Runs == claude.at \in {"idle", "busy"}
Running(at) == IF at = "busy" THEN "active" ELSE "idle"
Aged(entry) == IF now - entry < RecentAge THEN "recent" ELSE "stopped"
Status == IF Runs THEN Running(claude.at) ELSE Aged(transcript.entry)

\* The NEW mark: something happened after the operator's last look, and the
\* session is not at work.
Unseen == Exists /\ row.act > row.look /\ row.status # "active"
-----------------------------------------------------------------------------
(* Claude, the clock and the network: external *)

\* The session is to come, or claude runs it from before.
Init ==
    /\ now = 1
    /\ \E at \in {"new", "idle"}, e \in Clients :
          /\ claude = [at |-> at, ep |-> IF at = "idle" THEN e ELSE Unknown, opens |-> 0]
          /\ transcript = IF at = "new" THEN [entry |-> 0, prompt |-> 0, ep |-> Unknown]
                          ELSE [entry |-> 1, prompt |-> 1, ep |-> e]
          /\ filed = (at # "new" => Headless(e))
    /\ hooks = {}
    /\ row = NoRow
    /\ scan = NoScan
    /\ day = 0
    /\ news = FALSE /\ byHand = FALSE

\* With time a row is no longer young (headlessClassifyWindow): made by a hook
\* that told no entrypoint, it is now too old to be filed.
Tick ==
    /\ now < MaxTime
    /\ now' = now + 1
    /\ \/ UNCHANGED <<row, filed>>
       \/ /\ Exists
          /\ row' = [row EXCEPT !.young = FALSE]
          /\ filed' = (filed /\ row.ep # Unknown)
    /\ UNCHANGED <<claude, transcript, hooks, scan, day, news, byHand>>

\* hook.sh: curl in the background.  The hook is on its way, or lost.
Post(kind, ep) ==
    LET h == [kind |-> kind, ep |-> IF ep \in Telling THEN ep ELSE Unknown]
    IN \/ UNCHANGED hooks
       \/ /\ h \notin hooks /\ Cardinality(hooks) < MaxHooks
          /\ hooks' = hooks \cup {h}

\* A claude starts on a session of its own, or resumes this one: then it
\* touches the transcript and adds nothing to it.  A session that ended
\* before its first prompt has none, and cannot be resumed.
Open(e) ==
    /\ claude.opens < MaxOpens
    /\ \/ claude.at = "new" /\ Post("startup", e) /\ news' = TRUE
       \/ claude.at = "gone" /\ Post("resume", e) /\ UNCHANGED news
    /\ claude' = [at |-> "idle", ep |-> e, opens |-> claude.opens + 1]
    /\ filed' = (filed /\ Headless(e))
    /\ UNCHANGED <<now, transcript, row, scan, day, byHand>>

\* Claude is given a prompt, uses a tool, ends its turn, or has compacted its
\* context, in its turn or because it was told to (/compact, a prompt whose
\* hook is lost): what it goes on from is written as a user's entry.
Work(kind, at, then) ==
    /\ claude.at = at
    /\ claude' = [claude EXCEPT !.at = then]
    /\ transcript' = [entry |-> now,
                      prompt |-> IF kind \in {"prompt", "compact"} THEN now ELSE transcript.prompt,
                      ep |-> IF claude.ep = Unknown THEN transcript.ep ELSE claude.ep]
    /\ Post(kind, claude.ep)
    /\ news' = TRUE
    /\ UNCHANGED <<now, row, scan, day, byHand, filed>>

Prompt == Work("prompt", "idle", "busy")
Tool == Work("tool", "busy", "busy")
Stop == Work("stop", "busy", "idle")
Compact == \E then \in {"idle", "busy"} : Work("compact", "busy", then)

\* Claude exits, or is killed in its turn.
End ==
    /\ claude.at \in {"idle", "busy"}
    /\ claude' = [claude EXCEPT !.at = IF transcript.entry = 0 THEN "never" ELSE "gone", !.ep = Unknown]
    /\ Post("end", claude.ep)
    /\ UNCHANGED <<now, transcript, row, scan, day, news, byHand, filed>>
-----------------------------------------------------------------------------
(* The hooks' handlers *)

StatusAfter(kind) ==
    CASE kind = "stop" -> "idle"
      [] kind = "end" -> "stopped"
      [] OTHER -> "active"

\* Mutant: opening a session again is activity.
IsActivityOrResume(kind) == kind # "end"

\* Does the hook move last_seen?  Is it activity?  Opening a session again,
\* and closing it, are neither; a compaction is told as a fresh start.
Bumps(kind) == kind \in {"startup", "compact", "prompt"}
IsActivity(kind) == kind \notin {"resume", "end"}

\* ensureSessionAt; hides is what the setting hide_headless is now.
HookUpsert(h, hides) ==
    [status |-> StatusAfter(h.kind), ep |-> h.ep, hide |-> hides /\ Headless(h.ep),
     act |-> IF IsActivity(h.kind) THEN now ELSE 0,
     seen |-> now, mode |-> IF Bumps(h.kind) THEN "max" ELSE "keep"]

Handle(h) ==
    /\ hooks' = hooks \ {h}
    /\ \E hides \in BOOLEAN :
          /\ Upsert(HookUpsert(h, hides))
          /\ filed' = (filed /\ ~Spares(HookUpsert(h, hides)))
    /\ UNCHANGED <<now, claude, transcript, scan, day, news, byHand>>
-----------------------------------------------------------------------------
(* refreshDiscovery *)

List ==
    /\ scan = NoScan
    /\ scan' = IF transcript.entry = 0 THEN [at |-> "tail"]
               ELSE [at |-> "listed", status |-> Aged(transcript.entry), entry |-> transcript.entry,
                     prompt |-> transcript.prompt, ep |-> transcript.ep]
    /\ UNCHANGED <<now, claude, transcript, hooks, row, day, news, byHand, filed>>

\* Mutant: the process is not looked at.
SnapshotMissed ==
    /\ scan.at = "listed"
    /\ scan' = [scan EXCEPT !.at = "ready"]
    /\ UNCHANGED <<now, claude, transcript, hooks, row, day, news, byHand, filed>>

\* procmap.Snapshot: a process's own file beats the transcript.
Snapshot ==
    /\ scan.at = "listed"
    /\ scan' = IF Runs THEN [scan EXCEPT !.at = "ready", !.status = Running(claude.at),
                                         !.ep = IF claude.ep = Unknown THEN @ ELSE claude.ep]
               ELSE [scan EXCEPT !.at = "ready"]
    /\ UNCHANGED <<now, claude, transcript, hooks, row, day, news, byHand, filed>>

\* Mutant: the loop brings no activity.
ScanUpsertQuietly(hides) ==
    [status |-> scan.status, ep |-> scan.ep, hide |-> hides,
     act |-> 0, seen |-> scan.prompt, mode |-> "set"]

ScanUpsert(hides) ==
    [status |-> scan.status, ep |-> scan.ep, hide |-> hides,
     act |-> scan.entry, seen |-> scan.prompt, mode |-> "set"]

\* UpsertDiscoveredSession
Discover ==
    /\ scan.at = "ready"
    /\ \E hides \in BOOLEAN :
          /\ Upsert(ScanUpsert(hides))
          /\ filed' = (filed /\ ~Spares(ScanUpsert(hides)))
    /\ scan' = [at |-> "tail"]
    /\ UNCHANGED <<now, claude, transcript, hooks, day, news, byHand>>

\* The scan or the upsert fails: nothing of what was read is used.
Skip ==
    /\ scan.at = "ready"
    /\ scan' = [at |-> "tail"]
    /\ UNCHANGED <<now, claude, transcript, hooks, row, day, news, byHand, filed>>

\* Mutant: what the operator has archived is archived once more.
IdleOrArchived(r) ==
    /\ r.status \notin {"active", "idle"}
    /\ r.seen + ArchiveAge < now

\* AutoArchive: what is idle for long goes from the list.
Idle(r) ==
    /\ ~r.archived
    /\ r.status \notin {"active", "idle"}
    /\ r.seen + ArchiveAge < now

\* maybeAutoArchive: once a day, or again where the day was not marked.  It
\* may be switched off or fail, and a session that the operator has pinned, or
\* put in a project, is spared; whether this one is, is open.
Archive ==
    /\ scan.at = "tail"
    /\ scan' = NoScan
    /\ day' \in {day, Day(now)}
    /\ \/ UNCHANGED row
       \/ /\ Exists /\ day # Day(now) /\ Idle(row)
          /\ row' = [row EXCEPT !.archived = TRUE, !.auto = TRUE]
    /\ UNCHANGED <<now, claude, transcript, hooks, news, byHand, filed>>
-----------------------------------------------------------------------------
(* The operator *)

\* MarkSeen
Look ==
    /\ Exists
    /\ row' = [row EXCEPT !.look = Larger(now, row.act)]
    /\ news' = \E h \in hooks : IsActivity(h.kind)
    /\ UNCHANGED <<now, claude, transcript, hooks, scan, day, byHand, filed>>

\* SetArchived
SetArchived(b) ==
    /\ Exists
    /\ row' = [row EXCEPT !.archived = b, !.auto = FALSE]
    /\ byHand' = b
    /\ filed' = (filed /\ b)
    /\ UNCHANGED <<now, claude, transcript, hooks, scan, day, news>>

-----------------------------------------------------------------------------
Scan == List \/ Snapshot \/ Discover \/ Skip \/ Archive

Next ==
    \/ Tick
    \/ \E e \in Clients : Open(e)
    \/ Prompt \/ Tool \/ Stop \/ Compact \/ End
    \/ \E h \in hooks : Handle(h)
    \/ Scan
    \/ Look
    \/ \E b \in BOOLEAN : SetArchived(b)

Spec == Init /\ [][Next]_vars

\* The loop's ticker fires, and not every scan or upsert fails; nothing is
\* assumed of claudes, hooks and operators.
FairSpec == Spec /\ WF_vars(Scan) /\ SF_vars(Discover)
-----------------------------------------------------------------------------
(* Properties *)

\* NEW means that claude has done something since the operator's last look
\* (or that a hook about its work was on the way then): opening a session,
\* closing it, and reading its transcript again do not make it NEW.
NewIsNews == Unseen => news

\* What the operator has archived stays archived, whatever runs in it, until
\* the operator brings it back.
ArchivedByHandStays == byHand => row.archived

\* A session that only ever ran without a terminal is kept from the list,
\* whoever was first to write its row.
HeadlessIsFiled == Exists /\ filed /\ Headless(row.ep) => row.archived

\* When a session goes on as it is, the list shows it as it is, and when it
\* was last prompted, whatever hooks came late or were lost.  One that runs in
\* a terminal is in the list, unless the operator has archived it: what was
\* archived for its age, or filed as headless, comes back.
RowCatchesUp ==
    \A at \in {"idle", "busy", "gone"} :
        <>[](claude.at = at /\ transcript.entry > 0)
            => <>[](/\ Exists /\ row.status = Status /\ row.seen = transcript.prompt
                    /\ claude.ep = "cli" /\ row.archived => byHand)

\* A turn that has ended after the operator's last look leaves the session
\* NEW in the end, also when its hooks are lost.
ResultsAreShown ==
    <>[](Exists /\ claude.at \in {"idle", "gone"} /\ transcript.entry > row.look) => <>[]Unseen
=============================================================================
