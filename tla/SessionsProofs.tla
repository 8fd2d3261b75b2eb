--------------------------- MODULE SessionsProofs ---------------------------
(***************************************************************************)
(* Theorems about Sessions, for any ages and bounds: its types, and that   *)
(* NEW means news, that what the operator archives stays archived, and     *)
(* that headless sessions are kept from the list.  At the end: theorems    *)
(* about Tui, the list that the dashboard shows of the sessions, for any   *)
(* sessions and tabs.                                                      *)
(***************************************************************************)
EXTENDS Sessions, Tui, FiniteSetTheorems, TLAPS

\* Nobody who writes the row of a session that is to be filed takes it for an
\* interactive one; its row is filed, or its entrypoint is not known yet and
\* the row still young.
FiledInv ==
    /\ Exists /\ row.young => row.ep = Unknown
    /\ filed => /\ claude.ep # "cli" /\ transcript.ep # "cli"
                /\ \A h \in hooks : h.ep # "cli"
                /\ scan.at \in {"listed", "ready"} => scan.ep # "cli"
    /\ filed /\ Exists => /\ row.ep # "cli"
                          /\ row.ep = Unknown => row.young
                          /\ ~row.archived => row.ep = Unknown

\* What the operator has archived is not marked as archived automatically,
\* so nothing brings it back.
HandInv == byHand => Exists /\ row.archived /\ ~row.auto

\* When there is no news, the transcript, whatever has been read of it, and
\* every activity of the row are from before the look, and no hook about
\* work is on its way.
NewsInv ==
    /\ transcript.entry <= now
    /\ scan.at \in {"listed", "ready"} => scan.entry <= now
    /\ ~news => /\ \A h \in hooks : ~IsActivity(h.kind)
                /\ Exists => /\ row.act <= row.look
                             /\ transcript.entry <= row.look
                             /\ scan.at \in {"listed", "ready"} => scan.entry <= row.look

SessionInv == TypeOK /\ FiledInv /\ HandInv /\ NewsInv

-----------------------------------------------------------------------------
(* Types *)

\* What an upsert may bring.
Upserts ==
    [status: Statuses, ep: Entrypoints \cup {Unknown}, hide: BOOLEAN, act: Times, seen: Times,
     mode: {"set", "keep", "max"}]

LEMMA NowIsATime ==
    ASSUME now \in 1..MaxTime
    PROVE  now \in Times
BY SessionsAssumption DEF Times

LEMMA LargerIsATime ==
    ASSUME NEW a \in Times, NEW b \in Times
    PROVE  Larger(a, b) \in Times
BY DEF Larger

LEMMA DaysAreTimes ==
    ASSUME now \in 1..MaxTime
    PROVE  Day(now) \in Times
<1>1. now \in Nat /\ DayLength \in Nat /\ DayLength > 0
  BY SessionsAssumption
<1>2. now \div DayLength \in 0..now
  BY <1>1
<1> QED
  BY <1>1, <1>2, SessionsAssumption DEF Day, Times

LEMMA NoRowIsNone == \A r \in Rows : r # NoRow
BY DEF Rows, NoRow, Statuses

LEMMA UpsertedRows ==
    ASSUME NEW s \in Upserts, TypeOK
    PROVE  /\ Exists => Merge(row, s) \in Rows
           /\ Inserted(s) \in Rows
<1>1. ASSUME Exists PROVE Merge(row, s) \in Rows
  <2>1. row \in Rows
    BY <1>1 DEF TypeOK, Exists
  <2>2. Larger(s.act, row.act) \in Times
    BY <2>1, LargerIsATime DEF Upserts, Rows
  <2>3. MergedSeen(row.seen, s) \in Times
    BY <2>1, LargerIsATime DEF MergedSeen, Upserts, Rows
  <2> QED
    BY <2>1, <2>2, <2>3 DEF Merge, Rows, Upserts, Files
<1>2. Inserted(s) \in Rows
  BY NowIsATime DEF Inserted, Rows, Upserts, TypeOK, Files
<1> QED
  BY <1>1, <1>2

LEMMA HookUpserts ==
    ASSUME TypeOK, NEW h \in hooks, NEW hides \in BOOLEAN
    PROVE  HookUpsert(h, hides) \in Upserts
<1>1. h \in Hooks
  BY DEF TypeOK
<1>2. StatusAfter(h.kind) \in Statuses
  BY DEF StatusAfter, Statuses
<1>3. now \in Times /\ 0 \in Times
  BY NowIsATime, SessionsAssumption DEF TypeOK, Times
<1> QED
  BY <1>1, <1>2, <1>3 DEF HookUpsert, Upserts, Hooks, Headless

LEMMA ScanUpserts ==
    ASSUME TypeOK, scan.at = "ready", NEW hides \in BOOLEAN
    PROVE  ScanUpsert(hides) \in Upserts
<1>1. scan \in [at: {"ready"}, status: Statuses, entry: Times, prompt: Times, ep: Entrypoints \cup {Unknown}]
  BY DEF TypeOK, Scans, NoScan
<1> QED
  BY <1>1 DEF ScanUpsert, Upserts

LEMMA TypeStep ==
    ASSUME TypeOK, [Next]_vars
    PROVE  TypeOK'
<1> USE DEF TypeOK
<1>1. CASE Tick
  <2>1. now' \in 1..MaxTime
    BY <1>1, SessionsAssumption DEF Tick
  <2>2. row' \in Rows \cup {NoRow}
    BY <1>1 DEF Tick, Exists, Rows
  <2> QED
    BY <1>1, <2>1, <2>2 DEF Tick
<1>2. ASSUME NEW e \in Clients, Open(e) PROVE TypeOK'
  <2>1. hooks' \subseteq Hooks
    BY <1>2, SessionsAssumption DEF Open, Post, Hooks, Kinds
  <2>2. claude.opens + 1 \in 0..MaxOpens
    BY <1>2, SessionsAssumption DEF Open
  <2> QED
    BY <1>2, <2>1, <2>2, SessionsAssumption DEF Open
<1>3. ASSUME NEW kind \in {"prompt", "tool", "stop", "compact"}, NEW at \in {"idle", "busy"},
             NEW then \in {"idle", "busy"}, Work(kind, at, then)
      PROVE  TypeOK'
  <2>1. hooks' \subseteq Hooks
    BY <1>3 DEF Work, Post, Hooks, Kinds
  <2>2. transcript' \in [entry: Times, prompt: Times, ep: Entrypoints \cup {Unknown}]
    BY <1>3, NowIsATime DEF Work
  <2> QED
    BY <1>3, <2>1, <2>2 DEF Work
<1>4. CASE Prompt \/ Tool \/ Stop \/ Compact
  BY <1>3, <1>4 DEF Prompt, Tool, Stop, Compact
<1>5. CASE End
  <2>1. hooks' \subseteq Hooks
    BY <1>5 DEF End, Post, Hooks, Kinds
  <2> QED
    BY <1>5, <2>1 DEF End
<1>6. ASSUME NEW h \in hooks, Handle(h) PROVE TypeOK'
  <2>1. PICK hides \in BOOLEAN : /\ Upsert(HookUpsert(h, hides))
                                  /\ filed' = (filed /\ ~Spares(HookUpsert(h, hides)))
    BY <1>6 DEF Handle
  <2>2. row' \in Rows
    BY <2>1, HookUpserts, UpsertedRows DEF Upsert
  <2> QED
    BY <1>6, <2>1, <2>2 DEF Handle
<1>7. CASE List
  BY <1>7 DEF List, Scans, Aged, Statuses, Times, Entrypoints
<1>8. CASE Snapshot
  <2>1. scan \in [at: {"listed"}, status: Statuses, entry: Times, prompt: Times, ep: Entrypoints \cup {Unknown}]
    BY <1>8 DEF Snapshot, Scans, NoScan
  <2>2. Running(claude.at) \in Statuses
    BY DEF Running, Statuses
  <2> QED
    BY <1>8, <2>1, <2>2 DEF Snapshot, Scans
<1>9. CASE Discover
  <2>1. PICK hides \in BOOLEAN : /\ Upsert(ScanUpsert(hides))
                                  /\ filed' = (filed /\ ~Spares(ScanUpsert(hides)))
    BY <1>9 DEF Discover
  <2>2. row' \in Rows
    BY <1>9, <2>1, ScanUpserts, UpsertedRows DEF Discover, Upsert
  <2> QED
    BY <1>9, <2>1, <2>2 DEF Discover, Scans
<1>10. CASE Archive
  <2>1. row' \in Rows \cup {NoRow}
    BY <1>10 DEF Archive, Exists, Rows
  <2> QED
    BY <1>10, <2>1, DaysAreTimes DEF Archive, Scans
<1>11. CASE Look
  <2>1. row \in Rows
    BY <1>11 DEF Look, Exists
  <2>2. Larger(now, row.act) \in Times
    BY <2>1, NowIsATime, LargerIsATime DEF Rows
  <2> QED
    BY <1>11, <2>1, <2>2 DEF Look, Rows
<1>14. CASE Skip
  BY <1>14 DEF Skip, Scans
<1>12. ASSUME NEW b \in BOOLEAN, SetArchived(b) PROVE TypeOK'
  BY <1>12 DEF SetArchived, Exists, Rows
<1>13. CASE UNCHANGED vars
  BY <1>13 DEF vars
<1> QED
  BY <1>1, <1>2, <1>4, <1>5, <1>6, <1>7, <1>8, <1>9, <1>10, <1>11, <1>12, <1>13, <1>14 DEF Next, Scan

-----------------------------------------------------------------------------
(* The rest of the invariant *)

\* Where an upsert leaves the row of a session that is to be filed.
LEMMA UpsertFiles ==
    ASSUME NEW s \in Upserts, TypeOK, FiledInv, Upsert(s),
           filed => s.ep # "cli"
    PROVE  /\ row' \in Rows
           /\ row'.young => row'.ep = Unknown
           /\ filed /\ ~Spares(s)
                 => /\ row'.ep # "cli"
                    /\ row'.ep = Unknown => row'.young
                    /\ ~row'.archived => row'.ep = Unknown
<1>1. CASE Exists
  <2>1. row' = Merge(row, s) /\ row \in Rows /\ row' \in Rows
    BY <1>1, UpsertedRows DEF Upsert, TypeOK, Exists
  <2> QED
    BY <1>1, <2>1 DEF Merge, Files, Spares, Headless, FiledInv, Rows, Upserts, Entrypoints, Unknown
<1>2. CASE ~Exists
  <2>1. row' = Inserted(s) /\ row' \in Rows
    BY <1>2, UpsertedRows DEF Upsert
  <2> QED
    BY <1>2, <2>1 DEF Inserted, Files, Spares, Headless, Upserts, Entrypoints, Unknown
<1> QED
  BY <1>1, <1>2

LEMMA Posted ==
    ASSUME NEW kind, NEW e, Post(kind, e), e # "cli", \A h \in hooks : h.ep # "cli"
    PROVE  \A h \in hooks' : h.ep # "cli"
<1>1. PICK ep \in {e, Unknown} : hooks' \subseteq hooks \cup {[kind |-> kind, ep |-> ep]}
  BY DEF Post
<1>2. ep # "cli"
  BY <1>1 DEF Unknown
<1> QED
  BY <1>1, <1>2

\* What an edit of the row leaves.
LEMMA Edited ==
    ASSUME row \in Rows
    PROVE  /\ [row EXCEPT !.young = FALSE] \in Rows
           /\ \A t \in Times : [row EXCEPT !.look = t] \in Rows
           /\ \A b, c \in BOOLEAN : [row EXCEPT !.archived = b, !.auto = c] \in Rows
BY DEF Rows

LEMMA FiledStep ==
    ASSUME TypeOK, FiledInv, [Next]_vars
    PROVE  FiledInv'
<1>1. CASE Tick
  <2>1. CASE Exists /\ row' = [row EXCEPT !.young = FALSE]
    <3>1. row \in Rows /\ row'.ep = row.ep /\ row'.archived = row.archived /\ ~row'.young
      BY <2>1 DEF TypeOK, Exists, Rows
    <3>2. filed' => filed /\ row.ep # Unknown
      BY <1>1, <2>1, <3>1, NoRowIsNone DEF Tick, FiledInv, Exists, Unknown
    <3> QED
      BY <1>1, <2>1, <3>1, <3>2 DEF Tick, FiledInv
  <2>2. CASE UNCHANGED <<row, filed>>
    BY <1>1, <2>2 DEF Tick, FiledInv, Exists
  <2> QED
    BY <1>1, <2>1, <2>2 DEF Tick
<1>2. ASSUME NEW e \in Clients, Open(e) PROVE FiledInv'
  <2>1. filed' => filed /\ e # "cli" /\ claude'.ep = e
    BY <1>2 DEF Open, Headless
  <2>2. filed' => \A h \in hooks' : h.ep # "cli"
    BY <1>2, <2>1, Posted DEF Open, FiledInv
  <2> QED
    BY <1>2, <2>1, <2>2 DEF Open, FiledInv, Exists
<1>3. ASSUME NEW kind \in {"prompt", "tool", "stop", "compact"}, NEW at \in {"idle", "busy"},
             NEW then \in {"idle", "busy"}, Work(kind, at, then)
      PROVE  FiledInv'
  <2>1. claude'.ep = claude.ep
    BY <1>3 DEF Work, TypeOK
  <2>2. filed => \A h \in hooks' : h.ep # "cli"
    BY <1>3, Posted DEF Work, FiledInv
  <2> QED
    BY <1>3, <2>1, <2>2 DEF Work, FiledInv, Exists
<1>4. CASE Prompt \/ Tool \/ Stop \/ Compact
  BY <1>3, <1>4 DEF Prompt, Tool, Stop, Compact
<1>5. CASE End
  <2>1. claude'.ep = Unknown
    BY <1>5 DEF End, TypeOK
  <2>2. filed => \A h \in hooks' : h.ep # "cli"
    BY <1>5, Posted DEF End, FiledInv
  <2> QED
    BY <1>5, <2>1, <2>2 DEF End, FiledInv, Exists, Unknown
<1>6. ASSUME NEW h \in hooks, Handle(h) PROVE FiledInv'
  <2>1. PICK hides \in BOOLEAN : /\ Upsert(HookUpsert(h, hides))
                                  /\ filed' = (filed /\ ~Spares(HookUpsert(h, hides)))
    BY <1>6 DEF Handle
  <2>2. HookUpsert(h, hides).ep = h.ep /\ HookUpsert(h, hides) \in Upserts
    BY HookUpserts DEF HookUpsert
  <2> QED
    BY <1>6, <2>1, <2>2, UpsertFiles DEF Handle, FiledInv, Exists
<1>7. CASE List
  BY <1>7 DEF List, FiledInv, Exists
<1>8. CASE Snapshot
  <2>1. scan \in [at: {"listed"}, status: Statuses, entry: Times, prompt: Times, ep: Entrypoints \cup {Unknown}]
    BY <1>8 DEF Snapshot, TypeOK, Scans, NoScan
  <2> QED
    BY <1>8, <2>1 DEF Snapshot, FiledInv, Exists
<1>9. CASE Discover
  <2>1. PICK hides \in BOOLEAN : /\ Upsert(ScanUpsert(hides))
                                  /\ filed' = (filed /\ ~Spares(ScanUpsert(hides)))
    BY <1>9 DEF Discover
  <2>2. ScanUpsert(hides).ep = scan.ep /\ ScanUpsert(hides) \in Upserts
    BY <1>9, ScanUpserts DEF ScanUpsert, Discover
  <2> QED
    BY <1>9, <2>1, <2>2, UpsertFiles DEF Discover, FiledInv, Exists
<1>10. CASE Archive
  BY <1>10, NoRowIsNone DEF Archive, TypeOK, FiledInv, Exists, Rows, NoScan
<1>11. CASE Look
  BY <1>11, NoRowIsNone DEF Look, TypeOK, FiledInv, Exists, Rows
<1>14. CASE Skip
  BY <1>14 DEF Skip, FiledInv, Exists
<1>12. ASSUME NEW b \in BOOLEAN, SetArchived(b) PROVE FiledInv'
  BY <1>12, NoRowIsNone DEF SetArchived, TypeOK, FiledInv, Exists, Rows
<1>13. CASE UNCHANGED vars
  BY <1>13 DEF vars, FiledInv, Exists
<1> QED
  BY <1>1, <1>2, <1>4, <1>5, <1>6, <1>7, <1>8, <1>9, <1>10, <1>11, <1>12, <1>13, <1>14 DEF Next, Scan

LEMMA HandStep ==
    ASSUME TypeOK, HandInv, [Next]_vars
    PROVE  HandInv'
<1>1. ASSUME NEW s \in Upserts, Upsert(s), byHand' = byHand PROVE HandInv'
  <2>1. SUFFICES ASSUME byHand
                 PROVE  Exists' /\ row'.archived /\ ~row'.auto
    BY <1>1 DEF HandInv
  <2>2. row' = Merge(row, s) /\ Merge(row, s) \in Rows /\ row.archived /\ ~row.auto
    BY <1>1, <2>1, UpsertedRows DEF Upsert, HandInv
  <2> QED
    BY <2>2, NoRowIsNone DEF Merge, Exists
<1>2. CASE Tick
  <2>1. CASE Exists /\ row' = [row EXCEPT !.young = FALSE]
    <3>1. row \in Rows /\ row'.archived = row.archived /\ row'.auto = row.auto
      BY <2>1 DEF TypeOK, Exists, Rows
    <3>2. row' \in Rows
      BY <2>1, <3>1, Edited
    <3> QED
      BY <1>2, <3>1, <3>2, NoRowIsNone DEF Tick, HandInv, Exists
  <2>2. CASE UNCHANGED row
    BY <1>2, <2>2 DEF Tick, HandInv, Exists
  <2> QED
    BY <1>2, <2>1, <2>2 DEF Tick
<1>3. ASSUME NEW h \in hooks, Handle(h) PROVE HandInv'
  BY <1>1, <1>3, HookUpserts DEF Handle
<1>4. CASE Discover
  BY <1>1, <1>4, ScanUpserts DEF Discover
<1>5. CASE Archive
  BY <1>5 DEF Archive, Idle, HandInv, Exists
<1>6. CASE Look
  <2>1. row \in Rows /\ row'.archived = row.archived /\ row'.auto = row.auto
    BY <1>6 DEF Look, TypeOK, Exists, Rows
  <2>2. Larger(now, row.act) \in Times
    BY <2>1, NowIsATime, LargerIsATime DEF TypeOK, Rows
  <2>3. row' \in Rows
    BY <1>6, <2>1, <2>2, Edited DEF Look
  <2> QED
    BY <1>6, <2>1, <2>3, NoRowIsNone DEF Look, HandInv, Exists
<1>7. ASSUME NEW b \in BOOLEAN, SetArchived(b) PROVE HandInv'
  <2>1. row \in Rows /\ row' = [row EXCEPT !.archived = b, !.auto = FALSE]
    BY <1>7 DEF SetArchived, TypeOK, Exists
  <2>2. row' \in Rows /\ row'.archived = b /\ ~row'.auto
    BY <2>1, Edited DEF Rows
  <2> QED
    BY <1>7, <2>2, NoRowIsNone DEF SetArchived, HandInv, Exists
<1>8. ASSUME UNCHANGED <<row, byHand>> PROVE HandInv'
  BY <1>8 DEF HandInv, Exists
<1> QED
  BY <1>2, <1>3, <1>4, <1>5, <1>6, <1>7, <1>8
  DEF Next, Scan, Skip, Open, Prompt, Tool, Stop, Compact, Work, End, List, Snapshot, vars

\* An upsert that brings no activity later than the operator's look brings no
\* news either.
LEMMA UpsertNews ==
    ASSUME NEW s \in Upserts, TypeOK, NewsInv, Upsert(s), ~news,
           s.act <= IF Exists THEN row.look ELSE now
    PROVE  row'.act <= row'.look /\ transcript.entry <= row'.look
           /\ (scan.at \in {"listed", "ready"} => scan.entry <= row'.look)
<1>1. CASE Exists
  <2>1. row \in Rows /\ row' = Merge(row, s)
    BY <1>1 DEF Upsert, TypeOK, Exists
  <2>2. row'.act = Larger(s.act, row.act) /\ row'.look = row.look
    BY <2>1 DEF Merge
  <2> QED
    BY <1>1, <2>1, <2>2 DEF NewsInv, Larger
<1>2. CASE ~Exists
  <2>1. row'.act = s.act /\ row'.look = now
    BY <1>2 DEF Upsert, Inserted
  <2> QED
    BY <1>2, <2>1 DEF NewsInv
<1> QED
  BY <1>1, <1>2

LEMMA NewsStep ==
    ASSUME TypeOK, NewsInv, [Next]_vars
    PROVE  NewsInv'
<1> USE SessionsAssumption DEF Times
<1>1. CASE Tick
  <2>1. /\ transcript'.entry <= now'
        /\ scan'.at \in {"listed", "ready"} => scan'.entry <= now'
    BY <1>1 DEF Tick, TypeOK, NewsInv, Scans, NoScan
  <2>2. Exists' => Exists /\ row'.act = row.act /\ row'.look = row.look
    BY <1>1 DEF Tick, TypeOK, Exists, Rows
  <2> QED
    BY <1>1, <2>1, <2>2 DEF Tick, NewsInv
<1>2. ASSUME NEW e \in Clients, Open(e) PROVE NewsInv'
  <2>1. ~news' => ~news /\ \A h \in hooks' : ~IsActivity(h.kind)
    BY <1>2 DEF Open, Post, NewsInv, IsActivity
  <2> QED
    BY <1>2, <2>1 DEF Open, NewsInv, Exists
<1>3. ASSUME NEW kind \in {"prompt", "tool", "stop", "compact"}, NEW at \in {"idle", "busy"},
             NEW then \in {"idle", "busy"}, Work(kind, at, then)
      PROVE  NewsInv'
  <2>1. transcript'.entry = now /\ now \in Nat
    BY <1>3 DEF Work, TypeOK
  <2> QED
    BY <1>3, <2>1 DEF Work, NewsInv
<1>4. CASE Prompt \/ Tool \/ Stop \/ Compact
  BY <1>3, <1>4 DEF Prompt, Tool, Stop, Compact
<1>5. CASE End
  <2>1. ~news => \A h \in hooks' : ~IsActivity(h.kind)
    BY <1>5 DEF End, Post, NewsInv, IsActivity
  <2> QED
    BY <1>5, <2>1 DEF End, NewsInv, Exists
<1>6. ASSUME NEW h \in hooks, Handle(h) PROVE NewsInv'
  <2> DEFINE s(hides) == HookUpsert(h, hides)
  <2>1. PICK hides \in BOOLEAN : Upsert(s(hides)) /\ s(hides) \in Upserts /\ s(hides).act \in {0, now}
    BY <1>6, HookUpserts DEF Handle, HookUpsert
  <2>2. ASSUME ~news PROVE s(hides).act = 0
    BY <2>2 DEF NewsInv, HookUpsert
  <2>3. Exists => row.look \in Nat
    BY DEF TypeOK, Exists, Rows
  <2>4. now \in Nat
    BY DEF TypeOK
  <2> QED
    BY <1>6, <2>1, <2>2, <2>3, <2>4, UpsertNews DEF Handle, NewsInv
<1>7. CASE List
  BY <1>7 DEF List, NewsInv, Exists
<1>8. CASE Snapshot
  <2>1. scan \in [at: {"listed"}, status: Statuses, entry: Times, prompt: Times, ep: Entrypoints \cup {Unknown}]
    BY <1>8 DEF Snapshot, TypeOK, Scans, NoScan
  <2>2. scan'.entry = scan.entry
    BY <1>8, <2>1 DEF Snapshot
  <2> QED
    BY <1>8, <2>2 DEF Snapshot, NewsInv, Exists
<1>9. CASE Discover
  <2>1. PICK hides \in BOOLEAN : /\ Upsert(ScanUpsert(hides)) /\ ScanUpsert(hides) \in Upserts
                                  /\ ScanUpsert(hides).act = scan.entry
    BY <1>9, ScanUpserts DEF ScanUpsert, Discover
  <2>2. ~news => scan.entry <= IF Exists THEN row.look ELSE now
    BY <1>9 DEF Discover, NewsInv
  <2> QED
    BY <1>9, <2>1, <2>2, UpsertNews DEF Discover, NewsInv
<1>10. CASE Archive
  <2>1. CASE Exists /\ row' = [row EXCEPT !.archived = TRUE, !.auto = TRUE]
    <3>1. row'.act = row.act /\ row'.look = row.look
      BY <2>1 DEF TypeOK, Exists, Rows
    <3> QED
      BY <1>10, <2>1, <3>1 DEF Archive, NewsInv, NoScan
  <2>2. CASE UNCHANGED row
    BY <1>10, <2>2 DEF Archive, NewsInv, NoScan, Exists
  <2> QED
    BY <1>10, <2>1, <2>2 DEF Archive
<1>11. CASE Look
  <2>1. /\ row \in Rows /\ row'.act = row.act /\ row'.look = Larger(now, row.act)
        /\ now \in Nat
    BY <1>11 DEF Look, TypeOK, Exists, Rows
  <2>2. transcript.entry \in Nat /\ (scan.at \in {"listed", "ready"} => scan.entry \in Nat)
    BY DEF TypeOK, Scans, NoScan
  <2>3. row'.act <= row'.look /\ now <= row'.look /\ row'.look \in Nat
    BY <2>1 DEF Larger, Rows
  <2> QED
    BY <1>11, <2>2, <2>3, <2>1 DEF Look, NewsInv
<1>12. ASSUME NEW b \in BOOLEAN, SetArchived(b) PROVE NewsInv'
  <2>1. Exists /\ row'.act = row.act /\ row'.look = row.look
    BY <1>12 DEF SetArchived, TypeOK, Exists, Rows
  <2> QED
    BY <1>12, <2>1 DEF SetArchived, NewsInv
<1>13. CASE UNCHANGED vars
  BY <1>13 DEF vars, NewsInv, Exists
<1>14. CASE Skip
  BY <1>14 DEF Skip, NewsInv, Exists
<1> QED
  BY <1>1, <1>2, <1>4, <1>5, <1>6, <1>7, <1>8, <1>9, <1>10, <1>11, <1>12, <1>13, <1>14 DEF Next, Scan

-----------------------------------------------------------------------------
(* The theorems *)

LEMMA InitInv == Init => SessionInv
<1> SUFFICES ASSUME Init
             PROVE  SessionInv
  OBVIOUS
<1> USE SessionsAssumption DEF Init
<1>1. TypeOK
  <2>1. 0 \in Times /\ 1 \in Times /\ now \in 1..MaxTime /\ 0 \in 0..MaxOpens
    BY DEF Times
  <2>2. claude \in [at: {"new", "idle", "busy", "gone", "never"}, ep: Entrypoints \cup {Unknown}, opens: 0..MaxOpens]
    BY <2>1, SessionsAssumption
  <2>3. transcript \in [entry: Times, prompt: Times, ep: Entrypoints \cup {Unknown}]
    BY <2>1, SessionsAssumption
  <2>4. {news, byHand, filed} \subseteq BOOLEAN
    BY DEF Headless
  <2> QED
    BY <2>1, <2>2, <2>3, <2>4 DEF TypeOK, Scans
<1>2. FiledInv
  <2>1. ~Exists /\ hooks = {} /\ scan.at = "off"
    BY DEF Exists, NoScan
  <2>2. PICK at \in {"new", "idle"}, e \in Clients :
           /\ claude.ep = IF at = "idle" THEN e ELSE Unknown
           /\ transcript.ep = IF at = "new" THEN Unknown ELSE e
           /\ filed = (at # "new" => Headless(e))
    OBVIOUS
  <2> QED
    BY <2>1, <2>2 DEF FiledInv, Headless, Unknown
<1>3. HandInv /\ NewsInv
  BY DEF HandInv, NewsInv, Exists, NoScan, Times
<1> QED
  BY <1>1, <1>2, <1>3 DEF SessionInv

THEOREM SessionInvariant == Spec => []SessionInv
<1>1. SessionInv /\ [Next]_vars => SessionInv'
  BY TypeStep, FiledStep, HandStep, NewsStep DEF SessionInv
<1> QED
  BY InitInv, <1>1, PTL DEF Spec

\* The row, what the loop has read and what is on its way have their types.
THEOREM TypeCorrect == Spec => []TypeOK
<1>1. SessionInv => TypeOK
  BY DEF SessionInv
<1> QED
  BY SessionInvariant, <1>1, PTL

\* NEW is about work done since the operator's last look, or told of by a hook
\* that was on its way then; no late, lost or repeated reading makes it up.
THEOREM NewMeansNews == Spec => []NewIsNews
<1>1. SessionInv => NewIsNews
  <2> SUFFICES ASSUME SessionInv, Exists, ~news
               PROVE  row.act <= row.look
    BY DEF NewIsNews, Unseen, SessionInv, TypeOK, Rows, Times, Exists
  <2> QED
    BY DEF SessionInv, NewsInv
<1> QED
  BY SessionInvariant, <1>1, PTL

\* No upsert and no automatic archiving brings back what the operator archived.
THEOREM HandsStay == Spec => []ArchivedByHandStays
<1>1. SessionInv => ArchivedByHandStays
  BY DEF SessionInv, HandInv, ArchivedByHandStays
<1> QED
  BY SessionInvariant, <1>1, PTL

\* A headless session's row is filed by the first upsert that knows it for
\* one, hook or loop, and nothing brings it back.
THEOREM HeadlessFiled == Spec => []HeadlessIsFiled
<1>1. SessionInv => HeadlessIsFiled
  BY DEF SessionInv, FiledInv, HeadlessIsFiled, Headless, Unknown
<1> QED
  BY SessionInvariant, <1>1, PTL

-----------------------------------------------------------------------------
(* The dashboard's list of sessions                                        *)

USE TuiAssumption

\* What is shown is the tab that is chosen, of the list that came last, and a tab
\* that is chosen has a session in that list.
ShownInv ==
    /\ shown \in Filtered(all.rows, tab)
    /\ tab \in Groups \cup {All}
    /\ tab # All => \E s \in Sessions : all.rows[s] # None /\ GroupOf(s, all.rows[s]) = tab

\* A tab has a session, whether those of repositories are among them or not.
LEMMA TabsShape ==
    ASSUME NEW rows \in RowTabs, NEW auto \in BOOLEAN, NEW t \in Tabs(rows, auto)
    PROVE  /\ t \in Groups \cup {All}
           /\ t # All => \E s \in Sessions : rows[s] # None /\ GroupOf(s, rows[s]) = t
<1>1. CASE t = All
  BY <1>1
<1>2. CASE t # All
  <2>1. PICK s \in Sessions : t = GroupOf(s, rows[s]) /\ (rows[s] \in Groups \/ rows[s] = All)
    BY <1>2 DEF Tabs
  <2> QED
    BY <1>2, <2>1 DEF GroupOf
<1> QED
  BY <1>1, <1>2

\* A list of a tab has every session of the tab, once.
LEMMA FilteredShape ==
    ASSUME NEW rows, NEW t, NEW list \in Filtered(rows, t)
    PROVE  /\ Len(list) \in Nat /\ DOMAIN list = 1..Len(list)
           /\ \A i \in DOMAIN list :
                 /\ list[i] \in Sessions /\ rows[list[i]] # None
                 /\ t = All \/ GroupOf(list[i], rows[list[i]]) = t
           /\ IsInjective(list)
           /\ (\E s \in Sessions : rows[s] # None /\ t \in {All, GroupOf(s, rows[s])}) => Len(list) # 0
<1> DEFINE S == {s \in Sessions : rows[s] # None /\ t \in {All, GroupOf(s, rows[s])}}
           n == Cardinality(S)
<1>1. IsFiniteSet(S) /\ n \in Nat /\ (n = 0 <=> S = {})
  <2>1. S \subseteq Sessions
    OBVIOUS
  <2> QED
    BY <2>1, FS_Subset, FS_CardinalityType, FS_EmptySet
<1>2. /\ list \in [1..n -> S]
      /\ \A i, j \in 1..n : i # j => list[i] # list[j]
  BY DEF Filtered, SetToSeqs
<1>3. Len(list) = n /\ DOMAIN list = 1..n
  BY <1>1, <1>2
<1>4. IsInjective(list)
  BY <1>2, <1>3 DEF IsInjective
<1>5. \A i \in DOMAIN list : list[i] \in S
  BY <1>2, <1>3
<1> QED
  BY <1>1, <1>3, <1>4, <1>5

\* All is no shorter than a tab.
LEMMA AllIsLonger ==
    ASSUME NEW rows, NEW t, NEW list \in Filtered(rows, t), NEW long \in Filtered(rows, All)
    PROVE  Len(list) <= Len(long)
<1> DEFINE S == {s \in Sessions : rows[s] # None /\ t \in {All, GroupOf(s, rows[s])}}
           L == {s \in Sessions : rows[s] # None /\ All \in {All, GroupOf(s, rows[s])}}
<1>1. S \subseteq L /\ L \subseteq Sessions
  OBVIOUS
<1>2. /\ IsFiniteSet(L) /\ Cardinality(L) \in Nat /\ Cardinality(S) \in Nat
      /\ Cardinality(S) <= Cardinality(L)
  BY <1>1, FS_Subset, FS_CardinalityType
<1>3. list \in [1..Cardinality(S) -> S] /\ long \in [1..Cardinality(L) -> L]
  BY DEF Filtered, SetToSeqs
<1>4. Len(list) = Cardinality(S) /\ Len(long) = Cardinality(L)
  BY <1>2, <1>3
<1> QED
  BY <1>2, <1>4

DashboardInv == TuiTypeOK /\ ShownInv

LEMMA DashboardInvInit == TuiInit => DashboardInv
<1> SUFFICES ASSUME TuiInit PROVE DashboardInv
  OBVIOUS
<1>1. /\ changes = 0 /\ calls = 0 /\ writes = {} /\ lists = {} /\ sel = 1
      /\ all = [archived |-> FALSE, rows |-> Empty]
      /\ shown = <<>> /\ tab = All /\ view = FALSE /\ removed = [sid |-> None, at |-> 1]
      /\ ask = "none" /\ store = [s \in Sessions |-> [group |-> All, archived |-> FALSE]]
  BY DEF TuiInit
<1>2. all \in Lists /\ all.rows = Empty
  BY <1>1 DEF Lists, RowTabs, Empty
<1>3. {s \in Sessions : all.rows[s] # None /\ tab \in {All, GroupOf(s, all.rows[s])}} = {}
  BY <1>2 DEF Empty
<1>4. shown \in Filtered(all.rows, tab)
  <2>1. Cardinality({}) = 0
    BY FS_EmptySet
  <2>2. shown \in [1..0 -> {}]
    BY <1>1
  <2> QED
    BY <1>3, <2>1, <2>2 DEF Filtered, SetToSeqs
<1>5. tab = All
  BY <1>1
<1>6. store \in [Sessions -> [group: Groups \cup {All}, archived: BOOLEAN]]
  BY <1>1
<1>7. /\ changes \in 0..MaxChanges /\ calls \in 0..MaxCalls
      /\ removed \in [sid: Sessions \cup {None}, at: Nat \ {0}]
      /\ sel \in 1..Highest(1, Len(shown))
  BY <1>1 DEF Highest
<1>8. Range(shown) = {} /\ IsInjective(shown)
  BY <1>1 DEF Range, IsInjective
<1> QED
  BY <1>1, <1>2, <1>4, <1>5, <1>6, <1>7, <1>8 DEF DashboardInv, TuiTypeOK, ShownInv

\* The list that is shown is one of a tab, the cursor is on it, and the rest has
\* its types.
LEMMA DashboardShows ==
    ASSUME ShownInv', sel' \in 1..Highest(1, Len(shown')),
           all' \in Lists,
           store' \in [Sessions -> [group: Groups \cup {All}, archived: BOOLEAN]],
           changes' \in 0..MaxChanges, calls' \in 0..MaxCalls,
           writes' \subseteq [kind: {"archive"}, sid: Sessions, value: BOOLEAN]
                             \cup [kind: {"group"}, sid: Sessions, value: Groups \cup {All}],
           lists' \subseteq Lists \cup Unread,
           view' \in BOOLEAN, ask' \in {"none", "group", "tab"},
           removed' \in [sid: Sessions \cup {None}, at: Nat \ {0}]
    PROVE  DashboardInv'
<1>1. /\ Range(shown') \subseteq {s \in Sessions : all'.rows[s] # None}
      /\ IsInjective(shown')
  <2>1. shown' \in Filtered(all'.rows, tab')
    BY DEF ShownInv
  <2> HIDE DEF ShownInv
  <2>2. /\ \A i \in DOMAIN shown' : shown'[i] \in Sessions /\ all'.rows[shown'[i]] # None
        /\ IsInjective(shown')
    BY <2>1, FilteredShape
  <2> QED
    BY <2>2 DEF Range
<1>2. tab' \in Groups \cup {All}
  BY DEF ShownInv
<1> QED
  BY <1>1, <1>2 DEF DashboardInv, TuiTypeOK

\* The cursor of a list that is not empty is on one of its sessions.
LEMMA CursorShape ==
    ASSUME DashboardInv
    PROVE  /\ Len(shown) \in Nat /\ sel \in Nat \ {0}
           /\ shown # <<>> => sel \in DOMAIN shown
           /\ Current # None => Current \in Sessions /\ sel \in DOMAIN shown
           /\ \A i \in DOMAIN shown : shown[i] \in Sessions
           /\ Range(shown) \subseteq Sessions
<1>1. /\ Len(shown) \in Nat /\ DOMAIN shown = 1..Len(shown)
      /\ \A i \in DOMAIN shown : shown[i] \in Sessions
  BY FilteredShape DEF DashboardInv, ShownInv
<1>2. sel \in 1..Highest(1, Len(shown))
  BY DEF DashboardInv, TuiTypeOK
<1>3. shown # <<>> => Len(shown) # 0
  <2> SUFFICES ASSUME Len(shown) = 0 PROVE shown = <<>>
    OBVIOUS
  <2>1. shown = [i \in 1..Len(shown) |-> shown[i]]
    <3>1. PICK n, S : shown \in [1..n -> S]
      BY DEF DashboardInv, ShownInv, Filtered, SetToSeqs
    <3> QED
      BY <1>1, <3>1
  <2> QED
    BY <1>1, <2>1
<1> QED
  BY <1>1, <1>2, <1>3 DEF Highest, Current, Range

LEMMA DashboardInvNext ==
    ASSUME DashboardInv, [TuiNext]_tuiVars
    PROVE  DashboardInv'
<1>0. /\ ShownInv /\ sel \in 1..Highest(1, Len(shown)) /\ all \in Lists
      /\ store \in [Sessions -> [group: Groups \cup {All}, archived: BOOLEAN]]
      /\ changes \in 0..MaxChanges /\ calls \in 0..MaxCalls
      /\ writes \subseteq [kind: {"archive"}, sid: Sessions, value: BOOLEAN]
                          \cup [kind: {"group"}, sid: Sessions, value: Groups \cup {All}]
      /\ lists \subseteq Lists \cup Unread
      /\ tab \in Groups \cup {All}
      /\ view \in BOOLEAN /\ ask \in {"none", "group", "tab"}
      /\ removed \in [sid: Sessions \cup {None}, at: Nat \ {0}]
      /\ {MaxLists, MaxCalls, MaxChanges} \subseteq Nat
  BY DEF DashboardInv, TuiTypeOK
<1>1. ASSUME UNCHANGED <<all, shown, tab>> PROVE ShownInv'
  BY <1>0, <1>1 DEF ShownInv
<1>2. ASSUME NEW a \in BOOLEAN, Asks(a)
      PROVE  lists' \subseteq Lists \cup Unread
  BY <1>0, <1>2 DEF Asks, Unread
<1>3. ASSUME NEW kind, NEW sids \in SUBSET Sessions, NEW value,
             Calls(kind, sids, value),
             \/ kind = "archive" /\ value \in BOOLEAN
             \/ kind = "group" /\ value \in Groups \cup {All}
      PROVE  /\ writes' \subseteq [kind: {"archive"}, sid: Sessions, value: BOOLEAN]
                                  \cup [kind: {"group"}, sid: Sessions, value: Groups \cup {All}]
             /\ calls' \in 0..MaxCalls /\ UNCHANGED <<store, changes>>
  <2>1. /\ calls < MaxCalls /\ calls' = calls + 1 /\ UNCHANGED <<store, changes>>
        /\ writes' = writes \cup {[kind |-> kind, sid |-> s, value |-> value] : s \in sids}
    BY <1>3 DEF Calls
  <2> QED
    BY <1>0, <1>3, <2>1
<1>4. ASSUME NEW t, NEW auto \in BOOLEAN, Cycled(t, auto), all' = all
      PROVE  ShownInv' /\ sel' \in 1..Highest(1, Len(shown'))
  <2>1. all.rows \in RowTabs
    BY <1>0 DEF Lists
  <2>2. /\ t \in Tabs(all.rows, auto) /\ tab' = t /\ shown' \in Filtered(all.rows, t)
        /\ sel' \in 1..Highest(1, Len(shown'))
    BY <1>4 DEF Cycled
  <2> QED
    BY <1>4, <2>1, <2>2, TabsShape DEF ShownInv
<1>5. CASE UNCHANGED tuiVars
  BY <1>0, <1>1, <1>5, DashboardShows
     DEF tuiVars, storeVars, listVars
<1>6. ASSUME NEW s \in Sessions, Change(s) PROVE DashboardInv'
  <2>1. /\ changes < MaxChanges /\ changes' = changes + 1
        /\ \/ store' = [store EXCEPT ![s].archived = ~store[s].archived]
           \/ \E g \in Groups \cup {All} : store' = [store EXCEPT ![s].group = g]
        /\ UNCHANGED <<calls, writes, lists, all, shown, sel, tab, view, removed, ask>>
    BY <1>6 DEF Change, listVars
  <2>2. store' \in [Sessions -> [group: Groups \cup {All}, archived: BOOLEAN]]
    <3>1. CASE store' = [store EXCEPT ![s].archived = ~store[s].archived]
      <4>1. PICK b \in BOOLEAN : b = ~store[s].archived
        OBVIOUS
      <4>2. store' = [store EXCEPT ![s].archived = b]
        BY <3>1, <4>1, Zenon
      <4> QED
        BY <1>0, <4>2
    <3>2. CASE \E g \in Groups \cup {All} : store' = [store EXCEPT ![s].group = g]
      BY <1>0, <3>2
    <3> QED
      BY <2>1, <3>1, <3>2
  <2>3. changes' \in 0..MaxChanges
    BY <1>0, <2>1
  <2> QED
    BY <1>0, <1>1, <2>1, <2>2, <2>3, DashboardShows
<1>7. ASSUME NEW w \in writes, Write(w) PROVE DashboardInv'
  <2>1. /\ writes' = writes \ {w}
        /\ \/ store' = store
           \/ w.kind = "archive" /\ store' = [store EXCEPT ![w.sid].archived = w.value]
           \/ w.kind = "group" /\ store' = [store EXCEPT ![w.sid].group = w.value]
        /\ UNCHANGED <<changes, calls, lists, all, shown, sel, tab, view, removed, ask>>
    BY <1>7 DEF Write, listVars
  <2>2. store' \in [Sessions -> [group: Groups \cup {All}, archived: BOOLEAN]]
    <3>1. CASE w \in [kind: {"archive"}, sid: Sessions, value: BOOLEAN]
      <4>1. w.kind # "group" /\ w.sid \in Sessions /\ w.value \in BOOLEAN
        BY <3>1
      <4> QED
        BY <1>0, <2>1, <4>1
    <3>2. CASE w \in [kind: {"group"}, sid: Sessions, value: Groups \cup {All}]
      <4>1. w.kind # "archive" /\ w.sid \in Sessions /\ w.value \in Groups \cup {All}
        BY <3>2
      <4> QED
        BY <1>0, <2>1, <4>1
    <3> QED
      BY <1>0, <3>1, <3>2
  <2> QED
    BY <1>0, <1>1, <2>1, <2>2, DashboardShows
<1>8. CASE Refresh
  BY <1>0, <1>1, <1>2, <1>8, DashboardShows
     DEF Refresh, storeVars, listVars
<1>9. ASSUME NEW l \in lists, ReadList(l) PROVE DashboardInv'
  <2>1. /\ lists' = (lists \ {l}) \cup {Stored(l.archived)}
        /\ UNCHANGED <<store, changes, calls, writes, all, shown, sel, tab, view, removed, ask>>
    BY <1>9 DEF ReadList, storeVars, listVars
  <2>2. Stored(l.archived) \in Lists
    <3>1. l.archived \in BOOLEAN
      BY <1>0 DEF Lists, Unread
    <3> DEFINE rows == [s \in Sessions |->
                           IF store[s].archived = l.archived THEN store[s].group ELSE None]
    <3>2. rows \in RowTabs
      BY <1>0 DEF RowTabs
    <3> HIDE DEF rows
    <3>3. [archived |-> l.archived, rows |-> rows] \in Lists
      BY <3>1, <3>2 DEF Lists
    <3> QED
      BY <3>3 DEF rows, Stored
  <2> QED
    BY <1>0, <1>1, <2>1, <2>2, DashboardShows
<1>10. ASSUME NEW l \in lists, LoseList(l) PROVE DashboardInv'
  BY <1>0, <1>1, <1>10, DashboardShows
     DEF LoseList, storeVars, listVars
<1>11. ASSUME NEW l \in lists, DeliverList(l) PROVE DashboardInv'
  <2>1. /\ l.rows # None /\ lists' = lists \ {l} /\ all' = l
        /\ (\E auto \in BOOLEAN : NextTab(l.rows, auto)) /\ shown' \in Filtered(l.rows, tab')
        /\ NextPlace(shown')
        /\ UNCHANGED <<store, changes, calls, writes, view, ask>>
    BY <1>11 DEF DeliverList, storeVars
  <2>2. l \in Lists
    BY <1>0, <2>1 DEF Unread
  <2>3. PICK auto \in BOOLEAN : tab' \in Tabs(l.rows, auto)
    BY <2>1 DEF NextTab, Tabs
  <2>4. Len(shown') \in Nat /\ DOMAIN shown' = 1..Len(shown')
    BY <2>1, FilteredShape
  <2>5. /\ sel' \in 1..Highest(1, Len(shown'))
        /\ removed' \in [sid: Sessions \cup {None}, at: Nat \ {0}]
    <3>1. CASE Listed(Current, shown')
      <4>1. /\ sel' = PlaceOf(Current, shown') /\ removed' = removed
        BY <2>1, <3>1 DEF NextPlace
      <4>2. \E i \in DOMAIN shown' : shown'[i] = Current
        BY <3>1 DEF Listed, Range
      <4>3. PlaceOf(Current, shown') \in DOMAIN shown'
        BY <4>2 DEF PlaceOf
      <4> QED
        BY <1>0, <2>4, <4>1, <4>3 DEF Highest
    <3>2. CASE ~Listed(Current, shown')
      <4>1. /\ \/ sel' = Highest(1, Lowest(removed.at, Len(shown')))
               \/ sel' \in Newest(shown')
            /\ removed' = [removed EXCEPT !.sid = None]
        BY <2>1, <3>2 DEF NextPlace
      <4>2. removed.at \in Nat \ {0}
        BY <1>0
      <4>3. sel' \in 1..Highest(1, Len(shown'))
        BY <2>4, <4>1, <4>2 DEF Highest, Lowest, Newest
      <4> QED
        BY <1>0, <4>1, <4>3
    <3> QED
      BY <3>1, <3>2
  <2>6. ShownInv'
    <3>1. l.rows \in RowTabs
      BY <2>2 DEF Lists
    <3> QED
      BY <2>1, <2>3, <3>1, TabsShape DEF ShownInv
  <2> QED
    BY <1>0, <2>1, <2>2, <2>5, <2>6, DashboardShows
<1>12. ASSUME NEW i \in DOMAIN shown, MoveTo(i) PROVE DashboardInv'
  <2>1. /\ sel' = i
        /\ UNCHANGED <<store, changes, calls, writes, lists, all, shown, tab, view, removed, ask>>
    BY <1>12 DEF MoveTo, storeVars
  <2>2. sel' \in 1..Highest(1, Len(shown'))
    BY <1>0, <2>1, FilteredShape DEF ShownInv, Highest
  <2> QED
    BY <1>0, <1>1, <2>1, <2>2, DashboardShows
<1>13. ASSUME NEW t, Cycle(t) PROVE DashboardInv'
  BY <1>0, <1>4, <1>13, DashboardShows DEF Cycle, storeVars
<1>14. CASE SwitchView
  <2>1. /\ view' = ~view /\ sel' = 1 /\ Asks(view')
        /\ UNCHANGED <<store, changes, calls, writes, all, shown, tab, removed, ask>>
    BY <1>14 DEF SwitchView, storeVars
  <2>2. view' \in BOOLEAN /\ lists' \subseteq Lists \cup Unread
    BY <1>0, <1>2, <2>1
  <2>3. sel' \in 1..Highest(1, Len(shown'))
    BY <1>0, <2>1, FilteredShape DEF ShownInv, Highest
  <2> QED
    BY <1>0, <1>1, <2>1, <2>2, <2>3, DashboardShows
<1>15. CASE ArchiveCurrent
  <2>1. /\ Current # None
        /\ Calls("archive", {Current}, ~all.archived)
        /\ removed' = [sid |-> Current, at |-> sel]
        /\ UNCHANGED <<lists, all, shown, sel, tab, view, ask>>
    BY <1>15 DEF ArchiveCurrent
  <2>2. Current \in Sessions /\ sel \in Nat \ {0} /\ (~all.archived) \in BOOLEAN
    BY <2>1, CursorShape
  <2>3. removed' \in [sid: Sessions \cup {None}, at: Nat \ {0}]
    BY <2>1, <2>2
  <2> QED
    BY <1>0, <1>1, <1>3, <2>1, <2>2, <2>3, DashboardShows
<1>16. ASSUME NEW q \in {"group", "tab"}, Question(q) PROVE DashboardInv'
  BY <1>0, <1>1, <1>16, DashboardShows
     DEF Question, storeVars, listVars
<1>17. CASE No
  BY <1>0, <1>1, <1>17, DashboardShows
     DEF No, storeVars, listVars
<1>18. ASSUME NEW g \in Groups \cup {All}, SetGroup(g) PROVE DashboardInv'
  <2>1. /\ Current # None /\ Calls("group", {Current}, g)
        /\ ask' = "none" /\ UNCHANGED <<lists, all, shown, sel, tab, view, removed>>
    BY <1>18 DEF SetGroup, listVars
  <2>2. Current \in Sessions
    BY <2>1, CursorShape
  <2> QED
    BY <1>0, <1>1, <1>3, <2>1, <2>2, DashboardShows
<1>19. CASE ArchiveTab
  <2>1. /\ ask' = "none" /\ Calls("archive", Range(shown), ~view)
        /\ \/ \E auto \in BOOLEAN : \E t \in Tabs(all.rows, auto) : Cycled(t, auto)
           \/ UNCHANGED <<tab, shown, sel>>
        /\ Asks(view) /\ UNCHANGED <<all, view, removed>>
    BY <1>19 DEF ArchiveTab
  <2>2. Range(shown) \subseteq Sessions /\ (~view) \in BOOLEAN
    BY CursorShape
  <2>3. ShownInv' /\ sel' \in 1..Highest(1, Len(shown'))
    BY <1>0, <1>1, <1>4, <2>1
  <2> QED
    BY <1>0, <1>2, <1>3, <2>1, <2>2, <2>3, DashboardShows
<1>20. CASE AutoRepoTabsOff
  <2>1. /\ tab' = All /\ shown' \in Filtered(all.rows, All)
        /\ UNCHANGED <<store, changes, calls, writes, lists, all, sel, view, removed, ask>>
    BY <1>20 DEF AutoRepoTabsOff, storeVars
  <2>2. ShownInv'
    BY <2>1 DEF ShownInv
  <2>3. Len(shown) <= Len(shown') /\ Len(shown) \in Nat /\ Len(shown') \in Nat
    BY <1>0, <2>1, AllIsLonger, FilteredShape DEF ShownInv
  <2>4. sel' \in 1..Highest(1, Len(shown'))
    BY <1>0, <2>1, <2>3 DEF Highest
  <2> QED
    BY <1>0, <2>1, <2>2, <2>4, DashboardShows
<1> QED
  BY <1>5, <1>6, <1>7, <1>8, <1>9, <1>10, <1>11, <1>12, <1>13, <1>14, <1>15, <1>16, <1>17,
     <1>18, <1>19, <1>20 DEF TuiNext, Keys

LEMMA DashboardInvariant == TuiSpec => []DashboardInv
BY DashboardInvInit, DashboardInvNext, PTL DEF TuiSpec

\* The rows, the calls and lists on their way, the list and the cursor have their
\* types: the cursor never leaves the list.
THEOREM DashboardTypeCorrect == TuiSpec => []TuiTypeOK
<1>1. DashboardInv => TuiTypeOK
  BY DEF DashboardInv
<1> QED
  BY <1>1, DashboardInvariant, PTL

\* Whatever lists arrive, and whoever archives or moves its sessions, a tab that
\* is shown has a session, and the cursor is on one (sessionsMsg, cycleGroup).
THEOREM TabsHaveSessions == TuiSpec => []TabIsNotEmpty
<1>1. DashboardInv => TabIsNotEmpty
  <2> SUFFICES ASSUME DashboardInv, tab # All
               PROVE  Current # None /\ GroupOf(Current, all.rows[Current]) = tab
    BY DEF TabIsNotEmpty
  <2>1. \E s \in Sessions : all.rows[s] # None /\ GroupOf(s, all.rows[s]) = tab
    BY DEF DashboardInv, ShownInv
  <2>2. /\ Len(shown) # 0 /\ Len(shown) \in Nat /\ DOMAIN shown = 1..Len(shown)
        /\ \A i \in DOMAIN shown : shown[i] \in Sessions /\ GroupOf(shown[i], all.rows[shown[i]]) = tab
    BY <2>1, FilteredShape DEF DashboardInv, ShownInv
  <2>3. sel \in DOMAIN shown
    BY <2>2 DEF DashboardInv, TuiTypeOK, Highest
  <2> QED
    BY <2>2, <2>3 DEF Current
<1> QED
  BY <1>1, DashboardInvariant, PTL

\* A list that arrives does not take the cursor off a session that it has.
THEOREM CursorKeepsItsSession == TuiSpec => CursorStays
<1>1. ASSUME NEW l \in lists, DeliverList(l),
             Listed(Current, shown')
      PROVE  Current' = Current
  <2>1. sel' = PlaceOf(Current, shown')
    BY <1>1 DEF DeliverList, NextPlace
  <2>2. \E i \in DOMAIN shown' : shown'[i] = Current
    BY <1>1 DEF Listed, Range
  <2>3. sel' \in DOMAIN shown' /\ shown'[sel'] = Current
    BY <2>1, <2>2 DEF PlaceOf
  <2> QED
    BY <2>3 DEF Current
<1>2. [TuiNext]_tuiVars =>
        [\A l \in lists : DeliverList(l) /\ Listed(Current, shown') => Current' = Current]_tuiVars
  BY <1>1
<1> QED
  BY <1>2, PTL DEF TuiSpec, CursorStays
=============================================================================
