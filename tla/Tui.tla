--------------------------------- MODULE Tui ---------------------------------
(***************************************************************************)
(* The dashboard's session list (src/internal/tui/tui.go): one event loop  *)
(* whose commands run in the background.  Lists are asked for with the     *)
(* view as it is then, are read later and delivered later, in any order;   *)
(* so are the calls that archive a session or move it to another tab.      *)
(* Meanwhile the operator moves the cursor, switches tabs and views, and   *)
(* answers questions.                                                      *)
(*                                                                         *)
(* The order of a list (pins, projects, activity) is data: it may come in  *)
(* any order.  auto_repo_tabs, whether repositories have tabs too, may be  *)
(* switched between any two steps: a step that reads it finds either.      *)
(*                                                                         *)
(* Left out: the filters that narrow a tab, a pinned tab, the              *)
(* placeholder of a claude that is being started, and all that the right   *)
(* pane shows.                                                             *)
(***************************************************************************)
EXTENDS Naturals, FiniteSets, Sequences, SequencesExt

CONSTANTS
    Sessions,
    Groups,     \* tabs
    All,        \* the empty string: no tab that is chosen, no name, no repository
    Home,       \* a session's repository, or else its directory
    None,
    MaxLists,   \* bound: lists under way
    MaxCalls,   \* bound: calls the operator makes
    MaxChanges  \* bound: changes of the rows by others

ASSUME TuiAssumption ==
    /\ IsFiniteSet(Sessions)
    /\ All \notin Groups /\ None \notin Sessions \cup Groups \cup {All}
    /\ Home \in [Sessions -> Groups \cup {All}]
    /\ {MaxLists, MaxCalls, MaxChanges} \subseteq Nat

VARIABLES
    store,    \* the collector's rows
    changes,
    calls,    \* how many calls were made
    writes,   \* calls on their way to the collector
    lists,    \* lists under way
    all,      \* allSessions
    shown,    \* sessions: those of the tab, in order
    sel,      \* selSess, from 1
    tab,      \* groupFilter
    view,     \* showArchived
    removed,  \* removedSel
    ask       \* the question on the screen

listVars == <<all, shown, sel, tab, view, removed>>
storeVars == <<store, changes, calls, writes>>
tuiVars == <<storeVars, lists, listVars, ask>>

\* A session's user_group, where it is listed.
RowTabs == [Sessions -> Groups \cup {All, None}]
Lists == [archived: BOOLEAN, rows: RowTabs]
Unread == [archived: BOOLEAN, rows: {None}]
Empty == [s \in Sessions |-> None]

Highest(a, b) == IF a > b THEN a ELSE b
Lowest(a, b) == IF a < b THEN a ELSE b

\* currentSessionID; the cursor of an empty list is 1.
Current == IF sel \in DOMAIN shown THEN shown[sel] ELSE None
PlaceOf(s, list) == CHOOSE i \in DOMAIN list : list[i] = s
Listed(s, list) == s \in Range(list)

\* The tab of a session: what the operator named, or else its home.
GroupOf(s, name) == IF name = All THEN Home[s] ELSE name

\* uniqueGroups.
Tabs(rows, auto) ==
    {All} \cup {GroupOf(s, rows[s]) : s \in {s \in Sessions : rows[s] \in Groups \/ (auto /\ rows[s] = All)}}

\* What ListSessions answers.
Stored(archived) ==
    [archived |-> archived,
     rows |-> [s \in Sessions |-> IF store[s].archived = archived THEN store[s].group ELSE None]]

\* applyGroupFilter.
Filtered(rows, t) == SetToSeqs({s \in Sessions : rows[s] # None /\ t \in {All, GroupOf(s, rows[s])}})

\* defaultSelectionIdx: the newest, which is first or last.
Newest(list) == {1, Highest(1, Len(list))}

TuiInit ==
    /\ store = [s \in Sessions |-> [group |-> All, archived |-> FALSE]]
    /\ changes = 0
    /\ calls = 0
    /\ writes = {}
    /\ lists = {}
    /\ all = [archived |-> FALSE, rows |-> Empty]
    /\ shown = <<>>
    /\ sel = 1
    /\ tab = All
    /\ view = FALSE
    /\ removed = [sid |-> None, at |-> 1]
    /\ ask = "none"

-----------------------------------------------------------------------------
(* The collector *)

\* Another dashboard, the portal, a hook or the archiving loop.
Change(s) ==
    /\ changes < MaxChanges
    /\ changes' = changes + 1
    /\ \/ store' = [store EXCEPT ![s].archived = ~@]
       \/ \E g \in (Groups \cup {All}) \ {store[s].group} : store' = [store EXCEPT ![s].group = g]
    /\ UNCHANGED <<calls, writes, lists, listVars, ask>>

\* SetArchived and SetUserGroup, or an error.
Write(w) ==
    /\ w \in writes
    /\ writes' = writes \ {w}
    /\ \/ UNCHANGED store
       \/ w.kind = "archive" /\ store' = [store EXCEPT ![w.sid].archived = w.value]
       \/ w.kind = "group" /\ store' = [store EXCEPT ![w.sid].group = w.value]
    /\ UNCHANGED <<changes, calls, lists, listVars, ask>>

-----------------------------------------------------------------------------
(* Lists *)

Asks(archived) ==
    /\ lists' = lists \cup {[archived |-> archived, rows |-> None]}
    /\ Cardinality(lists') <= MaxLists

\* Mutant: what is asked for is what is shown.
RefreshShown ==
    /\ Asks(all.archived)
    /\ UNCHANGED <<storeVars, listVars, ask>>

\* refresh: every tick, after each call, and on r.
Refresh ==
    /\ Asks(view)
    /\ UNCHANGED <<storeVars, listVars, ask>>

ReadList(l) ==
    /\ l \in lists /\ l.rows = None
    /\ lists' = (lists \ {l}) \cup {Stored(l.archived)}
    /\ UNCHANGED <<storeVars, listVars, ask>>

\* errMsg.
LoseList(l) ==
    /\ l \in lists /\ l.rows = None
    /\ lists' = lists \ {l}
    /\ UNCHANGED <<storeVars, listVars, ask>>

\* Mutant: the tab is kept.
KeepTab(rows, auto) == tab' = tab

\* A tab that has emptied is left for the first of the others.
NextTab(rows, auto) ==
    \/ tab \in Tabs(rows, auto) /\ tab' = tab
    \/ /\ tab \notin Tabs(rows, auto)
       /\ tab' \in IF Tabs(rows, auto) = {All} THEN {All} ELSE Tabs(rows, auto) \ {All}

\* Mutant: the cursor keeps its row.
KeepPlace(list) ==
    /\ sel' = Highest(1, Lowest(sel, Len(list)))
    /\ removed' = removed

\* Mutant: the row that x left is not clamped.
NextPlaceUnclamped(list) ==
    \/ /\ Listed(Current, list)
       /\ sel' = PlaceOf(Current, list)
       /\ removed' = removed
    \/ /\ ~Listed(Current, list)
       /\ IF Current # None /\ Current = removed.sid
          THEN sel' = removed.at
          ELSE sel' \in Newest(list)
       /\ removed' = [removed EXCEPT !.sid = None]

\* The cursor stays on its session; where that is gone it stays on its row, if
\* x took the session, and else goes to the newest.
NextPlace(list) ==
    \/ /\ Listed(Current, list)
       /\ sel' = PlaceOf(Current, list)
       /\ removed' = removed
    \/ /\ ~Listed(Current, list)
       /\ IF Current # None /\ Current = removed.sid
          THEN sel' = Highest(1, Lowest(removed.at, Len(list)))
          ELSE sel' \in Newest(list)
       /\ removed' = [removed EXCEPT !.sid = None]

\* sessionsMsg.
DeliverList(l) ==
    /\ l \in lists /\ l.rows # None
    /\ lists' = lists \ {l}
    /\ all' = l
    /\ \E auto \in BOOLEAN : NextTab(l.rows, auto)
    /\ shown' \in Filtered(l.rows, tab')
    /\ NextPlace(shown')
    /\ UNCHANGED <<storeVars, view, ask>>

-----------------------------------------------------------------------------
(* Keys *)

\* The calls of one command, which are made one by one.
Calls(kind, sids, value) ==
    /\ calls < MaxCalls
    /\ calls' = calls + 1
    /\ writes' = writes \cup {[kind |-> kind, sid |-> s, value |-> value] : s \in sids}
    /\ UNCHANGED <<store, changes>>

\* j, k, g, G, a click or the grid; the wheel moves it whatever is being asked.
MoveTo(i) ==
    /\ i \in DOMAIN shown
    /\ ask = "none" \/ i \in {sel - 1, sel + 1}
    /\ sel' = i
    /\ UNCHANGED <<storeVars, lists, all, shown, tab, view, removed, ask>>

\* cycleGroup: the cursor goes where it was in that tab, or to the newest.
Cycled(t, auto) ==
    /\ t \in Tabs(all.rows, auto) /\ t # tab
    /\ tab' = t
    /\ shown' \in Filtered(all.rows, t)
    /\ sel' \in 1..Highest(1, Len(shown'))

Cycle(t) ==
    /\ ask = "none"
    /\ \E auto \in BOOLEAN : Cycled(t, auto)
    /\ UNCHANGED <<storeVars, lists, all, view, removed, ask>>

\* R, which switches auto_repo_tabs off: a tab that goes is left for All, and
\* the cursor keeps its row.
AutoRepoTabsOff ==
    /\ ask = "none"
    /\ tab \notin Tabs(all.rows, FALSE)
    /\ tab' = All
    /\ shown' \in Filtered(all.rows, All)
    /\ UNCHANGED <<storeVars, lists, all, sel, view, removed, ask>>

\* X: the list is asked for again, and the cursor goes to the top of the old one.
SwitchView ==
    /\ ask = "none"
    /\ view' = ~view
    /\ sel' = 1
    /\ Asks(view')
    /\ UNCHANGED <<storeVars, all, shown, tab, removed, ask>>

\* toggleArchiveCurrent.
ArchiveCurrent ==
    /\ ask = "none" /\ Current # None
    /\ Calls("archive", {Current}, ~all.archived)
    /\ removed' = [sid |-> Current, at |-> sel]
    /\ UNCHANGED <<lists, all, shown, sel, tab, view, ask>>

\* startGroupEdit and promptArchiveCurrentGroup: a tab, and never All.
Question(q) ==
    /\ ask = "none" /\ shown # <<>>
    /\ q = "group" \/ (q = "tab" /\ tab # All)
    /\ ask' = q
    /\ UNCHANGED <<storeVars, lists, listVars>>

No ==
    /\ ask # "none"
    /\ ask' = "none"
    /\ UNCHANGED <<storeVars, lists, listVars>>

\* commitGroupEdit; the empty name takes the session back to its home.
SetGroup(g) ==
    /\ ask = "group" /\ Current # None
    /\ ask' = "none"
    /\ Calls("group", {Current}, g)
    /\ UNCHANGED <<lists, listVars>>

\* archiveCurrentGroup: all that is listed, and the next tab if there is one.
ArchiveTab ==
    /\ ask = "tab"
    /\ ask' = "none"
    /\ Calls("archive", Range(shown), ~view)
    /\ \E auto \in BOOLEAN :
          \/ \E t \in Tabs(all.rows, auto) : Cycled(t, auto)
          \/ Tabs(all.rows, auto) = {All} /\ UNCHANGED <<tab, shown, sel>>
    /\ Asks(view)
    /\ UNCHANGED <<all, view, removed>>

-----------------------------------------------------------------------------
Keys ==
    \/ \E i \in DOMAIN shown : MoveTo(i)
    \/ \E t \in Groups \cup {All} : Cycle(t)
    \/ AutoRepoTabsOff
    \/ SwitchView
    \/ ArchiveCurrent
    \/ \E q \in {"group", "tab"} : Question(q)
    \/ No
    \/ \E g \in Groups \cup {All} : SetGroup(g)
    \/ ArchiveTab

TuiNext ==
    \/ \E s \in Sessions : Change(s)
    \/ \E w \in writes : Write(w)
    \/ Refresh
    \/ \E l \in lists : ReadList(l) \/ LoseList(l) \/ DeliverList(l)
    \/ Keys

\* The event loop runs on, and a call that is made again and again succeeds.
Fairness ==
    /\ WF_tuiVars(Refresh)
    /\ SF_tuiVars(\E l \in lists : ReadList(l))
    /\ WF_tuiVars(\E l \in lists : DeliverList(l))

TuiSpec == TuiInit /\ [][TuiNext]_tuiVars /\ Fairness

-----------------------------------------------------------------------------
(* Properties *)

TuiTypeOK ==
    /\ store \in [Sessions -> [group: Groups \cup {All}, archived: BOOLEAN]]
    /\ changes \in 0..MaxChanges
    /\ calls \in 0..MaxCalls
    /\ writes \subseteq [kind: {"archive"}, sid: Sessions, value: BOOLEAN]
                        \cup [kind: {"group"}, sid: Sessions, value: Groups \cup {All}]
    /\ lists \subseteq Lists \cup Unread
    /\ all \in Lists
    /\ Range(shown) \subseteq {s \in Sessions : all.rows[s] # None} /\ IsInjective(shown)
    /\ sel \in 1..Highest(1, Len(shown))
    /\ tab \in Groups \cup {All}
    /\ view \in BOOLEAN
    /\ removed \in [sid: Sessions \cup {None}, at: Nat \ {0}]
    /\ ask \in {"none", "group", "tab"}

\* The body is never blank for a tab whose sessions have all been archived or
\* moved, by whomever, or whose list came late or for the other view: the
\* cursor is on a session of the tab that is shown (sessionsMsg, cycleGroup).
TabIsNotEmpty == tab # All => Current # None /\ GroupOf(Current, all.rows[Current]) = tab

\* A list that arrives, however old and in whatever order its rows are, does
\* not take the cursor off its session while that is listed (sessionsMsg).
CursorStays ==
    [][\A l \in lists : DeliverList(l) /\ Listed(Current, shown') => Current' = Current]_tuiVars

\* Not true of the code.  The question about a tab is never answered for the
\* whole dashboard (promptArchiveCurrentGroup: "We require an explicit tab"): a
\* list that arrives between the question and the answer may move the tab, to
\* another one or to All.
DashboardIsSpared == [][ArchiveTab => tab # All]_tuiVars

\* When the operator stays in a view, what the dashboard shows in the end is
\* what the collector has for that view: a list that was lost, or one of the
\* other view that arrived last, is made good by the tick (refresh).
ListCatchesUp == \A a \in BOOLEAN : <>[](view = a) => <>[](all = Stored(a))
=============================================================================
