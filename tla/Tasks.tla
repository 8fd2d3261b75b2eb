-------------------------------- MODULE Tasks --------------------------------
(***************************************************************************)
(* The to-do list of one machine (src/internal/db/tasks.go, the rules in   *)
(* src/internal/tasks): edits of the person and of their sessions, notes,  *)
(* the manual order, the import, and the merge of what an automated run    *)
(* has found.  The collector, `ccdash tasks` and `ccdash mcp` each open    *)
(* the same SQLite file, so that calls of several processes overlap.       *)
(*                                                                         *)
(* A call reads the clock, then reads the list inside a transaction        *)
(* (SQLite gives it a snapshot), then writes; a call that writes without   *)
(* having read waits for the lock instead.  SQLite refuses a write on a    *)
(* snapshot that is no longer the latest.                                  *)
(*                                                                         *)
(* A task's title, priority, note, due date, project, links and sessions   *)
(* are left out: no rule of the list looks at them.                        *)
(***************************************************************************)
EXTENDS Naturals, FiniteSets, Sequences, SequencesExt

CONSTANTS
    Calls,        \* one request each
    Ids,          \* 1 .. the bound on tasks
    Keys,
    NoKey,
    None,         \* not in this request
    Refs,         \* of notes that are not the list's own
    Requests,     \* what the calls may ask
    DayLength,    \* seconds
    LastSecond    \* bound of the clock

ASSUME TasksAssumption ==
    /\ Ids \subseteq Nat \ {0}
    /\ NoKey \notin Keys /\ None \notin Nat \cup Keys \cup {NoKey} \cup STRING \cup BOOLEAN
    /\ DayLength \in Nat \ {0} /\ LastSecond \in Nat

VARIABLES
    now,      \* the machine's clock
    list,     \* the tasks by id
    seq,      \* sqlite_sequence: the highest id given out
    since,    \* task_meta last_sync: where the next run looks from
    rev,      \* task_meta rev
    call,
    byHand    \* the day on which a person has set a task's plan

tasksVars == <<now, list, seq, since, rev, call, byHand>>

\* What a transaction reads and writes.
Stored == [list |-> list, seq |-> seq, since |-> since]
Becomes(new) == list' = new.list /\ seq' = new.seq /\ since' = new.since

Day(t) == 1 + t \div DayLength
Finals == {"done", "cancelled"}
Statuses == {"todo", "doing", "waiting"} \cup Finals
Sources == {"claude", "manual", "auto"}

IsFinished(t) == t.status \in Finals

NoDay == 0
Unplanned == 0
NoOrder == 0

Entries == Refs \cup (Sources \X {"status", "plan"} \X Nat)

TaskRecords ==
    [key: Keys \cup {NoKey}, status: Statuses, plan: Nat, planBy: {"", "manual", "auto"},
     planOn: Nat, doneOn: Nat, order: Nat, archived: BOOLEAN, refs: SUBSET Entries]

\* Only a finished task is archived or has a day on which it was finished.
Tidy(t) == t \in TaskRecords /\ (t.archived \/ t.doneOn # NoDay => IsFinished(t))

-----------------------------------------------------------------------------
(* Requests                                                                *)

\* The new key, status, plan and archived of a task, each a value or None; who
\* asks, and why.
Patches ==
    [key: Keys \cup {NoKey, None}, status: Statuses \cup {None}, plan: Nat \cup {None},
     archived: BOOLEAN \cup {None}, auto: BOOLEAN, why: BOOLEAN, source: Sources]

\* A task as an automated run saw it; NoKey stands for no key or no title.
Proposals ==
    [key: Keys \cup {NoKey}, status: Statuses \cup {None}, plan: Nat, refs: SUBSET Refs,
     replan: Nat \cup {None}, why: BOOLEAN]

\* A file is what an export has written: the import does not check that only
\* finished tasks in it are archived or have a day.
IsExport(q) ==
    /\ DOMAIN q = {"kind", "file", "nextId", "since"}
    /\ IsFiniteSet(DOMAIN q.file) /\ \A i \in DOMAIN q.file : i \in Nat \ {0} /\ Tidy(q.file[i])
    /\ q.nextId \in Nat /\ q.since \in Nat \cup {None}

ASSUME RequestsAssumption ==
    \A q \in Requests :
        \/ q \in [kind: {"add"}, key: Keys \cup {NoKey}, status: Statuses \ Finals, plan: Nat,
                   source: Sources]
        \/ q \in [kind: {"edit"}, id: Nat, patch: Patches]
        \/ q \in [kind: {"note"}, id: Nat, ref: Refs]
        \/ q \in [kind: {"order"}, ids: Seq(Nat)]
        \/ q \in [kind: {"sync"}, tasks: Seq(Proposals), dryRun: BOOLEAN, syncedAt: Nat \cup {None}]
        \/ q.kind = "import" /\ IsExport(q)

-----------------------------------------------------------------------------
(* Edits (edit.go)                                                         *)

\* A task's timeline as the refs of its entries.
AddNote(t, ref) == [t EXCEPT !.refs = @ \cup {ref}]

\* Mutant: a task that is reopened stays in the archive.
SetStatusArchived(t, status, source, when) ==
    AddNote([t EXCEPT !.status = status,
                      !.doneOn = IF status \in Finals THEN Day(when) ELSE NoDay],
            <<source, "status", when>>)

SetStatus(t, status, source, when) ==
    AddNote([t EXCEPT !.status = status,
                      !.doneOn = IF status \in Finals THEN Day(when) ELSE NoDay,
                      !.archived = status \in Finals /\ @],
            <<source, "status", when>>)

\* An automated replan needs a reason, an open task, and a plan that was not
\* set by hand today.
MayReplan(t, auto, why, when) ==
    auto => /\ ~IsFinished(t) /\ why
            /\ ~(t.planBy = "manual" /\ t.planOn = Day(when))

\* Mutant: the day on which the plan was set is not kept.
ReplanUndated(t, plan, why, auto, source, when) ==
    IF plan = t.plan THEN t
    ELSE [t EXCEPT !.plan = plan, !.order = NoOrder, !.planBy = IF auto THEN "auto" ELSE "manual"]

Replan(t, plan, why, auto, source, when) ==
    LET moved == [t EXCEPT !.plan = plan, !.order = NoOrder, !.planOn = Day(when),
                           !.planBy = IF auto THEN "auto" ELSE "manual"]
    IN  IF plan = t.plan THEN t
        ELSE IF auto \/ why
             THEN AddNote(moved, <<IF auto THEN "auto" ELSE source, "plan", when>>)
             ELSE moved

Refused(t, p, when) ==
    LET status == IF p.status = None THEN t.status ELSE p.status
        after == [t EXCEPT !.status = status]
    IN  \/ p.plan \notin {None, t.plan} /\ ~MayReplan(after, p.auto, p.why, when)
        \/ p.archived = TRUE /\ status \notin Finals

Apply(t, p, when) ==
    LET keyed == IF p.key = None THEN t ELSE [t EXCEPT !.key = p.key]
        ticked == IF p.status \in {None, t.status} THEN keyed
                  ELSE SetStatus(keyed, p.status, p.source, when)
        planned == IF p.plan = None THEN ticked
                   ELSE Replan(ticked, p.plan, p.why, p.auto, p.source, when)
    IN  IF p.archived = None THEN planned ELSE [planned EXCEPT !.archived = p.archived]

NewTask(key, status, plan, source, refs, when) ==
    [key |-> key, status |-> status, plan |-> plan,
     planBy |-> IF plan = Unplanned THEN "" ELSE IF source = "auto" THEN "auto" ELSE "manual",
     planOn |-> IF plan = Unplanned THEN NoDay ELSE Day(when),
     doneOn |-> NoDay, order |-> NoOrder, archived |-> FALSE, refs |-> refs]

-----------------------------------------------------------------------------
(* The merge of an automated run's proposal (sync.go)                      *)

\* What one proposed task does to the task that has its key.
Merged(t, pt, when) ==
    LET news == ~(pt.refs \subseteq t.refs)
        noted == [t EXCEPT !.refs = @ \cup pt.refs]
        ticked == IF /\ pt.status \notin {None, t.status} /\ ~IsFinished(t)
                     /\ pt.status = "done" \/ news
                  THEN SetStatus(noted, pt.status, "auto", when) ELSE noted
    IN  IF pt.replan # None /\ MayReplan(ticked, TRUE, pt.why, when)
        THEN Replan(ticked, pt.replan, pt.why, TRUE, "auto", when) ELSE ticked

Having(l, key) == {i \in DOMAIN l : l[i].key = key}

Put(l, i, t) == [j \in DOMAIN l \cup {i} |-> IF j = i THEN t ELSE l[j]]

MergeOne(m, pt, when) ==
    LET status == IF pt.status = None THEN "todo" ELSE pt.status
        new == NewTask(pt.key, status, pt.plan, "auto", pt.refs, when)
        old == Having(m.list, pt.key)
    IN  IF pt.key = NoKey THEN m
        ELSE IF old # {}
        THEN [m EXCEPT !.list = [i \in DOMAIN @ |-> IF i \in old THEN Merged(@[i], pt, when) ELSE @[i]]]
        ELSE IF status \in Finals THEN m
        ELSE [m EXCEPT !.list = Put(@, m.seq + 1, new), !.seq = @ + 1]

\* The proposed tasks are merged one by one.
Merge(m, proposal, when) ==
    LET merged[n \in 0..Len(proposal)] ==
            IF n = 0 THEN m ELSE MergeOne(merged[n - 1], proposal[n], when)
    IN  merged[Len(proposal)]

-----------------------------------------------------------------------------
(* What a request makes of the list it has read (db/tasks.go)              *)

\* UNIQUE on the key, and the bound on tasks.
Storable(m) ==
    /\ DOMAIN m.list \subseteq Ids
    /\ \A i, j \in DOMAIN m.list : m.list[i].key = m.list[j].key /\ m.list[i].key # NoKey => i = j

Place(ids, i) == Max({n \in DOMAIN ids : ids[n] = i} \cup {NoOrder})

\* An export read back in: finished tasks of earlier days are archived.
Imported(file, when) ==
    [i \in DOMAIN file |->
        [file[i] EXCEPT !.archived = @ \/ (IsFinished(file[i]) /\ file[i].doneOn < Day(when))]]

\* The id after the file's highest, or the file's next_id if that is higher.
NextId(q) == Max({q.nextId, Max({0} \cup DOMAIN q.file) + 1})

\* A last_sync that is not given stays as it is.
Since(m, at) == IF at = None THEN m.since ELSE at

\* The list after the request q: the list itself when q is refused.
Result(q, m, when) ==
    CASE q.kind = "add" ->
            LET new == NewTask(q.key, q.status, q.plan, q.source, {}, when)
            IN  [m EXCEPT !.list = Put(@, m.seq + 1, new), !.seq = @ + 1]
      [] q.kind = "edit" ->
            IF q.id \notin DOMAIN m.list \/ Refused(m.list[q.id], q.patch, when) THEN m
            ELSE [m EXCEPT !.list[q.id] = Apply(@, q.patch, when)]
      [] q.kind = "note" ->
            IF q.id \notin DOMAIN m.list THEN m ELSE [m EXCEPT !.list[q.id] = AddNote(@, q.ref)]
      [] q.kind = "order" ->
            IF ~(Range(q.ids) \subseteq DOMAIN m.list) THEN m
            ELSE [m EXCEPT !.list = [i \in DOMAIN @ |->
                     IF i \in Range(q.ids) THEN [@[i] EXCEPT !.order = Place(q.ids, i)] ELSE @[i]]]
      [] q.kind = "sync" ->
            IF q.dryRun THEN m ELSE [Merge(m, q.tasks, when) EXCEPT !.since = Since(m, q.syncedAt)]
      [] q.kind = "import" ->
            IF DOMAIN m.list # {} THEN m
            ELSE [list |-> Imported(q.file, when), since |-> Since(m, q.since),
                  seq |-> NextId(q) - 1]

-----------------------------------------------------------------------------
(* A call                                                                  *)

Idle == [at |-> "idle"]

TasksInit ==
    /\ now = 0
    /\ list = <<>> /\ seq = 0 /\ since = None /\ rev = 0
    /\ call = [c \in Calls |-> Idle]
    /\ byHand = [i \in Ids |-> NoDay]

SecondPasses ==
    /\ now < LastSecond
    /\ now' = now + 1
    /\ UNCHANGED <<list, seq, since, rev, call, byHand>>

\* The clock is read before the transaction.
Begin(c) ==
    /\ call[c] = Idle
    /\ \E q \in Requests : call' = [call EXCEPT ![c] = [at |-> "begun", req |-> q, now |-> now]]
    /\ UNCHANGED <<now, list, seq, since, rev, byHand>>

\* A new task and an order are written without the list being read.
Blind(q) == q.kind \in {"add", "order"}

Load(c) ==
    /\ call[c].at = "begun" /\ ~Blind(call[c].req)
    /\ call' = [call EXCEPT ![c] = [at |-> "loaded", req |-> @.req, now |-> @.now,
                                    snap |-> Stored, rev |-> rev]]
    /\ UNCHANGED <<now, list, seq, since, rev, byHand>>

\* Ghost: the day on which a person has set each plan.
MovedByHand(q, i) ==
    \/ q.kind = "add" /\ q.source # "auto" /\ q.plan # Unplanned
    \/ q.kind = "edit" /\ ~q.patch.auto

Recorded(c, new) ==
    LET q == call[c].req
        Plan(t) == <<t.plan, t.planBy, t.planOn>>
        Moved(i) == i \notin DOMAIN list \/ Plan(list[i]) # Plan(new.list[i])
    IN  /\ byHand' = [i \in Ids |->
                        IF i \notin DOMAIN new.list \/ ~Moved(i) THEN byHand[i]
                        ELSE IF q.kind = "import"
                             THEN IF q.file[i].planBy = "manual" THEN q.file[i].planOn ELSE NoDay
                        ELSE IF MovedByHand(q, i) THEN Day(call[c].now) ELSE NoDay]

\* What c writes, made of what it has read.  (A write that changes nothing is
\* not told from no write.)
Write(c, read) ==
    LET new == Result(call[c].req, read, call[c].now)
    IN  /\ Storable(new)
        /\ Becomes(new)
        /\ rev' = IF new = read THEN rev ELSE rev + 1
        /\ Recorded(c, new)
        /\ call' = [call EXCEPT ![c] = [at |-> "done", req |-> @.req, now |-> @.now]]
        /\ now' = now

\* Mutant: the list is read outside the transaction that writes it.
CommitOld(c) ==
    \/ call[c].at = "begun" /\ Blind(call[c].req) /\ Write(c, Stored)
    \/ call[c].at = "loaded" /\ Write(c, call[c].snap)

\* A transaction that has read can write only while what it read is the latest.
Commit(c) ==
    \/ call[c].at = "begun" /\ Blind(call[c].req) /\ Write(c, Stored)
    \/ call[c].at = "loaded" /\ call[c].rev = rev /\ Write(c, call[c].snap)

\* The database is locked or has moved on, the key is taken, the caller is
\* gone: the transaction is rolled back.
Fail(c) ==
    /\ call[c].at \in {"begun", "loaded"}
    /\ call' = [call EXCEPT ![c] = [at |-> "failed"]]
    /\ UNCHANGED <<now, list, seq, since, rev, byHand>>

TasksNext == SecondPasses \/ \E c \in Calls : Begin(c) \/ Load(c) \/ Commit(c) \/ Fail(c)

TasksSpec == TasksInit /\ [][TasksNext]_tasksVars

-----------------------------------------------------------------------------
\* Types, and what the fields of a task say of each other; ids are given out
\* in order, and no two tasks have one key.
TasksTypeOK ==
    /\ now \in 0..LastSecond /\ rev \in Nat /\ seq \in Nat /\ since \in Nat \cup {None}
    /\ DOMAIN list \subseteq Ids /\ \A i \in DOMAIN list : i <= seq /\ Tidy(list[i])
    /\ \A i, j \in DOMAIN list : list[i].key = list[j].key /\ list[i].key # NoKey => i = j
    /\ DOMAIN call = Calls
    /\ \A c \in Calls : call[c].at \in {"begun", "loaded"} => call[c].req \in Requests /\ call[c].now \in 0..now
    /\ byHand \in [Ids -> Nat]

\* c's transaction is committed in this step.
Commits(c) == call[c].at # "done" /\ call'[c].at = "done"

Automated(q) == q.kind = "sync" \/ (q.kind = "edit" /\ q.patch.auto)

\* "The person's decisions win": what is automated never reopens a finished
\* task, nor moves a plan that was set by hand on the day its call began,
\* whoever else writes between its reading and its writing.
DecisionsStand ==
    [][\A c \in Calls, i \in DOMAIN list :
          Commits(c) /\ Automated(call[c].req) =>
             /\ call[c].req.kind = "sync" /\ IsFinished(list[i]) => list'[i].status = list[i].status
             /\ byHand[i] = Day(call[c].now) => list'[i].plan = list[i].plan]_tasksVars

\* Every change of the list is what one request makes of the list as it stands,
\* so none is lost to another process that read the list before.
EditsAreAtomic ==
    [][Stored' # Stored =>
          \E c \in Calls : Commits(c) /\ Becomes(Result(call[c].req, Stored, call[c].now))]_tasksVars

\* The key under which task_context tells an automated run of a task.
ContextKey(i) == IF list[i].key = NoKey THEN <<"id", i>> ELSE list[i].key

\* Not true of the code: a proposal's tasks are matched by the key, so that a run
\* which names only tasks it was told of adds none.
KnownTasksAreMatched ==
    [][\A c \in Calls :
          /\ Commits(c) /\ call[c].req.kind = "sync"
          /\ \A pt \in Range(call[c].req.tasks) : \E i \in DOMAIN list : pt.key = ContextKey(i)
          => DOMAIN list' = DOMAIN list]_tasksVars
=============================================================================
