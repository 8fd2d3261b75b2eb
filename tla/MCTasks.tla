------------------------------- MODULE MCTasks -------------------------------
(* A list of at most three tasks, three calls, two days of two seconds. *)
EXTENDS Tasks, TLC
CONSTANTS c1, c2, c3, k1, ref

MCCalls == {c1, c2, c3}
MCIds == 1..3
MCKeys == {k1, <<"id", 1>>, <<"id", 2>>}
MCSymmetry == Permutations(MCCalls)

Patch == [key |-> None, status |-> None, plan |-> None, archived |-> None,
          auto |-> FALSE, why |-> FALSE, source |-> "manual"]

Edits ==
    {[Patch EXCEPT !.status = s] : s \in {"todo", "done"}} \cup
    {[Patch EXCEPT !.plan = 2, !.why = TRUE],
     [Patch EXCEPT !.plan = 1, !.auto = TRUE, !.why = TRUE, !.source = "claude"],
     [Patch EXCEPT !.status = "done", !.archived = TRUE], [Patch EXCEPT !.archived = FALSE],
     [Patch EXCEPT !.status = "waiting", !.archived = TRUE]}

Proposed(key) == [key |-> key, status |-> None, plan |-> Unplanned, refs |-> {},
                  replan |-> None, why |-> FALSE]

Sync(pts) == [kind |-> "sync", tasks |-> pts, dryRun |-> FALSE, syncedAt |-> 1]

Syncs ==
    {Sync(<<[Proposed(k1) EXCEPT !.status = "doing", !.refs = {ref}, !.plan = 1]>>),
     Sync(<<[Proposed(k1) EXCEPT !.status = "done"]>>),
     Sync(<<[Proposed(k1) EXCEPT !.replan = 3, !.why = TRUE],
            [Proposed(<<"id", 1>>) EXCEPT !.refs = {ref}]>>),
     Sync(<<[Proposed(k1) EXCEPT !.replan = 3, !.why = TRUE],
            [Proposed(k1) EXCEPT !.replan = 1, !.why = TRUE]>>),
     Sync(<<[Proposed(NoKey) EXCEPT !.status = "done", !.replan = 3, !.why = TRUE]>>),
     [Sync(<<[Proposed(k1) EXCEPT !.plan = 2]>>) EXCEPT !.dryRun = TRUE]}

File ==
    [i \in 1..2 |->
        IF i = 1 THEN NewTask(k1, "todo", 2, "manual", {}, 0)
        ELSE [NewTask(NoKey, "done", Unplanned, "claude", {}, 0) EXCEPT !.doneOn = 1]]

MCRequests ==
    {[kind |-> "add", key |-> k, status |-> IF k = NoKey THEN "todo" ELSE "waiting",
      plan |-> 1, source |-> "manual"] : k \in {NoKey, k1}} \cup
    [kind: {"edit"}, id: {1}, patch: Edits] \cup
    {[kind |-> "note", id |-> 1, ref |-> ref], [kind |-> "order", ids |-> <<2, 1>>],
     [kind |-> "import", file |-> File, nextId |-> 3, since |-> None]} \cup Syncs
=============================================================================
