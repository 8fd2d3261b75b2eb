------------------------------ MODULE Approvals ------------------------------
(***************************************************************************)
(* The approval hold of the collector (src/internal/server/server.go and   *)
(* src/internal/db/db.go).                                                 *)
(*                                                                         *)
(* Claude posts a PermissionRequest hook and waits for the answer.  The    *)
(* handler writes an approval row, registers a one-slot channel under the  *)
(* row's id and waits for a decision, its 25 s window or the end of the    *)
(* connection.  Operators (the TUI, portals) decide a row they saw in a    *)
(* list that may be stale.  PostTool hooks close rows by session and tool, *)
(* a sweep closes rows older than 45 s, and the collector may crash.       *)
(*                                                                         *)
(* Time is a clock of abstract units; a step of the handler or the sweep   *)
(* that is due happens before the clock moves on (Tick's guard).           *)
(***************************************************************************)
EXTENDS Naturals, Sequences

CONSTANTS
    MaxCalls,     \* bound: tool calls Claude makes
    Sessions,
    Tools,
    DialogTools,  \* AskUserQuestion, ExitPlanMode
    Operators,    \* one decision each
    HoldWindow,   \* decideWindow, 25 s
    StaleAge,     \* MarkStalePendingTimeout's age, 45 s
    SweepEvery    \* the period of the discovery loop, 10 s

ASSUME TimesAssumption ==
    /\ HoldWindow \in Nat \ {0}
    /\ StaleAge \in Nat
    /\ SweepEvery \in Nat \ {0}
    /\ HoldWindow < StaleAge

ASSUME BoundsAssumption ==
    /\ MaxCalls \in Nat
    /\ DialogTools \subseteq Tools

VARIABLES
    status,     \* approvals.status by row id; "none": no such row
    slot,       \* the session and the tool of the request
    age,        \* time since the row was written
    handler,    \* where the PermissionRequest handler of the row stands
    chan,       \* the one-slot channel of the handler
    taken,      \* the decision the handler's select received
    unwritten,  \* history: rows whose write failed though Claude listened
    pending,    \* Server.pending: ids with a registered channel
    call,       \* what Claude knows of the call
    post,       \* the PostTool hook of the call
    decide,     \* the decide request of each operator
    accepted,   \* history: decisions answered 202, in order
    sinceSweep, \* time since the last sweep
    up          \* the collector runs

rowVars == <<status, slot, age>>
holdVars == <<handler, chan, taken, unwritten, pending>>
claudeVars == <<call, post>>
operatorVars == <<decide, accepted>>
worldVars == <<sinceSweep, up>>
vars == <<rowVars, holdVars, claudeVars, operatorVars, worldVars>>

Ids == 1..MaxCalls
Behaviors == {"allow", "deny"}
Closed == {"approved", "denied", "timeout", "resolved", "failed"}
MaxAge == StaleAge + SweepEvery + 1

\* The program points of handlePermissionRequest.
InFlight == {"inserted", "waiting", "decided", "expired", "recorded", "leaving"}
HandlerPoints == {"idle", "done"} \cup InFlight

\* Channels hold "none" or a behavior.
Empty == "none"

NoSlot == <<>>
Slots == Sessions \X Tools

\* A decide request: not begun, a row seen in a list, its channel looked up,
\* and the answers 202, 409 and 410 (or none, when the collector dies).
Answered == {"accepted", "conflict", "gone", "lost"}
Idle == [at |-> "idle", id |-> 0, behavior |-> Empty]
DecideStates ==
    [at: {"idle", "viewed", "found"} \cup Answered,
     id: Ids \cup {0},
     behavior: Behaviors \cup {Empty}]

Init ==
    /\ status = [id \in Ids |-> "none"]
    /\ slot = [id \in Ids |-> NoSlot]
    /\ age = [id \in Ids |-> 0]
    /\ handler = [id \in Ids |-> "idle"]
    /\ chan = [id \in Ids |-> Empty]
    /\ taken = [id \in Ids |-> Empty]
    /\ unwritten = {}
    /\ pending = {}
    /\ call = [id \in Ids |-> "idle"]
    /\ post = [id \in Ids |-> "none"]
    /\ decide = [o \in Operators |-> Idle]
    /\ accepted = [id \in Ids |-> <<>>]
    /\ sinceSweep = SweepEvery
    /\ up = TRUE

-----------------------------------------------------------------------------
(* The PermissionRequest hook and its handler. *)

\* Row ids are AUTOINCREMENT.
NextId(id) == call[id] = "idle" /\ \A j \in Ids : j < id => call[j] # "idle"

\* A call with no row: it needs no permission, its dialog is the question
\* itself (dialogTools: answered at once), the row could not be written, or
\* the collector is down.
CallUnheld(id, s, t) ==
    /\ NextId(id)
    /\ call' = [call EXCEPT ![id] = "prompt"]
    /\ slot' = [slot EXCEPT ![id] = <<s, t>>]
    /\ UNCHANGED <<status, age, holdVars, post, operatorVars, worldVars>>

\* The row is written before anyone can decide it.
PermissionRequest(id, s, t) ==
    /\ NextId(id)
    /\ up
    /\ t \notin DialogTools
    /\ call' = [call EXCEPT ![id] = "asking"]
    /\ slot' = [slot EXCEPT ![id] = <<s, t>>]
    /\ status' = [status EXCEPT ![id] = "pending"]
    /\ age' = [age EXCEPT ![id] = 0]
    /\ handler' = [handler EXCEPT ![id] = "inserted"]
    /\ UNCHANGED <<chan, taken, unwritten, pending, post, operatorVars,
                   worldVars>>

\* What Claude makes of an answer, if it still listens.
Answer(id, a) ==
    call' = IF call[id] = "asking" THEN [call EXCEPT ![id] = a] ELSE call

\* The settings are read afresh, so the approval-blocking switch may stand
\* either way: with it on the handler registers its channel and waits, with it
\* off the hook is answered at once and the row is left to the sweep.
Register(id) ==
    /\ handler[id] = "inserted"
    /\ \/ /\ handler' = [handler EXCEPT ![id] = "waiting"]
          /\ pending' = pending \cup {id}
          /\ UNCHANGED call
       \/ /\ handler' = [handler EXCEPT ![id] = "done"]
          /\ Answer(id, "prompt")
          /\ UNCHANGED pending
    /\ UNCHANGED <<rowVars, chan, taken, unwritten, post, operatorVars,
                   worldVars>>

\* The three cases of the select; with several ready any may be taken.
TakeDecision(id) ==
    /\ handler[id] = "waiting"
    /\ chan[id] # Empty
    /\ handler' = [handler EXCEPT ![id] = "decided"]
    /\ taken' = [taken EXCEPT ![id] = chan[id]]
    /\ chan' = [chan EXCEPT ![id] = Empty]
    /\ UNCHANGED <<rowVars, unwritten, pending, claudeVars, operatorVars, worldVars>>

TakeTimer(id) ==
    /\ handler[id] = "waiting"
    /\ age[id] >= HoldWindow
    /\ handler' = [handler EXCEPT ![id] = "expired"]
    /\ UNCHANGED <<rowVars, chan, taken, unwritten, pending, claudeVars, operatorVars,
                   worldVars>>

TakeCancel(id) ==
    /\ handler[id] = "waiting"
    /\ call[id] # "asking"
    /\ handler' = [handler EXCEPT ![id] = "leaving"]
    /\ UNCHANGED <<rowVars, chan, taken, unwritten, pending, claudeVars, operatorVars,
                   worldVars>>

\* Mutant: the update is guarded by status = 'pending', like the other ones.
RecordIfPending(id) ==
    /\ handler[id] \in {"decided", "expired"}
    /\ handler' = [handler EXCEPT ![id] = "recorded"]
    /\ status' = [status EXCEPT ![id] =
                     CASE call[id] # "asking" \/ @ # "pending" -> @
                       [] handler[id] = "expired" -> "timeout"
                       [] taken[id] = "allow" -> "approved"
                       [] OTHER -> "denied"]
    /\ UNCHANGED <<slot, age, chan, taken, unwritten, pending, claudeVars, operatorVars,
                   worldVars>>

\* UpdateApprovalStatus sets the status whatever it was.  It runs under the
\* request's context: once Claude hung up it fails.  The database may refuse it
\* at any time.  The error is dropped, and Claude gets its answer all the same.
Record(id) ==
    /\ handler[id] \in {"decided", "expired"}
    /\ handler' = [handler EXCEPT ![id] = "recorded"]
    /\ \/ /\ call[id] = "asking"
          /\ status' = [status EXCEPT ![id] =
                           CASE handler[id] = "expired" -> "timeout"
                             [] taken[id] = "allow" -> "approved"
                             [] OTHER -> "denied"]
          /\ UNCHANGED unwritten
       \/ /\ unwritten' = IF call[id] = "asking" THEN unwritten \cup {id} ELSE unwritten
          /\ UNCHANGED status
    /\ UNCHANGED <<slot, age, chan, taken, pending, claudeVars, operatorVars,
                   worldVars>>

Reply(id) ==
    /\ handler[id] = "recorded"
    /\ handler' = [handler EXCEPT ![id] = "leaving"]
    /\ Answer(id, IF taken[id] = Empty THEN "prompt" ELSE taken[id])
    /\ UNCHANGED <<rowVars, chan, taken, unwritten, pending, post, operatorVars, worldVars>>

\* The deferred delete.
Leave(id) ==
    /\ handler[id] = "leaving"
    /\ handler' = [handler EXCEPT ![id] = "done"]
    /\ pending' = pending \ {id}
    /\ taken' = [taken EXCEPT ![id] = Empty]
    /\ UNCHANGED <<rowVars, chan, unwritten, claudeVars, operatorVars, worldVars>>

-----------------------------------------------------------------------------
(* Operators. *)

\* An operator sees a pending row; the list may be old when it is used.
View(o, id) ==
    /\ up
    /\ decide[o].at = "idle"
    /\ status[id] = "pending"
    /\ decide' = [decide EXCEPT ![o] = [@ EXCEPT !.at = "viewed", !.id = id]]
    /\ UNCHANGED <<rowVars, holdVars, claudeVars, accepted, worldVars>>

\* handleApprovalDecide, up to the unlock of pendingMu.
LookUp(o, b) ==
    /\ up
    /\ decide[o].at = "viewed"
    /\ decide' = [decide EXCEPT ![o] =
                     IF @.id \in pending
                     THEN [@ EXCEPT !.at = "found", !.behavior = b]
                     ELSE [Idle EXCEPT !.at = "gone"]]
    /\ UNCHANGED <<rowVars, holdVars, claudeVars, accepted, worldVars>>

\* Mutant: a later decision replaces the one in the slot.
SendLatestWins(o) ==
    LET id == decide[o].id
        b == decide[o].behavior
    IN
    /\ decide[o].at = "found"
    /\ chan' = [chan EXCEPT ![id] = b]
    /\ accepted' = [accepted EXCEPT ![id] = Append(@, b)]
    /\ decide' = [decide EXCEPT ![o] = [Idle EXCEPT !.at = "accepted"]]
    /\ UNCHANGED <<rowVars, handler, taken, unwritten, pending, claudeVars, worldVars>>

\* The non-blocking send to the channel that was looked up.
Send(o) ==
    LET id == decide[o].id
        b == decide[o].behavior
    IN
    /\ decide[o].at = "found"
    /\ \/ /\ chan[id] = Empty
          /\ chan' = [chan EXCEPT ![id] = b]
          /\ accepted' = [accepted EXCEPT ![id] = Append(@, b)]
          /\ decide' = [decide EXCEPT ![o] = [Idle EXCEPT !.at = "accepted"]]
       \/ /\ chan[id] # Empty
          /\ decide' = [decide EXCEPT ![o] = [Idle EXCEPT !.at = "conflict"]]
          /\ UNCHANGED <<chan, accepted>>
    /\ UNCHANGED <<rowVars, handler, taken, unwritten, pending, claudeVars, worldVars>>

-----------------------------------------------------------------------------
(* Claude. *)

\* The operator interrupts Claude, or the hook's own 30 s run out.
GiveUp(id) ==
    /\ call[id] = "asking"
    /\ call' = [call EXCEPT ![id] = "prompt"]
    /\ UNCHANGED <<rowVars, holdVars, post, operatorVars,
                   worldVars>>

\* An allowed call, or one allowed at Claude's own prompt, runs; its PostTool
\* hook is posted from the background.
RunTool(id) ==
    /\ call[id] \in {"allow", "prompt"}
    /\ post[id] = "none"
    /\ post' = [post EXCEPT ![id] = "flying"]
    /\ UNCHANGED <<rowVars, holdVars, call, operatorVars,
                   worldVars>>

-----------------------------------------------------------------------------
(* Closing rows from the side. *)

\* Pending rows of a slot with the smallest timestamp.
OldestPending(sl) ==
    LET mine == {id \in Ids : status[id] = "pending" /\ slot[id] = sl}
    IN {id \in mine : \A j \in mine : age[j] <= age[id]}

\* ResolveOldestPendingForTool.  (A PermissionRequest carries no tool_use_id,
\* so ResolvePendingByToolUseID before it matches no row.)
CloseOldest(sl, outcome) ==
    \/ /\ OldestPending(sl) = {}
       /\ UNCHANGED status
    \/ \E id \in OldestPending(sl) : status' = [status EXCEPT ![id] = outcome]

\* handlePostTool and handlePostToolFailure: the hook arrives at any later
\* time, or never.
PostTool(id, outcome) ==
    /\ up
    /\ post[id] = "flying"
    /\ post' = [post EXCEPT ![id] = "handled"]
    /\ CloseOldest(slot[id], outcome)
    /\ UNCHANGED <<slot, age, holdVars, call, operatorVars,
                   worldVars>>

LosePost(id) ==
    /\ post[id] = "flying"
    /\ post' = [post EXCEPT ![id] = "handled"]
    /\ UNCHANGED <<rowVars, holdVars, call, operatorVars,
                   worldVars>>

\* Mutant: the sweep takes every row older than the decision window.
SweepAtWindow ==
    /\ up
    /\ sinceSweep = SweepEvery
    /\ sinceSweep' = 0
    /\ status' = [id \in Ids |->
                     IF status[id] = "pending" /\ age[id] >= HoldWindow
                     THEN "timeout" ELSE status[id]]
    /\ UNCHANGED <<slot, age, holdVars, claudeVars, operatorVars, up>>

\* MarkStalePendingTimeout, first in every discovery pass.
Sweep ==
    /\ up
    /\ sinceSweep = SweepEvery
    /\ sinceSweep' = 0
    /\ status' = [id \in Ids |->
                     IF status[id] = "pending" /\ age[id] > StaleAge
                     THEN "timeout" ELSE status[id]]
    /\ UNCHANGED <<slot, age, holdVars, claudeVars, operatorVars, up>>

-----------------------------------------------------------------------------
(* The world. *)

\* A handler's own steps and a ready select do not wait for the clock.
HandlerDue(id) ==
    \/ handler[id] \in InFlight \ {"waiting"}
    \/ handler[id] = "waiting" /\ (chan[id] # Empty \/ age[id] >= HoldWindow)

\* The clock of a closed row nobody waits for no longer matters.
Aging(id) == status[id] = "pending" \/ handler[id] = "waiting"

Older(a) == IF a < MaxAge THEN a + 1 ELSE a

Tick ==
    /\ \A id \in Ids : ~HandlerDue(id)
    /\ up => sinceSweep < SweepEvery
    /\ age' = [id \in Ids |-> IF Aging(id) THEN Older(age[id]) ELSE 0]
    /\ sinceSweep' = IF up THEN sinceSweep + 1 ELSE sinceSweep
    /\ UNCHANGED <<status, slot, holdVars, claudeVars, operatorVars, up>>

\* The process dies: handlers, channels and open requests go, rows stay.
Crash ==
    /\ up
    /\ up' = FALSE
    /\ handler' = [id \in Ids |-> IF handler[id] \in InFlight THEN "done"
                                  ELSE handler[id]]
    /\ chan' = [id \in Ids |-> Empty]
    /\ taken' = [id \in Ids |-> Empty]
    /\ pending' = {}
    /\ call' = [id \in Ids |-> IF call[id] = "asking" THEN "prompt"
                               ELSE call[id]]
    /\ decide' = [o \in Operators |-> IF decide[o].at = "found"
                                      THEN [Idle EXCEPT !.at = "lost"]
                                      ELSE decide[o]]
    /\ UNCHANGED <<rowVars, unwritten, post, accepted, sinceSweep>>

\* Mutant: the first pass of the discovery loop comes after a full period.
RestartUnswept ==
    /\ ~up
    /\ up' = TRUE
    /\ sinceSweep' = 0
    /\ UNCHANGED <<rowVars, holdVars, claudeVars, operatorVars>>

\* The discovery loop sweeps at once when it starts.
Restart ==
    /\ ~up
    /\ up' = TRUE
    /\ sinceSweep' = SweepEvery
    /\ UNCHANGED <<rowVars, holdVars, claudeVars, operatorVars>>

HandlerStep(id) ==
    \/ Register(id)
    \/ TakeDecision(id)
    \/ TakeTimer(id)
    \/ TakeCancel(id)
    \/ Record(id)
    \/ Reply(id)
    \/ Leave(id)

Next ==
    \/ \E id \in Ids :
        \/ \E s \in Sessions, t \in Tools :
              CallUnheld(id, s, t) \/ PermissionRequest(id, s, t)
        \/ HandlerStep(id)
        \/ GiveUp(id)
        \/ RunTool(id)
        \/ LosePost(id)
        \/ \E outcome \in {"resolved", "failed"} : PostTool(id, outcome)
        \/ \E o \in Operators : View(o, id)
    \/ \E o \in Operators : Send(o) \/ \E b \in Behaviors : LookUp(o, b)
    \/ Sweep
    \/ Tick
    \/ Crash
    \/ Restart

Spec == Init /\ [][Next]_vars

-----------------------------------------------------------------------------
TypeOK ==
    /\ status \in [Ids -> {"none", "pending"} \cup Closed]
    /\ slot \in [Ids -> Slots \cup {NoSlot}]
    /\ age \in [Ids -> 0..MaxAge]
    /\ handler \in [Ids -> HandlerPoints]
    /\ chan \in [Ids -> Behaviors \cup {Empty}]
    /\ taken \in [Ids -> Behaviors \cup {Empty}]
    /\ unwritten \subseteq Ids
    /\ pending \subseteq Ids
    /\ call \in [Ids -> {"idle", "asking", "prompt"} \cup Behaviors]
    /\ post \in [Ids -> {"none", "flying", "handled"}]
    /\ decide \in [Operators -> DecideStates]
    /\ accepted \in [Ids -> Seq(Behaviors)]
    /\ sinceSweep \in 0..SweepEvery
    /\ up \in BOOLEAN

\* Claude is only ever told allow or deny when an operator was told that this
\* very decision was accepted, and it is the first one accepted: a later
\* decision, or one for another row, never reaches the call
\* (handlePermissionRequest and handleApprovalDecide).
AnswerIsFirstAccepted ==
    \A id \in Ids : call[id] \in Behaviors =>
        accepted[id] # <<>> /\ call[id] = Head(accepted[id])

\* What the row says of a call Claude was given an answer for is that answer,
\* even when a PostTool hook or the sweep closed the row meanwhile.  A row whose
\* write the database refused says something else, but no other verdict.
RowTellsTheAnswer ==
    \A id \in Ids : call[id] \in Behaviors =>
        \/ status[id] = IF call[id] = "allow" THEN "approved" ELSE "denied"
        \/ id \in unwritten /\ status[id] \notin {"approved", "denied"}

\* The sweep never times out a row whose handler still waits for a decision.
SweepSparesHolds ==
    \A id \in Ids : handler[id] = "waiting" => status[id] # "timeout"

\* No phantom approval outlives the sweep: a row stays pending longer than
\* 45 s and one period only while the collector is down or about to sweep.
PendingIsBounded ==
    \A id \in Ids : status[id] = "pending" /\ age[id] > StaleAge + SweepEvery
        => ~up \/ sinceSweep = SweepEvery

\* An operator's verdict on a row is final.
VerdictIsFinal ==
    [][\A id \in Ids : status[id] \in {"approved", "denied"}
          => status'[id] = status[id]]_status

\* A decision is accepted only while the handler waits for one.  This is what
\* the comment of handleApprovalDecide promises.
AcceptedWhileWaiting ==
    [][\A o \in Operators :
          decide[o].at = "found" /\ decide'[o].at = "accepted"
              => handler[decide[o].id] = "waiting"]_decide
=============================================================================
