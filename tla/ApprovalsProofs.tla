--------------------------- MODULE ApprovalsProofs ---------------------------
(***************************************************************************)
(* Proofs about the approval hold, for any number of calls, operators,     *)
(* sessions and tools and any times that satisfy TimesAssumption.          *)
(***************************************************************************)
EXTENDS Approvals, SequenceTheorems, TLAPS

(* Types of the parts that take a proof of their own.                      *)

\* An open decide request carries the id of a row, and its behavior once it
\* was parsed.
DecideHasId ==
    \A o \in Operators :
        /\ decide[o].at \in {"viewed", "found"} => decide[o].id \in Ids
        /\ decide[o].at = "found" => decide[o].behavior \in Behaviors

\* The type invariant that is inductive: TypeOK and the ids of open requests.
TypeInv == TypeOK /\ DecideHasId

LEMMA TypeInit == Init => TypeInv
  BY TimesAssumption, BoundsAssumption
  DEF Init, TypeInv, TypeOK, DecideHasId, Ids, Idle, DecideStates, MaxAge,
      HandlerPoints, InFlight, Empty, NoSlot, Closed, Answered

\* Every step keeps the types.
LEMMA TypeNext == TypeInv /\ [Next]_vars => TypeInv'
<1> SUFFICES ASSUME TypeInv, [Next]_vars PROVE TypeInv'
  OBVIOUS
<1> USE TimesAssumption, BoundsAssumption
    DEF TypeInv, TypeOK, DecideHasId, HandlerPoints, InFlight, Empty, Closed,
        rowVars, holdVars, claudeVars, operatorVars, worldVars
<1>1. ASSUME NEW id \in Ids, NEW s \in Sessions, NEW t \in Tools,
             CallUnheld(id, s, t)
      PROVE  TypeInv'
  BY <1>1 DEF CallUnheld, Slots
<1>2. ASSUME NEW id \in Ids, NEW s \in Sessions, NEW t \in Tools,
             PermissionRequest(id, s, t)
      PROVE  TypeInv'
  BY <1>2 DEF PermissionRequest, Slots, MaxAge
<1>3. ASSUME NEW id \in Ids, Register(id) PROVE TypeInv'
  BY <1>3 DEF Register, Answer
<1>4. ASSUME NEW id \in Ids, TakeDecision(id) PROVE TypeInv'
  BY <1>4 DEF TakeDecision
<1>5. ASSUME NEW id \in Ids, TakeTimer(id) PROVE TypeInv'
  BY <1>5 DEF TakeTimer
<1>6. ASSUME NEW id \in Ids, TakeCancel(id) PROVE TypeInv'
  BY <1>6 DEF TakeCancel
<1>7. ASSUME NEW id \in Ids, Record(id) PROVE TypeInv'
  BY <1>7 DEF Record
<1>8. ASSUME NEW id \in Ids, Reply(id) PROVE TypeInv'
  BY <1>8 DEF Reply, Answer
<1>9. ASSUME NEW id \in Ids, Leave(id) PROVE TypeInv'
  BY <1>9 DEF Leave
<1>10. ASSUME NEW o \in Operators, NEW id \in Ids, View(o, id) PROVE TypeInv'
  <2>1. decide' = [decide EXCEPT ![o] = [decide[o] EXCEPT !.at = "viewed",
                                                          !.id = id]]
    BY <1>10 DEF View
  <2>2. decide[o] \in DecideStates
    OBVIOUS
  <2>3. /\ [decide[o] EXCEPT !.at = "viewed", !.id = id] \in DecideStates
        /\ [decide[o] EXCEPT !.at = "viewed", !.id = id].id \in Ids
        /\ [decide[o] EXCEPT !.at = "viewed", !.id = id].at # "found"
    BY <2>2 DEF DecideStates
  <2>4. decide' \in [Operators -> DecideStates] /\ DecideHasId'
    BY <2>1, <2>3
  <2>5. QED
    BY <1>10, <2>4 DEF View
<1>11. ASSUME NEW o \in Operators, NEW b \in Behaviors, LookUp(o, b)
       PROVE TypeInv'
  <2> DEFINE found == [decide[o] EXCEPT !.at = "found", !.behavior = b]
             gone == [Idle EXCEPT !.at = "gone"]
  <2>1. decide' = [decide EXCEPT ![o] = found]
           \/ decide' = [decide EXCEPT ![o] = gone]
    BY <1>11 DEF LookUp
  <2>2. /\ found \in DecideStates
        /\ found.behavior \in Behaviors
        /\ decide[o].at = "viewed" => found.id \in Ids
    <3>1. decide[o] \in DecideStates
      OBVIOUS
    <3>2. QED
      BY <3>1 DEF DecideStates
  <2>3. gone \in DecideStates /\ gone.at \notin {"viewed", "found"}
    BY DEF DecideStates, Idle, Answered
  <2>4. decide' \in [Operators -> DecideStates]
    BY <2>1, <2>2, <2>3
  <2>5. decide[o].at = "viewed"
    BY <1>11 DEF LookUp
  <2>6. DecideHasId'
    BY <2>1, <2>2, <2>3, <2>5
  <2>7. QED
    BY <1>11, <2>4, <2>6 DEF LookUp
<1>12. ASSUME NEW o \in Operators, Send(o) PROVE TypeInv'
  <2> DEFINE done(at) == [Idle EXCEPT !.at = at]
  <2>1. done("accepted") \in DecideStates /\ done("conflict") \in DecideStates
    BY DEF DecideStates, Idle, Answered
  <2>2. /\ done("accepted").at \notin {"viewed", "found"}
        /\ done("conflict").at \notin {"viewed", "found"}
    BY DEF Idle
  <2>3. decide' = [decide EXCEPT ![o] = done("accepted")]
           \/ decide' = [decide EXCEPT ![o] = done("conflict")]
    BY <1>12 DEF Send
  <2>4. decide' \in [Operators -> DecideStates]
    BY <2>1, <2>3
  <2>5. DecideHasId'
    BY <2>2, <2>3
  <2>6. decide[o].id \in Ids /\ decide[o].behavior \in Behaviors
    BY <1>12 DEF Send
  <2>7. /\ chan' \in [Ids -> Behaviors \cup {Empty}]
        /\ accepted' \in [Ids -> Seq(Behaviors)]
    <3> DEFINE id == decide[o].id
               b == decide[o].behavior
    <3>1. CASE UNCHANGED <<chan, accepted>>
      BY <3>1
    <3>2. CASE /\ chan' = [chan EXCEPT ![id] = b]
               /\ accepted' = [accepted EXCEPT ![id] = Append(@, b)]
      <4>1. Append(accepted[id], b) \in Seq(Behaviors)
        BY <2>6
      <4>2. QED
        BY <2>6, <3>2, <4>1
    <3>3. QED
      BY <1>12, <3>1, <3>2 DEF Send
  <2>8. QED
    BY <1>12, <2>4, <2>5, <2>7 DEF Send
<1>13. ASSUME NEW id \in Ids, GiveUp(id) PROVE TypeInv'
  BY <1>13 DEF GiveUp
<1>14. ASSUME NEW id \in Ids, RunTool(id) PROVE TypeInv'
  BY <1>14 DEF RunTool
<1>15. ASSUME NEW id \in Ids, NEW outcome \in {"resolved", "failed"},
              PostTool(id, outcome)
       PROVE TypeInv'
  <2>1. status' \in [Ids -> {"none", "pending"} \cup Closed]
    <3>1. CASE UNCHANGED status
      BY <3>1
    <3>2. CASE ~UNCHANGED status
      <4>1. PICK j \in OldestPending(slot[id]) :
                status' = [status EXCEPT ![j] = outcome]
        BY <1>15, <3>2 DEF PostTool, CloseOldest
      <4>2. QED
        BY <4>1 DEF OldestPending
    <3>3. QED
      BY <3>1, <3>2
  <2>2. QED
    BY <1>15, <2>1 DEF PostTool
<1>16. ASSUME NEW id \in Ids, LosePost(id) PROVE TypeInv'
  BY <1>16 DEF LosePost
<1>17. CASE Sweep
  BY <1>17 DEF Sweep
<1>18. CASE Tick
  BY <1>18 DEF Tick, Older, MaxAge
<1>19. CASE Crash
  BY <1>19 DEF Crash, DecideStates, Idle, Answered
<1>20. CASE Restart
  BY <1>20 DEF Restart
<1>21. CASE UNCHANGED vars
  BY <1>21 DEF vars
<1>22. QED
  BY <1>1, <1>2, <1>3, <1>4, <1>5, <1>6, <1>7, <1>8, <1>9, <1>10, <1>11,
     <1>12, <1>13, <1>14, <1>15, <1>16, <1>17, <1>18, <1>19, <1>20, <1>21
  DEF Next, HandlerStep

\* Type correctness of the approval hold: in particular the status of a row
\* is always one the schema knows and the clock of a pending row is bounded.
THEOREM TypeCorrect == Spec => []TypeOK
<1>1. TypeInv => TypeOK
  BY DEF TypeInv
<1>2. QED
  BY TypeInit, TypeNext, <1>1, PTL DEF Spec

-----------------------------------------------------------------------------
(* The invariant that carries the safety properties. *)

\* A request that was never asked has no handler, and a handler that has not
\* registered yet has an untouched channel.
FreshCalls ==
    \A id \in Ids :
        /\ call[id] = "idle" => handler[id] = "idle"
        /\ handler[id] \in {"idle", "inserted"} =>
              chan[id] = Empty /\ accepted[id] = <<>>

\* Only registered handlers can be found, and only later ones have been.
FoundIsRegistered ==
    /\ \A id \in pending : handler[id] \notin {"idle", "inserted"}
    /\ \A o \in Operators : decide[o].at = "found" =>
          handler[decide[o].id] \notin {"idle", "inserted"}

\* Where the first accepted decision is: in the channel of a waiting handler,
\* then with the handler, then with Claude.
FirstDecision ==
    \A id \in Ids :
        /\ handler[id] = "waiting" =>
              IF chan[id] = Empty THEN accepted[id] = <<>>
              ELSE accepted[id] # <<>> /\ chan[id] = Head(accepted[id])
        /\ taken[id] # Empty =>
              accepted[id] # <<>> /\ taken[id] = Head(accepted[id])

\* When the handler holds a decision, and when Claude has one.
DecisionPoints ==
    \A id \in Ids :
        /\ handler[id] = "decided" => taken[id] # Empty
        /\ handler[id] \in {"idle", "inserted", "waiting", "expired"} =>
              taken[id] = Empty
        /\ call[id] \in Behaviors => handler[id] \in {"leaving", "done"}

\* The row carries the verdict from the handler's write on, and no sooner, or
\* never if that write failed.
VerdictPoints ==
    \A id \in Ids :
        /\ handler[id] = "recorded" /\ call[id] = "asking" /\ id \notin unwritten =>
              /\ taken[id] = "allow" => status[id] = "approved"
              /\ taken[id] = "deny" => status[id] = "denied"
        /\ id \in unwritten =>
              /\ handler[id] \in {"recorded", "leaving", "done"}
              /\ status[id] \notin {"approved", "denied"}
        /\ status[id] \in {"approved", "denied"} =>
              handler[id] \in {"recorded", "leaving", "done"}

\* How old a row can be: absent before the hook, fresh when it is inserted, within the window while
\* its handler waits, and swept in time while it is pending.
AgeBounds ==
    \A id \in Ids :
        /\ handler[id] = "idle" => status[id] = "none"
        /\ handler[id] = "inserted" => age[id] = 0
        /\ handler[id] = "waiting" => age[id] <= HoldWindow
        /\ up /\ sinceSweep < SweepEvery /\ status[id] = "pending" =>
              age[id] <= StaleAge + sinceSweep
        /\ status[id] = "timeout" =>
              handler[id] \notin {"idle", "inserted", "waiting"}

HoldInv ==
    /\ AnswerIsFirstAccepted
    /\ RowTellsTheAnswer
    /\ FreshCalls
    /\ FoundIsRegistered
    /\ FirstDecision
    /\ DecisionPoints
    /\ VerdictPoints

\* Accepting a further decision leaves the first one first.
LEMMA FirstOfAppend ==
  ASSUME NEW S, NEW s \in Seq(S), NEW b \in S
  PROVE  /\ Append(s, b) # <<>>
         /\ Head(Append(s, b)) = IF s = <<>> THEN b ELSE Head(s)
  BY HeadTailAppend, AppendProperties

\* Initially nothing was asked or decided.
LEMMA HoldInit == Init => HoldInv
  BY DEF Init, HoldInv, AnswerIsFirstAccepted, RowTellsTheAnswer, FreshCalls,
         FoundIsRegistered, FirstDecision, DecisionPoints, VerdictPoints,
         Ids, Idle, Behaviors, Empty

\* Every step keeps the decision invariant.
LEMMA HoldNext == TypeInv /\ HoldInv /\ [Next]_vars => HoldInv'
<1> SUFFICES ASSUME TypeInv, HoldInv, [Next]_vars PROVE HoldInv'
  OBVIOUS
<1> USE DEF TypeInv, TypeOK, DecideHasId, Behaviors, Empty,
            rowVars, holdVars, claudeVars, operatorVars, worldVars,
            HoldInv, AnswerIsFirstAccepted, RowTellsTheAnswer, FreshCalls,
            FoundIsRegistered, FirstDecision, DecisionPoints, VerdictPoints
<1>1. ASSUME NEW id \in Ids, NEW s \in Sessions, NEW t \in Tools,
             CallUnheld(id, s, t)
      PROVE  HoldInv'
  BY <1>1 DEF CallUnheld, NextId
<1>2. ASSUME NEW id \in Ids, NEW s \in Sessions, NEW t \in Tools,
             PermissionRequest(id, s, t)
      PROVE  HoldInv'
  BY <1>2 DEF PermissionRequest, NextId
<1>3. ASSUME NEW id \in Ids, Register(id) PROVE HoldInv'
  <2>1. CASE handler' = [handler EXCEPT ![id] = "waiting"]
    BY <1>3, <2>1 DEF Register
  <2>2. CASE handler' = [handler EXCEPT ![id] = "done"]
    <3>1. /\ call' = call \/ call' = [call EXCEPT ![id] = "prompt"]
          /\ UNCHANGED <<status, chan, taken, unwritten, pending, decide, accepted>>
      BY <1>3, <2>2 DEF Register, Answer
    <3>2. handler[id] = "inserted"
      BY <1>3 DEF Register
    <3>3. QED
      BY <2>2, <3>1, <3>2
  <2>3. QED
    BY <1>3, <2>1, <2>2 DEF Register
<1>4. ASSUME NEW id \in Ids, TakeDecision(id) PROVE HoldInv'
  BY <1>4 DEF TakeDecision
<1>5. ASSUME NEW id \in Ids, TakeTimer(id) PROVE HoldInv'
  BY <1>5 DEF TakeTimer
<1>6. ASSUME NEW id \in Ids, TakeCancel(id) PROVE HoldInv'
  BY <1>6 DEF TakeCancel
<1>7. ASSUME NEW id \in Ids, Record(id) PROVE HoldInv'
  BY <1>7 DEF Record
<1>8. ASSUME NEW id \in Ids, Reply(id) PROVE HoldInv'
  BY <1>8 DEF Reply, Answer
<1>9. ASSUME NEW id \in Ids, Leave(id) PROVE HoldInv'
  BY <1>9 DEF Leave
<1>10. ASSUME NEW o \in Operators, NEW id \in Ids, View(o, id) PROVE HoldInv'
  BY <1>10 DEF View
<1>11. ASSUME NEW o \in Operators, NEW b \in Behaviors, LookUp(o, b)
       PROVE HoldInv'
  BY <1>11 DEF LookUp, Idle
<1>12. ASSUME NEW o \in Operators, Send(o) PROVE HoldInv'
  <2> DEFINE id == decide[o].id
             b == decide[o].behavior
  <2>1. /\ id \in Ids /\ b \in Behaviors
        /\ handler[id] \notin {"idle", "inserted"}
        /\ UNCHANGED <<status, handler, taken, unwritten, pending, call>>
    BY <1>12 DEF Send
  <2>2. \A p \in Operators : decide'[p].at = "found" => decide'[p] = decide[p]
    BY <1>12 DEF Send, Idle
  <2>3. FoundIsRegistered'
    BY <2>1, <2>2
  <2>4. CASE UNCHANGED <<chan, accepted>>
    BY <2>1, <2>3, <2>4
  <2>5. CASE /\ chan[id] = Empty
             /\ chan' = [chan EXCEPT ![id] = b]
             /\ accepted' = [accepted EXCEPT ![id] = Append(@, b)]
    <3>1. /\ accepted'[id] # <<>>
          /\ Head(accepted'[id]) = IF accepted[id] = <<>> THEN b
                                   ELSE Head(accepted[id])
      <4>1. accepted[id] \in Seq(Behaviors)
        BY <2>1
      <4>2. accepted'[id] = Append(accepted[id], b)
        BY <2>1, <2>5
      <4>3. /\ Append(accepted[id], b) # <<>>
            /\ Head(Append(accepted[id], b)) =
                  IF accepted[id] = <<>> THEN b ELSE Head(accepted[id])
        <5> DEFINE before == accepted[id]
        <5>1. before \in Seq(Behaviors) /\ b \in Behaviors
          BY <2>1, <4>1
        <5> HIDE DEF before, b
        <5>2. /\ Append(before, b) # <<>>
              /\ Head(Append(before, b)) =
                    IF before = <<>> THEN b ELSE Head(before)
          BY ONLY <5>1, FirstOfAppend
        <5>3. QED
          BY <5>2 DEF before
      <4>4. QED
        BY <4>2, <4>3
    <3>2. \A j \in Ids \ {id} : accepted'[j] = accepted[j] /\ chan'[j] = chan[j]
      BY <2>5
    <3>3. FirstDecision'
      BY <2>1, <2>5, <3>1, <3>2
    <3>4. AnswerIsFirstAccepted'
      <4> SUFFICES ASSUME NEW j \in Ids, call'[j] \in Behaviors
                   PROVE  accepted'[j] # <<>> /\ call'[j] = Head(accepted'[j])
        OBVIOUS
      <4>1. accepted[j] # <<>> /\ call'[j] = Head(accepted[j])
        <5>1. call'[j] = call[j]
          BY <2>1
        <5>2. \A k \in Ids : call[k] \in {"allow", "deny"} =>
                  accepted[k] # <<>> /\ call[k] = Head(accepted[k])
          BY DEF AnswerIsFirstAccepted
        <5>3. QED
          BY <5>1, <5>2
      <4>2. QED
        BY <3>1, <3>2, <4>1
    <3>5. FreshCalls'
      BY <2>1, <3>2
    <3>6. QED
      BY <2>1, <2>3, <3>3, <3>4, <3>5
  <2>6. QED
    BY <1>12, <2>4, <2>5 DEF Send
<1>13. ASSUME NEW id \in Ids, GiveUp(id) PROVE HoldInv'
  BY <1>13 DEF GiveUp
<1>14. ASSUME NEW id \in Ids, RunTool(id) PROVE HoldInv'
  BY <1>14 DEF RunTool
<1>15. ASSUME NEW id \in Ids, NEW outcome \in {"resolved", "failed"},
              PostTool(id, outcome)
       PROVE HoldInv'
  BY <1>15 DEF PostTool, CloseOldest, OldestPending
<1>16. ASSUME NEW id \in Ids, LosePost(id) PROVE HoldInv'
  BY <1>16 DEF LosePost
<1>17. CASE Sweep
  BY <1>17 DEF Sweep
<1>18. CASE Tick
  BY <1>18 DEF Tick
<1>19. CASE Crash
  BY <1>19 DEF Crash, Idle, InFlight
<1>20. CASE Restart
  BY <1>20 DEF Restart
<1>21. CASE UNCHANGED vars
  BY <1>21 DEF vars
<1>22. QED
  BY <1>1, <1>2, <1>3, <1>4, <1>5, <1>6, <1>7, <1>8, <1>9, <1>10, <1>11,
     <1>12, <1>13, <1>14, <1>15, <1>16, <1>17, <1>18, <1>19, <1>20, <1>21
  DEF Next, HandlerStep

\* Claude only obeys decisions that were accepted for the very call, and of
\* those the first (handlePermissionRequest, handleApprovalDecide).
THEOREM AnswersAreAccepted == Spec => []AnswerIsFirstAccepted
<1>1. HoldInv => AnswerIsFirstAccepted
  BY DEF HoldInv
<1>2. QED
  BY TypeInit, TypeNext, HoldInit, HoldNext, <1>1, PTL DEF Spec

\* The dashboard's row and Claude's answer agree whatever closed the row in
\* between (UpdateApprovalStatus is unconditional); where the database refused
\* that write, the row holds no verdict at all.
THEOREM RowsTellTheAnswer == Spec => []RowTellsTheAnswer
<1>1. HoldInv => RowTellsTheAnswer
  BY DEF HoldInv
<1>2. QED
  BY TypeInit, TypeNext, HoldInit, HoldNext, <1>1, PTL DEF Spec

\* Neither a PostTool hook nor the sweep changes a verdict.
THEOREM VerdictsAreFinal == Spec => VerdictIsFinal
<1> DEFINE Final == \A id \in Ids : status[id] \in {"approved", "denied"}
                       => status'[id] = status[id]
<1>1. TypeInv /\ HoldInv /\ [Next]_vars => [Final]_status
  <2> SUFFICES ASSUME TypeInv, HoldInv, [Next]_vars PROVE status' = status \/ Final
    OBVIOUS
  <2> USE DEF TypeInv, TypeOK, HoldInv, VerdictPoints, FreshCalls
  <2>1. ASSUME NEW id \in Ids, NEW s \in Sessions, NEW t \in Tools,
               PermissionRequest(id, s, t)
        PROVE  Final
    BY <2>1 DEF PermissionRequest, NextId
  <2>2. ASSUME NEW id \in Ids, Record(id) PROVE Final
    BY <2>2 DEF Record
  <2>3. ASSUME NEW id \in Ids, NEW outcome \in {"resolved", "failed"},
               PostTool(id, outcome)
        PROVE  Final
    BY <2>3 DEF PostTool, CloseOldest, OldestPending
  <2>4. CASE Sweep
    BY <2>4 DEF Sweep
  <2>5. CASE UNCHANGED vars
    BY <2>5 DEF vars, rowVars
  <2>6. ASSUME NEW id \in Ids, NEW s \in Sessions, NEW t \in Tools,
               CallUnheld(id, s, t)
        PROVE  status' = status
    BY <2>6 DEF CallUnheld
  <2>7. ASSUME NEW id \in Ids, HandlerStep(id), ~Record(id)
        PROVE  status' = status
    BY <2>7 DEF HandlerStep, Register, TakeDecision, TakeTimer, TakeCancel,
                Reply, Leave, rowVars
  <2>8. ASSUME NEW id \in Ids, GiveUp(id) \/ RunTool(id) \/ LosePost(id)
        PROVE  status' = status
    BY <2>8 DEF GiveUp, RunTool, LosePost, rowVars
  <2>9. ASSUME NEW o \in Operators,
               Send(o) \/ (\E id \in Ids : View(o, id))
                       \/ (\E b \in Behaviors : LookUp(o, b))
        PROVE  status' = status
    BY <2>9 DEF Send, View, LookUp, rowVars
  <2>10. CASE Tick \/ Crash \/ Restart
    BY <2>10 DEF Tick, Crash, Restart, rowVars
  <2>11. QED
    BY <2>1, <2>2, <2>3, <2>4, <2>5, <2>6, <2>7, <2>8, <2>9, <2>10
    DEF Next
<1>2. QED
  BY TypeInit, TypeNext, HoldInit, HoldNext, <1>1, PTL DEF Spec, VerdictIsFinal

-----------------------------------------------------------------------------
(* Time. *)

\* The clock invariant holds initially: the first sweep is due.
LEMMA AgeInit == Init => AgeBounds
  BY TimesAssumption DEF Init, AgeBounds, Ids

\* Every step keeps it; the sweep's is the step that needs the window to be
\* shorter than the sweep's age.
LEMMA AgeNext == TypeInv /\ HoldInv /\ AgeBounds /\ [Next]_vars => AgeBounds'
<1> SUFFICES ASSUME TypeInv, HoldInv, AgeBounds, [Next]_vars PROVE AgeBounds'
  OBVIOUS
<1> USE TimesAssumption
    DEF TypeInv, TypeOK, HoldInv, FreshCalls, AgeBounds,
        rowVars, holdVars, claudeVars, operatorVars, worldVars
<1>1. ASSUME NEW id \in Ids, NEW s \in Sessions, NEW t \in Tools,
             CallUnheld(id, s, t)
      PROVE  AgeBounds'
  BY <1>1 DEF CallUnheld
<1>2. ASSUME NEW id \in Ids, NEW s \in Sessions, NEW t \in Tools,
             PermissionRequest(id, s, t)
      PROVE  AgeBounds'
  BY <1>2 DEF PermissionRequest
<1>3. ASSUME NEW id \in Ids, HandlerStep(id), ~Record(id)
      PROVE  AgeBounds'
  BY <1>3 DEF HandlerStep, Register, TakeDecision, TakeTimer, TakeCancel,
              Reply, Leave
<1>4. ASSUME NEW id \in Ids, Record(id) PROVE AgeBounds'
  BY <1>4 DEF Record
<1>5. ASSUME NEW id \in Ids, GiveUp(id) \/ RunTool(id) \/ LosePost(id)
      PROVE  AgeBounds'
  BY <1>5 DEF GiveUp, RunTool, LosePost
<1>6. ASSUME NEW o \in Operators,
             Send(o) \/ (\E id \in Ids : View(o, id))
                     \/ (\E b \in Behaviors : LookUp(o, b))
      PROVE  AgeBounds'
  BY <1>6 DEF Send, View, LookUp
<1>7. ASSUME NEW id \in Ids, NEW outcome \in {"resolved", "failed"},
             PostTool(id, outcome)
      PROVE  AgeBounds'
  BY <1>7 DEF PostTool, CloseOldest, OldestPending
<1>8. CASE Sweep
  BY <1>8 DEF Sweep
<1>9. CASE Tick
  BY <1>9 DEF Tick, HandlerDue, Aging, Older, InFlight, MaxAge
<1>10. CASE Crash
  <2>1. \A id \in Ids : handler'[id] = handler[id] \/ handler'[id] = "done"
    BY <1>10 DEF Crash
  <2>2. \A id \in Ids : handler'[id] \notin {"inserted", "waiting"}
    BY <1>10 DEF Crash, InFlight
  <2>3. ~up' /\ UNCHANGED <<status, age>>
    BY <1>10 DEF Crash
  <2>4. QED
    BY <2>1, <2>2, <2>3
<1>11. CASE Restart
  BY <1>11 DEF Restart
<1>12. CASE UNCHANGED vars
  BY <1>12 DEF vars
<1>13. QED
  BY <1>1, <1>2, <1>3, <1>4, <1>5, <1>6, <1>7, <1>8, <1>9, <1>10, <1>11,
     <1>12 DEF Next

\* While an operator can still decide, the sweep leaves the row alone, because
\* the decision window is shorter than the age at which it sweeps.
THEOREM SweepsSpareHolds == Spec => []SweepSparesHolds
<1>1. AgeBounds => SweepSparesHolds
  BY DEF AgeBounds, SweepSparesHolds
<1>2. QED
  BY TypeInit, TypeNext, HoldInit, HoldNext, AgeInit, AgeNext, <1>1, PTL
  DEF Spec

\* A running collector leaves no approval pending for longer than the sweep's
\* age and one period of its discovery loop.
THEOREM PendingRowsAreBounded == Spec => []PendingIsBounded
<1>1. TypeInv /\ AgeBounds => PendingIsBounded
  BY TimesAssumption
  DEF TypeInv, TypeOK, AgeBounds, PendingIsBounded, MaxAge
<1>2. QED
  BY TypeInit, TypeNext, HoldInit, HoldNext, AgeInit, AgeNext, <1>1, PTL
  DEF Spec
=============================================================================
