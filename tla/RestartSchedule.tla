---------------------------- MODULE RestartSchedule ----------------------------
(***************************************************************************)
(* Restarting the collector once the hosted sessions are idle              *)
(* (src/internal/server/restartwait.go, restart.go).                       *)
(*                                                                         *)
(* A schedule starts a goroutine that looks every CheckEvery whether a     *)
(* hosted claude is busy, and restarts once none has been for Quiet; past  *)
(* its deadline it gives up.  Schedules are cancelled, extended, and       *)
(* superseded by an immediate restart.                                     *)
(*                                                                         *)
(* A step of a goroutine that is due, a hook, and the 300 ms before the    *)
(* collector stops take less than a unit of time.                          *)
(***************************************************************************)
EXTENDS Naturals, FiniteSets

CONSTANTS
    Sessions,
    Claudes,      \* the hosted claudes
    CheckEvery,   \* restartCheckEvery, 2 s
    Quiet,        \* restartQuiet, 4 s
    Timeouts,     \* what a schedule may be asked to wait at most
    MaxTime,      \* restartMaxTimeout
    MaxRequests,  \* bound: requests made to the collector
    Prompt,       \* does a cancelled goroutine end before the next schedule?
    None

\* The sessions that the claudes may run at first.
Seats == {f \in [Claudes -> Sessions] : \A c, d \in Claudes : f[c] = f[d] => c = d}

ScheduleConstants ==
    /\ CheckEvery \in Nat \ {0}
    /\ Quiet \in Nat \ {0}
    /\ MaxTime \in Nat /\ Timeouts \subseteq 1..MaxTime
    /\ MaxRequests \in Nat
    /\ Prompt \in BOOLEAN
    /\ None \notin Sessions \cup Claudes
    /\ IsFiniteSet(Sessions) /\ Seats # {}

ASSUME ScheduleAssumption == ScheduleConstants

VARIABLES
    doing,    \* what each claude does
    busy,     \* history: has it not been idle since before the clock's last tick?
    session,  \* the session it runs
    key,      \* s.ptyMap: the claude under each session key
    row,      \* what the row of a session says
    sched,    \* s.restartSched
    loop,     \* the goroutine of each schedule
    calm,     \* history: time since its last look found a claude busy
    dropped,  \* history: schedules whose DELETE was answered "cancelled"
    now,      \* an immediate restart under way
    stop,     \* the stop that was asked for, and for which schedule
    saved,    \* resume-on-start.json
    requests  \* requests so far

claudeVars == <<doing, busy, session, key, row>>
vars == <<claudeVars, sched, loop, calm, dropped, now, stop, saved, requests>>

Numbers == 1..MaxRequests

Doings == {"idle", "working", "approval", "dialog", "background"}
Rows == Doings \ {"dialog"}

\* Counters stop at MaxTime.
Later(t) == IF t < MaxTime THEN t + 1 ELSE t

NoSchedule == [no |-> 0, left |-> 0]

\* A goroutine: waiting for its ticker; about to read the schedule; to cancel
\* it as expired; to look; to take the schedule; to save; done.  It has been
\* clear for some time, or (FALSE) is not.
NoLoop == [at |-> "none", due |-> 0, seen |-> 0, clear |-> FALSE, quiet |-> 0,
           cancelled |-> FALSE]
Done == [NoLoop EXCEPT !.at = "done"]
NewLoop == [NoLoop EXCEPT !.at = "wait", !.due = CheckEvery]

Init ==
    /\ doing = [c \in Claudes |-> "idle"]
    /\ busy = [c \in Claudes |-> FALSE]
    /\ session = CHOOSE f \in Seats : TRUE
    /\ key = [s \in Sessions |->
                 IF \E c \in Claudes : session[c] = s
                 THEN CHOOSE c \in Claudes : session[c] = s ELSE None]
    /\ row = [s \in Sessions |-> "idle"]
    /\ sched = NoSchedule
    /\ loop = [n \in Numbers |-> NoLoop]
    /\ calm = [n \in Numbers |-> 0]
    /\ dropped = {}
    /\ now = "idle"
    /\ stop = [at |-> "no", by |-> 0]
    /\ saved = {}
    /\ requests = 0

Running == stop.at # "stopped"

-----------------------------------------------------------------------------
(* Claudes. *)

\* c comes to do something, and the row of its session says so.
Does(c, what, says) ==
    /\ Running
    /\ doing' = [doing EXCEPT ![c] = what]
    /\ busy' = [busy EXCEPT ![c] = @ /\ what # "idle"]
    /\ row' = [row EXCEPT ![session[c]] = says]
    /\ UNCHANGED <<session, key, sched, loop, calm, dropped, now, stop, saved,
                   requests>>

\* A prompt clears a declared wait.
BeginTurn(c) ==
    doing[c] \in {"idle", "background"} /\ Does(c, "working", "working")

AskApproval(c) == doing[c] = "working" /\ Does(c, "approval", "approval")

\* A dialog on the screen; its session may pass for idle.
ShowDialog(c) ==
    doing[c] = "working" /\ \E says \in {"working", "idle"} : Does(c, "dialog", says)

Proceed(c) == doing[c] \in {"approval", "dialog"} /\ Does(c, "working", "working")

\* The turn ends; a wait on something in the background may be declared.
EndTurn(c) ==
    doing[c] = "working" /\ \E what \in {"idle", "background"} : Does(c, what, what)

\* Mutant: the hook adds no key once the claude has one.
ClearUnkeyed(c) ==
    /\ Running
    /\ doing[c] = "idle"
    /\ \E s \in Sessions :
        /\ key[s] = None
        /\ session' = [session EXCEPT ![c] = s]
    /\ UNCHANGED <<doing, busy, key, row, sched, loop, calm, dropped, now, stop,
                   saved, requests>>

\* /clear: another session in the same claude.  Its hook adds a key.
Clear(c) ==
    /\ Running
    /\ doing[c] = "idle"
    /\ \E s \in Sessions :
        /\ key[s] = None
        /\ session' = [session EXCEPT ![c] = s]
        /\ key' = [key EXCEPT ![s] = c]
    /\ UNCHANGED <<doing, busy, row, sched, loop, calm, dropped, now, stop,
                   saved, requests>>

-----------------------------------------------------------------------------
(* Requests. *)

Request ==
    /\ Running
    /\ requests < MaxRequests
    /\ requests' = requests + 1

Schedule(timeout) ==
    /\ Request
    /\ sched = NoSchedule
    /\ Prompt => \A n \in Numbers : loop[n].at \in {"none", "done"}
    /\ sched' = [no |-> requests', left |-> timeout]
    /\ loop' = [loop EXCEPT ![requests'] = NewLoop]
    /\ UNCHANGED <<claudeVars, calm, dropped, now, stop, saved>>

\* Asking again keeps the first, with the later deadline.
Extend(timeout) ==
    /\ Request
    /\ sched # NoSchedule
    /\ sched' = [sched EXCEPT !.left = IF timeout > @ THEN timeout ELSE @]
    /\ UNCHANGED <<claudeVars, loop, calm, dropped, now, stop, saved>>

\* cancelScheduledRestart: the schedule goes and its context ends.
Drop ==
    /\ sched' = NoSchedule
    /\ loop' = IF sched = NoSchedule THEN loop
               ELSE [loop EXCEPT ![sched.no].cancelled = TRUE]

Cancel ==
    /\ Request
    /\ sched # NoSchedule
    /\ Drop
    /\ dropped' = dropped \cup {sched.no}
    /\ UNCHANGED <<claudeVars, calm, now, stop, saved>>

\* POST /api/restart without a "when": it supersedes a schedule, ...
RestartAtOnce ==
    /\ Request
    /\ now = "idle"
    /\ Drop
    /\ now' = "save"
    /\ UNCHANGED <<claudeVars, calm, dropped, stop, saved>>

\* hostedSessions; with its context ended it finds no row.
Hosted == {s \in Sessions : key[s] # None}

\* restartNow asks for the stop; a first one stands.
Ask(no) == stop' = IF stop.at = "no" THEN [at |-> "asked", by |-> no] ELSE stop

\* ... and saves: nothing, when the caller has hung up.  Or it fails to save.
SaveAtOnce ==
    /\ now = "save"
    /\ Running
    /\ now' = "idle"
    /\ \/ saved' \in {Hosted, {}} /\ Ask(0)
       \/ UNCHANGED <<saved, stop>>
    /\ UNCHANGED <<claudeVars, sched, loop, calm, dropped, requests>>

-----------------------------------------------------------------------------
(* restartWaitLoop. *)

Step(n, point) == Running /\ loop[n].at = point

Goto(n, point) ==
    loop' = [loop EXCEPT ![n] = IF point = "done" THEN Done ELSE [@ EXCEPT !.at = point]]

\* The select: with both ready, either.
Woken(n) ==
    /\ Step(n, "wait")
    /\ \/ loop[n].cancelled /\ Goto(n, "done")
       \/ loop[n].due = 0 /\ loop' = [loop EXCEPT ![n].at = "read", ![n].due = CheckEvery]
    /\ UNCHANGED <<claudeVars, sched, calm, dropped, now, stop, saved, requests>>

\* Mutant: the deadline is looked at only while nothing is busy.
ReadIfClear(n) ==
    /\ Step(n, "read")
    /\ \/ sched = NoSchedule /\ Goto(n, "done")
       \/ /\ sched # NoSchedule
          /\ loop' = [loop EXCEPT ![n].seen = sched.no,
                         ![n].at = IF sched.left = 0 /\ loop[n].clear THEN "expire"
                                   ELSE "look"]
    /\ UNCHANGED <<claudeVars, sched, calm, dropped, now, stop, saved, requests>>

\* The schedule and its deadline, whichever schedule it is.
Read(n) ==
    /\ Step(n, "read")
    /\ \/ sched = NoSchedule /\ Goto(n, "done")
       \/ /\ sched # NoSchedule
          /\ loop' = [loop EXCEPT ![n].seen = sched.no,
                         ![n].at = IF sched.left = 0 THEN "expire" ELSE "look"]
    /\ UNCHANGED <<claudeVars, sched, calm, dropped, now, stop, saved, requests>>

\* The schedule there is now is cancelled.
Expire(n) ==
    /\ Step(n, "expire")
    /\ sched' = NoSchedule
    /\ loop' = [m \in Numbers |->
                   IF m = n THEN Done
                   ELSE [loop[m] EXCEPT !.cancelled = @ \/ m = sched.no]]
    /\ UNCHANGED <<claudeVars, calm, dropped, now, stop, saved, requests>>

\* Mutant: dialogs on the screen are not looked for.
BusyByRow(c, s) == row[s] # "idle"

\* Why a restart would cut c off, going by its session key s.
Blocks(c, s) == row[s] # "idle" \/ doing[c] = "dialog"

\* What a look may find: each claude is looked at under any of its keys, and
\* with the context ended no row is read.
Findings(n) ==
    IF loop[n].cancelled THEN {FALSE}
    ELSE {\E c \in Claudes : Blocks(c, f[c]) :
             f \in {g \in [Claudes -> Sessions] : \A c \in Claudes : key[g[c]] = c}}

Look(n) ==
    LET quiet == IF loop[n].clear THEN loop[n].quiet ELSE 0 IN
    /\ Step(n, "look")
    /\ \/ /\ TRUE \in Findings(n)
          /\ loop' = [loop EXCEPT ![n].clear = FALSE, ![n].at = "wait"]
          /\ calm' = [calm EXCEPT ![n] = 0]
       \/ /\ FALSE \in Findings(n)
          /\ loop' = [loop EXCEPT ![n].clear = TRUE, ![n].quiet = quiet,
                         ![n].at = IF quiet < Quiet THEN "wait" ELSE "take"]
          /\ UNCHANGED calm
    /\ UNCHANGED <<claudeVars, sched, dropped, now, stop, saved, requests>>

\* Mutant: the schedule is taken without comparing it.
TakeAny(n) ==
    /\ Step(n, "take")
    /\ Goto(n, "save")
    /\ sched' = NoSchedule
    /\ UNCHANGED <<claudeVars, calm, dropped, now, stop, saved, requests>>

\* Mutant: the schedule stays there until the collector is gone.
TakeLate(n) ==
    /\ Step(n, "take")
    /\ Goto(n, IF sched.no = loop[n].seen THEN "save" ELSE "done")
    /\ UNCHANGED <<claudeVars, sched, calm, dropped, now, stop, saved, requests>>

\* The schedule is taken, unless it was cancelled meanwhile.
Take(n) ==
    /\ Step(n, "take")
    /\ \/ /\ sched.no = loop[n].seen
          /\ sched' = NoSchedule
          /\ Goto(n, "save")
       \/ /\ sched.no # loop[n].seen
          /\ Goto(n, "done")
          /\ UNCHANGED sched
    /\ UNCHANGED <<claudeVars, calm, dropped, now, stop, saved, requests>>

\* restartNow, under the goroutine's context; saving may fail.
Save(n) ==
    /\ Step(n, "save")
    /\ Goto(n, "done")
    /\ \/ /\ saved' = IF loop[n].cancelled THEN {} ELSE Hosted
          /\ Ask(loop[n].seen)
       \/ UNCHANGED <<saved, stop>>
    /\ UNCHANGED <<claudeVars, sched, calm, dropped, now, requests>>

LoopStep(n) ==
    \/ Woken(n)
    \/ Read(n)
    \/ Expire(n)
    \/ Look(n)
    \/ Take(n)
    \/ Save(n)

-----------------------------------------------------------------------------
\* The collector stops: every hosted claude ends.
Stop ==
    /\ stop.at = "asked"
    /\ stop' = [stop EXCEPT !.at = "stopped"]
    /\ UNCHANGED <<claudeVars, sched, loop, calm, dropped, now, saved, requests>>

Due(n) ==
    \/ loop[n].at \in {"read", "expire", "look", "take", "save"}
    \/ loop[n].at = "wait" /\ (loop[n].due = 0 \/ loop[n].cancelled)

Tick ==
    /\ Running
    /\ stop.at # "asked"
    /\ now # "save"
    /\ \A n \in Numbers : ~Due(n)
    /\ busy' = [c \in Claudes |-> doing[c] # "idle"]
    /\ sched' = [sched EXCEPT !.left = IF @ = 0 THEN 0 ELSE @ - 1]
    /\ loop' = [n \in Numbers |->
                   IF loop[n].at # "wait" THEN loop[n]
                   ELSE [loop[n] EXCEPT !.due = @ - 1,
                            !.quiet = IF loop[n].clear THEN Later(@) ELSE 0]]
    /\ calm' = [n \in Numbers |-> IF loop[n].at = "wait" THEN Later(calm[n]) ELSE 0]
    /\ UNCHANGED <<doing, session, key, row, dropped, now, stop, saved, requests>>

Next ==
    \/ \E c \in Claudes :
        \/ BeginTurn(c) \/ AskApproval(c) \/ ShowDialog(c) \/ Proceed(c)
        \/ EndTurn(c) \/ Clear(c)
    \/ \E t \in Timeouts : Schedule(t) \/ Extend(t)
    \/ Cancel
    \/ RestartAtOnce
    \/ SaveAtOnce
    \/ \E n \in Numbers : LoopStep(n)
    \/ Stop
    \/ Tick

Spec == Init /\ [][Next]_vars

\* Goroutines run, their tickers fire and time passes.
Fairness ==
    /\ \A n \in Numbers : WF_vars(LoopStep(n))
    /\ WF_vars(SaveAtOnce)
    /\ WF_vars(Stop)
    /\ WF_vars(Tick)

FairSpec == Spec /\ Fairness

-----------------------------------------------------------------------------
TypeOK ==
    /\ doing \in [Claudes -> Doings]
    /\ busy \in [Claudes -> BOOLEAN]
    /\ session \in [Claudes -> Sessions]
    /\ key \in [Sessions -> Claudes \cup {None}]
    /\ \A c \in Claudes : key[session[c]] = c
    /\ row \in [Sessions -> Rows]
    /\ sched \in [no: Numbers \cup {0}, left: 0..MaxTime]
    /\ loop \in [Numbers ->
          [at: {"none", "wait", "read", "expire", "look", "take", "save", "done"},
           due: 0..CheckEvery, seen: Numbers \cup {0}, clear: BOOLEAN,
           quiet: 0..MaxTime, cancelled: BOOLEAN]]
    /\ calm \in [Numbers -> 0..MaxTime]
    /\ dropped \subseteq Numbers
    /\ now \in {"idle", "save"}
    /\ stop \in [at: {"no", "asked", "stopped"}, by: Numbers \cup {0}]
    /\ saved \subseteq Sessions
    /\ requests \in 0..MaxRequests

\* A scheduled restart ended c, which was busy before the last look.
CutOff(c) == stop.at = "stopped" /\ stop.by # 0 /\ busy[c]

KeysOf(c) == {s \in Sessions : key[s] = c}

\* A scheduled restart cuts off no claude that was busy when it last looked:
\* neither at work, nor with an approval, a dialog or a background wait.
\* (restartWaitLoop, restartBlockers.)
NoTurnIsCutOff == \A c \in Claudes : ~CutOff(c)

\* That holds of a claude that has run one session only.
NoFirstSessionIsCutOff ==
    \A c \in Claudes : Cardinality(KeysOf(c)) = 1 => ~CutOff(c)

\* A restart that was scheduled comes when the looks of the last restartQuiet
\* were all clear ("idle this long in a row", restartwait.go:24), and never from
\* a schedule whose DELETE was answered "cancelled".
RestartsAreDue ==
    \A n \in Numbers : loop[n].at = "save" \/ stop.by = n =>
        calm[n] >= Quiet /\ n \notin dropped

\* A scheduled restart saves every hosted session: the context under which the
\* goroutine saves them has not been ended by a request that came too late.
\* (restartWaitLoop, cancelScheduledRestart, hostedSessions.)
AllHostedAreSaved ==
    [][\A n \in Numbers :
          /\ loop[n].at = "save" /\ loop'[n].at = "done"
          /\ saved' # saved \/ stop' # stop
          => saved' = Hosted]_<<loop, stop, saved>>

\* A schedule ends by itself: it restarts, or gives up past its deadline.
ScheduleEnds == sched # NoSchedule ~> sched = NoSchedule \/ ~Running
=============================================================================
