------------------------ MODULE RestartScheduleProofs ------------------------
(***************************************************************************)
(* Theorems about RestartSchedule, for any sessions, claudes, requests,    *)
(* periods and deadlines: its types, that a restart comes when it is due,  *)
(* whom it spares, and what it saves.                                      *)
(***************************************************************************)
EXTENDS RestartSchedule, FiniteSetTheorems, TLAPS

USE ScheduleAssumption

Loops == [at: {"none", "wait", "read", "expire", "look", "take", "save", "done"},
          due: 0..CheckEvery, seen: Numbers \cup {0}, clear: BOOLEAN,
          quiet: 0..MaxTime, cancelled: BOOLEAN]

\* No number, no schedule.
ScheduleTyped ==
    /\ TypeOK
    /\ sched.no = 0 => sched = NoSchedule

LEMMA ScheduleTypedInit == Init => ScheduleTyped
<1> SUFFICES ASSUME Init PROVE ScheduleTyped
  OBVIOUS
<1> USE DEF ScheduleConstants, Init
<1>1. session \in Seats
  <2>1. \E f \in Seats : TRUE
    OBVIOUS
  <2> QED
    BY <2>1 DEF Seats
<1>2. /\ session \in [Claudes -> Sessions]
      /\ \A c, d \in Claudes : session[c] = session[d] => c = d
  BY <1>1 DEF Seats
<1>3. /\ key \in [Sessions -> Claudes \cup {None}]
      /\ \A c \in Claudes : key[session[c]] = c
  <2>1. ASSUME NEW s \in Sessions
        PROVE  key[s] = IF \E c \in Claudes : session[c] = s
                        THEN CHOOSE c \in Claudes : session[c] = s ELSE None
    BY Zenon
  <2>2. ASSUME NEW s \in Sessions
        PROVE  key[s] \in Claudes \cup {None}
    BY <2>1, <2>2
  <2>3. ASSUME NEW c \in Claudes PROVE key[session[c]] = c
    BY <1>2, <2>1, <2>3
  <2>4. key = [s \in Sessions |-> key[s]]
    BY Zenon
  <2>5. key \in [Sessions -> Claudes \cup {None}]
    <3> HIDE DEF Init
    <3> QED
      BY <2>2, <2>4
  <2> QED
    BY <2>3, <2>5
<1>4. /\ loop \in [Numbers -> Loops]
      /\ sched \in [no: Numbers \cup {0}, left: 0..MaxTime]
  BY DEF NoLoop, NoSchedule, Loops
<1>5. /\ doing \in [Claudes -> Doings] /\ busy \in [Claudes -> BOOLEAN]
      /\ row \in [Sessions -> Rows]
      /\ calm \in [Numbers -> 0..MaxTime]
  BY DEF Doings, Rows
<1>6. /\ stop \in [at: {"no", "asked", "stopped"}, by: Numbers \cup {0}]
      /\ dropped \subseteq Numbers /\ now \in {"idle", "save"}
      /\ saved \subseteq Sessions /\ requests \in 0..MaxRequests
      /\ sched = NoSchedule
  OBVIOUS
<1> HIDE DEF Init
<1> QED
  BY <1>2, <1>3, <1>4, <1>5, <1>6 DEF ScheduleTyped, TypeOK, Loops

\* What a claude comes to do, and what its session's row may say then.
LEMMA DoesShape ==
    ASSUME NEW c \in Claudes,
           \/ BeginTurn(c) \/ AskApproval(c) \/ ShowDialog(c)
           \/ Proceed(c) \/ EndTurn(c)
    PROVE  \E what \in Doings, says \in Rows :
               /\ Does(c, what, says)
               /\ what # "dialog" => says = what
<1> USE DEF Doings, Rows
<1>1. CASE BeginTurn(c) \/ Proceed(c)
  BY <1>1 DEF BeginTurn, Proceed
<1>2. CASE AskApproval(c)
  BY <1>2 DEF AskApproval
<1>3. CASE ShowDialog(c)
  BY <1>3 DEF ShowDialog
<1>4. CASE EndTurn(c)
  BY <1>4 DEF EndTurn
<1> QED
  BY <1>1, <1>2, <1>3, <1>4

LEMMA DoesTyped ==
    ASSUME ScheduleTyped, NEW c \in Claudes, NEW what \in Doings,
           NEW says \in Rows, Does(c, what, says)
    PROVE  ScheduleTyped'
<1>1. /\ doing' = [doing EXCEPT ![c] = what] /\ row' = [row EXCEPT ![session[c]] = says]
      /\ busy' = [busy EXCEPT ![c] = busy[c] /\ what # "idle"]
      /\ UNCHANGED <<session, key, sched, loop, calm, dropped, now, stop, saved, requests>>
  BY DEF Does
<1>2. doing' \in [Claudes -> Doings] /\ row' \in [Sessions -> Rows]
  BY <1>1 DEF ScheduleTyped, TypeOK
<1>3. busy' \in [Claudes -> BOOLEAN]
  <2>1. (busy[c] /\ what # "idle") \in BOOLEAN
    OBVIOUS
  <2> QED
    BY <1>1, <2>1, Zenon DEF ScheduleTyped, TypeOK
<1> QED
  BY <1>1, <1>2, <1>3 DEF ScheduleTyped, TypeOK

LEMMA ClearTyped ==
    ASSUME ScheduleTyped, NEW c \in Claudes, Clear(c)
    PROVE  ScheduleTyped'
<1>1. PICK s \in Sessions :
        /\ key[s] = None
        /\ session' = [session EXCEPT ![c] = s] /\ key' = [key EXCEPT ![s] = c]
        /\ UNCHANGED <<doing, busy, row, sched, loop, calm, dropped, now, stop, saved,
                       requests>>
  BY DEF Clear
<1>2. session' \in [Claudes -> Sessions] /\ key' \in [Sessions -> Claudes \cup {None}]
  BY <1>1 DEF ScheduleTyped, TypeOK
<1>3. ASSUME NEW d \in Claudes PROVE key'[session'[d]] = d
  BY <1>1, <1>3 DEF ScheduleTyped, TypeOK, ScheduleConstants
<1> QED
  BY <1>1, <1>2, <1>3 DEF ScheduleTyped, TypeOK

\* The goroutines and the schedule are of their types, and the rest is as it was
\* or of its type.
LEMMA RestTyped ==
    ASSUME ScheduleTyped, UNCHANGED <<doing, busy, session, key, row>>,
           loop' \in [Numbers -> Loops],
           sched' \in [no: Numbers \cup {0}, left: 0..MaxTime],
           sched'.no = 0 => sched' = NoSchedule,
           calm' \in [Numbers -> 0..MaxTime],
           dropped' \subseteq Numbers, now' \in {"idle", "save"},
           stop' \in [at: {"no", "asked", "stopped"}, by: Numbers \cup {0}],
           saved' \subseteq Sessions, requests' \in 0..MaxRequests
    PROVE  ScheduleTyped'
BY DEF ScheduleTyped, TypeOK, Loops

LEMMA Counted ==
    ASSUME ScheduleTyped, Request
    PROVE  /\ requests' \in Numbers /\ requests' \in 0..MaxRequests
           /\ requests' = requests + 1
BY DEF Request, ScheduleConstants, ScheduleTyped, TypeOK, Numbers

\* The schedule is dropped.
LEMMA DropShape ==
    ASSUME ScheduleTyped, Drop
    PROVE  /\ sched' = NoSchedule
           /\ loop' = [n \in Numbers |->
                          IF n = sched.no THEN [loop[n] EXCEPT !.cancelled = TRUE] ELSE loop[n]]
           /\ loop' \in [Numbers -> Loops]
<1>1. loop \in [Numbers -> Loops] /\ 0 \notin Numbers
  BY DEF ScheduleTyped, TypeOK, Numbers, Loops
<1>2. loop' = [n \in Numbers |->
                  IF n = sched.no THEN [loop[n] EXCEPT !.cancelled = TRUE] ELSE loop[n]]
  <2>1. CASE sched = NoSchedule
    <3>1. sched.no = 0 /\ loop' = loop
      BY <2>1 DEF Drop, NoSchedule
    <3>2. loop = [n \in Numbers |-> loop[n]] /\ \A n \in Numbers : n # 0
      BY <1>1
    <3> QED
      BY <3>1, <3>2
  <2>2. CASE sched # NoSchedule
    BY <1>1, <2>2 DEF Drop, ScheduleTyped, TypeOK
  <2> QED
    BY <2>1, <2>2
<1>3. \A n \in Numbers :
        [loop[n] EXCEPT !.cancelled = TRUE] \in Loops
  BY <1>1 DEF Loops
<1>4. sched' = NoSchedule
  BY DEF Drop
<1>5. loop' \in [Numbers -> Loops]
  BY <1>1, <1>2, <1>3
<1> QED
  BY <1>2, <1>4, <1>5

\* What a step of the goroutine of n may make of it.
LEMMA GotoTyped ==
    ASSUME ScheduleTyped, NEW n \in Numbers, NEW r \in Loops,
           loop' = [loop EXCEPT ![n] = r]
    PROVE  loop' \in [Numbers -> Loops]
BY DEF ScheduleTyped, TypeOK, Loops

LEMMA LoopRecords ==
    ASSUME ScheduleTyped, NEW n \in Numbers
    PROVE  /\ loop[n] \in Loops
           /\ Done \in Loops /\ NewLoop \in Loops
           /\ Done.at = "done" /\ ~Done.clear /\ ~Done.cancelled
           /\ NewLoop.at = "wait" /\ ~NewLoop.clear
           /\ ~NewLoop.cancelled
<1>1. loop[n] \in Loops
  BY DEF ScheduleTyped, TypeOK, Loops
<1>2. 0 \in 0..CheckEvery /\ CheckEvery \in 0..CheckEvery /\ 0 \in 0..MaxTime
  BY DEF ScheduleConstants
<1>3. /\ NoLoop \in Loops
      /\ ~NoLoop.clear /\ ~NoLoop.cancelled
  BY <1>2 DEF NoLoop, Loops
<1> QED
  BY <1>1, <1>2, <1>3 DEF Loops, Done, NewLoop

\* Each step of a goroutine, by what it makes of it.
LEMMA WokenShape ==
    ASSUME ScheduleTyped, NEW n \in Numbers,
           Woken(n)
    PROVE  /\ Running /\ loop[n].at = "wait"
           /\ \E r \in Loops :
                 /\ loop' = [loop EXCEPT ![n] = r]
                 /\ \/ r = Done
                    \/ /\ r.at = "read" /\ r.clear = loop[n].clear
                       /\ r.quiet = loop[n].quiet /\ r.cancelled = loop[n].cancelled
           /\ UNCHANGED <<doing, busy, session, key, row, sched, calm, dropped, now, stop,
                          saved, requests>>
<1>1. loop[n] \in Loops /\ Done \in Loops
  BY LoopRecords
<1>2. /\ Running /\ loop[n].at = "wait"
      /\ UNCHANGED <<doing, busy, session, key, row, sched, calm, dropped, now, stop,
                     saved, requests>>
  BY DEF Woken, Step, claudeVars
<1>3. CASE Goto(n, "done")
  BY <1>1, <1>2, <1>3 DEF Goto
<1>4. CASE loop' = [loop EXCEPT ![n].at = "read", ![n].due = CheckEvery]
  <2> DEFINE r == [loop[n] EXCEPT !.at = "read", !.due = CheckEvery]
  <2>1. r \in Loops /\ r.at = "read" /\ r.clear = loop[n].clear
        /\ r.quiet = loop[n].quiet /\ r.cancelled = loop[n].cancelled
    <3>1. CheckEvery \in 0..CheckEvery
      BY DEF ScheduleConstants
    <3> QED
      BY <1>1, <3>1 DEF Loops
  <2>2. loop' = [loop EXCEPT ![n] = r]
    BY <1>4 DEF ScheduleTyped, TypeOK
  <2> QED
    BY <1>2, <2>1, <2>2
<1> QED
  BY <1>3, <1>4 DEF Woken

LEMMA ReadShape ==
    ASSUME ScheduleTyped, NEW n \in Numbers,
           Read(n)
    PROVE  /\ Running /\ loop[n].at = "read"
           /\ \E r \in Loops :
                 /\ loop' = [loop EXCEPT ![n] = r]
                 /\ \/ sched = NoSchedule /\ r = Done
                    \/ /\ sched # NoSchedule
                       /\ r.at \in {"expire", "look"} /\ r.seen = sched.no
                       /\ r.clear = loop[n].clear
                       /\ r.quiet = loop[n].quiet /\ r.cancelled = loop[n].cancelled
           /\ UNCHANGED <<doing, busy, session, key, row, sched, calm, dropped, now, stop,
                          saved, requests>>
<1>1. loop[n] \in Loops /\ Done \in Loops
  BY LoopRecords
<1>2. /\ Running /\ loop[n].at = "read"
      /\ UNCHANGED <<doing, busy, session, key, row, sched, calm, dropped, now, stop,
                     saved, requests>>
  BY DEF Read, Step, claudeVars
<1>3. CASE sched = NoSchedule /\ Goto(n, "done")
  BY <1>1, <1>2, <1>3 DEF Goto
<1>4. CASE /\ sched # NoSchedule
           /\ loop' = [loop EXCEPT ![n].seen = sched.no,
                          ![n].at = IF sched.left = 0 THEN "expire" ELSE "look"]
  <2> DEFINE r == [loop[n] EXCEPT !.seen = sched.no,
                      !.at = IF sched.left = 0 THEN "expire" ELSE "look"]
  <2>1. r \in Loops /\ r.at \in {"expire", "look"} /\ r.seen = sched.no
        /\ r.clear = loop[n].clear
        /\ r.quiet = loop[n].quiet /\ r.cancelled = loop[n].cancelled
    BY <1>1 DEF Loops, ScheduleTyped, TypeOK
  <2>2. loop' = [loop EXCEPT ![n] = r]
    BY <1>4 DEF ScheduleTyped, TypeOK
  <2> QED
    BY <1>2, <1>4, <2>1, <2>2
<1> QED
  BY <1>3, <1>4 DEF Read

LEMMA ExpireShape ==
    ASSUME ScheduleTyped, NEW n \in Numbers,
           Expire(n)
    PROVE  /\ Running /\ loop[n].at = "expire"
           /\ sched' = NoSchedule
           /\ loop' \in [Numbers -> Loops]
           /\ loop' = [m \in Numbers |->
                          IF m = n THEN Done
                          ELSE [loop[m] EXCEPT !.cancelled = loop[m].cancelled \/ m = sched.no]]
           /\ UNCHANGED <<doing, busy, session, key, row, calm, dropped, now, stop, saved,
                          requests>>
<1>1. /\ Running /\ loop[n].at = "expire"
      /\ sched' = NoSchedule
      /\ loop' = [m \in Numbers |->
                     IF m = n THEN Done
                     ELSE [loop[m] EXCEPT !.cancelled = loop[m].cancelled \/ m = sched.no]]
      /\ UNCHANGED <<doing, busy, session, key, row, calm, dropped, now, stop, saved,
                     requests>>
  BY DEF Expire, Step, claudeVars
<1>2. ASSUME NEW m \in Numbers
      PROVE  [loop[m] EXCEPT !.cancelled = loop[m].cancelled \/ m = sched.no] \in Loops
  <2>1. loop[m] \in Loops
    BY LoopRecords
  <2> DEFINE ended == loop[m].cancelled \/ m = sched.no
  <2>2. ended \in BOOLEAN
    OBVIOUS
  <2> HIDE DEF ended
  <2>3. [loop[m] EXCEPT !.cancelled = ended] \in Loops
    BY <2>1, <2>2 DEF Loops
  <2> QED
    BY <2>3 DEF ended
<1>3. loop' \in [Numbers -> Loops]
  BY <1>1, <1>2, LoopRecords
<1> QED
  BY <1>1, <1>3

LEMMA LookShape ==
    ASSUME ScheduleTyped, NEW n \in Numbers,
           Look(n)
    PROVE  /\ Running /\ loop[n].at = "look"
           /\ \E r \in Loops :
                 /\ loop' = [loop EXCEPT ![n] = r]
                 /\ r.seen = loop[n].seen /\ r.cancelled = loop[n].cancelled
                 /\ \/ /\ r.at = "wait" /\ ~r.clear /\ calm' = [calm EXCEPT ![n] = 0]
                    \/ /\ FALSE \in Findings(n) /\ calm' = calm
                       /\ r.quiet = IF loop[n].clear THEN loop[n].quiet ELSE 0
                       /\ r.at = IF r.quiet < Quiet THEN "wait" ELSE "take"
           /\ UNCHANGED <<doing, busy, session, key, row, sched, dropped, now, stop, saved,
                          requests>>
<1> DEFINE quiet == IF loop[n].clear THEN loop[n].quiet ELSE 0
<1>1. loop[n] \in Loops /\ quiet \in 0..MaxTime
  BY LoopRecords DEF Loops, ScheduleConstants
<1>2. /\ Running /\ loop[n].at = "look"
      /\ UNCHANGED <<doing, busy, session, key, row, sched, dropped, now, stop, saved,
                     requests>>
  BY DEF Look, Step, claudeVars
<1>3. CASE /\ loop' = [loop EXCEPT ![n].clear = FALSE, ![n].at = "wait"]
           /\ calm' = [calm EXCEPT ![n] = 0]
  <2> DEFINE r == [loop[n] EXCEPT !.clear = FALSE, !.at = "wait"]
  <2>1. /\ r \in Loops /\ r.at = "wait" /\ ~r.clear
        /\ r.seen = loop[n].seen /\ r.cancelled = loop[n].cancelled
    BY <1>1 DEF Loops
  <2>2. loop' = [loop EXCEPT ![n] = r]
    BY <1>3 DEF ScheduleTyped, TypeOK
  <2> QED
    BY <1>2, <1>3, <2>1, <2>2
<1>4. CASE /\ FALSE \in Findings(n)
           /\ loop' = [loop EXCEPT ![n].clear = TRUE, ![n].quiet = quiet,
                          ![n].at = IF quiet < Quiet THEN "wait" ELSE "take"]
           /\ calm' = calm
  <2> DEFINE place == IF quiet < Quiet THEN "wait" ELSE "take"
             r == [loop[n] EXCEPT !.clear = TRUE, !.quiet = quiet, !.at = place]
  <2>1. loop' = [loop EXCEPT ![n] = r]
    BY <1>4 DEF ScheduleTyped, TypeOK
  <2>2. place \in {"wait", "take"}
    OBVIOUS
  <2> HIDE DEF quiet, place
  <2>3. /\ r \in Loops /\ r.at = place /\ r.quiet = quiet
        /\ r.seen = loop[n].seen /\ r.cancelled = loop[n].cancelled
    BY <1>1, <2>2 DEF Loops
  <2> HIDE DEF r
  <2>4. r.quiet = IF loop[n].clear THEN loop[n].quiet ELSE 0
    BY <2>3 DEF quiet
  <2>5. r.at = IF r.quiet < Quiet THEN "wait" ELSE "take"
    BY <2>3 DEF place
  <2> QED
    BY <1>2, <1>4, <2>1, <2>3, <2>4, <2>5
<1> QED
  BY <1>3, <1>4 DEF Look

LEMMA TakeShape ==
    ASSUME ScheduleTyped, NEW n \in Numbers,
           Take(n)
    PROVE  /\ Running /\ loop[n].at = "take"
           /\ \E r \in Loops :
                 /\ loop' = [loop EXCEPT ![n] = r]
                 /\ \/ /\ sched.no = loop[n].seen /\ sched' = NoSchedule
                       /\ r.at = "save" /\ r.seen = loop[n].seen /\ r.clear = loop[n].clear
                       /\ r.quiet = loop[n].quiet /\ r.cancelled = loop[n].cancelled
                    \/ r = Done /\ sched' = sched
           /\ UNCHANGED <<doing, busy, session, key, row, calm, dropped, now, stop, saved,
                          requests>>
<1>1. loop[n] \in Loops /\ Done \in Loops
  BY LoopRecords
<1>2. /\ Running /\ loop[n].at = "take"
      /\ UNCHANGED <<doing, busy, session, key, row, calm, dropped, now, stop, saved,
                     requests>>
  BY DEF Take, Step, claudeVars
<1>3. CASE /\ sched.no = loop[n].seen /\ sched' = NoSchedule
           /\ Goto(n, "save")
  <2> DEFINE r == [loop[n] EXCEPT !.at = "save"]
  <2>1. /\ r \in Loops /\ r.at = "save" /\ r.seen = loop[n].seen /\ r.clear = loop[n].clear
        /\ r.quiet = loop[n].quiet /\ r.cancelled = loop[n].cancelled
    BY <1>1 DEF Loops
  <2>2. loop' = [loop EXCEPT ![n] = r]
    BY <1>3 DEF Goto
  <2> QED
    BY <1>2, <1>3, <2>1, <2>2
<1>4. CASE Goto(n, "done") /\ sched' = sched
  BY <1>1, <1>2, <1>4 DEF Goto
<1> QED
  BY <1>3, <1>4 DEF Take

LEMMA SaveShape ==
    ASSUME ScheduleTyped, NEW n \in Numbers,
           Save(n)
    PROVE  /\ Running /\ loop[n].at = "save"
           /\ Done \in Loops /\ loop' = [loop EXCEPT ![n] = Done]
           /\ \/ /\ saved' = IF loop[n].cancelled THEN {} ELSE Hosted
                 /\ Ask(loop[n].seen)
              \/ UNCHANGED <<saved, stop>>
           /\ UNCHANGED <<doing, busy, session, key, row, sched, calm, dropped, now, requests>>
BY LoopRecords DEF Save, Step, claudeVars, Goto

LEMMA AskTyped ==
    ASSUME ScheduleTyped, NEW no \in Numbers \cup {0}, Ask(no)
    PROVE  /\ stop' \in [at: {"no", "asked", "stopped"}, by: Numbers \cup {0}]
           /\ stop' = IF stop.at = "no" THEN [at |-> "asked", by |-> no] ELSE stop
BY DEF ScheduleTyped, TypeOK, Ask

LEMMA TickShape ==
    ASSUME ScheduleTyped, Tick
    PROVE  /\ Running /\ stop.at # "asked" /\ now # "save"
           /\ \A n \in Numbers :
                 /\ loop[n].at \in {"none", "wait", "done"}
                 /\ loop[n].at = "wait" => loop[n].due # 0 /\ ~loop[n].cancelled
           /\ busy' = [c \in Claudes |-> doing[c] # "idle"]
           /\ sched' = [sched EXCEPT !.left = IF sched.left = 0 THEN 0 ELSE sched.left - 1]
           /\ loop' \in [Numbers -> Loops]
           /\ \A n \in Numbers :
                 /\ loop[n].at # "wait" => loop'[n] = loop[n]
                 /\ loop'[n].at = loop[n].at /\ loop'[n].seen = loop[n].seen
                 /\ loop'[n].clear = loop[n].clear /\ loop'[n].cancelled = loop[n].cancelled
                 /\ loop[n].at = "wait" /\ loop[n].clear =>
                       loop'[n].quiet = Later(loop[n].quiet)
           /\ calm' = [n \in Numbers |->
                          IF loop[n].at = "wait" THEN Later(calm[n]) ELSE 0]
           /\ UNCHANGED <<doing, session, key, row, dropped, now, stop, saved, requests>>
<1>1. /\ Running /\ stop.at # "asked" /\ now # "save"
      /\ \A n \in Numbers : ~Due(n)
      /\ busy' = [c \in Claudes |-> doing[c] # "idle"]
      /\ sched' = [sched EXCEPT !.left = IF sched.left = 0 THEN 0 ELSE sched.left - 1]
      /\ loop' = [n \in Numbers |->
                    IF loop[n].at # "wait" THEN loop[n]
                    ELSE [loop[n] EXCEPT !.due = loop[n].due - 1,
                             !.quiet = IF loop[n].clear THEN Later(loop[n].quiet)
                                       ELSE 0]]
      /\ calm' = [n \in Numbers |->
                     IF loop[n].at = "wait" THEN Later(calm[n]) ELSE 0]
      /\ UNCHANGED <<doing, session, key, row, dropped, now, stop, saved, requests>>
  BY DEF Tick
<1>2. ASSUME NEW n \in Numbers
      PROVE  /\ loop[n].at \in {"none", "wait", "done"}
             /\ loop[n].at = "wait" => loop[n].due # 0 /\ ~loop[n].cancelled
  BY <1>1, LoopRecords DEF Due, Loops
<1>3. ASSUME NEW n \in Numbers
      PROVE  /\ loop'[n] \in Loops
             /\ loop[n].at # "wait" => loop'[n] = loop[n]
             /\ loop'[n].at = loop[n].at /\ loop'[n].seen = loop[n].seen
             /\ loop'[n].clear = loop[n].clear /\ loop'[n].cancelled = loop[n].cancelled
             /\ loop[n].at = "wait" /\ loop[n].clear =>
                   loop'[n].quiet = Later(loop[n].quiet)
  <2> DEFINE quiet == IF loop[n].clear THEN Later(loop[n].quiet) ELSE 0
             due == loop[n].due - 1
  <2>1. loop[n] \in Loops
    BY LoopRecords
  <2>2. CASE loop[n].at # "wait"
    BY <1>1, <2>1, <2>2
  <2>3. CASE loop[n].at = "wait"
    <3>1. due \in 0..CheckEvery /\ quiet \in 0..MaxTime
      BY <1>2, <2>1, <2>3 DEF Loops, Later, ScheduleConstants
    <3>2. loop'[n] = [loop[n] EXCEPT !.due = due, !.quiet = quiet]
      BY <1>1, <2>3
    <3>3. loop[n].clear => quiet = Later(loop[n].quiet)
      OBVIOUS
    <3> HIDE DEF due, quiet
    <3>4. /\ loop'[n] \in Loops /\ loop'[n].quiet = quiet
          /\ loop'[n].at = loop[n].at /\ loop'[n].seen = loop[n].seen
          /\ loop'[n].clear = loop[n].clear /\ loop'[n].cancelled = loop[n].cancelled
      BY <2>1, <3>1, <3>2 DEF Loops
    <3> QED
      BY <2>3, <3>3, <3>4
  <2> QED
    BY <2>2, <2>3
<1>4. loop' \in [Numbers -> Loops]
  <2>1. DOMAIN loop' = Numbers /\ loop' = [n \in Numbers |-> loop'[n]]
    BY <1>1
  <2> QED
    BY <1>3, <2>1
<1> QED
  BY <1>1, <1>2, <1>3, <1>4

LEMMA ScheduleTypedNext ==
    ASSUME ScheduleTyped, [Next]_vars
    PROVE  ScheduleTyped'
<1>0. /\ sched \in [no: Numbers \cup {0}, left: 0..MaxTime]
      /\ sched.no = 0 => sched = NoSchedule
      /\ NoSchedule \in [no: Numbers \cup {0}, left: 0..MaxTime]
      /\ loop \in [Numbers -> Loops] /\ calm \in [Numbers -> 0..MaxTime]
      /\ dropped \subseteq Numbers /\ now \in {"idle", "save"}
      /\ stop \in [at: {"no", "asked", "stopped"}, by: Numbers \cup {0}]
      /\ saved \subseteq Sessions /\ requests \in 0..MaxRequests
      /\ Hosted \subseteq Sessions
  BY DEF ScheduleTyped, TypeOK, Loops, NoSchedule, Hosted, ScheduleConstants
<1>1. CASE UNCHANGED vars
  BY <1>0, <1>1, RestTyped DEF vars, claudeVars
<1>2. ASSUME NEW c \in Claudes,
             \/ BeginTurn(c) \/ AskApproval(c) \/ ShowDialog(c)
             \/ Proceed(c) \/ EndTurn(c)
      PROVE  ScheduleTyped'
  <2>1. PICK what \in Doings, says \in Rows : Does(c, what, says)
    BY <1>2, DoesShape
  <2> QED
    BY <2>1, DoesTyped
<1>3. ASSUME NEW c \in Claudes, Clear(c) PROVE ScheduleTyped'
  BY <1>3, ClearTyped
<1>4. ASSUME NEW t \in Timeouts, Schedule(t) PROVE ScheduleTyped'
  <2>1. /\ Request /\ sched' = [no |-> requests', left |-> t]
        /\ loop' = [loop EXCEPT ![requests'] = NewLoop]
        /\ UNCHANGED <<doing, busy, session, key, row, calm, dropped, now, stop, saved>>
    BY <1>4 DEF Schedule, claudeVars
  <2>2. requests' \in Numbers /\ requests' \in 0..MaxRequests /\ 0 \notin Numbers
    BY <2>1, Counted DEF Numbers
  <2>3. t \in 0..MaxTime
    BY DEF ScheduleConstants
  <2>4. /\ sched' \in [no: Numbers \cup {0}, left: 0..MaxTime]
        /\ sched'.no # 0
    BY <2>1, <2>2, <2>3
  <2>5. loop' \in [Numbers -> Loops]
    BY <2>1, <2>2, LoopRecords, GotoTyped
  <2> QED
    BY <1>0, <2>1, <2>2, <2>4, <2>5, RestTyped
<1>5. ASSUME NEW t \in Timeouts, Extend(t) PROVE ScheduleTyped'
  <2> DEFINE left == IF t > sched.left THEN t ELSE sched.left
  <2>1. /\ Request /\ sched # NoSchedule
        /\ sched' = [sched EXCEPT !.left = left]
        /\ UNCHANGED <<doing, busy, session, key, row, loop, calm, dropped, now, stop, saved>>
    BY <1>5 DEF Extend, claudeVars
  <2>2. requests' \in 0..MaxRequests
    BY <2>1, Counted
  <2>3. left \in 0..MaxTime
    BY <1>0 DEF ScheduleConstants
  <2> HIDE DEF left
  <2>4. /\ sched' \in [no: Numbers \cup {0}, left: 0..MaxTime]
        /\ sched'.no # 0
    BY <1>0, <2>1, <2>3
  <2> QED
    BY <1>0, <2>1, <2>2, <2>4, RestTyped
<1>6. CASE Cancel
  <2>1. /\ Request /\ sched # NoSchedule /\ Drop
        /\ dropped' = dropped \cup {sched.no}
        /\ UNCHANGED <<doing, busy, session, key, row, calm, now, stop, saved>>
    BY <1>6 DEF Cancel, claudeVars
  <2>2. requests' \in 0..MaxRequests
    BY <2>1, Counted
  <2>3. dropped' \subseteq Numbers
    BY <1>0, <2>1
  <2> QED
    BY <1>0, <2>1, <2>2, <2>3, DropShape, RestTyped
<1>7. CASE RestartAtOnce
  <2>1. /\ Request /\ Drop /\ now' = "save"
        /\ UNCHANGED <<doing, busy, session, key, row, calm, dropped, stop, saved>>
    BY <1>7 DEF RestartAtOnce, claudeVars
  <2> QED
    BY <1>0, <2>1, DropShape, Counted, RestTyped
<1>8. CASE SaveAtOnce
  <2>1. /\ now' = "idle"
        /\ UNCHANGED <<doing, busy, session, key, row, sched, loop, calm, dropped, requests>>
        /\ \/ saved' \in {Hosted, {}} /\ Ask(0)
           \/ UNCHANGED <<saved, stop>>
    BY <1>8 DEF SaveAtOnce, claudeVars
  <2>2. /\ stop' \in [at: {"no", "asked", "stopped"}, by: Numbers \cup {0}]
        /\ saved' \subseteq Sessions
    BY <1>0, <2>1, AskTyped
  <2> QED
    BY <1>0, <2>1, <2>2, RestTyped
<1>9. ASSUME NEW n \in Numbers, LoopStep(n) PROVE ScheduleTyped'
  <2>1. CASE Woken(n)
    BY <1>0, <2>1, WokenShape, GotoTyped, RestTyped
  <2>2. CASE Read(n)
    BY <1>0, <2>2, ReadShape, GotoTyped, RestTyped
  <2>3. CASE Expire(n)
    BY <1>0, <2>3, ExpireShape, RestTyped
  <2>4. CASE Look(n)
    <3>1. PICK r \in Loops : loop' = [loop EXCEPT ![n] = r]
      BY <2>4, LookShape
    <3>2. /\ calm' = [calm EXCEPT ![n] = 0] \/ calm' = calm
          /\ UNCHANGED <<doing, busy, session, key, row, sched, dropped, now, stop, saved,
                         requests>>
      BY <2>4, LookShape
    <3>3. calm' \in [Numbers -> 0..MaxTime]
      BY <1>0, <3>2 DEF ScheduleConstants
    <3> QED
      BY <1>0, <3>1, <3>2, <3>3, GotoTyped, RestTyped
  <2>5. CASE Take(n)
    <3>1. PICK r \in Loops : loop' = [loop EXCEPT ![n] = r]
      BY <2>5, TakeShape
    <3>2. /\ sched' = sched \/ sched' = NoSchedule
          /\ UNCHANGED <<doing, busy, session, key, row, calm, dropped, now, stop, saved,
                         requests>>
      BY <2>5, TakeShape
    <3> QED
      BY <1>0, <3>1, <3>2, GotoTyped, RestTyped
  <2>6. CASE Save(n)
    <3>1. /\ loop[n].seen \in Numbers \cup {0}
          /\ Done \in Loops /\ loop' = [loop EXCEPT ![n] = Done]
          /\ UNCHANGED <<doing, busy, session, key, row, sched, calm, dropped, now, requests>>
      BY <2>6, SaveShape, LoopRecords DEF Loops
    <3>2. /\ stop' \in [at: {"no", "asked", "stopped"}, by: Numbers \cup {0}]
          /\ saved' \subseteq Sessions
      BY <1>0, <2>6, <3>1, SaveShape, AskTyped
    <3> QED
      BY <1>0, <3>1, <3>2, GotoTyped, RestTyped
  <2> QED
    BY <1>9, <2>1, <2>2, <2>3, <2>4, <2>5, <2>6 DEF LoopStep
<1>10. CASE Stop
  <2>1. /\ stop' = [stop EXCEPT !.at = "stopped"]
        /\ UNCHANGED <<doing, busy, session, key, row, sched, loop, calm, dropped, now, saved,
                       requests>>
    BY <1>10 DEF Stop, claudeVars
  <2> QED
    BY <1>0, <2>1, RestTyped
<1>11. CASE Tick
  <2>1. busy' \in [Claudes -> BOOLEAN]
    BY <1>11, TickShape
  <2>2. /\ sched' \in [no: Numbers \cup {0}, left: 0..MaxTime]
        /\ sched'.no = 0 => sched' = NoSchedule
    <3>1. sched' = [sched EXCEPT !.left = IF sched.left = 0 THEN 0 ELSE sched.left - 1]
      BY <1>11, TickShape
    <3> DEFINE left == IF sched.left = 0 THEN 0 ELSE sched.left - 1
    <3>2. left \in 0..MaxTime /\ (sched = NoSchedule => left = sched.left)
      BY <1>0 DEF NoSchedule, ScheduleConstants
    <3> HIDE DEF left
    <3>3. sched' = [sched EXCEPT !.left = left]
      BY <3>1 DEF left
    <3> QED
      BY <1>0, <3>2, <3>3
  <2>3. calm' \in [Numbers -> 0..MaxTime]
    <3>1. ASSUME NEW n \in Numbers
          PROVE  (IF loop[n].at = "wait" THEN Later(calm[n]) ELSE 0) \in 0..MaxTime
      BY <1>0 DEF Later, ScheduleConstants
    <3> QED
      BY <1>11, <3>1, TickShape
  <2>4. /\ loop' \in [Numbers -> Loops]
        /\ UNCHANGED <<doing, session, key, row, dropped, now, stop, saved, requests>>
    BY <1>11, TickShape
  <2> QED
    BY <2>1, <2>2, <2>3, <2>4 DEF ScheduleTyped, TypeOK, Loops
<1> QED
  BY <1>1, <1>2, <1>3, <1>4, <1>5, <1>6, <1>7, <1>8, <1>9, <1>10, <1>11 DEF Next

\* Every value of the model has its type, whenever cancelled goroutines end.
THEOREM TypeCorrect == Spec => []TypeOK
<1>1. ScheduleTyped => TypeOK
  BY DEF ScheduleTyped
<1> QED
  BY <1>1, ScheduleTypedInit, ScheduleTypedNext, PTL DEF Spec

Awake(n) == loop[n].at \notin {"none", "done"}

\* One goroutine at a time looks, and the schedule there is is its own; it has
\* taken the schedule when it saves; one that was cancelled does not restart.
OneLooks ==
    /\ \A m, n \in Numbers : Awake(m) /\ Awake(n) => m = n
    /\ sched.no # 0 => Awake(sched.no) /\ ~loop[sched.no].cancelled
    /\ \A n \in Numbers :
          /\ Awake(n) \/ n \in dropped \/ stop.by = n => n <= requests
          /\ loop[n].at \in {"expire", "look", "take", "save"} => loop[n].seen = n
          /\ loop[n].at = "save" => sched.no # n /\ ~loop[n].cancelled
          /\ n \in dropped => sched.no # n /\ loop[n].at # "save" /\ stop.by # n
          /\ stop.by = n => loop[n].at = "done" /\ stop.at # "no"

\* What the steps of n's goroutine keep: it looks, or is done, with the schedule
\* as it is.
LEMMA OneLooksGoes ==
    ASSUME ScheduleTyped, OneLooks, NEW n \in Numbers, NEW r \in Loops,
           Awake(n), loop' = [loop EXCEPT ![n] = r],
           r.at \in {"save", "done"} => sched'.no # n,
           r.at # "done" => r.cancelled = loop[n].cancelled,
           r.at \in {"expire", "look", "take", "save"} => r.seen = n,
           r.at = "save" => n \notin dropped /\ ~r.cancelled,
           r.at # "none",
           sched' = sched \/ sched'.no = 0,
           UNCHANGED <<dropped, stop, requests>>
    PROVE  OneLooks'
<1>1. /\ loop \in [Numbers -> Loops] /\ sched.no \in Numbers \cup {0}
      /\ 0 \notin Numbers
  BY DEF ScheduleTyped, TypeOK, Loops, Numbers
<1>2. loop'[n] = r /\ \A m \in Numbers : m # n => loop'[m] = loop[m]
  BY <1>1
<1>3. stop.by # n
  BY DEF OneLooks, Awake
<1>4. sched'.no # 0 => sched'.no = n
  BY <1>1 DEF OneLooks
<1>5. sched'.no # 0 => r.at \notin {"done", "none"} /\ ~r.cancelled
  BY <1>1, <1>4 DEF OneLooks
<1> QED
  BY <1>1, <1>2, <1>3, <1>4, <1>5 DEF OneLooks, Awake

\* The steps that leave the goroutines, and only forget the schedule.
LEMMA OneLooksStays ==
    ASSUME ScheduleTyped, OneLooks, loop' = loop, sched'.no = sched.no, dropped' = dropped,
           requests' \in Nat, requests' >= requests, stop'.by = stop.by,
           stop.at # "no" => stop'.at # "no"
    PROVE  OneLooks'
BY DEF OneLooks, Awake, ScheduleTyped, TypeOK, Numbers

LEMMA OneLooksDrop ==
    ASSUME ScheduleTyped, OneLooks, Drop,
           dropped' = dropped \/ (sched.no # 0 /\ dropped' = dropped \cup {sched.no}),
           requests' \in Nat, requests' >= requests, stop' = stop
    PROVE  OneLooks'
<1>1. /\ loop \in [Numbers -> Loops] /\ sched.no \in Numbers \cup {0}
      /\ 0 \notin Numbers /\ Numbers \subseteq Nat /\ requests \in Nat
  BY DEF ScheduleTyped, TypeOK, Loops, Numbers
<1>2. sched'.no = 0
  BY DropShape DEF NoSchedule
<1>3. ASSUME NEW n \in Numbers
      PROVE  /\ loop'[n].at = loop[n].at /\ loop'[n].seen = loop[n].seen
             /\ n # sched.no => loop'[n] = loop[n]
  BY <1>1, <1>3, DropShape DEF Loops
<1>4. \A n \in dropped' : n \in dropped \/ n = sched.no
  OBVIOUS
<1>5. \A n \in Numbers : Awake(n)' <=> Awake(n)
  BY <1>3 DEF Awake
<1>6. ASSUME NEW n \in Numbers
      PROVE  /\ Awake(n) \/ n \in dropped' \/ stop.by = n => n <= requests'
             /\ loop[n].at = "save" => ~loop'[n].cancelled
             /\ n \in dropped' => loop[n].at # "save" /\ stop.by # n
  <2>1. Awake(n) \/ n \in dropped \/ stop.by = n => n <= requests
    BY DEF OneLooks
  <2>2. n = sched.no => Awake(n) /\ loop[n].at # "save" /\ stop.by # n
    BY <1>1 DEF OneLooks, Awake
  <2>3. /\ loop[n].at = "save" => ~loop[n].cancelled
        /\ n \in dropped => loop[n].at # "save" /\ stop.by # n
    BY DEF OneLooks
  <2> QED
    BY <1>1, <1>3, <1>4, <2>1, <2>2, <2>3
<1>7. ASSUME NEW n \in Numbers
      PROVE  /\ loop[n].at \in {"expire", "look", "take", "save"} => loop[n].seen = n
             /\ stop.by = n => loop[n].at = "done" /\ stop.at # "no"
  BY DEF OneLooks
<1>8. \A m, n \in Numbers : Awake(m) /\ Awake(n) => m = n
  BY DEF OneLooks
<1> QED
  BY <1>1, <1>2, <1>3, <1>5, <1>6, <1>7, <1>8 DEF OneLooks

LEMMA OneLooksNext ==
    ASSUME Prompt, ScheduleTyped, OneLooks,
           [Next]_vars
    PROVE  OneLooks'
<1>0. /\ loop \in [Numbers -> Loops] /\ sched.no \in Numbers \cup {0}
      /\ 0 \notin Numbers /\ Numbers \subseteq Nat /\ requests \in Nat
      /\ sched.no = 0 => sched = NoSchedule
  BY DEF ScheduleTyped, TypeOK, Loops, Numbers
<1>1. CASE UNCHANGED vars
  BY <1>0, <1>1, OneLooksStays DEF vars
<1>2. ASSUME NEW c \in Claudes,
             \/ BeginTurn(c) \/ AskApproval(c) \/ ShowDialog(c)
             \/ Proceed(c) \/ EndTurn(c) \/ Clear(c)
      PROVE  OneLooks'
  <2>1. UNCHANGED <<sched, loop, dropped, stop, requests>>
    BY <1>2, DoesShape DEF Does, Clear
  <2> QED
    BY <1>0, <2>1, OneLooksStays
<1>3. ASSUME NEW t \in Timeouts, Schedule(t) PROVE OneLooks'
  <2>1. /\ Request /\ sched' = [no |-> requests', left |-> t]
        /\ loop' = [loop EXCEPT ![requests'] = NewLoop]
        /\ \A n \in Numbers : ~Awake(n)
        /\ UNCHANGED <<dropped, stop>>
    BY <1>3 DEF Schedule, Awake
  <2>2. requests' \in Numbers /\ requests' = requests + 1
    BY <2>1, Counted
  <2>3. /\ loop'[requests'] = NewLoop
        /\ \A n \in Numbers : n # requests' => loop'[n] = loop[n]
        /\ sched'.no = requests'
    BY <1>0, <2>1, <2>2
  <2>4. NewLoop.at = "wait" /\ ~NewLoop.cancelled
    BY <2>2, LoopRecords
  <2>5. \A n \in Numbers : n \in dropped \/ stop.by = n => n < requests'
    BY <1>0, <2>2 DEF OneLooks
  <2>6. \A n \in Numbers : Awake(n)' <=> n = requests'
    BY <2>1, <2>2, <2>3, <2>4 DEF Awake
  <2>7. ASSUME NEW n \in Numbers
        PROVE  /\ n = requests' \/ n \in dropped \/ stop.by = n => n <= requests'
               /\ loop'[n].at \notin {"expire", "look", "take", "save"}
               /\ n \in dropped => requests' # n /\ stop.by # n
               /\ stop.by = n => loop'[n].at = "done" /\ stop.at # "no"
    BY <1>0, <2>1, <2>2, <2>3, <2>4, <2>5 DEF OneLooks, Awake
  <2> QED
    BY <2>1, <2>2, <2>3, <2>4, <2>6, <2>7 DEF OneLooks
<1>4. ASSUME NEW t \in Timeouts, Extend(t) PROVE OneLooks'
  <2>1. /\ Request /\ sched'.no = sched.no /\ UNCHANGED <<loop, dropped, stop>>
    BY <1>4 DEF Extend, ScheduleTyped, TypeOK
  <2> QED
    BY <1>0, <2>1, OneLooksStays DEF Request
<1>5. CASE Cancel \/ RestartAtOnce
  <2>1. /\ Request /\ Drop /\ stop' = stop
        /\ dropped' = dropped \/ (sched.no # 0 /\ dropped' = dropped \cup {sched.no})
    BY <1>0, <1>5 DEF Cancel, RestartAtOnce
  <2>2. requests' \in Nat /\ requests' >= requests
    BY <1>0, <2>1 DEF Request
  <2> QED
    BY <2>1, <2>2, OneLooksDrop
<1>6. CASE SaveAtOnce
  <2>1. /\ UNCHANGED <<sched, loop, dropped, requests>>
        /\ Ask(0) \/ stop' = stop
    BY <1>6 DEF SaveAtOnce
  <2>2. CASE stop.at = "no" /\ Ask(0)
    <3>1. stop'.by = 0 /\ stop'.at = "asked"
      BY <2>2, AskTyped
    <3>2. \A n \in Numbers : stop'.by # n
      BY <1>0, <3>1
    <3> QED
      BY <2>1, <3>2 DEF OneLooks, Awake
  <2>3. CASE stop' = stop
    BY <1>0, <2>1, <2>3, OneLooksStays
  <2> QED
    BY <2>1, <2>2, <2>3 DEF Ask
<1>7. ASSUME NEW n \in Numbers, LoopStep(n) PROVE OneLooks'
  <2>0. sched.no # 0 /\ Awake(n) => sched.no = n
    BY <1>0 DEF OneLooks
  <2>1. CASE Woken(n)
    <3>1. PICK r \in Loops :
            /\ loop' = [loop EXCEPT ![n] = r]
            /\ r = Done \/ (r.at = "read" /\ r.cancelled = loop[n].cancelled)
      BY <2>1, WokenShape
    <3>2. loop[n].at = "wait" /\ UNCHANGED <<sched, dropped, stop, requests>>
      BY <2>1, WokenShape
    <3>3. r = Done => loop[n].cancelled
      <4>1. CASE loop[n].cancelled /\ Goto(n, "done")
        BY <4>1
      <4>2. CASE loop' = [loop EXCEPT ![n].at = "read", ![n].due = CheckEvery]
        <5>1. loop'[n].at = "read"
          BY <1>0, <4>2 DEF Loops
        <5> QED
          BY <1>0, <3>1, <5>1, LoopRecords
      <4> QED
        BY <2>1, <4>1, <4>2 DEF Woken
    <3>4. Awake(n)
      BY <3>2 DEF Awake
    <3>5. loop[n].cancelled => sched.no # n
      BY <1>0 DEF OneLooks
    <3>6. /\ r.at \in {"read", "done"}
          /\ r.at = "done" => loop[n].cancelled
          /\ r.at = "read" => r.cancelled = loop[n].cancelled
      BY <3>1, <3>3, LoopRecords
    <3> QED
      BY <3>1, <3>2, <3>4, <3>5, <3>6, OneLooksGoes
  <2>2. CASE Read(n)
    <3>1. PICK r \in Loops :
            /\ loop' = [loop EXCEPT ![n] = r]
            /\ \/ sched = NoSchedule /\ r = Done
               \/ /\ sched # NoSchedule
                  /\ r.at \in {"expire", "look"} /\ r.seen = sched.no
                  /\ r.cancelled = loop[n].cancelled
      BY <2>2, ReadShape
    <3>2. loop[n].at = "read" /\ UNCHANGED <<sched, dropped, stop, requests>>
      BY <2>2, ReadShape
    <3>3. Awake(n)
      BY <3>2 DEF Awake
    <3>4. CASE sched = NoSchedule /\ r = Done
      <4>1. sched.no = 0 /\ r.at = "done"
        BY <3>4, LoopRecords DEF NoSchedule
      <4> QED
        BY <1>0, <3>1, <3>2, <3>3, <4>1, OneLooksGoes
    <3>5. CASE /\ sched # NoSchedule
               /\ r.at \in {"expire", "look"} /\ r.seen = sched.no
               /\ r.cancelled = loop[n].cancelled
      <4>1. r.seen = n
        BY <1>0, <2>0, <3>3, <3>5
      <4> QED
        BY <3>1, <3>2, <3>3, <3>5, <4>1, OneLooksGoes
    <3> QED
      BY <3>1, <3>4, <3>5
  <2>3. CASE Expire(n)
    <3>1. /\ loop[n].at = "expire" /\ sched'.no = 0
          /\ UNCHANGED <<dropped, stop, requests>>
      BY <2>3, ExpireShape DEF NoSchedule
    <3>2. Awake(n)
      BY <3>1 DEF Awake
    <3>3. \A m \in Numbers : m # n => ~Awake(m)
      BY <3>2 DEF OneLooks
    <3>4. ASSUME NEW m \in Numbers
          PROVE  /\ loop'[m].at \in {"none", "done"}
                 /\ loop[m].at = "done" => loop'[m].at = "done"
      <4>1. CASE m = n
        BY <2>3, <4>1, ExpireShape, LoopRecords
      <4>2. CASE m # n
        <5>1. loop'[m].at = loop[m].at
          BY <1>0, <2>3, <4>2, ExpireShape DEF Loops
        <5> QED
          BY <3>3, <4>2, <5>1 DEF Awake
      <4> QED
        BY <4>1, <4>2
    <3> QED
      BY <1>0, <3>1, <3>4 DEF OneLooks, Awake
  <2>4. CASE Look(n)
    <3>1. PICK r \in Loops :
            /\ loop' = [loop EXCEPT ![n] = r]
            /\ r.seen = loop[n].seen /\ r.cancelled = loop[n].cancelled
            /\ r.at \in {"wait", "take"}
      BY <2>4, LookShape
    <3>2. loop[n].at = "look" /\ UNCHANGED <<sched, dropped, stop, requests>>
      BY <2>4, LookShape
    <3>3. Awake(n) /\ loop[n].seen = n
      BY <3>2 DEF Awake, OneLooks
    <3> QED
      BY <3>1, <3>2, <3>3, OneLooksGoes
  <2>5. CASE Take(n)
    <3>1. PICK r \in Loops :
            /\ loop' = [loop EXCEPT ![n] = r]
            /\ \/ /\ sched.no = loop[n].seen /\ sched' = NoSchedule
                  /\ r.at = "save" /\ r.seen = loop[n].seen /\ r.cancelled = loop[n].cancelled
               \/ r = Done /\ sched' = sched
      BY <2>5, TakeShape
    <3>2. loop[n].at = "take" /\ UNCHANGED <<dropped, stop, requests>>
      BY <2>5, TakeShape
    <3>3. Awake(n) /\ loop[n].seen = n
      BY <3>2 DEF Awake, OneLooks
    <3>4. CASE /\ sched.no = loop[n].seen /\ sched' = NoSchedule
               /\ r.at = "save" /\ r.seen = loop[n].seen /\ r.cancelled = loop[n].cancelled
      <4>1. sched'.no = 0 /\ 0 # n
        BY <1>0, <3>4 DEF NoSchedule
      <4>2. n \notin dropped /\ ~r.cancelled
        BY <1>0, <3>3, <3>4 DEF OneLooks
      <4> QED
        BY <3>1, <3>2, <3>3, <3>4, <4>1, <4>2, OneLooksGoes
    <3>5. CASE /\ r = Done /\ sched' = sched /\ sched.no # n
      BY <3>1, <3>2, <3>3, <3>5, LoopRecords, OneLooksGoes
    <3>6. sched.no = n => r # Done
      <4>1. CASE Goto(n, "save")
        <5>1. loop'[n].at = "save"
          BY <1>0, <4>1 DEF Goto, Loops
        <5> QED
          BY <1>0, <3>1, <5>1, LoopRecords
      <4>2. CASE sched.no # loop[n].seen
        BY <3>3, <4>2
      <4> QED
        BY <2>5, <4>1, <4>2 DEF Take
    <3> QED
      BY <3>1, <3>4, <3>5, <3>6
  <2>6. CASE Save(n)
    <3>1. /\ loop[n].at = "save" /\ loop' = [loop EXCEPT ![n] = Done]
          /\ Ask(loop[n].seen) \/ stop' = stop
          /\ UNCHANGED <<sched, dropped, requests>>
      BY <2>6, SaveShape
    <3>2. /\ Awake(n) /\ loop[n].seen = n /\ sched.no # n /\ n \notin dropped
      BY <3>1 DEF Awake, OneLooks
    <3>3. /\ loop'[n].at = "done"
          /\ \A m \in Numbers : m # n => loop'[m] = loop[m]
      BY <1>0, <3>1, LoopRecords
    <3>4. \/ stop' = stop
          \/ stop.at = "no" /\ stop'.at = "asked" /\ stop'.by = n
      BY <3>1, <3>2, AskTyped
    <3>5. sched.no = 0 /\ \A m \in Numbers : m # n => ~Awake(m)
      BY <1>0, <2>0, <3>2 DEF OneLooks
    <3>6. \A m \in Numbers : loop'[m].at \in {"none", "done"}
      BY <3>3, <3>5 DEF Awake
    <3>7. n <= requests
      BY <3>2 DEF OneLooks
    <3> QED
      BY <1>0, <3>1, <3>2, <3>3, <3>4, <3>5, <3>6, <3>7 DEF OneLooks, Awake
  <2> QED
    BY <1>7, <2>1, <2>2, <2>3, <2>4, <2>5, <2>6 DEF LoopStep
<1>8. CASE Stop
  <2>1. /\ stop'.by = stop.by /\ stop'.at = "stopped"
        /\ UNCHANGED <<sched, loop, dropped, requests>>
    BY <1>8 DEF Stop, ScheduleTyped, TypeOK
  <2> QED
    BY <1>0, <2>1, OneLooksStays
<1>9. CASE Tick
  <2>1. sched'.no = sched.no
    BY <1>9, TickShape DEF ScheduleTyped, TypeOK
  <2>2. /\ UNCHANGED <<dropped, stop, requests>>
        /\ \A n \in Numbers :
              /\ loop'[n].at = loop[n].at /\ loop'[n].seen = loop[n].seen
              /\ loop'[n].cancelled = loop[n].cancelled
    BY <1>9, TickShape
  <2>3. \A n \in Numbers : Awake(n)' <=> Awake(n)
    BY <2>2 DEF Awake
  <2>4. sched'.no # 0 => Awake(sched.no)' /\ ~loop'[sched'.no].cancelled
    <3>1. sched.no # 0 => Awake(sched.no) /\ ~loop[sched.no].cancelled
      BY DEF OneLooks
    <3>2. sched.no # 0 => sched.no \in Numbers
      BY <1>0
    <3> QED
      BY <2>1, <2>2, <3>1, <3>2 DEF Awake
  <2>5. \A m, n \in Numbers : Awake(m)' /\ Awake(n)' => m = n
    BY <2>3 DEF OneLooks
  <2>6. ASSUME NEW n \in Numbers
        PROVE  /\ Awake(n) \/ n \in dropped \/ stop.by = n => n <= requests
               /\ loop[n].at \in {"expire", "look", "take", "save"} => loop[n].seen = n
               /\ loop[n].at = "save" => sched.no # n /\ ~loop[n].cancelled
               /\ n \in dropped => sched.no # n /\ loop[n].at # "save" /\ stop.by # n
               /\ stop.by = n => loop[n].at = "done" /\ stop.at # "no"
    BY DEF OneLooks
  <2> QED
    BY <2>1, <2>2, <2>3, <2>4, <2>5, <2>6 DEF OneLooks
<1> QED
  BY <1>1, <1>2, <1>3, <1>4, <1>5, <1>6, <1>7, <1>8, <1>9 DEF Next

\* A clear run of looks is no longer than the calm, and long enough when the
\* schedule is taken.
CalmLooks ==
    \A n \in Numbers :
        /\ loop[n].at \in {"none", "done"} => ~loop[n].clear
        /\ loop[n].clear => loop[n].quiet <= calm[n]
        /\ loop[n].at \in {"take", "save"} \/ stop.by = n => calm[n] >= Quiet

\* The rows tell what the claudes do, but for dialogs; what no claude has run is
\* idle.
RowsTell ==
    /\ \A c \in Claudes :
          /\ busy[c] => doing[c] # "idle"
          /\ doing[c] # "dialog" => row[session[c]] = doing[c]
    /\ \A s \in Sessions : key[s] = None => row[s] = "idle"

\* No claude with one key has been busy since before the last tick.
Spared == \A c \in Claudes : KeysOf(c) = {session[c]} => ~busy[c]

\* That is what a look that was clear has found, and what holds until the stop.
SparedWhenTaken ==
    \A n \in Numbers :
        \/ loop[n].at = "take" /\ ~loop[n].cancelled
        \/ loop[n].at = "save"
        \/ stop.by = n
        => Spared

LEMMA CalmStays ==
    ASSUME CalmLooks, calm' = calm, stop'.by = stop.by,
           \A n \in Numbers :
               loop'[n].at = loop[n].at /\ loop'[n].clear = loop[n].clear
               /\ loop'[n].quiet = loop[n].quiet
    PROVE  CalmLooks'
BY DEF CalmLooks

LEMMA CalmGoes ==
    ASSUME ScheduleTyped, CalmLooks, NEW n \in Numbers, NEW r \in Loops,
           loop' = [loop EXCEPT ![n] = r], calm' = calm,
           stop'.by = stop.by \/ (stop'.by = n /\ loop[n].at = "save"),
           r.at \in {"none", "done"} => ~r.clear,
           r.clear => r.quiet <= calm[n],
           r.at \in {"take", "save"} => calm[n] >= Quiet
    PROVE  CalmLooks'
<1>1. loop'[n] = r /\ \A m \in Numbers : m # n => loop'[m] = loop[m]
  BY DEF ScheduleTyped, TypeOK
<1> QED
  BY <1>1 DEF CalmLooks

LEMMA CalmLooksNext ==
    ASSUME ScheduleTyped, OneLooks, CalmLooks,
           [Next]_vars
    PROVE  CalmLooks'
<1>0. /\ loop \in [Numbers -> Loops] /\ calm \in [Numbers -> 0..MaxTime]
      /\ 0 \notin Numbers /\ MaxTime \in Nat /\ Quiet \in Nat
  BY SMTT(40) DEF ScheduleTyped, TypeOK, Loops, Numbers, ScheduleConstants
<1>1. CASE UNCHANGED vars
  BY <1>1, CalmStays DEF vars
<1>2. ASSUME NEW c \in Claudes,
             \/ BeginTurn(c) \/ AskApproval(c) \/ ShowDialog(c)
             \/ Proceed(c) \/ EndTurn(c) \/ Clear(c)
      PROVE  CalmLooks'
  <2>1. UNCHANGED <<loop, calm, stop>>
    BY <1>2, DoesShape DEF Does, Clear
  <2> QED
    BY <2>1, CalmStays
<1>3. ASSUME NEW t \in Timeouts, Schedule(t) PROVE CalmLooks'
  <2>1. /\ Request /\ loop' = [loop EXCEPT ![requests'] = NewLoop]
        /\ UNCHANGED <<calm, stop>>
    BY <1>3 DEF Schedule
  <2>2. requests' \in Numbers
    BY <2>1, Counted
  <2>3. /\ NewLoop \in Loops /\ NewLoop.at = "wait" /\ ~NewLoop.clear
    BY <2>2, LoopRecords
  <2> QED
    BY <2>1, <2>2, <2>3, CalmGoes
<1>4. ASSUME NEW t \in Timeouts, Extend(t) PROVE CalmLooks'
  BY <1>4, CalmStays DEF Extend
<1>5. CASE Cancel \/ RestartAtOnce
  <2>1. Drop /\ UNCHANGED <<calm, stop>>
    BY <1>5 DEF Cancel, RestartAtOnce
  <2>2. ASSUME NEW n \in Numbers
        PROVE  /\ loop'[n].at = loop[n].at /\ loop'[n].clear = loop[n].clear
               /\ loop'[n].quiet = loop[n].quiet
    BY <1>0, <2>1, <2>2, DropShape DEF Loops
  <2> QED
    BY <2>1, <2>2, CalmStays
<1>6. CASE SaveAtOnce
  <2>1. /\ UNCHANGED <<loop, calm>>
        /\ Ask(0) \/ stop' = stop
    BY <1>6 DEF SaveAtOnce
  <2>2. stop'.by = 0 \/ stop' = stop
    BY <2>1, AskTyped
  <2> QED
    BY <1>0, <2>1, <2>2 DEF CalmLooks
<1>7. ASSUME NEW n \in Numbers, LoopStep(n) PROVE CalmLooks'
  <2>0. /\ Done.at = "done" /\ ~Done.clear /\ loop[n] \in Loops
        /\ loop[n].clear => loop[n].quiet <= calm[n]
        /\ loop[n].at \in {"take", "save"} => calm[n] >= Quiet
    BY LoopRecords DEF CalmLooks
  <2>1. CASE Woken(n)
    <3>1. PICK r \in Loops :
            /\ loop' = [loop EXCEPT ![n] = r]
            /\ \/ r = Done
               \/ r.at = "read" /\ r.clear = loop[n].clear /\ r.quiet = loop[n].quiet
      BY <2>1, WokenShape
    <3>2. UNCHANGED <<calm, stop>>
      BY <2>1, WokenShape
    <3> QED
      BY <2>0, <3>1, <3>2, CalmGoes
  <2>2. CASE Read(n)
    <3>1. PICK r \in Loops :
            /\ loop' = [loop EXCEPT ![n] = r]
            /\ \/ r = Done
               \/ /\ r.at \in {"expire", "look"}
                  /\ r.clear = loop[n].clear /\ r.quiet = loop[n].quiet
      BY <2>2, ReadShape
    <3>2. UNCHANGED <<calm, stop>>
      BY <2>2, ReadShape
    <3> QED
      BY <2>0, <3>1, <3>2, CalmGoes
  <2>3. CASE Expire(n)
    <3>1. UNCHANGED <<calm, stop>>
      BY <2>3, ExpireShape
    <3>2. loop'[n] = Done
      BY <2>3, ExpireShape
    <3>3. ASSUME NEW m \in Numbers, m # n
          PROVE  /\ loop'[m].at = loop[m].at /\ loop'[m].clear = loop[m].clear
                 /\ loop'[m].quiet = loop[m].quiet
      BY <1>0, <2>3, <3>3, ExpireShape DEF Loops
    <3> QED
      BY <2>0, <3>1, <3>2, <3>3 DEF CalmLooks
  <2>4. CASE Look(n)
    <3>1. PICK r \in Loops :
            /\ loop' = [loop EXCEPT ![n] = r]
            /\ \/ /\ r.at = "wait" /\ ~r.clear /\ calm' = [calm EXCEPT ![n] = 0]
               \/ /\ calm' = calm
                  /\ r.quiet = IF loop[n].clear THEN loop[n].quiet ELSE 0
                  /\ r.at = IF r.quiet < Quiet THEN "wait" ELSE "take"
      BY <2>4, LookShape
    <3>2. loop[n].at = "look" /\ stop' = stop
      BY <2>4, LookShape
    <3>3. CASE r.at = "wait" /\ ~r.clear /\ calm' = [calm EXCEPT ![n] = 0]
      <4>1. /\ loop'[n] = r /\ \A m \in Numbers : m # n => loop'[m] = loop[m]
            /\ \A m \in Numbers : m # n => calm'[m] = calm[m]
        BY <1>0, <3>1, <3>3
      <4>2. stop.by # n
        BY <3>2 DEF OneLooks
      <4> QED
        BY <3>2, <3>3, <4>1, <4>2 DEF CalmLooks
    <3>4. CASE /\ calm' = calm
               /\ r.quiet = IF loop[n].clear THEN loop[n].quiet ELSE 0
               /\ r.at = IF r.quiet < Quiet THEN "wait" ELSE "take"
      <4>1. r.quiet \in Nat /\ calm[n] \in Nat
        BY <1>0 DEF Loops
      <4>2. r.quiet <= calm[n]
        BY <2>0, <3>4, <4>1
      <4>3. /\ r.at \notin {"none", "done", "save"}
            /\ r.at = "take" => calm[n] >= Quiet
        BY <1>0, <3>4, <4>1, <4>2
      <4> QED
        BY <3>1, <3>2, <3>4, <4>2, <4>3, CalmGoes
    <3> QED
      BY <3>1, <3>3, <3>4
  <2>5. CASE Take(n)
    <3>1. PICK r \in Loops :
            /\ loop' = [loop EXCEPT ![n] = r]
            /\ \/ r.at = "save" /\ r.clear = loop[n].clear /\ r.quiet = loop[n].quiet
               \/ r = Done
      BY <2>5, TakeShape
    <3>2. loop[n].at = "take" /\ UNCHANGED <<calm, stop>>
      BY <2>5, TakeShape
    <3> QED
      BY <2>0, <3>1, <3>2, CalmGoes
  <2>6. CASE Save(n)
    <3>1. /\ loop[n].at = "save" /\ Done \in Loops /\ calm' = calm
          /\ loop' = [loop EXCEPT ![n] = Done]
          /\ Ask(loop[n].seen) \/ stop' = stop
      BY <2>6, SaveShape
    <3>2. loop[n].seen = n
      BY <3>1 DEF OneLooks
    <3>3. stop' = stop \/ stop'.by = n
      BY <3>1, <3>2, AskTyped
    <3> QED
      BY <2>0, <3>1, <3>3, CalmGoes
  <2> QED
    BY <1>7, <2>1, <2>2, <2>3, <2>4, <2>5, <2>6 DEF LoopStep
<1>8. CASE Stop
  <2>1. stop'.by = stop.by /\ UNCHANGED <<loop, calm>>
    BY <1>8 DEF Stop, ScheduleTyped, TypeOK
  <2> QED
    BY <2>1, CalmStays
<1>9. CASE Tick
  <2>1. ASSUME NEW n \in Numbers PROVE stop.by # n /\ stop'.by # n
    <3>1. stop' = stop /\ stop.at \notin {"asked", "stopped"}
      BY <1>9, TickShape DEF Running
    <3>2. stop.at = "no"
      BY <3>1 DEF ScheduleTyped, TypeOK
    <3> QED
      BY <3>1, <3>2 DEF OneLooks
  <2>2. ASSUME NEW n \in Numbers
        PROVE  /\ loop'[n].at \in {"none", "done"} => ~loop'[n].clear
               /\ loop'[n].clear => loop'[n].quiet <= calm'[n]
               /\ loop'[n].at \notin {"take", "save"}
    <3>1. /\ loop[n].at \in {"none", "wait", "done"} /\ loop'[n].at = loop[n].at
          /\ loop'[n].clear = loop[n].clear
          /\ loop[n].at = "wait" /\ loop[n].clear =>
                loop'[n].quiet = Later(loop[n].quiet)
          /\ loop[n].at = "wait" => calm'[n] = Later(calm[n])
      BY <1>9, TickShape
    <3>2. /\ loop[n].at \in {"none", "done"} => ~loop[n].clear
          /\ loop[n].clear => loop[n].quiet <= calm[n]
      BY DEF CalmLooks
    <3>3. loop[n].quiet \in 0..MaxTime /\ calm[n] \in 0..MaxTime
      BY <1>0 DEF Loops
    <3> QED
      BY <1>0, <3>1, <3>2, <3>3 DEF Later
  <2> QED
    BY <2>1, <2>2 DEF CalmLooks
<1> QED
  BY <1>1, <1>2, <1>3, <1>4, <1>5, <1>6, <1>7, <1>8, <1>9 DEF Next

\* No two claudes run one session.
LEMMA SessionsDiffer ==
    ASSUME ScheduleTyped, NEW c \in Claudes, NEW d \in Claudes, session[c] = session[d]
    PROVE  c = d
BY DEF ScheduleTyped, TypeOK

LEMMA RowsTellNext ==
    ASSUME ScheduleTyped, RowsTell, [Next]_vars
    PROVE  RowsTell'
<1>0. /\ doing \in [Claudes -> Doings] /\ busy \in [Claudes -> BOOLEAN]
      /\ session \in [Claudes -> Sessions] /\ key \in [Sessions -> Claudes \cup {None}]
      /\ row \in [Sessions -> Rows] /\ None \notin Claudes
      /\ \A c \in Claudes : key[session[c]] = c
  BY DEF ScheduleTyped, TypeOK, ScheduleConstants
<1>1. ASSUME NEW c \in Claudes,
             \/ BeginTurn(c) \/ AskApproval(c) \/ ShowDialog(c)
             \/ Proceed(c) \/ EndTurn(c)
      PROVE  RowsTell'
  <2>1. PICK what \in Doings, says \in Rows :
          Does(c, what, says) /\ (what # "dialog" => says = what)
    BY <1>1, DoesShape
  <2>2. /\ doing' = [doing EXCEPT ![c] = what] /\ row' = [row EXCEPT ![session[c]] = says]
        /\ busy' = [busy EXCEPT ![c] = busy[c] /\ what # "idle"]
        /\ session' = session /\ key' = key
    BY <2>1 DEF Does
  <2>3. /\ doing'[c] = what /\ row'[session[c]] = says
        /\ \A d \in Claudes : d # c => doing'[d] = doing[d] /\ busy'[d] = busy[d]
        /\ \A s \in Sessions : s # session[c] => row'[s] = row[s]
    BY <1>0, <2>2
  <2>4. busy'[c] => what # "idle"
    BY <1>0, <2>2, Zenon
  <2>5. ASSUME NEW d \in Claudes
        PROVE  /\ busy'[d] => doing'[d] # "idle"
               /\ doing'[d] # "dialog" => row'[session'[d]] = doing'[d]
    <3>1. CASE d = c
      BY <2>1, <2>2, <2>3, <2>4, <3>1
    <3>2. CASE d # c
      <4>1. session[d] # session[c] /\ session[d] \in Sessions
        BY <1>0, <3>2
      <4> QED
        BY <2>2, <2>3, <3>2, <4>1 DEF RowsTell
    <3> QED
      BY <3>1, <3>2
  <2>6. ASSUME NEW s \in Sessions, key'[s] = None PROVE row'[s] = "idle"
    BY <1>0, <2>2, <2>3, <2>6 DEF RowsTell
  <2> QED
    BY <2>5, <2>6 DEF RowsTell
<1>2. ASSUME NEW c \in Claudes, Clear(c) PROVE RowsTell'
  <2>1. PICK s \in Sessions :
          /\ key[s] = None
          /\ session' = [session EXCEPT ![c] = s] /\ key' = [key EXCEPT ![s] = c]
    BY <1>2 DEF Clear
  <2>2. doing[c] = "idle" /\ UNCHANGED <<doing, busy, row>>
    BY <1>2 DEF Clear
  <2>3. /\ session'[c] = s /\ \A d \in Claudes : d # c => session'[d] = session[d]
        /\ \A u \in Sessions : u # s => key'[u] = key[u]
        /\ key'[s] = c
    BY <1>0, <2>1
  <2>4. row[s] = "idle"
    BY <2>1 DEF RowsTell
  <2> QED
    BY <1>0, <2>2, <2>3, <2>4 DEF RowsTell
<1>3. ASSUME UNCHANGED <<doing, session, key, row>>,
             busy' = busy \/ busy' = [c \in Claudes |-> doing[c] # "idle"]
      PROVE  RowsTell'
  <2>1. \A c \in Claudes : busy'[c] => doing[c] # "idle"
    BY <1>3 DEF RowsTell
  <2> QED
    BY <1>3, <2>1 DEF RowsTell
<1>4. CASE Tick
  BY <1>3, <1>4, TickShape
<1>5. CASE \/ \E t \in Timeouts : Schedule(t) \/ Extend(t)
           \/ Cancel \/ RestartAtOnce \/ SaveAtOnce
           \/ Stop \/ UNCHANGED vars
  BY <1>3, <1>5 DEF Schedule, Extend, Cancel, RestartAtOnce,
                    SaveAtOnce, Stop, vars, claudeVars
<1>6. ASSUME NEW n \in Numbers, LoopStep(n) PROVE RowsTell'
  BY <1>3, <1>6 DEF LoopStep, Woken, Read, Expire, Look, Take, Save, claudeVars
<1> QED
  BY <1>1, <1>2, <1>4, <1>5, <1>6 DEF Next

\* The claudes' steps spare whom the look has spared.
LEMMA SparedStays ==
    ASSUME ScheduleTyped, Spared,
           \/ UNCHANGED <<busy, session, key>>
           \/ \E c \in Claudes, what \in Doings, says \in Rows : Does(c, what, says)
           \/ \E c \in Claudes : Clear(c)
    PROVE  Spared'
<1>1. CASE UNCHANGED <<busy, session, key>>
  BY <1>1 DEF Spared, KeysOf
<1>2. ASSUME NEW c \in Claudes, NEW what \in Doings, NEW says \in Rows,
             Does(c, what, says)
      PROVE  Spared'
  <2>1. UNCHANGED <<session, key>> /\ busy' = [busy EXCEPT ![c] = busy[c] /\ what # "idle"]
    BY <1>2 DEF Does
  <2>2. ASSUME NEW d \in Claudes, busy'[d] PROVE busy[d]
    <3>1. busy \in [Claudes -> BOOLEAN]
      BY DEF ScheduleTyped, TypeOK
    <3> QED
      BY <2>1, <2>2, <3>1, Zenon
  <2> QED
    BY <2>1, <2>2 DEF Spared, KeysOf
<1>3. ASSUME NEW c \in Claudes, Clear(c) PROVE Spared'
  <2>0. /\ session \in [Claudes -> Sessions] /\ key \in [Sessions -> Claudes \cup {None}]
        /\ None \notin Claudes /\ \A d \in Claudes : key[session[d]] = d
    BY <1>3 DEF ScheduleTyped, TypeOK, ScheduleConstants
  <2>1. PICK s \in Sessions :
          /\ key[s] = None
          /\ session' = [session EXCEPT ![c] = s] /\ key' = [key EXCEPT ![s] = c]
          /\ busy' = busy
    BY <1>3 DEF Clear
  <2>2. ASSUME NEW d \in Claudes, d # c, KeysOf(d)' = {session'[d]} PROVE ~busy'[d]
    <3>1. session'[d] = session[d] /\ KeysOf(d)' = KeysOf(d)
      BY <2>0, <2>1, <2>2 DEF KeysOf
    <3> QED
      BY <2>1, <2>2, <3>1 DEF Spared
  <2>3. KeysOf(c)' # {session'[c]}
    <3>1. session'[c] = s /\ session[c] # s /\ session[c] \in Sessions
      BY <2>0, <2>1
    <3>2. key'[session[c]] = c
      BY <2>0, <2>1, <3>1
    <3>3. session[c] \in KeysOf(c)'
      BY <3>1, <3>2 DEF KeysOf
    <3> QED
      BY <3>1, <3>3
  <2> QED
    BY <2>2, <2>3 DEF Spared
<1> QED
  BY <1>1, <1>2, <1>3

\* A look that was clear, with the context alive, has seen nobody busy, but for
\* claudes that it may have looked for under another key.
LEMMA ClearLookSpares ==
    ASSUME ScheduleTyped, RowsTell, NEW n \in Numbers, ~loop[n].cancelled,
           FALSE \in Findings(n)
    PROVE  Spared
<1>1. PICK f \in [Claudes -> Sessions] :
        /\ \A c \in Claudes : key[f[c]] = c
        /\ ~\E c \in Claudes : Blocks(c, f[c])
  BY DEF Findings
<1>2. SUFFICES ASSUME NEW c \in Claudes, KeysOf(c) = {session[c]} PROVE ~busy[c]
  BY DEF Spared
<1>3. f[c] = session[c]
  BY <1>1, <1>2 DEF KeysOf
<1>4. row[session[c]] = "idle" /\ doing[c] # "dialog"
  BY <1>1, <1>3 DEF Blocks
<1> QED
  BY <1>4 DEF RowsTell

LEMMA TakenStays ==
    ASSUME SparedWhenTaken, Spared => Spared', stop'.by = stop.by,
           \A n \in Numbers :
               /\ loop'[n].at = loop[n].at
               /\ loop[n].cancelled => loop'[n].cancelled
    PROVE  SparedWhenTaken'
BY DEF SparedWhenTaken

LEMMA TakenGoes ==
    ASSUME ScheduleTyped, SparedWhenTaken, NEW n \in Numbers, NEW r \in Loops,
           loop' = [loop EXCEPT ![n] = r], UNCHANGED <<busy, session, key>>,
           stop'.by = stop.by \/ (stop'.by = n /\ loop[n].at = "save"),
           (r.at = "take" /\ ~r.cancelled) \/ r.at = "save" => Spared
    PROVE  SparedWhenTaken'
<1>1. loop'[n] = r /\ \A m \in Numbers : m # n => loop'[m] = loop[m]
  BY DEF ScheduleTyped, TypeOK
<1>2. Spared' <=> Spared
  BY DEF Spared, KeysOf
<1> QED
  BY <1>1, <1>2 DEF SparedWhenTaken

LEMMA TakenNext ==
    ASSUME ScheduleTyped, OneLooks, RowsTell, SparedWhenTaken,
           [Next]_vars
    PROVE  SparedWhenTaken'
<1>0. loop \in [Numbers -> Loops] /\ 0 \notin Numbers
  BY DEF ScheduleTyped, TypeOK, Loops, Numbers
<1>1. CASE UNCHANGED vars
  BY <1>1, SparedStays, TakenStays DEF vars, claudeVars
<1>2. ASSUME NEW c \in Claudes,
             \/ BeginTurn(c) \/ AskApproval(c) \/ ShowDialog(c)
             \/ Proceed(c) \/ EndTurn(c) \/ Clear(c)
      PROVE  SparedWhenTaken'
  <2>1. UNCHANGED <<loop, stop>>
    BY <1>2, DoesShape DEF Does, Clear
  <2>2. Spared => Spared'
    BY <1>2, DoesShape, SparedStays
  <2> QED
    BY <2>1, <2>2, TakenStays
<1>3. ASSUME NEW t \in Timeouts, Schedule(t) PROVE SparedWhenTaken'
  <2>1. /\ Request /\ loop' = [loop EXCEPT ![requests'] = NewLoop]
        /\ UNCHANGED <<busy, session, key, stop>>
    BY <1>3 DEF Schedule, claudeVars
  <2>2. requests' \in Numbers
    BY <2>1, Counted
  <2>3. NewLoop \in Loops /\ NewLoop.at = "wait"
    BY <2>2, LoopRecords
  <2> QED
    BY <2>1, <2>2, <2>3, TakenGoes
<1>4. ASSUME NEW t \in Timeouts, Extend(t) PROVE SparedWhenTaken'
  BY <1>4, SparedStays, TakenStays DEF Extend, claudeVars
<1>5. CASE Cancel \/ RestartAtOnce
  <2>1. Drop /\ UNCHANGED <<busy, session, key, stop>>
    BY <1>5 DEF Cancel, RestartAtOnce, claudeVars
  <2>2. ASSUME NEW n \in Numbers
        PROVE  loop'[n].at = loop[n].at /\ (loop[n].cancelled => loop'[n].cancelled)
    BY <1>0, <2>1, <2>2, DropShape DEF Loops
  <2> QED
    BY <2>1, <2>2, SparedStays, TakenStays
<1>6. CASE SaveAtOnce
  <2>1. /\ UNCHANGED <<loop, busy, session, key>>
        /\ Ask(0) \/ stop' = stop
    BY <1>6 DEF SaveAtOnce, claudeVars
  <2>2. stop'.by = 0 \/ stop' = stop
    BY <2>1, AskTyped
  <2>3. Spared => Spared'
    BY <2>1, SparedStays
  <2> QED
    BY <1>0, <2>1, <2>2, <2>3 DEF SparedWhenTaken
<1>7. ASSUME NEW n \in Numbers, LoopStep(n) PROVE SparedWhenTaken'
  <2>0. Done \in Loops /\ Done.at = "done"
    BY LoopRecords
  <2>1. CASE Woken(n)
    <3>1. PICK r \in Loops :
            loop' = [loop EXCEPT ![n] = r] /\ (r = Done \/ r.at = "read")
      BY <2>1, WokenShape
    <3>2. UNCHANGED <<busy, session, key, stop>>
      BY <2>1, WokenShape
    <3> QED
      BY <2>0, <3>1, <3>2, TakenGoes
  <2>2. CASE Read(n)
    <3>1. PICK r \in Loops :
            /\ loop' = [loop EXCEPT ![n] = r]
            /\ r = Done \/ r.at \in {"expire", "look"}
      BY <2>2, ReadShape
    <3>2. UNCHANGED <<busy, session, key, stop>>
      BY <2>2, ReadShape
    <3> QED
      BY <2>0, <3>1, <3>2, TakenGoes
  <2>3. CASE Expire(n)
    <3>1. UNCHANGED <<busy, session, key, stop>> /\ loop'[n] = Done
      BY <2>3, ExpireShape
    <3>2. ASSUME NEW m \in Numbers, m # n
          PROVE  loop'[m].at = loop[m].at /\ (loop[m].cancelled => loop'[m].cancelled)
      BY <1>0, <2>3, <3>2, ExpireShape DEF Loops
    <3>3. Spared => Spared'
      BY <3>1, SparedStays
    <3> QED
      BY <2>0, <3>1, <3>2, <3>3 DEF SparedWhenTaken
  <2>4. CASE Look(n)
    <3>1. PICK r \in Loops :
            /\ loop' = [loop EXCEPT ![n] = r] /\ r.cancelled = loop[n].cancelled
            /\ r.at = "wait" \/ (FALSE \in Findings(n) /\ r.at # "save")
      BY <2>4, LookShape
    <3>2. UNCHANGED <<busy, session, key, stop>>
      BY <2>4, LookShape
    <3>3. r.at = "take" /\ ~r.cancelled => Spared
      BY <3>1, ClearLookSpares
    <3> QED
      BY <3>1, <3>2, <3>3, TakenGoes
  <2>5. CASE Take(n)
    <3>1. PICK r \in Loops :
            /\ loop' = [loop EXCEPT ![n] = r]
            /\ sched.no = loop[n].seen \/ r = Done
      BY <2>5, TakeShape
    <3>2. loop[n].at = "take" /\ UNCHANGED <<busy, session, key, stop>>
      BY <2>5, TakeShape
    <3>3. sched.no = loop[n].seen => ~loop[n].cancelled
      BY <1>0, <3>2 DEF OneLooks
    <3>4. r.at # "done" => Spared
      BY <2>0, <3>1, <3>2, <3>3 DEF SparedWhenTaken
    <3> QED
      BY <3>1, <3>2, <3>4, TakenGoes
  <2>6. CASE Save(n)
    <3>1. /\ loop[n].at = "save" /\ loop' = [loop EXCEPT ![n] = Done]
          /\ Ask(loop[n].seen) \/ stop' = stop
          /\ UNCHANGED <<busy, session, key>>
      BY <2>6, SaveShape
    <3>2. loop[n].seen = n
      BY <3>1 DEF OneLooks
    <3>3. stop' = stop \/ stop'.by = n
      BY <3>1, <3>2, AskTyped
    <3> QED
      BY <2>0, <3>1, <3>3, TakenGoes
  <2> QED
    BY <1>7, <2>1, <2>2, <2>3, <2>4, <2>5, <2>6 DEF LoopStep
<1>8. CASE Stop
  <2>1. stop'.by = stop.by /\ UNCHANGED <<loop, busy, session, key>>
    BY <1>8 DEF Stop, ScheduleTyped, TypeOK, claudeVars
  <2> QED
    BY <2>1, SparedStays, TakenStays
<1>9. CASE Tick
  <2>1. ASSUME NEW n \in Numbers PROVE stop.by # n /\ stop'.by # n
    <3>1. stop' = stop /\ stop.at \notin {"asked", "stopped"}
      BY <1>9, TickShape DEF Running
    <3>2. stop.at = "no"
      BY <3>1 DEF ScheduleTyped, TypeOK
    <3> QED
      BY <3>1, <3>2 DEF OneLooks
  <2>2. \A n \in Numbers : loop'[n].at \in {"none", "wait", "done"}
    BY <1>9, TickShape
  <2> QED
    BY <2>1, <2>2 DEF SparedWhenTaken
<1> QED
  BY <1>1, <1>2, <1>3, <1>4, <1>5, <1>6, <1>7, <1>8, <1>9 DEF Next

ScheduleInv == ScheduleTyped /\ OneLooks /\ CalmLooks /\ RowsTell /\ SparedWhenTaken

LEMMA ScheduleInvInit == Init => ScheduleInv
<1> SUFFICES ASSUME Init PROVE ScheduleInv
  OBVIOUS
<1>1. ScheduleTyped
  BY ScheduleTypedInit
<1>2. /\ \A n \in Numbers : loop[n].at = "none" /\ ~loop[n].clear
      /\ sched.no = 0 /\ dropped = {} /\ stop.by = 0 /\ 0 \notin Numbers
  BY DEF Init, NoLoop, NoSchedule, Numbers
<1>3. /\ \A c \in Claudes : ~busy[c] /\ doing[c] = "idle"
      /\ \A s \in Sessions : row[s] = "idle"
  BY DEF Init
<1>4. \A c \in Claudes : session[c] \in Sessions
  BY <1>1 DEF ScheduleTyped, TypeOK
<1>5. OneLooks /\ CalmLooks /\ SparedWhenTaken
  BY <1>2 DEF OneLooks, Awake, CalmLooks, SparedWhenTaken
<1>6. RowsTell
  BY <1>3, <1>4 DEF RowsTell
<1> QED
  BY <1>1, <1>5, <1>6 DEF ScheduleInv

LEMMA ScheduleInvariant ==
    ASSUME Prompt
    PROVE  Spec => []ScheduleInv
<1>1. ScheduleInv /\ [Next]_vars => ScheduleInv'
  BY ScheduleTypedNext, OneLooksNext, CalmLooksNext, RowsTellNext, TakenNext DEF ScheduleInv
<1> QED
  BY <1>1, ScheduleInvInit, PTL DEF Spec

\* A restart that was scheduled comes after as long a calm as restartQuiet asks
\* for, and never from a schedule whose DELETE was answered.
THEOREM RestartsWait ==
    ASSUME Prompt
    PROVE  Spec => []RestartsAreDue
<1>1. ScheduleInv => RestartsAreDue
  BY DEF ScheduleInv, OneLooks, CalmLooks, RestartsAreDue
<1> QED
  BY <1>1, ScheduleInvariant, PTL

\* A scheduled restart cuts off no claude that has run one session only and was
\* at work, at a dialog or with something in the background when it last looked.
THEOREM FirstSessionsAreSpared ==
    ASSUME Prompt
    PROVE  Spec => []NoFirstSessionIsCutOff
<1>1. ScheduleInv => NoFirstSessionIsCutOff
  <2> SUFFICES ASSUME ScheduleInv, NEW c \in Claudes, CutOff(c),
                      Cardinality(KeysOf(c)) = 1
               PROVE  FALSE
    BY DEF NoFirstSessionIsCutOff
  <2>1. IsFiniteSet(KeysOf(c))
    <3>1. IsFiniteSet(Sessions)
      BY DEF ScheduleConstants
    <3>2. KeysOf(c) \subseteq Sessions
      BY DEF KeysOf
    <3> QED
      BY <3>1, <3>2, FS_Subset
  <2>2. PICK s : KeysOf(c) = {s}
    BY <2>1, FS_Singleton
  <2>3. session[c] \in KeysOf(c)
    BY DEF ScheduleInv, ScheduleTyped, TypeOK, KeysOf
  <2>4. KeysOf(c) = {session[c]}
    BY <2>2, <2>3
  <2>5. stop.by \in Numbers /\ busy[c]
    BY DEF CutOff, ScheduleInv, ScheduleTyped, TypeOK
  <2> QED
    BY <2>4, <2>5 DEF ScheduleInv, SparedWhenTaken, Spared
<1> QED
  BY <1>1, ScheduleInvariant, PTL

\* What a scheduled restart saves is every hosted session: no request that comes
\* too late ends the context under which they are read.
THEOREM HostedAreSaved ==
    ASSUME Prompt
    PROVE  Spec => AllHostedAreSaved
<1>1. ASSUME ScheduleInv, [Next]_vars, NEW n \in Numbers,
             loop[n].at = "save", loop'[n].at = "done", saved' # saved \/ stop' # stop
      PROVE  saved' = Hosted
  <2>0. /\ ScheduleTyped /\ loop \in [Numbers -> Loops] /\ ~loop[n].cancelled
        /\ \A m \in Numbers : m # n => ~Awake(m)
    BY <1>1 DEF ScheduleInv, ScheduleTyped, TypeOK, Loops, OneLooks, Awake
  <2>1. CASE Save(n)
    BY <1>1, <2>0, <2>1, SaveShape
  <2>2. ASSUME NEW m \in Numbers, LoopStep(m), ~Save(n) PROVE FALSE
    <3>1. m = n
      <4>1. Awake(m)
        BY <2>2 DEF LoopStep, Woken, Read, Expire, Look, Take, Save, Step, Awake
      <4> QED
        BY <2>0, <4>1
    <3> QED
      BY <1>1, <2>2, <3>1 DEF LoopStep, Woken, Read, Expire, Look, Take, Step
  <2>3. ASSUME loop' = loop \/ UNCHANGED <<saved, stop>> PROVE FALSE
    BY <1>1, <2>3
  <2>4. CASE Tick
    BY <1>1, <2>3, <2>4 DEF Tick
  <2>5. CASE \/ \E t \in Timeouts : Schedule(t) \/ Extend(t)
             \/ Cancel \/ RestartAtOnce \/ SaveAtOnce
             \/ Stop \/ UNCHANGED vars
    BY <2>3, <2>5 DEF Schedule, Extend, Cancel, RestartAtOnce, SaveAtOnce, Stop, vars
  <2>6. ASSUME NEW c \in Claudes,
               \/ BeginTurn(c) \/ AskApproval(c) \/ ShowDialog(c)
               \/ Proceed(c) \/ EndTurn(c) \/ Clear(c)
        PROVE  FALSE
    BY <2>3, <2>6, DoesShape DEF Does, Clear
  <2> QED
    BY <1>1, <2>1, <2>2, <2>4, <2>5, <2>6 DEF Next
<1>2. ScheduleInv /\ [Next]_vars =>
        [\A n \in Numbers :
            /\ loop[n].at = "save" /\ loop'[n].at = "done"
            /\ saved' # saved \/ stop' # stop
            => saved' = Hosted]_<<loop, stop, saved>>
  BY <1>1
<1> QED
  BY <1>2, ScheduleInvariant, PTL DEF Spec, AllHostedAreSaved
=============================================================================
