------------------------------- MODULE Attention -------------------------------
(***************************************************************************)
(* What a hosted session wants from the operator                           *)
(* (src/internal/server/attention.go, the hook handlers of server.go, and  *)
(* the attention and wait columns of src/internal/db/db.go).               *)
(*                                                                         *)
(* Three writers share one mark: hooks, the watcher of the screen, and     *)
(* whoever looks at the session.  The watcher goes by its own memory of    *)
(* what it has set, not by the mark.  One session, in one claude.          *)
(*                                                                         *)
(* Hooks are posted to the same machine: claude goes on after a hook has   *)
(* been handled.  A handler's statements are one step.                     *)
(***************************************************************************)
CONSTANTS
    Texts,  \* what a dialog may say
    None

VARIABLES
    hosted,    \* is the session's claude in the map, and alive?
    exited,    \* history: has it ever exited?
    turn,      \* is claude at work, and was its last turn interrupted?
    question,  \* is it in a tool call that waits on the operator?
    screen,    \* the dialog on the screen
    closed,    \* history: texts of dialogs closed since the last look
    declared,  \* history: the wait declared in this turn, or the interrupted one
    hook,      \* the hook on its way
    mark,      \* attention, and who set it
    wait,      \* the wait declared with set_status
    stopped,   \* wait_stopped: has it been through a Stop?
    shown,     \* shown: the text the watcher has set
    look       \* the watcher: between looks, or about to act on what it read

claude == <<turn, question, screen, closed, declared>>
row == <<mark, wait, stopped>>
vars == <<hosted, exited, claude, hook, row, shown, look>>

Waits == {"answer", "action", "report", "background"}
WaitNeedsYou == {"answer", "action"}
Hooks == {"UserPrompt", "PreTool", "PostTool", "Notification", "Stop"}

ASSUME AttentionAssumption == None \notin Texts \cup Hooks

NoMark == [kind |-> "none", by |-> "none"]
NeedsYou(by) == [kind |-> "needs_you", by |-> by]
Unread == [kind |-> "done", by |-> "Stop"]

Watching == [at |-> "ticker", read |-> None]

Init ==
    /\ hosted = TRUE
    /\ exited = FALSE
    /\ turn = "idle"
    /\ question = FALSE
    /\ screen = None
    /\ closed = {}
    /\ declared = "none"
    /\ hook = None
    /\ mark = NoMark
    /\ wait = "none"
    /\ stopped = FALSE
    /\ shown = None
    /\ look = Watching

-----------------------------------------------------------------------------
(* Claude and the operator at its terminal. *)

Goes == hosted /\ hook = None

\* A turn begins: with a prompt, or woken by something in the background.
Begin(by) ==
    /\ Goes
    /\ turn # "working"
    /\ screen = None
    /\ turn' = "working"
    /\ declared' = IF by = "background" /\ turn = "interrupted" THEN declared ELSE "none"
    /\ hook' = IF by = "operator" THEN "UserPrompt" ELSE None
    /\ UNCHANGED <<hosted, exited, question, screen, closed, row, shown, look>>

\* Mutant: a new declaration keeps the mark of the old one's Stop.
DeclareAgain(w) ==
    /\ Goes
    /\ turn = "working"
    /\ screen = None
    /\ declared' = w
    /\ wait' = w
    /\ UNCHANGED <<hosted, exited, turn, question, screen, closed, hook, mark,
                   stopped, shown, look>>

\* set_status, which is answered: SetWait; "none" takes a declaration back.
Declare(w) ==
    /\ Goes
    /\ turn = "working"
    /\ screen = None
    /\ declared' = w
    /\ wait' = w
    /\ stopped' = FALSE
    /\ UNCHANGED <<hosted, exited, turn, question, screen, closed, hook, mark,
                   shown, look>>

\* A question or a plan: its hook and its dialog; a permission prompt or, in an
\* idle claude, a menu: the dialog only.  The same text does not come back
\* before the watcher has looked.
Show(text, asks) ==
    /\ Goes
    /\ screen = None
    /\ text \notin closed
    /\ asks => turn = "working"
    /\ screen' = text
    /\ question' = asks
    /\ hook' = IF asks THEN "PreTool" ELSE None
    /\ UNCHANGED <<hosted, exited, turn, closed, declared, row, shown, look>>

\* Claude tells that it needs permission.
Notify ==
    /\ Goes
    /\ screen # None
    /\ ~question
    /\ turn = "working"
    /\ hook' = "Notification"
    /\ UNCHANGED <<hosted, exited, claude, row, shown, look>>

Dismissed ==
    /\ Goes
    /\ screen # None
    /\ screen' = None
    /\ closed' = closed \cup {screen}
    /\ question' = FALSE

\* The dialog is answered, or the menu left.
Answer ==
    /\ Dismissed
    /\ hook' = IF question THEN "PostTool" ELSE None
    /\ UNCHANGED <<hosted, exited, turn, declared, row, shown, look>>

\* The turn is interrupted at a dialog: no hook tells.
Interrupt ==
    /\ turn = "working"
    /\ Dismissed
    /\ turn' = "interrupted"
    /\ UNCHANGED <<hosted, exited, declared, hook, row, shown, look>>

EndTurn ==
    /\ Goes
    /\ turn = "working"
    /\ screen = None
    /\ turn' = "idle"
    /\ hook' = "Stop"
    /\ UNCHANGED <<hosted, exited, question, screen, closed, declared, row, shown,
                   look>>

\* Claude exits, wherever it is; the collector may have restarted it.
Exit ==
    /\ Goes
    /\ hosted' = FALSE
    /\ exited' = TRUE
    /\ turn' = IF turn = "working" THEN "interrupted" ELSE turn
    /\ question' = FALSE
    /\ screen' = None
    /\ closed' = closed \cup ({screen} \ {None})
    /\ UNCHANGED <<declared, hook, row, shown, look>>

Resume ==
    /\ ~hosted
    /\ hosted' = TRUE
    /\ UNCHANGED <<exited, claude, hook, row, shown, look>>

-----------------------------------------------------------------------------
(* Handlers. *)

Handles(h) ==
    /\ hook = h
    /\ hook' = None
    /\ UNCHANGED <<hosted, exited, claude, shown, look>>

\* handleUserPrompt: the mark goes, and the declaration is answered.
UserPrompt ==
    /\ Handles("UserPrompt")
    /\ mark' = NoMark
    /\ wait' = "none"
    /\ stopped' = FALSE

\* attentionFromPreTool.
PreTool ==
    /\ Handles("PreTool")
    /\ mark' = NeedsYou("hook")
    /\ UNCHANGED <<wait, stopped>>

\* ClearAttention(needs_you).
Cleared == IF mark.kind = "needs_you" THEN NoMark ELSE mark

\* attentionFromPostTool.
PostTool ==
    /\ Handles("PostTool")
    /\ mark' = Cleared
    /\ UNCHANGED <<wait, stopped>>

\* attentionFromNotification.
Notification ==
    /\ Handles("Notification")
    /\ mark' = NeedsYou("hook")
    /\ UNCHANGED <<wait, stopped>>

\* TurnWait: a wait that has been through a Stop is of an earlier turn.
TurnWait == IF stopped THEN "none" ELSE wait

\* handleStop: what the turn declared, or an unread "done".
Stop ==
    /\ Handles("Stop")
    /\ mark' = IF TurnWait \in WaitNeedsYou THEN NeedsYou("Stop") ELSE Unread
    /\ wait' = TurnWait
    /\ stopped' = (TurnWait # "none")

\* Somebody opens the session in the TUI or the portal.
MarkSeen ==
    /\ mark.kind = "done"
    /\ mark' = NoMark
    /\ UNCHANGED <<hosted, exited, claude, hook, wait, stopped, shown, look>>

-----------------------------------------------------------------------------
(* attentionLoop. *)

\* The map and the screen are read; without an entry the memory goes.
Look ==
    /\ look.at = "ticker"
    /\ closed' = {}
    /\ IF hosted THEN /\ look' = [at |-> "act", read |-> screen]
                      /\ UNCHANGED shown
                 ELSE /\ shown' = None
                      /\ UNCHANGED look
    /\ UNCHANGED <<hosted, exited, turn, question, screen, declared, hook, row>>

\* What was read is compared with the memory, and the mark set or cleared.
Appeared == look.read # None /\ shown # look.read
Vanished == look.read = None /\ shown # None

Acts ==
    /\ look.at = "act"
    /\ look' = Watching
    /\ UNCHANGED <<hosted, exited, claude, hook, wait, stopped>>

\* Mutant: the mark is cleared and the memory of it kept.
ActAndKeep ==
    /\ Acts
    /\ mark' = CASE Appeared -> NeedsYou("screen")
                 [] Vanished -> Cleared
                 [] OTHER -> mark
    /\ shown' = IF Appeared THEN look.read ELSE shown

\* Mutant: a text that replaces another is marked and not remembered.
ActAndForget ==
    /\ Acts
    /\ mark' = CASE Appeared -> NeedsYou("screen")
                 [] Vanished -> Cleared
                 [] OTHER -> mark
    /\ shown' = IF Appeared /\ shown # None THEN None ELSE look.read

Act ==
    /\ Acts
    /\ mark' = CASE Appeared -> NeedsYou("screen")
                 [] Vanished -> Cleared
                 [] OTHER -> mark
    /\ shown' = look.read

-----------------------------------------------------------------------------
Handle ==
    \/ UserPrompt
    \/ PreTool
    \/ PostTool
    \/ Notification
    \/ Stop

Next ==
    \/ \E by \in {"operator", "background"} : Begin(by)
    \/ \E w \in Waits \cup {"none"} : Declare(w)
    \/ \E text \in Texts, asks \in BOOLEAN : Show(text, asks)
    \/ Notify
    \/ Answer
    \/ Interrupt
    \/ EndTurn
    \/ Exit
    \/ Resume
    \/ Handle
    \/ MarkSeen
    \/ Look
    \/ Act

Spec == Init /\ [][Next]_vars

\* Hooks are handled, and the watcher's ticker fires.
FairSpec == Spec /\ WF_vars(Handle) /\ WF_vars(Look) /\ WF_vars(Act)

-----------------------------------------------------------------------------
TypeOK ==
    /\ hosted \in BOOLEAN
    /\ exited \in BOOLEAN
    /\ turn \in {"idle", "working", "interrupted"}
    /\ question \in BOOLEAN
    /\ screen \in Texts \cup {None}
    /\ closed \subseteq Texts
    /\ declared \in Waits \cup {"none"}
    /\ hook \in Hooks \cup {None}
    /\ mark \in {NoMark, Unread} \cup {NeedsYou(by) : by \in {"hook", "Stop", "screen"}}
    /\ wait \in Waits \cup {"none"}
    /\ stopped \in BOOLEAN
    /\ stopped => wait # "none"
    /\ shown \in Texts \cup {None}
    /\ look \in [at: {"ticker", "act"}, read: Texts \cup {None}]

\* A dialog the watcher believes to have marked is marked, so that it is right
\* not to set the mark again.  (attentionLoop: shown against the hooks' writes.)
DialogStaysMarked ==
    look.at = "ticker" /\ screen # None /\ shown = screen => mark.kind = "needs_you"

\* A mark set from the screen goes when the dialog does, as long as claude has
\* never exited.  (attentionLoop: "mirrors them into the session's attention".)
ScreenMarksEnd ==
    mark.by = "screen" /\ screen = None /\ ~exited
        ~> mark.by # "screen" \/ screen # None \/ exited

\* A turn leaves what was declared in it: needs_you for an answer or an action,
\* and "done" otherwise, whatever an earlier turn declared, unless that one was
\* interrupted and never reached its Stop.  (handleStop, TurnWait, SetWait.)
TurnEndsAsDeclared ==
    [][hook = "Stop" /\ hook' = None =>
          mark'.kind = IF declared \in WaitNeedsYou THEN "needs_you" ELSE "done"]_vars

\* A declared wait on the operator "stays until the next prompt, being looked
\* at doesn't clear it" (attention.go:32-33): between turns, nothing but a
\* prompt takes the mark away.
DeclaredWaitStays ==
    [][mark.kind = "needs_you" /\ stopped /\ wait \in WaitNeedsYou /\ turn = "idle"
          /\ hook = None
          => mark'.kind = "needs_you"]_vars
=============================================================================
