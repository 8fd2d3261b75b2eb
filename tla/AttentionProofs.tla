---------------------------- MODULE AttentionProofs ----------------------------
(***************************************************************************)
(* Theorems about Attention, for any set of texts.                         *)
(***************************************************************************)
EXTENDS Attention, TLAPS

-----------------------------------------------------------------------------
\* What is declared, and what the row has of it.  Between turns the row has
\* nothing that has not been through a Stop; within one, a turn interrupted
\* before its Stop included, it has what was declared.
DeclaredInv ==
    /\ hook = "UserPrompt" => declared = "none" /\ turn = "working"
    /\ hook = "Stop" => turn = "idle"
    /\ turn = "idle" /\ hook # "Stop" => TurnWait = "none"
    /\ turn # "idle" /\ hook # "UserPrompt" => declared = TurnWait
    /\ hook = "Stop" => declared = TurnWait

\* No hook that takes a mark away is on its way while a dialog is open.
QuietInv == screen # None => hook \notin {"UserPrompt", "PostTool", "Stop"}

\* The text of a dialog the watcher has marked, or is about to, was closed since
\* the last look, or is on the screen and marked.
MarkedInv ==
    /\ screen \notin closed
    /\ look.at = "ticker" /\ shown # None =>
          shown \in closed \/ (screen = shown /\ mark.kind = "needs_you")
    /\ look.at = "act" /\ look.read # None =>
          \/ look.read \in closed
          \/ screen = look.read /\ (shown = screen => mark.kind = "needs_you")

-----------------------------------------------------------------------------
(* Types. *)

LEMMA TypeInit == Init => TypeOK
<1> SUFFICES ASSUME Init PROVE TypeOK
  OBVIOUS
<1>1. look \in [at: {"ticker", "act"}, read: Texts \cup {None}]
  BY DEF Init, Watching
<1>2. hook \in Hooks \cup {None} /\ wait \in Waits \cup {"none"}
  BY DEF Init
<1> QED
  BY <1>1, <1>2 DEF Init, TypeOK

\* Every step keeps the types.
LEMMA TypeNext == TypeOK /\ [Next]_vars => TypeOK'
<1> SUFFICES ASSUME TypeOK, [Next]_vars PROVE TypeOK'
  OBVIOUS
<1> USE AttentionAssumption
    DEF TypeOK, Hooks, Waits, NoMark, Unread, NeedsYou, Goes, claude, row, TurnWait,
        Watching
<1>1. ASSUME NEW by \in {"operator", "background"}, Begin(by) PROVE TypeOK'
  BY <1>1 DEF Begin
<1>2. ASSUME NEW w \in Waits \cup {"none"}, Declare(w) PROVE TypeOK'
  BY <1>2 DEF Declare
<1>3. ASSUME NEW text \in Texts, NEW asks \in BOOLEAN, Show(text, asks) PROVE TypeOK'
  BY <1>3 DEF Show
<1>4. ASSUME Notify PROVE TypeOK'
  BY <1>4 DEF Notify
<1>5. ASSUME Answer PROVE TypeOK'
  <2>1. hook' \in Hooks \cup {None}
    BY <1>5 DEF Answer
  <2>2. closed' \subseteq Texts
    BY <1>5 DEF Answer, Dismissed
  <2>3. /\ screen' = None
        /\ question' = FALSE
        /\ UNCHANGED <<hosted, exited, turn, declared, row, shown, look>>
    BY <1>5 DEF Answer, Dismissed
  <2>4. /\ screen' \in Texts \cup {None}
        /\ question' \in BOOLEAN
    BY <2>3
  <2>5. UNCHANGED <<hosted, exited, turn, declared, mark, wait, stopped, shown, look>>
    BY <2>3
  <2> QED
    BY ONLY TypeOK, <2>1, <2>2, <2>4, <2>5 DEF TypeOK
<1>6. ASSUME Interrupt PROVE TypeOK'
  BY <1>6, ZenonT(60) DEF Interrupt, Dismissed
<1>7. ASSUME EndTurn PROVE TypeOK'
  BY <1>7 DEF EndTurn
<1>8. ASSUME Exit PROVE TypeOK'
  BY <1>8, ZenonT(60) DEF Exit
<1>9. ASSUME Resume PROVE TypeOK'
  BY <1>9 DEF Resume
<1>10. ASSUME UserPrompt PROVE TypeOK'
  BY <1>10, ZenonT(60) DEF UserPrompt, Handles, NoMark
<1>11. ASSUME PreTool PROVE TypeOK'
  BY <1>11 DEF PreTool, Handles, NeedsYou
<1>12. ASSUME PostTool PROVE TypeOK'
  BY <1>12 DEF PostTool, Handles, Cleared, NoMark
<1>13. ASSUME Notification PROVE TypeOK'
  BY <1>13 DEF Notification, Handles, NeedsYou
<1>14. ASSUME Stop PROVE TypeOK'
  <2>1. /\ wait' \in Waits \cup {"none"}
        /\ stopped' \in BOOLEAN
        /\ stopped' => wait' # "none"
    BY <1>14 DEF Stop
  <2>2. mark' \in {NeedsYou("Stop"), Unread}
    BY <1>14 DEF Stop
  <2> QED
    BY <1>14, <2>1, <2>2 DEF Stop, Handles
<1>15. ASSUME MarkSeen PROVE TypeOK'
  BY <1>15 DEF MarkSeen, NoMark
<1>16. ASSUME Look PROVE TypeOK'
  BY <1>16 DEF Look
<1>17. ASSUME Act PROVE TypeOK'
  BY <1>17 DEF Act, Acts, Appeared, Vanished, Cleared, NeedsYou, NoMark, Watching
<1>18. ASSUME UNCHANGED vars PROVE TypeOK'
  BY <1>18 DEF vars, row
<1> QED
  BY <1>1, <1>2, <1>3, <1>4, <1>5, <1>6, <1>7, <1>8, <1>9, <1>10,
     <1>11, <1>12, <1>13, <1>14, <1>15, <1>16, <1>17, <1>18 DEF Next, Handle

\* The variables keep their types, whatever the texts.
THEOREM TypeCorrect == Spec => []TypeOK
  BY TypeInit, TypeNext, PTL DEF Spec

-----------------------------------------------------------------------------
(* Declared waits. *)

LEMMA DeclaredInit == Init => DeclaredInv
  BY AttentionAssumption DEF Init, DeclaredInv, TurnWait, Hooks

\* Every step keeps what is declared and what the row has of it in agreement.
LEMMA DeclaredNext == TypeOK /\ DeclaredInv /\ [Next]_vars => DeclaredInv'
<1> SUFFICES ASSUME TypeOK, DeclaredInv, [Next]_vars PROVE DeclaredInv'
  OBVIOUS
<1> USE AttentionAssumption DEF TypeOK, DeclaredInv, TurnWait, Hooks, Waits, Goes, claude, row
<1>1. ASSUME NEW by \in {"operator", "background"}, Begin(by) PROVE DeclaredInv'
  BY <1>1 DEF Begin
<1>2. ASSUME NEW w \in Waits \cup {"none"}, Declare(w) PROVE DeclaredInv'
  BY <1>2 DEF Declare
<1>3. ASSUME NEW text \in Texts, NEW asks \in BOOLEAN, Show(text, asks) PROVE DeclaredInv'
  BY <1>3 DEF Show
<1>4. ASSUME Notify PROVE DeclaredInv'
  BY <1>4 DEF Notify
<1>5. ASSUME Answer PROVE DeclaredInv'
  BY <1>5 DEF Answer, Dismissed
<1>6. ASSUME Interrupt PROVE DeclaredInv'
  BY <1>6 DEF Interrupt, Dismissed
<1>7. ASSUME EndTurn PROVE DeclaredInv'
  BY <1>7 DEF EndTurn
<1>8. ASSUME Exit PROVE DeclaredInv'
  BY <1>8 DEF Exit
<1>9. ASSUME Resume PROVE DeclaredInv'
  BY <1>9 DEF Resume
<1>10. ASSUME UserPrompt PROVE DeclaredInv'
  BY <1>10 DEF UserPrompt, Handles, NoMark
<1>11. ASSUME PreTool PROVE DeclaredInv'
  BY <1>11 DEF PreTool, Handles, NeedsYou
<1>12. ASSUME PostTool PROVE DeclaredInv'
  BY <1>12 DEF PostTool, Handles, Cleared, NoMark
<1>13. ASSUME Notification PROVE DeclaredInv'
  BY <1>13 DEF Notification, Handles, NeedsYou
<1>14. ASSUME Stop PROVE DeclaredInv'
  BY <1>14 DEF Stop, Handles, NeedsYou, Unread
<1>15. ASSUME MarkSeen PROVE DeclaredInv'
  BY <1>15 DEF MarkSeen, NoMark
<1>16. ASSUME Look PROVE DeclaredInv'
  BY <1>16 DEF Look
<1>17. ASSUME Act PROVE DeclaredInv'
  BY <1>17 DEF Act, Acts, Appeared, Vanished, Cleared, NeedsYou, NoMark, Watching
<1>18. ASSUME UNCHANGED vars PROVE DeclaredInv'
  BY <1>18 DEF vars, row
<1> QED
  BY <1>1, <1>2, <1>3, <1>4, <1>5, <1>6, <1>7, <1>8, <1>9, <1>10,
     <1>11, <1>12, <1>13, <1>14, <1>15, <1>16, <1>17, <1>18 DEF Next, Handle

\* handleStop finds what the turn declared, and no step but it handles a Stop.
LEMMA StopLeavesDeclared ==
  ASSUME DeclaredInv, [Next]_vars, hook = "Stop", hook' = None
  PROVE  mark'.kind = IF declared \in WaitNeedsYou THEN "needs_you" ELSE "done"
<1>1. None # "Stop"
  BY AttentionAssumption DEF Hooks
<1>2. Stop
  BY <1>1 DEF Next, Handle, vars, Goes, Handles, UserPrompt, PreTool, PostTool,
              Notification, Begin, Declare, Show, Notify, Answer, Interrupt, Dismissed,
              EndTurn, Exit, Resume, MarkSeen, Look, Act, Acts
<1>3. declared = TurnWait
  BY DEF DeclaredInv
<1> QED
  BY <1>2, <1>3 DEF Stop, NeedsYou, Unread

\* A turn leaves what was declared in it, at every Stop.
THEOREM TurnsEndAsDeclared == Spec => TurnEndsAsDeclared
<1>1. DeclaredInv /\ [Next]_vars =>
         [hook = "Stop" /\ hook' = None =>
             mark'.kind = IF declared \in WaitNeedsYou THEN "needs_you" ELSE "done"]_vars
  BY StopLeavesDeclared
<1> QED
  BY <1>1, TypeCorrect, DeclaredInit, DeclaredNext, PTL DEF Spec, TurnEndsAsDeclared

-----------------------------------------------------------------------------
(* Dialogs. *)

LEMMA MarkedInit == Init => QuietInv /\ MarkedInv
  BY AttentionAssumption DEF Init, QuietInv, MarkedInv, Watching

\* Only steps of a claude with no dialog send the hooks that take a mark away.
LEMMA QuietNext == TypeOK /\ QuietInv /\ [Next]_vars => QuietInv'
<1> SUFFICES ASSUME TypeOK, QuietInv, [Next]_vars PROVE QuietInv'
  OBVIOUS
<1> USE AttentionAssumption DEF TypeOK, QuietInv, Hooks, Goes, claude, row
<1>1. ASSUME NEW by \in {"operator", "background"}, Begin(by) PROVE QuietInv'
  BY <1>1 DEF Begin
<1>2. ASSUME NEW w \in Waits \cup {"none"}, Declare(w) PROVE QuietInv'
  BY <1>2 DEF Declare
<1>3. ASSUME NEW text \in Texts, NEW asks \in BOOLEAN, Show(text, asks) PROVE QuietInv'
  BY <1>3 DEF Show
<1>4. ASSUME Notify PROVE QuietInv'
  BY <1>4 DEF Notify
<1>5. ASSUME Answer PROVE QuietInv'
  BY <1>5 DEF Answer, Dismissed
<1>6. ASSUME Interrupt PROVE QuietInv'
  BY <1>6 DEF Interrupt, Dismissed
<1>7. ASSUME EndTurn PROVE QuietInv'
  BY <1>7 DEF EndTurn
<1>8. ASSUME Exit PROVE QuietInv'
  BY <1>8 DEF Exit
<1>9. ASSUME Resume PROVE QuietInv'
  BY <1>9 DEF Resume
<1>10. ASSUME UserPrompt PROVE QuietInv'
  BY <1>10 DEF UserPrompt, Handles, NoMark
<1>11. ASSUME PreTool PROVE QuietInv'
  BY <1>11 DEF PreTool, Handles, NeedsYou
<1>12. ASSUME PostTool PROVE QuietInv'
  BY <1>12 DEF PostTool, Handles, Cleared, NoMark
<1>13. ASSUME Notification PROVE QuietInv'
  BY <1>13 DEF Notification, Handles, NeedsYou
<1>14. ASSUME Stop PROVE QuietInv'
  BY <1>14 DEF Stop, Handles, NeedsYou, Unread
<1>15. ASSUME MarkSeen PROVE QuietInv'
  BY <1>15 DEF MarkSeen, NoMark
<1>16. ASSUME Look PROVE QuietInv'
  BY <1>16 DEF Look
<1>17. ASSUME Act PROVE QuietInv'
  BY <1>17 DEF Act, Acts, Appeared, Vanished, Cleared, NeedsYou, NoMark, Watching
<1>18. ASSUME UNCHANGED vars PROVE QuietInv'
  BY <1>18 DEF vars, row
<1> QED
  BY <1>1, <1>2, <1>3, <1>4, <1>5, <1>6, <1>7, <1>8, <1>9, <1>10,
     <1>11, <1>12, <1>13, <1>14, <1>15, <1>16, <1>17, <1>18 DEF Next, Handle

\* Every step keeps the watcher's memory and the marks in agreement.
LEMMA MarkedNext == TypeOK /\ QuietInv /\ MarkedInv /\ [Next]_vars => MarkedInv'
<1> SUFFICES ASSUME TypeOK, QuietInv, MarkedInv, [Next]_vars PROVE MarkedInv'
  OBVIOUS
<1> USE AttentionAssumption DEF TypeOK, QuietInv, MarkedInv, Hooks, Goes, claude, row
<1>1. ASSUME NEW by \in {"operator", "background"}, Begin(by) PROVE MarkedInv'
  BY <1>1 DEF Begin
<1>2. ASSUME NEW w \in Waits \cup {"none"}, Declare(w) PROVE MarkedInv'
  BY <1>2 DEF Declare
<1>3. ASSUME NEW text \in Texts, NEW asks \in BOOLEAN, Show(text, asks) PROVE MarkedInv'
  BY <1>3 DEF Show
<1>4. ASSUME Notify PROVE MarkedInv'
  BY <1>4 DEF Notify
<1>5. ASSUME Answer PROVE MarkedInv'
  BY <1>5 DEF Answer, Dismissed
<1>6. ASSUME Interrupt PROVE MarkedInv'
  BY <1>6 DEF Interrupt, Dismissed
<1>7. ASSUME EndTurn PROVE MarkedInv'
  BY <1>7 DEF EndTurn
<1>8. ASSUME Exit PROVE MarkedInv'
  BY <1>8 DEF Exit
<1>9. ASSUME Resume PROVE MarkedInv'
  BY <1>9 DEF Resume
<1>10. ASSUME UserPrompt PROVE MarkedInv'
  BY <1>10 DEF UserPrompt, Handles, NoMark
<1>11. ASSUME PreTool PROVE MarkedInv'
  BY <1>11 DEF PreTool, Handles, NeedsYou
<1>12. ASSUME PostTool PROVE MarkedInv'
  BY <1>12 DEF PostTool, Handles, Cleared, NoMark
<1>13. ASSUME Notification PROVE MarkedInv'
  BY <1>13 DEF Notification, Handles, NeedsYou
<1>14. ASSUME Stop PROVE MarkedInv'
  BY <1>14 DEF Stop, Handles, NeedsYou, Unread
<1>15. ASSUME MarkSeen PROVE MarkedInv'
  BY <1>15 DEF MarkSeen, NoMark
<1>16. ASSUME Look PROVE MarkedInv'
  BY <1>16 DEF Look
<1>17. ASSUME Act PROVE MarkedInv'
  BY <1>17 DEF Act, Acts, Appeared, Vanished, Cleared, NeedsYou, NoMark, Watching
<1>18. ASSUME UNCHANGED vars PROVE MarkedInv'
  BY <1>18 DEF vars, row
<1> QED
  BY <1>1, <1>2, <1>3, <1>4, <1>5, <1>6, <1>7, <1>8, <1>9, <1>10,
     <1>11, <1>12, <1>13, <1>14, <1>15, <1>16, <1>17, <1>18 DEF Next, Handle

\* A dialog the watcher believes to have marked is marked, at all times.
THEOREM DialogsStayMarked == Spec => []DialogStaysMarked
<1>1. TypeOK /\ MarkedInv => DialogStaysMarked
  BY DEF TypeOK, MarkedInv, DialogStaysMarked
<1> QED
  BY <1>1, TypeCorrect, MarkedInit, QuietNext, MarkedNext, PTL DEF Spec
=============================================================================
