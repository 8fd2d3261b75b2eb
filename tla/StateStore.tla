------------------------------ MODULE StateStore ------------------------------
(***************************************************************************)
(* What the hub's handlers expect of their state store, whichever backend  *)
(* runs (src/internal/hub/state.go): a call edits the current document at  *)
(* one moment, at most once.  A call that was refused edited nothing; a    *)
(* call that failed may or may not have edited it; a call that succeeded   *)
(* has, unless there was nothing to do.                                    *)
(***************************************************************************)
EXTENDS StateDoc

VARIABLES
    doc,   \* the document
    edit,  \* what each call asks for
    at     \* and where it stands

vars == <<doc, edit, at>>

Ended == {"ok", "refused", "failed"}

Init ==
    /\ doc \in Docs
    /\ edit = [p \in Procs |-> NoEdit]
    /\ at = [p \in Procs |-> "idle"]

\* A call is made once; the store is opened again and again, though what an
\* earlier process asked for was done and it never knew.
Begin(p) ==
    /\ at[p] = "idle" \/ (p \in Replicas /\ at[p] \in Ended \cup {"applied"})
    /\ at' = [at EXCEPT ![p] = "open"]
    /\ edit'[p] \in Edits \cup OpenEdits
    /\ edit' = [edit EXCEPT ![p] = edit'[p]]
    /\ UNCHANGED doc

Apply(p) ==
    /\ at[p] = "open"
    /\ at' = [at EXCEPT ![p] = "applied"]
    /\ ~Refused(doc, edit[p])
    /\ ~Unchanged(doc, edit[p])
    /\ doc' \in Edited(doc, edit[p], p)
    /\ UNCHANGED edit

Return(p, result) ==
    /\ \/ at[p] = "applied" /\ result \in {"ok", "failed"}
       \/ at[p] = "open" /\ result \in {"refused", "failed"}
       \/ at[p] = "open" /\ result = "ok" /\ edit[p].kind \in Optional
    /\ at' = [at EXCEPT ![p] = result]
    /\ UNCHANGED <<doc, edit>>

\* A replica that dies takes its calls with it.
Abandon ==
    /\ \A p \in Procs :
          at'[p] # at[p] => at[p] \in {"open", "applied"} /\ at'[p] = "failed"
    /\ UNCHANGED <<doc, edit>>

Next ==
    \/ \E p \in Procs :
          Begin(p) \/ Apply(p) \/ \E result \in Ended : Return(p, result)
    \/ Abandon

Spec == Init /\ [][Next]_vars
=============================================================================
