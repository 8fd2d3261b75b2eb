------------------------------ MODULE StateSecret -----------------------------
(***************************************************************************)
(* k8sStore: hub replicas share one document in a Kubernetes Secret        *)
(* (src/internal/hub/k8sstore.go).                                         *)
(*                                                                         *)
(* Every write is a read-modify-write of a replica's copy, guarded by the  *)
(* Secret's resourceVersion; a conflict re-reads and retries.  The copy is *)
(* also replaced by a poll, and for a token it does not know.  The lock of *)
(* a replica covers its copy only, so its calls and its reads overlap, and *)
(* what one of them read may be installed after a newer document was.      *)
(*                                                                         *)
(* Versions count the writes of the Secret; 0 means it does not exist.     *)
(***************************************************************************)
EXTENDS StateDoc, FiniteSets

CONSTANTS
    Requests,  \* bound: the edits the handlers ask for
    HasFile,   \* replicas started with a hub.sqlite to import
    Mortal,    \* bound: replicas that may die
    MaxTries,  \* retries after a conflict
    MaxReads   \* bound: reads of a replica answered and not installed yet

ASSUME SecretAssumption ==
    /\ Requests \subseteq Edits
    /\ HasFile \subseteq Replicas
    /\ Mortal \subseteq Replicas
    /\ MaxTries \in Nat
    /\ MaxReads \in Nat

VARIABLES
    secret,  \* the Secret at the API server
    copy,    \* s.doc and s.rv of each replica
    reads,   \* what reads of a replica were answered and is not installed yet
    phase,   \* of each replica's process
    call     \* the calls of mutate

vars == <<secret, copy, reads, phase, call>>

Versions == [doc: Docs, rv: Nat]
Absent == [doc |-> EmptyDoc, rv |-> 0]

\* The points of a call: its function is about to run on a clone of the copy;
\* the put is on its way; it was committed; it met a conflict; the Secret was
\* read again; nobody waits for the put any more, and it was committed after all.
Open == {"ready", "put", "won", "conflict", "fetched", "orphan"}
Ended == {"ok", "refused", "failed", "strayed"}

\* A call with no document in hand.
Handless(at, edit, replica, value) ==
    [at |-> at, edit |-> edit, replica |-> replica, doc |-> EmptyDoc, rv |-> 0,
     tries |-> 0, value |-> value]

NoCall == Handless("idle", NoEdit, None, None)

CallStates ==
    [at: {"idle"} \cup Open \cup Ended,
     edit: Edits \cup OpenEdits \cup {NoEdit},
     replica: Replicas \cup {None},
     doc: Docs, rv: Nat, tries: Nat,
     value: Writers \cup Replicas \cup {None}]

Fresh(r, e) == Handless("ready", e, r, None)

\* The end of call p: what it worked on is forgotten, its answer stays.
End(p, result, value) ==
    call' = [call EXCEPT ![p] = Handless(result, @.edit, @.replica, value)]

Init ==
    /\ secret \in {Absent}
          \cup {[doc |-> OldDoc(n, 0), rv |-> 1] : n \in Names}
    /\ copy = [r \in Replicas |-> Absent]
    /\ reads = [r \in Replicas |-> {}]
    /\ phase = [r \in Replicas |-> "down"]
    /\ call = [p \in Procs |-> NoCall]

-----------------------------------------------------------------------------
(* A call. *)

Start(c, r, e) ==
    /\ phase[r] = "serving"
    /\ call[c].at = "idle"
    /\ call' = [call EXCEPT ![c] = Fresh(r, e)]
    /\ UNCHANGED <<secret, copy, reads, phase>>

\* Mutant: names and letters are looked up before the retries, not in each.
PrepareCheckedOnce(p) ==
    LET base == copy[call[p].replica]
        e == call[p].edit
    IN
    /\ call[p].at = "ready"
    /\ \/ /\ Refused(base.doc, e)
          /\ call[p].tries = 0 \/ (e.kind \in OnDevice /\ e.id \notin Present(base.doc))
          /\ End(p, "refused", None)
       \/ /\ Unchanged(base.doc, e) \/ MayRest(base.doc, e)
          /\ End(p, "ok", IF e.kind = "secret" THEN base.doc.kv[e.key] ELSE None)
       \/ /\ ~Refused(base.doc, e) \/ call[p].tries > 0
          /\ e.kind \in OnDevice => e.id \in Present(base.doc)
          /\ ~Unchanged(base.doc, e)
          /\ \E d \in Edited(base.doc, e, p) :
                call' = [call EXCEPT ![p].at = "put", ![p].doc = d,
                                     ![p].rv = base.rv, ![p].value = p]
    /\ UNCHANGED <<secret, copy, reads, phase>>

\* The copy is cloned and the edit made on the clone.
Prepare(p) ==
    LET base == copy[call[p].replica]
        e == call[p].edit
    IN
    /\ call[p].at = "ready"
    /\ \/ /\ Refused(base.doc, e)
          /\ End(p, "refused", None)
       \/ /\ Unchanged(base.doc, e) \/ MayRest(base.doc, e)
          /\ End(p, "ok", IF e.kind = "secret" THEN base.doc.kv[e.key] ELSE None)
       \/ /\ ~Refused(base.doc, e)
          /\ ~Unchanged(base.doc, e)
          /\ \E d \in Edited(base.doc, e, p) :
                call' = [call EXCEPT ![p].at = "put", ![p].doc = d,
                                     ![p].rv = base.rv, ![p].value = p]
    /\ UNCHANGED <<secret, copy, reads, phase>>

\* Mutant: the put carries no version.
PutUnguarded(p) ==
    /\ call[p].at \in {"put", "orphan"}
    /\ secret' = [doc |-> call[p].doc, rv |-> secret.rv + 1]
    /\ IF call[p].at = "put"
       THEN call' = [call EXCEPT ![p].at = "won", ![p].rv = secret.rv + 1]
       ELSE End(p, "strayed", None)
    /\ UNCHANGED <<copy, reads, phase>>

\* Mutant: the first write is not a create but replaces what is there.
PutUpsert(p) ==
    /\ call[p].at \in {"put", "orphan"}
    /\ \/ /\ call[p].rv \in {0, secret.rv}
          /\ secret' = [doc |-> call[p].doc, rv |-> secret.rv + 1]
          /\ IF call[p].at = "put"
             THEN call' = [call EXCEPT ![p].at = "won", ![p].rv = secret.rv + 1]
             ELSE End(p, "strayed", None)
       \/ /\ call[p].rv \notin {0, secret.rv}
          /\ IF call[p].at = "put"
             THEN call' = [call EXCEPT ![p].at = "conflict"]
             ELSE End(p, "failed", None)
          /\ UNCHANGED secret
    /\ UNCHANGED <<copy, reads, phase>>

\* The API server handles the put: an update guarded by the version, or a
\* create when there was none.
Put(p) ==
    /\ call[p].at \in {"put", "orphan"}
    /\ \/ /\ call[p].rv = secret.rv
          /\ secret' = [doc |-> call[p].doc, rv |-> secret.rv + 1]
          /\ IF call[p].at = "put"
             THEN call' = [call EXCEPT ![p].at = "won", ![p].rv = secret.rv + 1]
             ELSE End(p, "strayed", None)
       \/ /\ call[p].rv # secret.rv
          /\ IF call[p].at = "put"
             THEN call' = [call EXCEPT ![p].at = "conflict"]
             ELSE End(p, "failed", None)
          /\ UNCHANGED secret
    /\ UNCHANGED <<copy, reads, phase>>

\* The answer installs what was written, whatever the copy has become.
Answer(p) ==
    LET r == call[p].replica IN
    /\ call[p].at = "won"
    /\ copy' = [copy EXCEPT ![r] = [doc |-> call[p].doc, rv |-> call[p].rv]]
    /\ End(p, "ok", call[p].value)
    /\ UNCHANGED <<secret, reads, phase>>

\* The re-read after a conflict.
Fetch(p) ==
    /\ call[p].at = "conflict"
    /\ call[p].tries < MaxTries
    /\ call' = [call EXCEPT ![p].at = "fetched", ![p].doc = secret.doc,
                            ![p].rv = secret.rv]
    /\ UNCHANGED <<secret, copy, reads, phase>>

\* refresh, once answered, for a call and for the other reads.
Installed(r, doc, rv) ==
    IF rv # copy[r].rv THEN [copy EXCEPT ![r] = [doc |-> doc, rv |-> rv]]
    ELSE copy

Install(p) ==
    /\ call[p].at = "fetched"
    /\ copy' = Installed(call[p].replica, call[p].doc, call[p].rv)
    /\ call' = [call EXCEPT ![p] = [Fresh(@.replica, @.edit)
                                       EXCEPT !.tries = call[p].tries + 1]]
    /\ UNCHANGED <<secret, reads, phase>>

\* The call errs: a request was not answered (a put may have been committed, or
\* may be yet), or the retries are used up; or the put will never be committed.
Fail(p) ==
    /\ \/ /\ call[p].at \in {"won", "conflict", "orphan"}
          /\ End(p, "failed", None)
       \/ /\ call[p].at = "put"
          /\ call' = [call EXCEPT ![p].at = "orphan"]
    /\ UNCHANGED <<secret, copy, reads, phase>>

-----------------------------------------------------------------------------
(* The reads, and the life of a replica. *)

\* The poll, and deviceByToken's look for a token the copy does not know.
Read(r) ==
    /\ phase[r] = "serving"
    /\ Cardinality(reads[r]) < MaxReads
    /\ reads' = [reads EXCEPT ![r] = @ \cup {secret}]
    /\ UNCHANGED <<secret, copy, phase, call>>

\* Another read may have been answered the same.
ReadInstall(r) ==
    \E v \in reads[r] :
        /\ copy' = Installed(r, v.doc, v.rv)
        /\ reads' \in {reads, [reads EXCEPT ![r] = @ \ {v}]}
        /\ UNCHANGED <<secret, phase, call>>

\* openK8sStore: the first read, then the import when there is no Secret but
\* a file, then the backfill; the process ends when one of them fails.  Its next
\* process starts once what the last one sent has been decided; meanwhile the
\* others may start and serve.
OpenStore(r) ==
    LET e == [kind |-> IF secret.rv = 0 /\ r \in HasFile THEN "import"
                       ELSE "backfill"]
    IN
    /\ phase[r] = "down"
    /\ call[r].at # "orphan"
    /\ phase' = [phase EXCEPT ![r] = "opening"]
    /\ copy' = [copy EXCEPT ![r] = secret]
    /\ call' = [call EXCEPT ![r] = Fresh(r, e)]
    /\ UNCHANGED <<secret, reads>>

Opened(r) ==
    /\ phase[r] = "opening"
    /\ call[r].at \in Ended \cup {"orphan"}
    /\ \/ /\ call[r].at # "ok"
          /\ phase' = [phase EXCEPT ![r] = "down"]
          /\ copy' = [copy EXCEPT ![r] = Absent]
          /\ UNCHANGED call
       \/ /\ call[r].at = "ok"
          /\ call[r].edit.kind = "import"
          /\ call' = [call EXCEPT ![r] = Fresh(r, [kind |-> "backfill"])]
          /\ UNCHANGED <<copy, phase>>
       \/ /\ call[r].at = "ok"
          /\ call[r].edit.kind = "backfill"
          /\ phase' = [phase EXCEPT ![r] = "serving"]
          /\ UNCHANGED <<copy, call>>
    /\ UNCHANGED <<secret, reads>>

\* The calls of a replica die with it; a put on its way may still arrive.
Crash(r) ==
    /\ r \in Mortal
    /\ phase[r] # "down"
    /\ phase' = [phase EXCEPT ![r] = "down"]
    /\ copy' = [copy EXCEPT ![r] = Absent]
    /\ reads' = [reads EXCEPT ![r] = {}]
    /\ call' = [p \in Procs |->
                   CASE call[p].replica # r \/ call[p].at \notin Open -> call[p]
                     [] call[p].at \in {"put", "orphan"} ->
                          [call[p] EXCEPT !.at = "orphan"]
                     [] OTHER -> Handless("failed", call[p].edit, r, None)]
    /\ UNCHANGED secret

Next ==
    \/ \E p \in Procs :
        Prepare(p) \/ Put(p) \/ Answer(p) \/ Fetch(p) \/ Install(p) \/ Fail(p)
    \/ \E r \in Replicas :
        \/ \E c \in Calls, e \in Requests : Start(c, r, e)
        \/ Read(r)
        \/ ReadInstall(r)
        \/ OpenStore(r)
        \/ Opened(r)
        \/ Crash(r)

Spec == Init /\ [][Next]_vars

-----------------------------------------------------------------------------
\* Keys that putKV is used on as well (prefs, quick commands, drafts).
Overwritten == {e.key : e \in {f \in Requests : f.kind = "putKV"}}

TypeOK ==
    /\ secret \in Versions
    /\ copy \in [Replicas -> Versions]
    /\ reads \in [Replicas -> SUBSET Versions]
    /\ phase \in [Replicas -> {"down", "opening", "serving"}]
    /\ call \in [Procs -> CallStates]

\* No two devices have the same name or the same letter, in spite of creates,
\* renames and letter changes that race on different replicas
\* (createDevice, renameDevice, setLetter, backfillLetters).
DevicesAreDistinct == Distinct(secret.doc)

\* Everyone who was given a generated secret was given the one that is stored:
\* replicas racing on an empty store agree (secret, state.go:15).
SecretsAgree ==
    \A c \in Calls : call[c].at = "ok" /\ call[c].edit.kind = "secret" =>
        \/ call[c].value = secret.doc.kv[call[c].edit.key]
        \/ call[c].edit.key \in Overwritten

\* The store the handlers were promised: every edit is made on the current
\* document, at one moment, at most once, and a success means it was made.
Stands(p) ==
    CASE call[p].at \in {"won", "strayed"} -> "applied"
      [] call[p].at \in Open \ {"won"} -> "open"
      [] OTHER -> call[p].at

Promise == INSTANCE StateStore WITH
    doc <- secret.doc,
    edit <- [p \in Procs |-> call[p].edit],
    at <- [p \in Procs |-> Stands(p)]

EditsAreAtomic == Promise!Spec
=============================================================================
