--------------------------- MODULE StateSecretProofs ---------------------------
(***************************************************************************)
(* Proofs about StateSecret, for any number of replicas, calls, names and  *)
(* keys.  The argument is optimistic concurrency: whatever was read from   *)
(* the Secret under its present version is the present document, so the    *)
(* only puts that get through carry an edit of the present document        *)
(* (VersionInv).  That the edits are atomic, that names and letters stay   *)
(* distinct and that generated secrets agree follow from it.               *)
(***************************************************************************)
EXTENDS StateSecret, TLAPS

\* What is read of a document under version rv is current or out of date.
Reads(doc, rv) ==
    /\ rv \in 0..secret.rv
    /\ rv = secret.rv => doc = secret.doc

\* The document of a put whose version is current is an edit of the current one.
Puts(p) ==
    /\ call[p].rv \in 0..secret.rv
    /\ call[p].rv = secret.rv =>
          /\ ~Refused(secret.doc, call[p].edit)
          /\ ~Unchanged(secret.doc, call[p].edit)
          /\ call[p].doc \in Edited(secret.doc, call[p].edit, p)

\* Calls make requests, replicas open the store.
MayAsk(p) == IF p \in Calls THEN Requests ELSE OpenEdits

CallsInv ==
    /\ \A p \in Procs : call[p].at # "idle" =>
          call[p].edit \in MayAsk(p) /\ call[p].replica \in Replicas
    /\ \A p \in Procs : call[p].at = "idle" => call[p] = NoCall
    /\ \A r \in Replicas : phase[r] # "opening" => call[r].at \notin Open \ {"orphan"}
    /\ \A r \in Replicas : call[r].at # "idle" => call[r].replica = r

VersionInv ==
    /\ Reads(EmptyDoc, 0)
    /\ \A r \in Replicas : Reads(copy[r].doc, copy[r].rv)
    /\ \A r \in Replicas : \A v \in reads[r] : Reads(v.doc, v.rv)
    /\ \A p \in Procs : call[p].at \in {"won", "fetched"} =>
          Reads(call[p].doc, call[p].rv)
    /\ \A p \in Procs : call[p].at \in {"put", "orphan"} => Puts(p)

\* A secret is generated once: a document read earlier has it as it is now,
\* or not yet.
Kept(doc) ==
    \A k \in Keys \ Overwritten :
        doc.kv[k] # None => secret.doc.kv[k] = doc.kv[k]

\* What a call was given stays what is stored.
Given(c) ==
    call[c].at \in {"won", "ok"} /\ call[c].edit.kind = "secret" =>
        /\ call[c].value # None
        /\ \/ call[c].value = secret.doc.kv[call[c].edit.key]
           \/ call[c].edit.key \in Overwritten

SecretInv ==
    /\ \A r \in Replicas : Kept(copy[r].doc) /\ \A v \in reads[r] : Kept(v.doc)
    /\ \A p \in Procs : call[p].at \in {"won", "fetched"} => Kept(call[p].doc)
    /\ \A c \in Calls : call[c].at = "put" => call[c].value = c
    /\ \A c \in Calls : Given(c)

-----------------------------------------------------------------------------
(* The edits. *)

USE DocAssumption, SecretAssumption DEF Procs, DevIds, Writers

\* nextLetter gives a letter nobody has, or none.
LEMMA NextLetterIsFree ==
    ASSUME NEW used
    PROVE  /\ NextLetter(used) \in Letters \cup {0}
           /\ NextLetter(used) # 0 => NextLetter(used) \notin used
BY DEF NextLetter, Letters

LEMMA EmptyDocType == EmptyDoc \in Docs
BY DEF EmptyDoc, Docs

LEMMA OldDocType ==
    ASSUME NEW n \in Names, NEW l \in Letters \cup {0}
    PROVE  OldDoc(n, l) \in Docs
<1>1. Device(n, l, OldDevice) \in Devices
  BY DEF Device, Devices
<1> QED
  BY <1>1, EmptyDocType DEF OldDoc, Docs, EmptyDoc

\* backfillLetters keeps every device and gives letters only.
LEMMA BackfillType ==
    ASSUME NEW doc \in Docs, NEW d \in Backfills(doc)
    PROVE  d \in Docs
<1> DEFINE bare == Letterless(doc)
<1>1. PICK f \in [bare -> Letters \cup {0}] :
          d = [doc EXCEPT !.devices =
                [i \in DevIds |-> IF i \in bare THEN [@[i] EXCEPT !.letter = f[i]]
                                  ELSE @[i]]]
  BY DEF Backfills
<1>2. doc.devices \in [DevIds -> Devices \cup {None}]
  BY DEF Docs
<1>3. ASSUME NEW i \in bare
      PROVE  [doc.devices[i] EXCEPT !.letter = f[i]] \in Devices
  BY <1>2 DEF Letterless, Present, Devices
<1>4. [i \in DevIds |-> IF i \in bare THEN [doc.devices[i] EXCEPT !.letter = f[i]]
                         ELSE doc.devices[i]] \in [DevIds -> Devices \cup {None}]
  BY <1>2, <1>3
<1> QED
  BY <1>1, <1>4 DEF Docs

\* An edit that is neither refused nor idle makes a document of a document.
LEMMA EditType ==
    ASSUME NEW doc \in Docs, NEW p \in Procs, NEW e \in MayAsk(p),
           ~Refused(doc, e), ~Unchanged(doc, e), NEW d \in Edited(doc, e, p)
    PROVE  d \in Docs
<1>1. doc.devices \in [DevIds -> Devices \cup {None}]
  BY DEF Docs
<1>2. CASE e.kind \in {"secret", "putKV"}
  <2>1. p \in Calls /\ e.key \in Keys
    BY <1>2 DEF MayAsk, Edits, OpenEdits
  <2> QED
    BY <2>1, <1>2 DEF Edited, Docs
<1>3. CASE e.kind = "create"
  <2>1. p \in Calls /\ e.name \in Names
    BY <1>3 DEF MayAsk, Edits, OpenEdits
  <2>2. Device(e.name, NextLetter(UsedLetters(doc)), p) \in Devices
    BY <2>1, NextLetterIsFree DEF Device, Devices
  <2> QED
    BY <2>1, <2>2, <1>3 DEF Edited, Docs
<1>4. CASE e.kind \in {"rename", "setLetter", "rotate", "delete", "touch", "access"}
  <2>1. p \in Calls /\ e.id \in DevIds
    BY <1>4 DEF MayAsk, Edits, OpenEdits
  <2>2. e.kind = "delete" \/ doc.devices[e.id] \in Devices
    BY <2>1, <1>1, <1>4 DEF Refused, Unchanged, OnDevice, Present
  <2>3. CASE e.kind = "rename"
    BY <2>1, <2>2, <2>3 DEF Edited, Docs, Devices, MayAsk, Edits
  <2>4. CASE e.kind = "setLetter"
    BY <2>1, <2>2, <2>4 DEF Edited, Docs, Devices, MayAsk, Edits
  <2>5. CASE e.kind = "rotate"
    BY <2>1, <2>2, <2>5 DEF Edited, Docs, Devices
  <2>6. CASE e.kind = "delete"
    BY <2>1, <2>6 DEF Edited, Docs
  <2>7. CASE e.kind = "touch"
    BY <2>1, <2>2, <2>7 DEF Edited, Docs, Devices
  <2>8. CASE e.kind = "access"
    BY <2>1, <2>2, <2>8 DEF Edited, Docs, Devices
  <2> QED
    BY <1>4, <2>3, <2>4, <2>5, <2>6, <2>7, <2>8
<1>5. CASE e.kind \in {"addSub", "removeSub"}
  <2>1. e \in [kind: {"addSub", "removeSub"}, endpoint: Endpoints]
    BY <1>5 DEF MayAsk, Edits, OpenEdits
  <2>2. doc.subs \in [Endpoints -> Nat] /\ doc.nextSub \in Nat
    BY DEF Docs
  <2>3. CASE e.kind = "addSub" /\ doc.subs[e.endpoint] = 0
    <3>1. d = [doc EXCEPT !.nextSub = @ + 1, !.subs[e.endpoint] = doc.nextSub + 1]
      BY <2>3 DEF Edited
    <3>2. [doc.subs EXCEPT ![e.endpoint] = doc.nextSub + 1] \in [Endpoints -> Nat]
      BY <2>1, <2>2
    <3>3. doc.nextSub + 1 \in Nat
      BY <2>2
    <3>4. d = [devices |-> doc.devices, kv |-> doc.kv,
               subs |-> [doc.subs EXCEPT ![e.endpoint] = doc.nextSub + 1],
               nextSub |-> doc.nextSub + 1]
      BY <2>1, <2>2, <3>1 DEF Docs
    <3> QED
      BY <3>2, <3>3, <3>4 DEF Docs
  <2>4. CASE e.kind = "addSub" /\ doc.subs[e.endpoint] # 0
    BY <2>4 DEF Edited
  <2>5. CASE e.kind = "removeSub"
    BY <2>1, <2>2, <2>5 DEF Edited, Docs
  <2> QED
    BY <1>5, <2>3, <2>4, <2>5
<1>6. CASE e.kind = "import"
  BY <1>6, OldDocType DEF Edited, ImportedDoc, Letters
<1>7. CASE e.kind = "backfill"
  BY <1>7, BackfillType DEF Edited
<1> QED
  BY <1>2, <1>3, <1>4, <1>5, <1>6, <1>7 DEF MayAsk, Edits, OpenEdits

-----------------------------------------------------------------------------
(* Distinct devices. *)

LEMMA OldDocDistinct ==
    ASSUME NEW n \in Names, NEW l \in Letters \cup {0}
    PROVE  Distinct(OldDoc(n, l))
BY DEF OldDoc, EmptyDoc, Distinct, Present

LEMMA EmptyDocDistinct == Distinct(EmptyDoc)
BY DEF EmptyDoc, Distinct, Present

LEMMA BackfillDistinct ==
    ASSUME NEW doc \in Docs, Distinct(doc), NEW d \in Backfills(doc)
    PROVE  Distinct(d)
<1> DEFINE bare == Letterless(doc)
           used == UsedLetters(doc)
<1>1. PICK f \in [bare -> Letters \cup {0}] :
        /\ d = [doc EXCEPT !.devices =
                [i \in DevIds |-> IF i \in bare THEN [@[i] EXCEPT !.letter = f[i]]
                                  ELSE @[i]]]
        /\ \A i \in bare : f[i] \notin used
        /\ \A i \in bare : f[i] # 0 => \A j \in bare \ {i} : f[j] # f[i]
  BY DEF Backfills
<1> HIDE DEF bare, used
<1>2. doc.devices \in [DevIds -> Devices \cup {None}]
  BY DEF Docs
<1>3. \A i \in DevIds : d.devices[i] =
        IF i \in bare THEN [doc.devices[i] EXCEPT !.letter = f[i]]
        ELSE doc.devices[i]
  BY <1>1 DEF Docs
<1>4. bare \subseteq Present(doc)
  BY DEF bare, Letterless
<1>5. ASSUME NEW i \in Present(d)
      PROVE  /\ i \in Present(doc)
             /\ doc.devices[i] \in Devices
             /\ d.devices[i].name = doc.devices[i].name
             /\ i \in bare => d.devices[i].letter = f[i]
             /\ i \notin bare => /\ d.devices[i].letter = doc.devices[i].letter
                                 /\ d.devices[i].letter # 0
                                 /\ d.devices[i].letter \in used
  <2>1. i \in DevIds /\ d.devices[i] # None
    BY DEF Present
  <2>2. i \in Present(doc)
    BY <2>1, <1>3, <1>4 DEF Present
  <2>3. doc.devices[i] \in Devices
    BY <2>2, <1>2 DEF Present
  <2>4. i \notin bare => doc.devices[i].letter # 0 /\ doc.devices[i].letter \in used
    BY <2>2 DEF bare, used, Letterless, UsedLetters
  <2> QED
    BY <2>1, <2>2, <2>3, <2>4, <1>3 DEF Devices
<1> QED
  BY <1>1, <1>5 DEF Distinct

\* createDevice, renameDevice and setLetter refuse what another device has.
LEMMA EditDistinct ==
    ASSUME NEW doc \in Docs, Distinct(doc), NEW p \in Procs, NEW e \in MayAsk(p),
           ~Refused(doc, e), ~Unchanged(doc, e), NEW d \in Edited(doc, e, p)
    PROVE  Distinct(d)
<1>1. doc.devices \in [DevIds -> Devices \cup {None}]
  BY DEF Docs
<1>2. CASE e.kind \in {"secret", "putKV", "addSub", "removeSub"}
  <2>1. d.devices = doc.devices
    BY <1>2 DEF Edited, Docs
  <2> QED
    BY <2>1 DEF Distinct, Present
<1>3. CASE e.kind = "create"
  <2>1. p \in Calls /\ e.name \in Names
    BY <1>3 DEF MayAsk, Edits, OpenEdits
  <2> DEFINE l == NextLetter(UsedLetters(doc))
  <2>2. d.devices = [doc.devices EXCEPT ![p] = Device(e.name, l, p)]
    BY <1>3 DEF Edited, Docs
  <2>3. l # 0 => l \notin UsedLetters(doc)
    BY NextLetterIsFree
  <2> HIDE DEF l
  <2>4. \A i \in Present(doc) : doc.devices[i].name # e.name
    BY <1>3 DEF Refused, NameTaken, Present
  <2>5. \A i \in Present(doc) : doc.devices[i].letter = l => l = 0
    BY <2>3 DEF UsedLetters
  <2>6. d.devices[p].name = e.name /\ d.devices[p].letter = l
    BY <2>1, <2>2, <1>1 DEF Device
  <2>7. \A i \in Present(d) : i # p =>
            i \in Present(doc) /\ d.devices[i] = doc.devices[i]
    BY <2>1, <2>2, <1>1 DEF Present
  <2> QED
    BY <2>4, <2>5, <2>6, <2>7 DEF Distinct
<1>4. CASE e.kind \in {"rename", "setLetter", "rotate", "delete", "touch", "access"}
  <2>1. p \in Calls /\ e.id \in DevIds
    BY <1>4 DEF MayAsk, Edits, OpenEdits
  <2>2. e.kind = "delete" \/ (doc.devices[e.id] \in Devices /\ e.id \in Present(doc))
    BY <2>1, <1>1, <1>4 DEF Refused, Unchanged, OnDevice, Present
  <2>3. \A i \in Present(d) : i # e.id =>
            i \in Present(doc) /\ d.devices[i] = doc.devices[i]
    <3>1. \A i \in DevIds : i # e.id => d.devices[i] = doc.devices[i]
      BY <2>1, <1>1, <1>4 DEF Edited, Docs
    <3> QED
      BY <3>1 DEF Present
  <2>4. CASE e.kind = "delete"
    <3>1. e.id \notin Present(d)
      BY <2>1, <2>4 DEF Edited, Docs, Present
    <3> QED
      BY <2>3, <3>1 DEF Distinct
  <2>5. CASE e.kind = "rename"
    <3>1. d.devices[e.id].name = e.name
          /\ d.devices[e.id].letter = doc.devices[e.id].letter
      BY <2>1, <2>2, <2>5 DEF Edited, Docs, Devices
    <3>2. \A i \in Present(doc) : i # e.id => doc.devices[i].name # e.name
      BY <2>5 DEF Refused, NameTaken
    <3> QED
      BY <2>2, <2>3, <2>5, <3>1, <3>2 DEF Distinct
  <2>6. CASE e.kind = "setLetter"
    <3>1. d.devices[e.id].letter = e.letter
          /\ d.devices[e.id].name = doc.devices[e.id].name
      BY <2>1, <2>2, <2>6 DEF Edited, Docs, Devices
    <3>2. \A i \in Present(doc) : i # e.id => doc.devices[i].letter # e.letter
      BY <2>6 DEF Refused, LetterTaken
    <3> QED
      BY <2>2, <2>3, <2>6, <3>1, <3>2 DEF Distinct
  <2>7. CASE e.kind \in {"rotate", "touch", "access"}
    <3>1. d.devices[e.id].letter = doc.devices[e.id].letter
          /\ d.devices[e.id].name = doc.devices[e.id].name
      <4>1. CASE e.kind = "rotate"
        BY <2>1, <2>2, <4>1 DEF Edited, Docs, Devices
      <4>2. CASE e.kind = "touch"
        BY <2>1, <2>2, <4>2 DEF Edited, Docs, Devices
      <4>3. CASE e.kind = "access"
        BY <2>1, <2>2, <4>3 DEF Edited, Docs, Devices
      <4> QED
        BY <2>7, <4>1, <4>2, <4>3
    <3> QED
      BY <2>2, <2>3, <2>7, <3>1 DEF Distinct
  <2> QED
    BY <1>4, <2>4, <2>5, <2>6, <2>7
<1>5. CASE e.kind = "import"
  BY <1>5, OldDocDistinct DEF Edited, ImportedDoc, Letters
<1>6. CASE e.kind = "backfill"
  BY <1>6, BackfillDistinct DEF Edited
<1> QED
  BY <1>2, <1>3, <1>4, <1>5, <1>6 DEF MayAsk, Edits, OpenEdits

-----------------------------------------------------------------------------
(* Types, and who calls what. *)

LEMMA FreshType ==
    ASSUME NEW r \in Replicas, NEW e \in Edits \cup OpenEdits
    PROVE  Fresh(r, e) \in CallStates
BY EmptyDocType DEF Fresh, Handless, CallStates, Open

LEMMA NoCallType == NoCall \in CallStates
BY EmptyDocType DEF NoCall, Handless, CallStates

LEMMA MayAskType ==
    ASSUME NEW p \in Procs, NEW e \in MayAsk(p)
    PROVE  e \in Edits \cup OpenEdits
BY DEF MayAsk

TypedCalls == TypeOK /\ CallsInv

LEMMA TypeInit == Init => TypedCalls
<1> SUFFICES ASSUME Init PROVE TypedCalls
  OBVIOUS
<1>1. secret \in Versions
  BY EmptyDocType, OldDocType DEF Init, Versions, Absent
<1>2. copy \in [Replicas -> Versions] /\ reads \in [Replicas -> SUBSET Versions]
  BY EmptyDocType DEF Init, Versions, Absent
<1>3. phase \in [Replicas -> {"down", "opening", "serving"}] /\ call \in [Procs -> CallStates]
  BY NoCallType DEF Init
<1>4. CallsInv
  BY DEF Init, CallsInv, NoCall, Handless, Open
<1> QED
  BY <1>1, <1>2, <1>3, <1>4 DEF TypedCalls, TypeOK

\* What a step does to one call.
LEMMA OneCall ==
    ASSUME TypedCalls, NEW p \in Procs, NEW c \in CallStates,
           call' = [call EXCEPT ![p] = c],
           c.edit \in MayAsk(p), c.replica \in Replicas,
           c.at # "idle",
           p \in Replicas => /\ c.replica = p
                             /\ phase'[p] # "opening" => c.at \notin Open \ {"orphan"},
           \A r \in Replicas : r # p => phase'[r] = phase[r]
    PROVE  call' \in [Procs -> CallStates] /\ CallsInv'
<1>1. call' \in [Procs -> CallStates]
  BY DEF TypedCalls, TypeOK
<1>2. call'[p] = c /\ \A q \in Procs : q # p => call'[q] = call[q]
  BY DEF TypedCalls, TypeOK
<1>3. MayAsk(p)' = MayAsk(p)
  BY DEF MayAsk
<1> QED
  BY <1>1, <1>2, <1>3 DEF TypedCalls, CallsInv, MayAsk

LEMMA EndType ==
    ASSUME TypedCalls, NEW p \in Procs, NEW result, NEW value,
           result \in Ended, value \in Writers \cup Replicas \cup {None},
           call[p].at # "idle",
           End(p, result, value), phase' = phase
    PROVE  call' \in [Procs -> CallStates] /\ CallsInv'
<1> DEFINE c == Handless(result, call[p].edit, call[p].replica, value)
<1>1. call[p] \in CallStates /\ call[p].edit \in MayAsk(p) /\ call[p].replica \in Replicas
  BY DEF TypedCalls, TypeOK, CallsInv
<1>2. /\ c \in CallStates
      /\ c.at = result /\ c.edit = call[p].edit /\ c.replica = call[p].replica
  BY <1>1, EmptyDocType, MayAskType DEF CallStates, Handless
<1>3. call' = [call EXCEPT ![p] = c]
  BY DEF End
<1>4. p \in Replicas => call[p].replica = p
  BY DEF TypedCalls, CallsInv
<1> HIDE DEF c
<1> QED
  BY <1>1, <1>2, <1>3, <1>4, OneCall DEF Ended, Open

LEMMA TypeNext == TypedCalls /\ [Next]_vars => TypedCalls'
<1> SUFFICES ASSUME TypedCalls, [Next]_vars PROVE TypedCalls'
  OBVIOUS
<1> USE DEF Versions
<1>1. /\ secret.doc \in Docs /\ secret.rv \in Nat
      /\ \A r \in Replicas : copy[r].doc \in Docs /\ copy[r].rv \in Nat
      /\ \A r \in Replicas : reads[r] \subseteq Versions
      /\ \A p \in Procs : call[p] \in CallStates
  BY DEF TypedCalls, TypeOK
<1>2. \A p \in Procs : call[p].doc \in Docs /\ call[p].rv \in Nat
                        /\ call[p].tries \in Nat
  BY <1>1 DEF CallStates
<1>3. \A p \in Procs : call[p].at # "idle" =>
          call[p].edit \in MayAsk(p) /\ call[p].replica \in Replicas
  BY DEF TypedCalls, CallsInv
<1>4. \A r \in Replicas, doc \in Docs, rv \in Nat :
          Installed(r, doc, rv) \in [Replicas -> Versions]
  <2>1. copy \in [Replicas -> Versions]
    BY ONLY TypedCalls, ZenonT(60) DEF TypedCalls, TypeOK
  <2> QED
    BY ONLY <2>1 DEF Installed, Versions
<1>5. ASSUME NEW p \in Procs, Prepare(p) PROVE TypedCalls'
  <2> DEFINE base == copy[call[p].replica]
             e == call[p].edit
  <2>2. UNCHANGED <<secret, copy, reads, phase>> /\ call[p].at = "ready"
    BY <1>5, ZenonT(60) DEF Prepare
  <2>0. e \in MayAsk(p) /\ call[p].replica \in Replicas
    BY ONLY <1>3, <2>2, p \in Procs DEF e
  <2>1. e \in MayAsk(p) /\ call[p].replica \in Replicas /\ base.doc \in Docs /\ base.rv \in Nat
    BY ONLY <1>1, <2>0 DEF base
  <2> HIDE DEF base, e
  <2>3. CASE End(p, "refused", None)
    BY <2>2, <2>3, EndType DEF TypedCalls, TypeOK, Ended
  <2>4. CASE End(p, "ok", IF e.kind = "secret" THEN base.doc.kv[e.key] ELSE None)
    <3>1. e \in MayAsk(p) => (e.kind = "secret" => base.doc.kv[e.key] \in Writers \cup {None})
      BY <2>1 DEF MayAsk, Edits, OpenEdits, Docs
    <3> DEFINE value == IF e.kind = "secret" THEN base.doc.kv[e.key] ELSE None
    <3>2. value \in Writers \cup Replicas \cup {None}
      BY <2>1, <3>1
    <3>3. End(p, "ok", value)
      BY <2>4
    <3> HIDE DEF value
    <3> QED
      BY <2>2, <3>2, <3>3, EndType DEF TypedCalls, TypeOK, Ended
  <2>5. CASE /\ ~Refused(base.doc, e)
             /\ ~Unchanged(base.doc, e)
             /\ \E d \in Edited(base.doc, e, p) :
                   call' = [call EXCEPT ![p].at = "put", ![p].doc = d,
                                        ![p].rv = base.rv, ![p].value = p]
    <3>1. PICK d \in Edited(base.doc, e, p) :
            call' = [call EXCEPT ![p].at = "put", ![p].doc = d,
                                 ![p].rv = base.rv, ![p].value = p]
      BY <2>5
    <3>2. d \in Docs
      BY <2>1, <2>5, <3>1, EditType
    <3> DEFINE c == [call[p] EXCEPT !.at = "put", !.doc = d, !.rv = base.rv,
                                    !.value = p]
    <3>3. call[p] \in CallStates
      BY <1>1
    <3>6. c \in CallStates /\ c.at = "put" /\ c.edit = e /\ c.replica = call[p].replica
      BY <2>1, <3>2, <3>3 DEF CallStates, Open, e, base
    <3>4. call' = [call EXCEPT ![p] = c]
      BY <3>1, <1>1 DEF TypedCalls, TypeOK
    <3>5. p \in Replicas => call[p].replica = p /\ phase[p] = "opening"
      BY <2>2 DEF TypedCalls, CallsInv, Open
    <3> HIDE DEF c
    <3> QED
      BY <2>1, <2>2, <3>6, <3>4, <3>5, OneCall DEF TypedCalls, TypeOK
  <2> QED
    BY <1>5, <2>3, <2>4, <2>5 DEF Prepare, base, e
<1>6. ASSUME NEW p \in Procs, Put(p) PROVE TypedCalls'
  <2>1. call[p].edit \in MayAsk(p) /\ call[p].replica \in Replicas
    BY <1>6, <1>3 DEF Put
  <2>2. UNCHANGED <<copy, reads, phase>> /\ secret' \in Versions
    BY <1>6, <1>1, <1>2 DEF Put, TypedCalls, TypeOK
  <2>3. CASE call[p].at = "put"
    <3> DEFINE c == [call[p] EXCEPT !.at = "won", !.rv = secret.rv + 1]
               d == [call[p] EXCEPT !.at = "conflict"]
    <3>1. call' = [call EXCEPT ![p] = c] \/ call' = [call EXCEPT ![p] = d]
      <4>1. CASE call[p].rv = secret.rv
        <5>1. call' = [call EXCEPT ![p].at = "won", ![p].rv = secret.rv + 1]
          BY <1>6, <2>3, <4>1 DEF Put
        <5>2. call' = [call EXCEPT ![p] = c]
          BY <5>1 DEF TypedCalls, TypeOK
        <5> QED
          BY <5>2
      <4>2. CASE call[p].rv # secret.rv
        BY <1>6, <2>3, <4>2 DEF Put, TypedCalls, TypeOK
      <4> QED
        BY <4>1, <4>2
    <3>2. call[p] \in CallStates /\ secret.rv + 1 \in Nat
      BY <1>1
    <3>3. /\ c \in CallStates /\ c.at = "won"
          /\ c.edit = call[p].edit /\ c.replica = call[p].replica
      BY <3>2 DEF CallStates, Open
    <3>4. /\ d \in CallStates /\ d.at = "conflict"
          /\ d.edit = call[p].edit /\ d.replica = call[p].replica
      BY <3>2 DEF CallStates, Open
    <3>5. p \in Replicas => call[p].replica = p /\ phase[p] = "opening"
      BY <2>3 DEF TypedCalls, CallsInv, Open
    <3> HIDE DEF c, d
    <3> QED
      BY <2>1, <2>2, <3>1, <3>3, <3>4, <3>5, OneCall DEF TypedCalls, TypeOK
  <2>4. CASE call[p].at = "orphan"
    <3>1. End(p, "strayed", None) \/ End(p, "failed", None)
      BY <1>6, <2>4 DEF Put
    <3> QED
      BY <2>2, <2>4, <3>1, EndType DEF TypedCalls, TypeOK, Ended
  <2> QED
    BY <1>6, <2>3, <2>4 DEF Put
<1>7. ASSUME NEW p \in Procs, Answer(p) PROVE TypedCalls'
  <2>1. call[p].replica \in Replicas /\ call[p].value \in Writers \cup Replicas \cup {None}
    BY <1>7, <1>1, <1>3 DEF Answer, CallStates
  <2>2. copy' \in [Replicas -> Versions] /\ UNCHANGED <<secret, reads, phase>>
    BY <1>7, <1>2, <2>1 DEF Answer, TypedCalls, TypeOK
  <2> QED
    BY <1>7, <2>1, <2>2, EndType DEF Answer, TypedCalls, TypeOK, Ended
<1>8. ASSUME NEW p \in Procs, Fetch(p) PROVE TypedCalls'
  <2> DEFINE c == [call[p] EXCEPT !.at = "fetched", !.doc = secret.doc,
                                  !.rv = secret.rv]
  <2>1. call[p].edit \in MayAsk(p) /\ call[p].replica \in Replicas
    BY <1>8, <1>3 DEF Fetch
  <2>5. call[p] \in CallStates /\ secret.doc \in Docs /\ secret.rv \in Nat
    BY <1>1
  <2>2. /\ c \in CallStates /\ c.at = "fetched"
        /\ c.edit = call[p].edit /\ c.replica = call[p].replica
    BY <2>5 DEF CallStates, Open
  <2>3. call' = [call EXCEPT ![p] = c]
    BY <1>8 DEF Fetch, TypedCalls, TypeOK
  <2>4. p \in Replicas => call[p].replica = p /\ phase[p] = "opening"
    BY <1>8 DEF Fetch, TypedCalls, CallsInv, Open
  <2> HIDE DEF c
  <2>6. UNCHANGED <<secret, copy, reads, phase>>
    BY <1>8 DEF Fetch
  <2> QED
    BY <2>1, <2>2, <2>3, <2>4, <2>6, OneCall DEF TypedCalls, TypeOK
<1>9. ASSUME NEW p \in Procs, Install(p) PROVE TypedCalls'
  <2> DEFINE c == [Fresh(call[p].replica, call[p].edit)
                     EXCEPT !.tries = call[p].tries + 1]
  <2>1. call[p].edit \in MayAsk(p) /\ call[p].replica \in Replicas
    BY <1>9, <1>3 DEF Install
  <2>2. Fresh(call[p].replica, call[p].edit) \in CallStates
    BY <2>1, FreshType, MayAskType
  <2>3. /\ c \in CallStates /\ c.at = "ready"
        /\ c.edit = call[p].edit /\ c.replica = call[p].replica
    BY <1>2, <2>1, <2>2 DEF CallStates, Fresh, Handless
  <2>4. call' = [call EXCEPT ![p] = c]
    BY <1>9 DEF Install, TypedCalls, TypeOK
  <2>5. p \in Replicas => call[p].replica = p /\ phase[p] = "opening"
    BY <1>9 DEF Install, TypedCalls, CallsInv, Open
  <2>6. copy' \in [Replicas -> Versions] /\ UNCHANGED <<secret, reads, phase>>
    BY <1>9, <1>2, <1>4, <2>1 DEF Install
  <2> HIDE DEF c
  <2> QED
    BY <2>1, <2>3, <2>4, <2>5, <2>6, OneCall DEF TypedCalls, TypeOK
<1>10. ASSUME NEW p \in Procs, Fail(p) PROVE TypedCalls'
  <2>1. CASE End(p, "failed", None)
    BY <1>10, <2>1, EndType DEF Fail, TypedCalls, TypeOK, Ended
  <2>2. CASE call[p].at = "put" /\ call' = [call EXCEPT ![p].at = "orphan"]
    <3> DEFINE c == [call[p] EXCEPT !.at = "orphan"]
    <3>1. call[p].edit \in MayAsk(p) /\ call[p].replica \in Replicas
      BY <2>2, <1>3
    <3>2. call[p] \in CallStates
      BY <1>1
    <3>3. /\ c \in CallStates /\ c.at = "orphan"
          /\ c.edit = call[p].edit /\ c.replica = call[p].replica
      BY <3>2 DEF CallStates, Open
    <3>4. call' = [call EXCEPT ![p] = c]
      BY <2>2 DEF TypedCalls, TypeOK
    <3>5. p \in Replicas => call[p].replica = p
      BY <2>2 DEF TypedCalls, CallsInv
    <3>6. UNCHANGED <<secret, copy, reads, phase>>
      BY <1>10 DEF Fail
    <3> HIDE DEF c
    <3> QED
      BY <3>1, <3>3, <3>4, <3>5, <3>6, OneCall DEF TypedCalls, TypeOK
  <2> QED
    BY <1>10, <2>1, <2>2 DEF Fail
<1>11. ASSUME NEW r \in Replicas, NEW c \in Calls, NEW e \in Requests,
              Start(c, r, e)
       PROVE  TypedCalls'
  <2>1. e \in MayAsk(c) /\ e \in Edits /\ c \notin Replicas
    BY DEF MayAsk
  <2>2. Fresh(r, e) \in CallStates
    BY <2>1, FreshType
  <2>3. Fresh(r, e).at = "ready" /\ Fresh(r, e).edit = e /\ Fresh(r, e).replica = r
    BY DEF Fresh, Handless
  <2> QED
    BY <1>11, <2>1, <2>2, <2>3, OneCall DEF Start, TypedCalls, TypeOK
<1>12. ASSUME NEW r \in Replicas, Read(r) \/ ReadInstall(r) PROVE TypedCalls'
  <2>1. UNCHANGED <<secret, phase, call>>
    BY <1>12 DEF Read, ReadInstall
  <2>2. copy \in [Replicas -> Versions] /\ reads \in [Replicas -> SUBSET Versions]
        /\ secret \in Versions
    BY DEF TypedCalls, TypeOK
  <2> HIDE DEF Versions
  <2>3. reads' \in [Replicas -> SUBSET Versions]
    <3>1. CASE Read(r)
      BY <2>2, <3>1 DEF Read
    <3>2. CASE ReadInstall(r)
      BY <2>2, <3>2 DEF ReadInstall
    <3> QED
      BY <1>12, <3>1, <3>2
  <2>4. copy' \in [Replicas -> Versions]
    <3>1. \A v \in reads[r] : Installed(r, v.doc, v.rv) \in [Replicas -> Versions]
      BY <1>1, <1>4 DEF Versions
    <3> QED
      BY <1>12, <2>2, <3>1 DEF Read, ReadInstall
  <2> QED
    BY <2>1, <2>2, <2>3, <2>4 DEF TypedCalls, TypeOK, CallsInv, MayAsk
<1>13. ASSUME NEW r \in Replicas, OpenStore(r) PROVE TypedCalls'
  <2> DEFINE e == [kind |-> IF secret.rv = 0 /\ r \in HasFile THEN "import"
                            ELSE "backfill"]
  <2>1. e \in OpenEdits /\ r \notin Calls
    BY DEF OpenEdits
  <2>2. e \in MayAsk(r)
    BY <2>1 DEF MayAsk
  <2> HIDE DEF e
  <2>3. Fresh(r, e) \in CallStates
    BY <2>1, FreshType
  <2>4. Fresh(r, e).at = "ready" /\ Fresh(r, e).edit = e /\ Fresh(r, e).replica = r
    BY DEF Fresh, Handless
  <2>5. call' = [call EXCEPT ![r] = Fresh(r, e)]
    BY <1>13 DEF OpenStore, e
  <2>6. /\ phase' = [phase EXCEPT ![r] = "opening"]
        /\ copy' = [copy EXCEPT ![r] = secret]
        /\ UNCHANGED <<secret, reads>>
    BY <1>13 DEF OpenStore
  <2>7. /\ phase'[r] = "opening"
        /\ \A q \in Replicas : q # r => phase'[q] = phase[q]
    BY <2>6 DEF TypedCalls, TypeOK
  <2>8. call' \in [Procs -> CallStates] /\ CallsInv'
    BY <2>2, <2>3, <2>4, <2>5, <2>7, OneCall
  <2> QED
    BY <2>6, <2>8 DEF TypedCalls, TypeOK
<1>14. ASSUME NEW r \in Replicas, Opened(r) PROVE TypedCalls'
  <2>1. UNCHANGED <<secret, reads>>
    BY <1>14 DEF Opened
  <2>2. copy' \in [Replicas -> Versions]
        /\ phase' \in [Replicas -> {"down", "opening", "serving"}]
    <3>1. Absent \in Versions
      BY EmptyDocType DEF Absent
    <3>2. /\ copy \in [Replicas -> Versions]
          /\ phase \in [Replicas -> {"down", "opening", "serving"}]
      BY DEF TypedCalls, TypeOK
    <3> HIDE DEF Versions
    <3> QED
      BY <1>14, <3>1, <3>2 DEF Opened
  <2>3. CASE UNCHANGED call
    <3>1. call[r].at \notin Open \ {"orphan"}
      BY <1>14 DEF Opened, Open, Ended
    <3>2. \A q \in Replicas : q # r => phase'[q] = phase[q]
      BY <1>14 DEF Opened, TypedCalls, TypeOK
    <3> QED
      BY <2>1, <2>2, <2>3, <3>1, <3>2 DEF TypedCalls, TypeOK, CallsInv, MayAsk
  <2>4. CASE /\ call' = [call EXCEPT ![r] = Fresh(r, [kind |-> "backfill"])]
             /\ UNCHANGED <<copy, phase>>
    <3> DEFINE e == [kind |-> "backfill"]
    <3>1. e \in OpenEdits /\ e \in MayAsk(r)
      BY DEF OpenEdits, MayAsk
    <3> HIDE DEF e
    <3>2. Fresh(r, e) \in CallStates
      BY <3>1, FreshType
    <3>3. Fresh(r, e).at = "ready" /\ Fresh(r, e).edit = e /\ Fresh(r, e).replica = r
      BY DEF Fresh, Handless
    <3>4. call' = [call EXCEPT ![r] = Fresh(r, e)]
      BY <2>4 DEF e
    <3>5. phase[r] = "opening"
      BY <1>14 DEF Opened
    <3>6. call' \in [Procs -> CallStates] /\ CallsInv'
      BY <2>4, <3>1, <3>2, <3>3, <3>4, <3>5, OneCall
    <3> QED
      BY <2>1, <2>2, <3>6 DEF TypedCalls, TypeOK
  <2> QED
    BY <1>14, <2>3, <2>4 DEF Opened
<1>15. ASSUME NEW r \in Replicas, Crash(r) PROVE TypedCalls'
  <2>1. /\ secret' = secret
        /\ copy' \in [Replicas -> Versions]
        /\ reads' \in [Replicas -> SUBSET Versions]
        /\ phase' \in [Replicas -> {"down", "opening", "serving"}]
        /\ phase'[r] = "down"
        /\ \A q \in Replicas : q # r => phase'[q] = phase[q]
    BY <1>15, EmptyDocType DEF Crash, Absent, TypedCalls, TypeOK
  <2>2. ASSUME NEW p \in Procs
        PROVE  \/ call'[p] = call[p] /\ (call[p].replica = r => call[p].at \notin Open)
               \/ /\ call[p].at # "idle"
                  /\ call'[p] = [call[p] EXCEPT !.at = "orphan"]
               \/ /\ call[p].at # "idle" /\ call[p].replica = r
                  /\ call'[p] = Handless("failed", call[p].edit, r, None)
    BY <1>15 DEF Crash, Open
  <2>3. ASSUME NEW p \in Procs
        PROVE  /\ call'[p] \in CallStates
               /\ call'[p].at # "idle" =>
                     call'[p].edit \in MayAsk(p) /\ call'[p].replica \in Replicas
               /\ call'[p].at = "idle" => call'[p] = NoCall
               /\ p \in Replicas =>
                     /\ phase'[p] # "opening" => call'[p].at \notin Open \ {"orphan"}
                     /\ call'[p].at # "idle" => call'[p].replica = p
    <3>1. CASE call'[p] = call[p] /\ (call[p].replica = r => call[p].at \notin Open)
      BY <1>1, <2>1, <3>1 DEF TypedCalls, CallsInv, Open
    <3>2. CASE /\ call[p].at # "idle"
               /\ call'[p] = [call[p] EXCEPT !.at = "orphan"]
      <4>1. p \in Replicas => call[p].replica = p
        BY <3>2 DEF TypedCalls, CallsInv
      <4> QED
        BY <1>1, <1>3, <3>2, <4>1 DEF CallStates, Open
    <3>3. CASE /\ call[p].at # "idle" /\ call[p].replica = r
               /\ call'[p] = Handless("failed", call[p].edit, r, None)
      <4>1. call[p].edit \in MayAsk(p) /\ call[p].edit \in Edits \cup OpenEdits
        BY <1>3, <3>3, MayAskType
      <4>2. p \in Replicas => p = r
        BY <3>3 DEF TypedCalls, CallsInv
      <4> QED
        BY <3>3, <4>1, <4>2, EmptyDocType DEF CallStates, Handless, Open, Ended
    <3> QED
      BY <2>2, <3>1, <3>2, <3>3
  <2>4. call' \in [Procs -> CallStates]
    <3>1. call' = [p \in Procs |-> call'[p]]
      BY <1>15 DEF Crash
    <3> QED
      BY <2>3, <3>1
  <2>5. CallsInv'
    BY <2>3 DEF CallsInv, MayAsk
  <2> QED
    BY <2>1, <2>4, <2>5 DEF TypedCalls, TypeOK
<1>16. CASE UNCHANGED vars
  BY <1>16, SMTT(40) DEF vars, TypedCalls, TypeOK, CallsInv, MayAsk
<1> QED
  BY <1>5, <1>6, <1>7, <1>8, <1>9, <1>10, <1>11, <1>12, <1>13, <1>14, <1>15,
     <1>16 DEF Next

-----------------------------------------------------------------------------
(* Versions: a put that gets through edits the current document. *)

\* What a step of call p does to the calls.
LEMMA CallStep ==
    ASSUME TypedCalls, NEW p \in Procs,
           \/ Prepare(p) \/ Put(p) \/ Answer(p) \/ Fetch(p) \/ Install(p) \/ Fail(p)
    PROVE  /\ \A q \in Procs : q # p => call'[q] = call[q]
           /\ phase' = phase /\ reads' = reads
           /\ call[p].at # "idle"
BY ZenonT(60) DEF TypedCalls, TypeOK, Prepare, Put, Answer, Fetch, Install, Fail, End

\* A call that has ended has nothing in hand.
LEMMA EndStep ==
    ASSUME TypedCalls, NEW p \in Procs, NEW result, NEW value,
           End(p, result, value)
    PROVE  /\ call'[p].at = result /\ call'[p].value = value
           /\ call'[p].edit = call[p].edit /\ call'[p].replica = call[p].replica
BY DEF TypedCalls, TypeOK, End, Handless

\* The ways a call is prepared.
LEMMA PrepareStep ==
    ASSUME TypedCalls, NEW p \in Procs, Prepare(p)
    PROVE  LET base == copy[call[p].replica]
               e == call[p].edit
           IN
           /\ secret' = secret /\ copy' = copy
           /\ e \in MayAsk(p) /\ call[p].replica \in Replicas
           /\ call'[p].edit = e
           /\ \/ call'[p].at = "refused"
              \/ /\ call'[p].at = "ok"
                 /\ Unchanged(base.doc, e) \/ MayRest(base.doc, e)
                 /\ e.kind = "secret" => call'[p].value = base.doc.kv[e.key]
              \/ /\ call'[p].at = "put"
                 /\ ~Refused(base.doc, e)
                 /\ ~Unchanged(base.doc, e)
                 /\ call'[p].doc \in Edited(base.doc, e, p)
                 /\ call'[p].rv = base.rv
                 /\ call'[p].value = p
<1> DEFINE base == copy[call[p].replica]
           e == call[p].edit
<1>1. /\ secret' = secret /\ copy' = copy
      /\ e \in MayAsk(p) /\ call[p].replica \in Replicas
  BY DEF TypedCalls, CallsInv, Prepare
<1> HIDE DEF base, e
<1>2. CASE End(p, "refused", None)
  BY <1>1, <1>2, EndStep DEF e, base
<1>3. CASE /\ Unchanged(base.doc, e) \/ MayRest(base.doc, e)
           /\ End(p, "ok", IF e.kind = "secret" THEN base.doc.kv[e.key] ELSE None)
  <2> DEFINE value == IF e.kind = "secret" THEN base.doc.kv[e.key] ELSE None
  <2>1. End(p, "ok", value)
    BY <1>3
  <2>2. call'[p].at = "ok" /\ call'[p].value = value /\ call'[p].edit = e
    <3> HIDE DEF value
    <3> QED
      BY <2>1, EndStep DEF e
  <2>3. e.kind = "secret" => call'[p].value = base.doc.kv[e.key]
    BY <2>2
  <2>4. Unchanged(base.doc, e) \/ MayRest(base.doc, e)
    BY <1>3
  <2> QED
    BY <1>1, <2>2, <2>3, <2>4 DEF e, base
<1>4. CASE /\ ~Refused(base.doc, e)
           /\ ~Unchanged(base.doc, e)
           /\ \E d \in Edited(base.doc, e, p) :
                 call' = [call EXCEPT ![p].at = "put", ![p].doc = d,
                                      ![p].rv = base.rv, ![p].value = p]
  <2>1. PICK d \in Edited(base.doc, e, p) :
                 call' = [call EXCEPT ![p].at = "put", ![p].doc = d,
                                      ![p].rv = base.rv, ![p].value = p]
    BY <1>4
  <2>2. /\ call'[p].at = "put" /\ call'[p].doc = d /\ call'[p].rv = base.rv
        /\ call'[p].value = p /\ call'[p].edit = e
    BY <2>1 DEF TypedCalls, TypeOK, CallStates, e
  <2> QED
    BY <1>1, <1>4, <2>1, <2>2 DEF e, base
<1> QED
  BY <1>2, <1>3, <1>4, ZenonT(60) DEF Prepare, base, e

LEMMA VersionInit == Init => VersionInv
<1> SUFFICES ASSUME Init PROVE VersionInv
  OBVIOUS
<1>1. secret.rv \in {0, 1} /\ (secret.rv = 0 => secret.doc = EmptyDoc)
  BY DEF Init, Absent
<1> QED
  BY <1>1 DEF Init, VersionInv, Reads, Puts, Absent, NoCall, Handless

LEMMA VersionNext ==
    ASSUME TypedCalls, VersionInv, [Next]_vars
    PROVE  VersionInv'
<1>1. secret.rv \in Nat /\ \A p \in Procs : call[p].rv \in Nat
  BY DEF TypedCalls, TypeOK, Versions, CallStates
<1>2. ASSUME secret' = secret, NEW doc, NEW rv, Reads(doc, rv)
      PROVE  Reads(doc, rv)'
  BY <1>2 DEF Reads
<1>3. ASSUME NEW p \in Procs, secret' = secret, call'[p] = call[p],
             call[p].at \in {"put", "orphan"}
      PROVE  Puts(p)'
  BY <1>3 DEF VersionInv, Puts
<1>4. ASSUME NEW p \in Procs, Prepare(p) PROVE VersionInv'
  <2>1. call'[p].at \in {"put", "orphan"} => Puts(p)'
    BY <1>4, PrepareStep DEF VersionInv, Reads, Puts
  <2>2. call'[p].at \notin {"won", "fetched"}
    BY <1>4, PrepareStep
  <2> QED
    BY <1>2, <1>3, <1>4, <2>1, <2>2, CallStep, PrepareStep DEF VersionInv, Reads
<1>5. ASSUME NEW p \in Procs, Put(p) PROVE VersionInv'
  <2>1. CASE call[p].rv = secret.rv
    <3>1. /\ secret'.rv = secret.rv + 1 /\ secret'.doc = call[p].doc /\ copy' = copy
      BY <1>5, <2>1 DEF Put
    <3>2. \/ /\ call'[p].at = "won"
             /\ call'[p].doc = call[p].doc /\ call'[p].rv = secret.rv + 1
          \/ call'[p].at = "strayed"
      <4>1. CASE call[p].at = "put"
        <5>1. call' = [call EXCEPT ![p].at = "won", ![p].rv = secret.rv + 1]
          BY <1>5, <2>1, <4>1 DEF Put
        <5> QED
          BY <5>1 DEF TypedCalls, TypeOK, CallStates
      <4>2. CASE call[p].at = "orphan"
        <5>1. End(p, "strayed", None)
          BY <1>5, <2>1, <4>2 DEF Put
        <5> QED
          BY <5>1, EndStep
      <4> QED
        BY <1>5, <4>1, <4>2 DEF Put
    <3>3. ASSUME NEW doc, NEW rv, Reads(doc, rv) PROVE Reads(doc, rv)'
      BY <1>1, <3>1, <3>3 DEF Reads
    <3>4. ASSUME NEW q \in Procs, q # p, call[q].at \in {"put", "orphan"}
          PROVE  Puts(q)'
      BY <1>1, <1>5, <3>1, <3>4, CallStep DEF VersionInv, Puts
    <3>5. call'[p].at = "won" => Reads(call[p].doc, call[p].rv)'
      BY <1>1, <3>1, <3>2 DEF Reads
    <3> QED
      BY <1>1, <1>5, <3>1, <3>2, <3>3, <3>4, <3>5, CallStep DEF VersionInv, Reads
  <2>2. CASE call[p].rv # secret.rv
    <3>1. secret' = secret /\ copy' = copy
      BY <1>5, <2>2 DEF Put
    <3>2. call'[p].at \in {"conflict", "failed"}
      <4>1. CASE call[p].at = "put"
        BY <1>5, <2>2, <4>1 DEF Put, TypedCalls, TypeOK, CallStates
      <4>2. CASE call[p].at = "orphan"
        BY <1>5, <2>2, <4>2, EndStep DEF Put
      <4> QED
        BY <1>5, <4>1, <4>2 DEF Put
    <3> QED
      BY <1>2, <1>3, <1>5, <3>1, <3>2, CallStep DEF VersionInv
  <2> QED
    BY <2>1, <2>2
<1>6. ASSUME NEW p \in Procs, Answer(p) PROVE VersionInv'
  <2>1. /\ call[p].replica \in Replicas /\ secret' = secret
        /\ copy' = [copy EXCEPT ![call[p].replica] =
                       [doc |-> call[p].doc, rv |-> call[p].rv]]
        /\ call'[p].at = "ok" /\ call[p].at = "won"
    BY <1>6, EndStep DEF Answer, TypedCalls, CallsInv
  <2>2. \A r \in Replicas : Reads(copy'[r].doc, copy'[r].rv)
    BY <2>1 DEF VersionInv, TypedCalls, TypeOK
  <2> QED
    BY <1>2, <1>3, <1>6, <2>1, <2>2, CallStep DEF VersionInv
<1>7. ASSUME NEW p \in Procs, Fetch(p) PROVE VersionInv'
  <2>1. /\ secret' = secret /\ copy' = copy
        /\ call'[p].at = "fetched" /\ call'[p].doc = secret.doc
        /\ call'[p].rv = secret.rv
    BY <1>7 DEF Fetch, TypedCalls, TypeOK, CallStates
  <2> QED
    BY <1>1, <1>2, <1>3, <1>7, <2>1, CallStep DEF VersionInv, Reads
<1>8. ASSUME NEW p \in Procs, Install(p) PROVE VersionInv'
  <2>1. /\ call[p].replica \in Replicas /\ secret' = secret
        /\ copy' = Installed(call[p].replica, call[p].doc, call[p].rv)
        /\ call[p].at = "fetched"
    BY <1>8 DEF Install, TypedCalls, CallsInv
  <2>2. call'[p].at = "ready"
    BY <1>8 DEF Install, TypedCalls, TypeOK, Fresh, Handless
  <2>3. \A r \in Replicas : Reads(copy'[r].doc, copy'[r].rv)
    BY <2>1 DEF VersionInv, TypedCalls, TypeOK, Installed
  <2> QED
    BY <1>2, <1>3, <1>8, <2>1, <2>2, <2>3, CallStep DEF VersionInv
<1>9. ASSUME NEW p \in Procs, Fail(p) PROVE VersionInv'
  <2>1. secret' = secret /\ copy' = copy
    BY <1>9 DEF Fail
  <2>2. CASE End(p, "failed", None)
    <3>1. call'[p].at = "failed"
      BY <2>2, EndStep
    <3> QED
      BY <1>2, <1>3, <1>9, <2>1, <3>1, CallStep DEF VersionInv
  <2>3. CASE call[p].at = "put" /\ call' = [call EXCEPT ![p].at = "orphan"]
    <3>1. /\ call'[p].at = "orphan" /\ call'[p].rv = call[p].rv
          /\ call'[p].doc = call[p].doc /\ call'[p].edit = call[p].edit
      BY <2>3 DEF TypedCalls, TypeOK, CallStates
    <3>2. Puts(p)'
      BY <2>1, <2>3, <3>1 DEF VersionInv, Puts
    <3> QED
      BY <1>2, <1>3, <1>9, <2>1, <3>1, <3>2, CallStep DEF VersionInv
  <2> QED
    BY <1>9, <2>2, <2>3 DEF Fail
<1>10. ASSUME NEW r \in Replicas, NEW c \in Calls, NEW e \in Requests,
              Start(c, r, e)
       PROVE  VersionInv'
  <2>1. /\ UNCHANGED <<secret, copy, reads>>
        /\ call'[c].at = "ready"
        /\ \A q \in Procs : q # c => call'[q] = call[q]
    BY <1>10 DEF Start, TypedCalls, TypeOK, Fresh, Handless
  <2> QED
    BY <1>2, <1>3, <2>1 DEF VersionInv
<1>11. ASSUME NEW r \in Replicas, Read(r) PROVE VersionInv'
  <2>1. /\ UNCHANGED <<secret, copy, call>>
        /\ \A q \in Replicas : reads'[q] \subseteq reads[q] \cup {secret}
    BY <1>11 DEF Read, TypedCalls, TypeOK
  <2> QED
    BY <1>1, <1>2, <1>3, <2>1 DEF VersionInv, Reads
<1>12. ASSUME NEW r \in Replicas, ReadInstall(r) PROVE VersionInv'
  <2>1. PICK v \in reads[r] :
            /\ UNCHANGED <<secret, call>>
            /\ copy' = Installed(r, v.doc, v.rv)
            /\ reads' \in {reads, [reads EXCEPT ![r] = @ \ {v}]}
    BY <1>12 DEF ReadInstall
  <2>2. \A q \in Replicas : Reads(copy'[q].doc, copy'[q].rv)
    BY <2>1 DEF VersionInv, TypedCalls, TypeOK, Installed
  <2>3. \A q \in Replicas : reads'[q] \subseteq reads[q]
    BY <2>1 DEF TypedCalls, TypeOK
  <2> QED
    BY <1>1, <1>2, <1>3, <2>1, <2>2, <2>3 DEF VersionInv
<1>13. ASSUME NEW r \in Replicas, OpenStore(r) PROVE VersionInv'
  <2>1. /\ UNCHANGED <<secret, reads>>
        /\ \A q \in Replicas : copy'[q] = copy[q] \/ copy'[q] = secret
        /\ \A q \in Procs : call'[q] = call[q] \/ call'[q].at = "ready"
    BY <1>13 DEF OpenStore, TypedCalls, TypeOK, Fresh, Handless
  <2> QED
    BY <1>1, <1>2, <1>3, <2>1 DEF VersionInv, Reads
<1>14. ASSUME NEW r \in Replicas, Opened(r) PROVE VersionInv'
  <2>1. UNCHANGED <<secret, reads>>
    BY <1>14 DEF Opened
  <2>2. \A q \in Replicas : copy'[q] = copy[q] \/ copy'[q] = Absent
    BY <1>14 DEF Opened, TypedCalls, TypeOK
  <2>3. \A q \in Procs : call'[q] = call[q] \/ call'[q].at = "ready"
    BY <1>14 DEF Opened, TypedCalls, TypeOK, Fresh, Handless
  <2> QED
    BY <1>1, <1>2, <1>3, <2>1, <2>2, <2>3 DEF VersionInv, Absent
<1>15. ASSUME NEW r \in Replicas, Crash(r) PROVE VersionInv'
  <2>1. /\ secret' = secret
        /\ \A q \in Replicas : copy'[q] = copy[q] \/ copy'[q] = Absent
        /\ \A q \in Replicas : reads'[q] \subseteq reads[q]
    BY <1>15 DEF Crash, TypedCalls, TypeOK
  <2>2. ASSUME NEW q \in Procs
        PROVE  \/ call'[q] = call[q]
               \/ /\ call[q].at \in {"put", "orphan"}
                  /\ call'[q] = [call[q] EXCEPT !.at = "orphan"]
               \/ call'[q].at = "failed"
    BY <1>15 DEF Crash, Handless
  <2>3. ASSUME NEW q \in Procs, call'[q].at \in {"put", "orphan"} PROVE Puts(q)'
    <3>1. CASE call'[q] = call[q]
      BY <1>3, <2>1, <2>3, <3>1
    <3>2. CASE /\ call[q].at \in {"put", "orphan"}
               /\ call'[q] = [call[q] EXCEPT !.at = "orphan"]
      <4>1. /\ call'[q].rv = call[q].rv /\ call'[q].doc = call[q].doc
            /\ call'[q].edit = call[q].edit
        BY <3>2 DEF TypedCalls, TypeOK, CallStates
      <4> QED
        BY <2>1, <3>2, <4>1 DEF VersionInv, Puts
    <3> QED
      BY <2>2, <2>3, <3>1, <3>2
  <2>4. ASSUME NEW q \in Procs, call'[q].at \in {"won", "fetched"}
        PROVE  call'[q] = call[q]
    BY <2>2, <2>4 DEF TypedCalls, TypeOK, CallStates
  <2> QED
    BY <1>2, <2>1, <2>3, <2>4 DEF VersionInv, Absent
<1>16. CASE UNCHANGED vars
  BY <1>2, <1>3, <1>16 DEF vars, VersionInv
<1> QED
  BY <1>4, <1>5, <1>6, <1>7, <1>8, <1>9, <1>10, <1>11, <1>12, <1>13, <1>14,
     <1>15, <1>16 DEF Next

\* What holds in every reachable state.
Inv == TypedCalls /\ VersionInv

LEMMA Invariance == Spec => []Inv
<1>1. Init => Inv
  BY TypeInit, VersionInit DEF Inv
<1>2. Inv /\ [Next]_vars => Inv'
  BY TypeNext, VersionNext DEF Inv
<1> QED
  BY <1>1, <1>2, PTL DEF Spec

\* Every part of the state keeps its type (k8sStore, stateDoc and the calls of
\* mutate).
THEOREM TypeCorrect == Spec => []TypeOK
<1>1. Inv => TypeOK
  BY DEF Inv, TypedCalls
<1> QED
  BY <1>1, Invariance, PTL

-----------------------------------------------------------------------------
(* Distinct devices. *)

\* A step writes an edit of the current document, or writes nothing.
LEMMA SecretStep ==
    ASSUME Inv, [Next]_vars, secret' # secret
    PROVE  \E p \in Procs :
              /\ Put(p)
              /\ call[p].edit \in MayAsk(p)
              /\ ~Refused(secret.doc, call[p].edit)
              /\ ~Unchanged(secret.doc, call[p].edit)
              /\ secret'.doc \in Edited(secret.doc, call[p].edit, p)
              /\ secret'.doc = call[p].doc
<1>1. PICK p \in Procs : Put(p)
  BY DEF Next, vars, Prepare, Answer, Fetch, Install, Fail, Start, Read, ReadInstall,
         OpenStore, Opened, Crash
<1>2. call[p].rv = secret.rv /\ secret'.doc = call[p].doc
  BY <1>1 DEF Put
<1>3. call[p].at \in {"put", "orphan"}
  BY <1>1 DEF Put
<1>4. Puts(p) /\ call[p].edit \in MayAsk(p)
  BY <1>3 DEF Inv, VersionInv, TypedCalls, CallsInv
<1> QED
  BY <1>1, <1>2, <1>4 DEF Puts

\* Devices never share a name or a letter, however many replicas create,
\* rename and re-letter them at once (k8sStore.mutate).
THEOREM DevicesStayDistinct == Spec => []DevicesAreDistinct
<1>1. Init => DevicesAreDistinct
  BY EmptyDocDistinct, OldDocDistinct DEF Init, Absent, DevicesAreDistinct
<1>2. Inv /\ DevicesAreDistinct /\ [Next]_vars => DevicesAreDistinct'
  <2> SUFFICES ASSUME Inv, DevicesAreDistinct, [Next]_vars PROVE DevicesAreDistinct'
    OBVIOUS
  <2>1. CASE secret' = secret
    BY <2>1 DEF DevicesAreDistinct
  <2>2. CASE secret' # secret
    <3>1. secret.doc \in Docs
      BY DEF Inv, TypedCalls, TypeOK, Versions
    <3>2. Distinct(secret'.doc)
      BY <2>2, <3>1, SecretStep, EditDistinct DEF DevicesAreDistinct
    <3> QED
      BY <3>2 DEF DevicesAreDistinct
  <2> QED
    BY <2>1, <2>2
<1> QED
  BY <1>1, <1>2, Invariance, PTL DEF Spec

-----------------------------------------------------------------------------
(* Generated secrets. *)

LEMMA EditKeepsSecrets ==
    ASSUME NEW doc \in Docs, NEW p \in Procs, NEW e \in MayAsk(p),
           ~Refused(doc, e), ~Unchanged(doc, e), NEW d \in Edited(doc, e, p),
           NEW k \in Keys \ Overwritten, doc.kv[k] # None
    PROVE  d.kv[k] = doc.kv[k]
<1>1. doc.kv \in [Keys -> Writers \cup {None}]
  BY DEF Docs
<1>2. CASE e.kind = "secret"
  <2>1. e.key # k
    BY <1>2 DEF Unchanged
  <2> QED
    BY <1>1, <1>2, <2>1 DEF Edited, Docs
<1>3. CASE e.kind = "putKV"
  <2>1. e \in Requests
    BY <1>3 DEF MayAsk, OpenEdits
  <2>2. e.key # k
    BY <1>3, <2>1 DEF Overwritten
  <2> QED
    BY <1>1, <1>3, <2>2 DEF Edited, Docs
<1>4. CASE e.kind \in {"create", "rename", "setLetter", "rotate", "delete", "touch",
                      "access"}
  BY <1>4 DEF Edited, Docs
<1>5. CASE e.kind \in {"addSub", "removeSub"}
  BY <1>5 DEF Edited, Docs
<1>6. CASE e.kind = "import"
  BY <1>6 DEF Unchanged
<1>7. CASE e.kind = "backfill"
  BY <1>7 DEF Edited, Backfills, Docs
<1> QED
  BY <1>2, <1>3, <1>4, <1>5, <1>6, <1>7 DEF MayAsk, Edits, OpenEdits

LEMMA SecretsStay ==
    ASSUME Inv, [Next]_vars, NEW k \in Keys \ Overwritten, secret.doc.kv[k] # None
    PROVE  secret'.doc.kv[k] = secret.doc.kv[k]
<1>1. secret.doc \in Docs
  BY DEF Inv, TypedCalls, TypeOK, Versions
<1> QED
  BY <1>1, SecretStep, EditKeepsSecrets

LEMMA KeptStays ==
    ASSUME Inv, [Next]_vars, NEW doc, Kept(doc)
    PROVE  Kept(doc)'
<1>1. Overwritten' = Overwritten
  BY DEF Overwritten
<1> QED
  BY <1>1, SecretsStay DEF Kept

LEMMA GivenStays ==
    ASSUME Inv, [Next]_vars, NEW c \in Calls, Given(c),
           call[c].at \in {"won", "ok"},
           call'[c].at \in {"won", "ok"}, call'[c].edit = call[c].edit,
           call'[c].value = call[c].value
    PROVE  Given(c)'
<1>1. call[c].edit.kind = "secret" => call[c].edit.key \in Keys
  BY DEF Inv, TypedCalls, CallsInv, MayAsk, Edits
<1>2. Overwritten' = Overwritten
  BY DEF Overwritten
<1> QED
  BY <1>1, <1>2, SecretsStay DEF Given

LEMMA SecretInit == Init => SecretInv
BY DEF Init, SecretInv, Kept, Given, Absent, EmptyDoc, NoCall, Handless

LEMMA SecretNext ==
    ASSUME Inv, Inv', SecretInv, [Next]_vars
    PROVE  SecretInv'
<1>1. Kept(EmptyDoc)' /\ Kept(secret.doc)
  BY DEF Kept, EmptyDoc
<1>2. ASSUME NEW doc, Kept(doc) PROVE Kept(doc)'
  BY <1>2, KeptStays
<1>3. ASSUME NEW c \in Calls, call'[c] = call[c] PROVE Given(c)'
  BY <1>3, GivenStays DEF SecretInv, Given
<1>4. ASSUME NEW p \in Procs, Prepare(p) PROVE SecretInv'
  <2> DEFINE base == copy[call[p].replica]
             e == call[p].edit
  <2>1. e \in MayAsk(p) /\ call[p].replica \in Replicas
    BY <1>4, PrepareStep DEF Inv
  <2>2. base.doc \in Docs /\ Kept(base.doc)
    BY <2>1, SMTT(40) DEF SecretInv, Inv, TypedCalls, TypeOK, Versions
  <2>3. secret' = secret /\ copy' = copy /\ reads' = reads
        /\ \A q \in Procs : q # p => call'[q] = call[q]
    BY <1>4, PrepareStep, CallStep DEF Inv
  <2>4. call'[p].at \in {"put", "ok", "refused"}
        /\ (call'[p].at = "put" => call'[p].value = p)
        /\ call'[p].edit = e
    BY <1>4, PrepareStep, SMTT(40) DEF Inv
  <2>5. ASSUME p \in Calls, call'[p].at = "ok", e.kind = "secret"
        PROVE  /\ call'[p].value # None
               /\ call'[p].value = secret.doc.kv[e.key] \/ e.key \in Overwritten
    <3>1. call'[p].value = base.doc.kv[e.key] /\ Unchanged(base.doc, e)
      BY <1>4, <2>5, PrepareStep DEF Inv, MayRest
    <3>2. base.doc.kv[e.key] # None
      BY <2>5, <3>1 DEF Unchanged
    <3>3. e.key \in Keys
      BY <2>1, <2>5 DEF MayAsk, Edits
    <3> QED
      BY <2>2, <3>1, <3>2, <3>3 DEF Kept
  <2>6. p \in Calls => Given(p)'
    BY <2>3, <2>4, <2>5 DEF Given, Overwritten
  <2> QED
    BY <1>2, <1>3, <2>3, <2>4, <2>6 DEF SecretInv
<1>5. ASSUME NEW p \in Procs, Put(p) PROVE SecretInv'
  <2>1. copy' = copy /\ reads' = reads /\ \A q \in Procs : q # p => call'[q] = call[q]
    BY <1>5, CallStep DEF Put, Inv
  <2>2. CASE call[p].at = "put" /\ call[p].rv = secret.rv
    <3>1. call' = [call EXCEPT ![p].at = "won", ![p].rv = secret.rv + 1]
      BY <1>5, <2>2 DEF Put
    <3>2. /\ call'[p].at = "won" /\ call'[p].doc = call[p].doc
          /\ call'[p].value = call[p].value /\ call'[p].edit = call[p].edit
      BY <3>1 DEF Inv, TypedCalls, TypeOK, CallStates
    <3>3. secret'.doc = call[p].doc
      BY <1>5, <2>2 DEF Put
    <3>4. Kept(call[p].doc)'
      BY <3>2, <3>3 DEF Kept
    <3>5. ASSUME p \in Calls, call[p].edit.kind = "secret"
          PROVE  call[p].value = p /\ secret'.doc.kv[call[p].edit.key] = p
      <4>1. /\ call[p].edit \in MayAsk(p)
            /\ call[p].doc \in Edited(secret.doc, call[p].edit, p)
        BY <2>2 DEF Inv, VersionInv, Puts, TypedCalls, CallsInv
      <4>2. call[p].edit.key \in Keys
        BY <3>5, <4>1 DEF MayAsk, Edits
      <4>3. secret.doc \in Docs
        BY DEF Inv, TypedCalls, TypeOK, Versions
      <4>4. call[p].doc.kv[call[p].edit.key] = p
        BY <3>5, <4>1, <4>2, <4>3 DEF Edited, Docs
      <4> QED
        BY <2>2, <3>3, <3>5, <4>4 DEF SecretInv
    <3>6. p \in Calls => Given(p)'
      BY <3>2, <3>5 DEF Given
    <3>7. Kept(call[p].doc)'
      BY <3>2, <3>3 DEF Kept
    <3> QED
      BY <1>2, <1>3, <2>1, <3>2, <3>6, <3>7 DEF SecretInv
  <2>3. CASE ~(call[p].at = "put" /\ call[p].rv = secret.rv)
    <3>1. call'[p].at \in {"strayed", "conflict", "failed"}
      <4>1. CASE call[p].at = "put"
        BY <1>5, <2>3, <4>1 DEF Put, Inv, TypedCalls, TypeOK, CallStates
      <4>2. CASE call[p].at = "orphan"
        BY <1>5, <4>2, EndStep DEF Put, Inv
      <4> QED
        BY <1>5, <4>1, <4>2 DEF Put
    <3>2. p \in Calls => Given(p)'
      BY <3>1 DEF Given
    <3> QED
      BY <1>2, <1>3, <2>1, <3>1, <3>2 DEF SecretInv
  <2> QED
    BY <2>2, <2>3
<1>6. ASSUME NEW p \in Procs, Answer(p) PROVE SecretInv'
  <2>1. reads' = reads /\ \A q \in Procs : q # p => call'[q] = call[q]
    BY <1>6, CallStep DEF Inv
  <2>2. /\ call[p].at = "won" /\ call'[p].at = "ok"
        /\ call'[p].value = call[p].value /\ call'[p].edit = call[p].edit
    BY <1>6, EndStep DEF Answer, Inv
  <2>3. \A r \in Replicas :
          copy'[r].doc = copy[r].doc \/ copy'[r].doc = call[p].doc
    BY <1>6 DEF Answer, Inv, TypedCalls, TypeOK
  <2>4. p \in Calls => Given(p)'
    BY <2>2, GivenStays DEF SecretInv
  <2>5. \A r \in Replicas : Kept(copy[r].doc)'
    BY <1>2, <2>2, <2>3 DEF SecretInv
  <2> QED
    BY <1>2, <1>3, <2>1, <2>2, <2>4, <2>5 DEF SecretInv
<1>7. ASSUME NEW p \in Procs, Fetch(p) PROVE SecretInv'
  <2>1. /\ copy' = copy /\ reads' = reads
        /\ \A q \in Procs : q # p => call'[q] = call[q]
        /\ call'[p].at = "fetched" /\ call'[p].doc = secret.doc
    BY <1>7, CallStep DEF Fetch, Inv, TypedCalls, TypeOK, CallStates
  <2>2. p \in Calls => Given(p)'
    BY <2>1 DEF Given
  <2>3. Kept(call[p].doc)'
    BY <1>1, <1>2, <2>1
  <2> QED
    BY <1>2, <1>3, <2>1, <2>2, <2>3 DEF SecretInv
<1>8. ASSUME NEW p \in Procs, Install(p) PROVE SecretInv'
  <2>1. reads' = reads /\ \A q \in Procs : q # p => call'[q] = call[q]
    BY <1>8, CallStep DEF Inv
  <2>2. call[p].at = "fetched" /\ call'[p].at = "ready"
    BY <1>8 DEF Install, Inv, TypedCalls, TypeOK, Fresh, Handless
  <2>3. \A r \in Replicas :
          copy'[r].doc = copy[r].doc \/ copy'[r].doc = call[p].doc
    BY <1>8 DEF Install, Installed, Inv, TypedCalls, TypeOK
  <2>4. p \in Calls => Given(p)'
    BY <2>2 DEF Given
  <2>5. \A r \in Replicas : Kept(copy[r].doc)'
    BY <1>2, <2>2, <2>3 DEF SecretInv
  <2> QED
    BY <1>2, <1>3, <2>1, <2>2, <2>4, <2>5 DEF SecretInv
<1>9. ASSUME NEW p \in Procs, Fail(p) PROVE SecretInv'
  <2>1. /\ copy' = copy /\ reads' = reads
        /\ \A q \in Procs : q # p => call'[q] = call[q]
        /\ call'[p].at \in {"failed", "orphan"}
    <3>1. CASE End(p, "failed", None)
      BY <1>9, <3>1, CallStep, EndStep DEF Fail, Inv
    <3>2. CASE call' = [call EXCEPT ![p].at = "orphan"]
      BY <1>9, <3>2, CallStep DEF Fail, Inv, TypedCalls, TypeOK, CallStates
    <3> QED
      BY <1>9, <3>1, <3>2 DEF Fail
  <2>2. p \in Calls => Given(p)'
    BY <2>1 DEF Given
  <2> QED
    BY <1>2, <1>3, <2>1, <2>2 DEF SecretInv
<1>10. ASSUME NEW r \in Replicas, NEW c \in Calls, NEW e \in Requests,
              Start(c, r, e)
       PROVE  SecretInv'
  <2>1. /\ UNCHANGED <<secret, copy, reads>>
        /\ call'[c].at = "ready"
        /\ \A q \in Procs : q # c => call'[q] = call[q]
    BY <1>10 DEF Start, Inv, TypedCalls, TypeOK, Fresh, Handless
  <2>2. Given(c)'
    BY <2>1 DEF Given
  <2> QED
    BY <1>2, <1>3, <2>1, <2>2 DEF SecretInv
<1>11. ASSUME NEW r \in Replicas,
              \/ Read(r) \/ ReadInstall(r)
              \/ OpenStore(r) \/ Opened(r) \/ Crash(r)
       PROVE  SecretInv'
  <2>1. secret' = secret
    BY <1>11 DEF Read, ReadInstall, OpenStore, Opened, Crash
  <2>2. ASSUME NEW q \in Replicas
        PROVE  /\ \/ copy'[q].doc \in {copy[q].doc, secret.doc, EmptyDoc}
                  \/ \E v \in reads[q] : copy'[q].doc = v.doc
               /\ reads'[q] \subseteq reads[q] \cup {secret}
    <3>1. CASE Read(r)
      BY <3>1 DEF Read, Inv, TypedCalls, TypeOK
    <3>2. CASE ReadInstall(r)
      <4>1. PICK v \in reads[r] :
                /\ copy' = Installed(r, v.doc, v.rv)
                /\ reads' \in {reads, [reads EXCEPT ![r] = @ \ {v}]}
        BY <3>2 DEF ReadInstall
      <4>2. reads'[q] \subseteq reads[q]
        BY <4>1 DEF Inv, TypedCalls, TypeOK
      <4>3. copy'[q] = copy[q] \/ (q = r /\ copy'[q].doc = v.doc)
        BY <4>1 DEF Installed, Inv, TypedCalls, TypeOK
      <4> QED
        BY <4>2, <4>3
    <3>3. CASE OpenStore(r)
      BY <3>3 DEF OpenStore, Inv, TypedCalls, TypeOK
    <3>4. CASE Opened(r)
      BY <3>4 DEF Opened, Absent, Inv, TypedCalls, TypeOK
    <3>5. CASE Crash(r)
      BY <3>5 DEF Crash, Absent, Inv, TypedCalls, TypeOK
    <3> QED
      BY <1>11, <3>1, <3>2, <3>3, <3>4, <3>5
  <2>3. ASSUME NEW q \in Procs
        PROVE  \/ call'[q] = call[q]
               \/ call'[q].at \in {"ready", "orphan", "failed"}
    <3>1. CASE Read(r) \/ ReadInstall(r)
      BY <3>1 DEF Read, ReadInstall
    <3>2. CASE OpenStore(r) \/ Opened(r)
      BY <3>2 DEF OpenStore, Opened, Inv, TypedCalls, TypeOK, Fresh, Handless
    <3>3. CASE Crash(r)
      <4>1. \/ call'[q] = call[q]
            \/ call'[q] = [call[q] EXCEPT !.at = "orphan"]
            \/ call'[q] = Handless("failed", call[q].edit, r, None)
        BY <3>3 DEF Crash
      <4> QED
        BY <4>1 DEF Handless, Inv, TypedCalls, TypeOK, CallStates
    <3> QED
      BY <1>11, <3>1, <3>2, <3>3
  <2>4. \A c \in Calls : Given(c)'
    <3>1. ASSUME NEW c \in Calls, call'[c].at \in {"ready", "orphan", "failed"}
          PROVE  Given(c)'
      BY <3>1 DEF Given
    <3> QED
      BY <1>3, <2>3, <3>1
  <2>5. \A q \in Replicas : Kept(copy[q].doc)' /\ \A v \in reads'[q] : Kept(v.doc)'
    BY <1>1, <1>2, <2>2 DEF SecretInv
  <2>6. \A q \in Procs : call'[q].at \in {"won", "fetched"} => Kept(call[q].doc)'
    BY <1>2, <2>3 DEF SecretInv
  <2> QED
    BY <2>3, <2>4, <2>5, <2>6 DEF SecretInv
<1>12. CASE UNCHANGED vars
  BY <1>2, <1>3, <1>12 DEF vars, SecretInv
<1> QED
  BY <1>4, <1>5, <1>6, <1>7, <1>8, <1>9, <1>10, <1>11, <1>12 DEF Next

\* Replicas racing on an empty store agree on every generated secret (cookie,
\* VAPID and cluster keys; k8sStore.secret).
THEOREM SecretsAreAgreed == Spec => []SecretsAgree
<1>1. Init => SecretInv
  BY SecretInit
<1>2. Inv /\ Inv' /\ SecretInv /\ [Next]_vars => SecretInv'
  BY SecretNext
<1>3. SecretInv => SecretsAgree
  BY DEF SecretInv, Given, SecretsAgree
<1> QED
  BY <1>1, <1>2, <1>3, Invariance, PTL DEF Spec

-----------------------------------------------------------------------------
(* The promise of stateStore. *)

\* The state of the promise, as functions.
edits == [p \in Procs |-> call[p].edit]
stands == [p \in Procs |-> Stands(p)]

\* The promise speaks of the same documents and edits.
LEMMA SameDocs ==
    /\ Promise!Procs = Procs
    /\ Promise!Docs = Docs
    /\ Promise!Edits \cup Promise!OpenEdits = Edits \cup OpenEdits
    /\ Promise!Optional = Optional
    /\ Promise!NoEdit = NoEdit
BY DEF Promise!Procs, Procs, Promise!Docs, Docs, Promise!DevIds, DevIds,
       Promise!Devices, Devices, Promise!Letters, Letters, Promise!Writers,
       Writers, Promise!Edits, Edits, Promise!OpenEdits, OpenEdits,
       Promise!Optional, Optional, Promise!NoEdit, NoEdit

LEMMA SameEdits ==
    ASSUME NEW d, NEW e, NEW p
    PROVE  /\ Promise!Refused(d, e) <=> Refused(d, e)
           /\ Promise!Unchanged(d, e) <=> Unchanged(d, e)
           /\ Promise!Edited(d, e, p) = Edited(d, e, p)
<1> USE DEF Promise!DevIds, DevIds, Promise!Letters, Letters,
            Promise!Present, Present, Promise!Letterless, Letterless
<1>1. Promise!Refused(d, e) <=> Refused(d, e)
  BY DEF Promise!Refused, Refused, Promise!NameTaken, NameTaken,
         Promise!LetterTaken, LetterTaken, Promise!OnDevice, OnDevice
<1>2. Promise!Unchanged(d, e) <=> Unchanged(d, e)
  BY DEF Promise!Unchanged, Unchanged
<1>3. Promise!Edited(d, e, p) = Edited(d, e, p)
  BY DEF Promise!Edited, Edited, Promise!Device, Device, Promise!NextLetter,
         NextLetter, Promise!UsedLetters, UsedLetters, Promise!ImportedDoc,
         ImportedDoc, Promise!OldDoc, OldDoc, Promise!EmptyDoc, EmptyDoc,
         Promise!Backfills, Backfills
<1> QED
  BY <1>1, <1>2, <1>3

\* A step that changes how one call stands, and no document.
LEMMA OneReturn ==
    ASSUME Inv, NEW p \in Procs, NEW result \in {"ok", "refused", "failed"},
           secret' = secret,
           \A q \in Procs : q # p => call'[q] = call[q],
           call'[p].at = result, call'[p].edit = call[p].edit,
           \/ Stands(p) = "applied" /\ result \in {"ok", "failed"}
           \/ Stands(p) = "open" /\ result \in {"refused", "failed"}
           \/ Stands(p) = "open" /\ result = "ok" /\ call[p].edit.kind \in Optional
    PROVE  Promise!Next
<1>1. edits' = edits
  BY DEF edits
<1>2. stands' = [stands EXCEPT ![p] = result]
  <2>1. Stands(p)' = result
    BY DEF Stands, Open
  <2>2. \A q \in Procs : q # p => Stands(q)' = Stands(q)
    BY DEF Stands
  <2> QED
    BY <2>1, <2>2 DEF stands
<1>3. Promise!Return(p, result)
  BY <1>1, <1>2, SameDocs DEF Promise!Return, edits, stands
<1> QED
  BY <1>3, SameDocs DEF Promise!Next, Promise!Ended

\* A call that begins.
LEMMA OneBegin ==
    ASSUME Inv, NEW p \in Procs, NEW e \in Edits \cup OpenEdits,
           secret' = secret, NEW r \in Replicas,
           call' = [call EXCEPT ![p] = Fresh(r, e)],
           call[p].at = "idle" \/ (p \in Replicas /\ call[p].at \in Ended)
    PROVE  Promise!Next
<1>1. edits' = [edits EXCEPT ![p] = e] /\ edits'[p] = e
  BY DEF edits, Fresh, Handless, Inv, TypedCalls, TypeOK
<1>2. stands' = [stands EXCEPT ![p] = "open"]
  <2>1. call'[p] = Fresh(r, e) /\ \A q \in Procs : q # p => call'[q] = call[q]
    BY DEF Inv, TypedCalls, TypeOK
  <2>2. Stands(p)' = "open"
    BY <2>1 DEF Stands, Open, Fresh, Handless
  <2>3. \A q \in Procs : q # p => Stands(q)' = Stands(q)
    BY <2>1 DEF Stands
  <2> QED
    BY <2>2, <2>3 DEF stands
<1>3. Stands(p) = "idle" \/ (p \in Replicas /\ Stands(p) \in {"ok", "refused", "failed", "applied"})
  BY DEF Stands, Open, Ended
<1>4. Promise!Begin(p)
  BY <1>1, <1>2, <1>3, SameDocs DEF Promise!Begin, Promise!Ended, edits, stands
<1> QED
  BY <1>4, SameDocs DEF Promise!Next

\* A step the promise does not see.
LEMMA Stutter ==
    ASSUME Inv, secret' = secret,
           \A q \in Procs : call'[q].edit = call[q].edit /\ Stands(q)' = Stands(q)
    PROVE  UNCHANGED Promise!vars
BY DEF Promise!vars

LEMMA PromiseNext ==
    ASSUME Inv, Inv', [Next]_vars
    PROVE  [Promise!Next]_(Promise!vars)
<1>1. ASSUME NEW p \in Procs, Prepare(p) PROVE [Promise!Next]_(Promise!vars)
  <2>1. /\ secret' = secret
        /\ \A q \in Procs : q # p => call'[q] = call[q]
        /\ call'[p].edit = call[p].edit
        /\ call[p].at = "ready"
    BY <1>1, PrepareStep, CallStep, ZenonT(60) DEF Inv, Prepare
  <2>2. Stands(p) = "open"
    BY <2>1 DEF Stands, Open
  <2>3. CASE call'[p].at = "refused"
    BY <2>1, <2>2, <2>3, OneReturn
  <2>4. CASE call'[p].at = "ok"
    <3>1. call[p].edit.kind \in Optional
      BY <1>1, <2>4, PrepareStep DEF Inv, Unchanged, MayRest, Optional
    <3> QED
      BY <2>1, <2>2, <2>4, <3>1, OneReturn
  <2>5. CASE call'[p].at = "put"
    <3>1. Stands(p)' = "open"
      BY <2>5 DEF Stands, Open
    <3>2. \A q \in Procs : q # p => Stands(q)' = Stands(q)
      BY <2>1 DEF Stands
    <3> QED
      BY <2>1, <2>2, <3>1, <3>2, Stutter
  <2> QED
    BY <1>1, <2>3, <2>4, <2>5, PrepareStep DEF Inv
<1>2. ASSUME NEW p \in Procs, Put(p) PROVE [Promise!Next]_(Promise!vars)
  <2>1. \A q \in Procs : q # p => call'[q] = call[q]
    BY <1>2, CallStep DEF Inv
  <2>2. call[p].at \in {"put", "orphan"} /\ Stands(p) = "open"
    BY <1>2 DEF Put, Stands, Open
  <2>3. call'[p].edit = call[p].edit
        /\ IF call[p].rv = secret.rv THEN call'[p].at \in {"won", "strayed"}
           ELSE call'[p].at = (IF call[p].at = "put" THEN "conflict" ELSE "failed")
    <3>1. CASE call[p].at = "put" /\ call[p].rv = secret.rv
      <4>1. call' = [call EXCEPT ![p].at = "won", ![p].rv = secret.rv + 1]
        BY <1>2, <3>1 DEF Put
      <4> QED
        BY <3>1, <4>1 DEF Inv, TypedCalls, TypeOK, CallStates
    <3>2. CASE call[p].at = "put" /\ call[p].rv # secret.rv
      BY <1>2, <3>2 DEF Put, Inv, TypedCalls, TypeOK, CallStates
    <3>3. CASE call[p].at = "orphan" /\ call[p].rv = secret.rv
      BY <1>2, <3>3, EndStep DEF Put, Inv
    <3>4. CASE call[p].at = "orphan" /\ call[p].rv # secret.rv
      BY <1>2, <3>4, EndStep DEF Put, Inv
    <3> QED
      BY <2>2, <3>1, <3>2, <3>3, <3>4
  <2>4. CASE call[p].rv = secret.rv
    <3>1. Puts(p) /\ secret'.doc = call[p].doc
      BY <1>2, <2>2, <2>4 DEF Inv, VersionInv, Put
    <3>2. edits' = edits
      BY <2>1, <2>3 DEF edits
    <3>3. stands' = [stands EXCEPT ![p] = "applied"]
      <4>1. Stands(p)' = "applied"
        BY <2>3, <2>4 DEF Stands, Open
      <4>2. \A q \in Procs : q # p => Stands(q)' = Stands(q)
        BY <2>1 DEF Stands
      <4> QED
        BY <4>1, <4>2 DEF stands
    <3>4. Promise!Apply(p)
      BY <2>2, <2>4, <3>1, <3>2, <3>3, SameEdits DEF Promise!Apply, Puts, edits, stands
    <3> QED
      BY <3>4, SameDocs DEF Promise!Next
  <2>5. CASE call[p].rv # secret.rv
    <3>1. secret' = secret
      BY <1>2, <2>5 DEF Put
    <3>2. CASE call[p].at = "put"
      <4>1. Stands(p)' = "open"
        BY <2>3, <2>5, <3>2 DEF Stands, Open
      <4>2. \A q \in Procs : q # p => Stands(q)' = Stands(q)
        BY <2>1 DEF Stands
      <4> QED
        BY <2>1, <2>2, <2>3, <3>1, <4>1, <4>2, Stutter
    <3>3. CASE call[p].at = "orphan"
      BY <2>1, <2>2, <2>3, <2>5, <3>1, <3>3, OneReturn
    <3> QED
      BY <2>2, <3>2, <3>3
  <2> QED
    BY <2>4, <2>5
<1>3. ASSUME NEW p \in Procs, Answer(p) PROVE [Promise!Next]_(Promise!vars)
  <2>1. /\ secret' = secret
        /\ \A q \in Procs : q # p => call'[q] = call[q]
        /\ call'[p].at = "ok" /\ call'[p].edit = call[p].edit
    BY <1>3, CallStep, EndStep DEF Answer, Inv
  <2>2. Stands(p) = "applied"
    BY <1>3 DEF Answer, Stands
  <2> QED
    BY <2>1, <2>2, OneReturn
<1>4. ASSUME NEW p \in Procs, Fetch(p) \/ Install(p)
      PROVE  [Promise!Next]_(Promise!vars)
  <2>1. /\ secret' = secret
        /\ \A q \in Procs : q # p => call'[q] = call[q]
    BY <1>4, CallStep DEF Fetch, Install, Inv
  <2>2. /\ call[p].at \in {"conflict", "fetched"} /\ call'[p].at \in {"fetched", "ready"}
        /\ call'[p].edit = call[p].edit
    BY <1>4 DEF Fetch, Install, Inv, TypedCalls, TypeOK, CallStates, Fresh, Handless
  <2>3. Stands(p)' = Stands(p)
    BY <2>2 DEF Stands, Open
  <2>4. \A q \in Procs : q # p => Stands(q)' = Stands(q)
    BY <2>1 DEF Stands
  <2> QED
    BY <2>1, <2>2, <2>3, <2>4, Stutter
<1>5. ASSUME NEW p \in Procs, Fail(p) PROVE [Promise!Next]_(Promise!vars)
  <2>1. /\ secret' = secret
        /\ \A q \in Procs : q # p => call'[q] = call[q]
    BY <1>5, CallStep DEF Fail, Inv
  <2>2. Stands(p) \in {"open", "applied"}
    BY <1>5 DEF Fail, Stands, Open
  <2>3. CASE End(p, "failed", None)
    <3>1. call'[p].at = "failed" /\ call'[p].edit = call[p].edit
      BY <2>3, EndStep DEF Inv
    <3> QED
      BY <2>1, <2>2, <3>1, OneReturn
  <2>4. CASE call[p].at = "put" /\ call' = [call EXCEPT ![p].at = "orphan"]
    <3>1. call'[p].at = "orphan" /\ call'[p].edit = call[p].edit
      BY <2>4 DEF Inv, TypedCalls, TypeOK, CallStates
    <3>2. Stands(p)' = Stands(p)
      BY <2>4, <3>1 DEF Stands, Open
    <3>3. \A q \in Procs : q # p => Stands(q)' = Stands(q)
      BY <2>1 DEF Stands
    <3> QED
      BY <2>1, <3>1, <3>2, <3>3, Stutter
  <2> QED
    BY <1>5, <2>3, <2>4 DEF Fail
<1>6. ASSUME NEW r \in Replicas, NEW c \in Calls, NEW e \in Requests,
             Start(c, r, e)
      PROVE  [Promise!Next]_(Promise!vars)
  BY <1>6, OneBegin DEF Start
<1>7. ASSUME NEW r \in Replicas, Read(r) \/ ReadInstall(r)
      PROVE  [Promise!Next]_(Promise!vars)
  BY <1>7 DEF Read, ReadInstall, Promise!vars, Stands
<1>8. ASSUME NEW r \in Replicas, OpenStore(r) PROVE [Promise!Next]_(Promise!vars)
  <2>1. call[r].at = "idle" \/ call[r].at \in Ended
    <3>1. call[r].at \notin Open
      BY <1>8 DEF OpenStore, Inv, TypedCalls, CallsInv
    <3> QED
      BY <3>1 DEF Inv, TypedCalls, TypeOK, CallStates
  <2> DEFINE e == [kind |-> IF secret.rv = 0 /\ r \in HasFile THEN "import"
                            ELSE "backfill"]
  <2>2. e \in OpenEdits
    BY DEF OpenEdits
  <2>3. secret' = secret /\ call' = [call EXCEPT ![r] = Fresh(r, e)]
    BY <1>8 DEF OpenStore
  <2> HIDE DEF e
  <2> QED
    BY <2>1, <2>2, <2>3, OneBegin
<1>9. ASSUME NEW r \in Replicas, Opened(r) PROVE [Promise!Next]_(Promise!vars)
  <2>1. secret' = secret
    BY <1>9 DEF Opened
  <2>2. CASE call' = call
    BY <2>1, <2>2 DEF Promise!vars, Stands
  <2>3. CASE /\ call' = [call EXCEPT ![r] = Fresh(r, [kind |-> "backfill"])]
             /\ call[r].at = "ok"
    <3> DEFINE e == [kind |-> "backfill"]
    <3>1. e \in OpenEdits
      BY DEF OpenEdits
    <3> HIDE DEF e
    <3>2. call' = [call EXCEPT ![r] = Fresh(r, e)]
      BY <2>3 DEF e
    <3> QED
      BY <2>1, <2>3, <3>1, <3>2, OneBegin DEF Ended
  <2> QED
    BY <1>9, <2>2, <2>3 DEF Opened
<1>10. ASSUME NEW r \in Replicas, Crash(r) PROVE [Promise!Next]_(Promise!vars)
  <2>1. secret' = secret
    BY <1>10 DEF Crash
  <2>2. ASSUME NEW q \in Procs
        PROVE  /\ call'[q].edit = call[q].edit
               /\ Stands(q)' # Stands(q) =>
                     Stands(q) \in {"open", "applied"} /\ Stands(q)' = "failed"
    <3>1. \/ call'[q] = call[q]
          \/ /\ call[q].at \in {"put", "orphan"}
             /\ call'[q] = [call[q] EXCEPT !.at = "orphan"]
          \/ /\ call[q].at \in Open
             /\ call'[q] = Handless("failed", call[q].edit, r, None)
      BY <1>10 DEF Crash
    <3>2. CASE call'[q] = call[q]
      BY <3>2 DEF Stands
    <3>3. CASE /\ call[q].at \in {"put", "orphan"}
               /\ call'[q] = [call[q] EXCEPT !.at = "orphan"]
      <4>1. call'[q].at = "orphan" /\ call'[q].edit = call[q].edit
        BY <3>3 DEF Inv, TypedCalls, TypeOK, CallStates
      <4> QED
        BY <3>3, <4>1 DEF Stands, Open
    <3>4. CASE /\ call[q].at \in Open
               /\ call'[q] = Handless("failed", call[q].edit, r, None)
      <4>1. call'[q].at = "failed" /\ call'[q].edit = call[q].edit
        BY <3>4 DEF Handless
      <4> QED
        BY <3>4, <4>1 DEF Stands, Open
    <3> QED
      BY <3>1, <3>2, <3>3, <3>4
  <2>3. Promise!Abandon
    BY <2>1, <2>2 DEF Promise!Abandon, Promise!Procs
  <2> QED
    BY <2>3 DEF Promise!Next
<1>11. CASE UNCHANGED vars
  BY <1>11 DEF vars, Promise!vars, Stands
<1> QED
  BY <1>1, <1>2, <1>3, <1>4, <1>5, <1>6, <1>7, <1>8, <1>9, <1>10, <1>11 DEF Next

\* The Secret implements the store the handlers were promised: for any number
\* of replicas and calls, every edit is made on the current document, at one
\* moment and at most once (k8sStore.mutate, putState).
THEOREM SecretImplementsStore == Spec => EditsAreAtomic
<1>1. Init => Promise!Init
  <2> SUFFICES ASSUME Init PROVE Promise!Init
    OBVIOUS
  <2>1. secret.doc \in Docs
    BY TypeInit DEF TypedCalls, TypeOK, Versions
  <2>2. \A p \in Procs : call[p].edit = NoEdit /\ Stands(p) = "idle"
    BY DEF Init, NoCall, Handless, Stands, Open
  <2> QED
    BY <2>1, <2>2, SameDocs DEF Promise!Init
<1>2. Inv /\ Inv' /\ [Next]_vars => [Promise!Next]_(Promise!vars)
  BY PromiseNext
<1> QED
  BY <1>1, <1>2, Invariance, PTL DEF Spec, EditsAreAtomic, Promise!Spec

=============================================================================
