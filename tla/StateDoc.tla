------------------------------- MODULE StateDoc -------------------------------
(***************************************************************************)
(* The hub's state document and the edits made to it                       *)
(* (src/internal/hub/k8sstore.go, the functions given to mutate).          *)
(*                                                                         *)
(* Tokens, device ids and generated secrets are random, so each is named   *)
(* by the call that made it; a kv value is named by its writer.  Letters   *)
(* are numbered in the order nextLetter tries them; 0 is "no letter".      *)
(***************************************************************************)
EXTENDS Naturals

CONSTANTS
    Calls,       \* calls to the store
    Replicas,    \* hub replicas; each also makes the calls of openK8sStore
    OldDevice,   \* the device of an imported hub.sqlite, or of an old Secret
    Names,       \* device names
    NLetters,    \* 26 + 26 * 26
    Keys,        \* rows of kv
    Endpoints,   \* push endpoints
    None         \* absent

ASSUME DocAssumption ==
    /\ NLetters \in Nat \ {0}
    /\ OldDevice \notin Calls
    /\ None \notin Calls \cup {OldDevice}
    /\ Names # {}
    /\ Calls \cap Replicas = {}

Procs == Calls \cup Replicas
DevIds == Calls \cup {OldDevice}
Writers == Calls \cup {OldDevice}
Letters == 1..NLetters

\* touchDevice's stamp and setPeerAccess's level, by the call that wrote them.
Devices == [name: Names, letter: Letters \cup {0}, token: Writers,
            seen: Writers, access: Writers]

\* Sub ids are numbered by next_sub_id; 0 is "no subscription".
Docs == [devices: [DevIds -> Devices \cup {None}],
         kv: [Keys -> Writers \cup {None}],
         subs: [Endpoints -> Nat],
         nextSub: Nat]

Device(name, letter, token) ==
    [name |-> name, letter |-> letter, token |-> token,
     seen |-> OldDevice, access |-> OldDevice]

Present(doc) == {d \in DevIds : doc.devices[d] # None}

EmptyDoc ==
    [devices |-> [d \in DevIds |-> None], kv |-> [k \in Keys |-> None],
     subs |-> [e \in Endpoints |-> 0], nextSub |-> 0]

\* A document with one device, registered before letters (l = 0) or after.
OldDoc(name, l) ==
    [EmptyDoc EXCEPT !.devices[OldDevice] = Device(name, l, OldDevice)]

\* readSQLiteState: opening the file gives its devices letters.
ImportedDoc == OldDoc(CHOOSE n \in Names : TRUE, 1)

-----------------------------------------------------------------------------
(* Names and letters. *)

NameTaken(doc, n, except) ==
    \E d \in Present(doc) : d # except /\ doc.devices[d].name = n

LetterTaken(doc, l, except) ==
    \E d \in Present(doc) : d # except /\ doc.devices[d].letter = l

\* No two devices share a name, or a letter.
Distinct(doc) ==
    \A d, e \in Present(doc) : d # e =>
        /\ doc.devices[d].name # doc.devices[e].name
        /\ doc.devices[d].letter = doc.devices[e].letter =>
              doc.devices[d].letter = 0

UsedLetters(doc) == {doc.devices[d].letter : d \in Present(doc)} \ {0}

\* Mutant: the letter after the last one used.
NextLetterAfterLast(used) ==
    IF used = {} THEN 1 ELSE 1 + CHOOSE l \in used : \A m \in used : m <= l

\* The first letter not used; no letter once all are.
NextLetter(used) ==
    LET free == {l \in Letters \ used : 1..(l - 1) \subseteq used}
    IN IF free = {} THEN 0 ELSE CHOOSE l \in free : TRUE

\* backfillLetters: the devices without a letter get the first free ones, in
\* registration order (which is any order here).
Letterless(doc) == {d \in Present(doc) : doc.devices[d].letter = 0}

Backfills(doc) ==
    LET bare == Letterless(doc)
        used == UsedLetters(doc)
        Fits(f) ==
            \A d \in bare :
                /\ f[d] \notin used
                /\ f[d] # 0 => \A e \in bare \ {d} : f[e] # f[d]
                /\ \A l \in Letters : f[d] = 0 \/ l < f[d] =>
                      l \in used \cup {f[e] : e \in bare}
    IN {[doc EXCEPT !.devices =
            [d \in DevIds |-> IF d \in bare THEN [@[d] EXCEPT !.letter = f[d]]
                              ELSE @[d]]] :
            f \in {g \in [bare -> Letters \cup {0}] : Fits(g)}}

-----------------------------------------------------------------------------
(* Edits. *)

Edits ==
    [kind: {"secret", "putKV"}, key: Keys]
    \cup [kind: {"create"}, name: Names]
    \cup [kind: {"rename"}, id: DevIds, name: Names]
    \cup [kind: {"setLetter"}, id: DevIds, letter: Letters]
    \cup [kind: {"rotate", "delete", "touch", "access"}, id: DevIds]
    \cup [kind: {"addSub", "removeSub"}, endpoint: Endpoints]

OpenEdits == [kind: {"import", "backfill"}]

NoEdit == [kind |-> "none"]

\* The edits that need the device to exist (sql.ErrNoRows).
OnDevice == {"rotate", "delete", "rename", "setLetter", "access"}

\* The edits that may find nothing to do (errNoChange).
Optional == {"secret", "touch", "removeSub", "import", "backfill"}

\* The function returns an error: nothing is written.
Refused(doc, e) ==
    \/ e.kind = "create" /\ NameTaken(doc, e.name, None)
    \/ e.kind \in OnDevice /\ e.id \notin Present(doc)
    \/ e.kind = "rename" /\ NameTaken(doc, e.name, e.id)
    \/ e.kind = "setLetter" /\ LetterTaken(doc, e.letter, e.id)

\* The function returns errNoChange.  (Values are new with each call, so putKV
\* never finds its own value there already.)
Unchanged(doc, e) ==
    \/ e.kind = "secret" /\ doc.kv[e.key] # None
    \/ e.kind = "touch" /\ e.id \notin Present(doc)
    \/ e.kind = "removeSub" /\ doc.subs[e.endpoint] = 0
    \/ /\ e.kind = "import"
       /\ Present(doc) # {} \/ \E k \in Keys : doc.kv[k] # None
    \/ e.kind = "backfill" /\ Letterless(doc) = {}

\* touchDevice returns errNoChange for a device it finds, too, when that was seen
\* less than touchEvery ago under the same host and version: it may.
MayRest(doc, e) == e.kind = "touch" /\ e.id \in Present(doc)

\* The documents the function may make of doc for call p.
Edited(doc, e, p) ==
    CASE e.kind \in {"secret", "putKV"} -> {[doc EXCEPT !.kv[e.key] = p]}
      [] e.kind = "create" ->
            {[doc EXCEPT !.devices[p] =
                Device(e.name, NextLetter(UsedLetters(doc)), p)]}
      [] e.kind = "rename" -> {[doc EXCEPT !.devices[e.id].name = e.name]}
      [] e.kind = "setLetter" ->
            {[doc EXCEPT !.devices[e.id].letter = e.letter]}
      [] e.kind = "rotate" -> {[doc EXCEPT !.devices[e.id].token = p]}
      [] e.kind = "delete" -> {[doc EXCEPT !.devices[e.id] = None]}
      [] e.kind = "touch" -> {[doc EXCEPT !.devices[e.id].seen = p]}
      [] e.kind = "access" -> {[doc EXCEPT !.devices[e.id].access = p]}
      [] e.kind = "addSub" ->
            IF doc.subs[e.endpoint] # 0 THEN {doc}
            ELSE {[doc EXCEPT !.nextSub = @ + 1,
                              !.subs[e.endpoint] = doc.nextSub + 1]}
      [] e.kind = "removeSub" -> {[doc EXCEPT !.subs[e.endpoint] = 0]}
      [] e.kind = "import" -> {ImportedDoc}
      [] e.kind = "backfill" -> Backfills(doc)
=============================================================================
