----------------------------- MODULE MCStateSecret -----------------------------
(* StateSecret for TLC: registry edits and keys, on two replicas.             *)
EXTENDS StateSecret, TLC

CONSTANTS c1, c2, r1, r2, n1, n2, k1, e1

RegistryRequests ==
    {[kind |-> "create", name |-> n2],
     [kind |-> "rename", id |-> OldDevice, name |-> n2],
     [kind |-> "setLetter", id |-> OldDevice, letter |-> 2],
     [kind |-> "rotate", id |-> OldDevice],
     [kind |-> "delete", id |-> OldDevice]}

KeyRequests ==
    {[kind |-> "secret", key |-> k1],
     [kind |-> "addSub", endpoint |-> e1],
     [kind |-> "removeSub", endpoint |-> e1]}

MCSymmetry == Permutations({r1, r2}) \cup Permutations({c1, c2})
=============================================================================
