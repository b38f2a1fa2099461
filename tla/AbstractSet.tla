---- MODULE AbstractSet ----
(***************************************************************************)
(* What the four set libraries of contracts/setTypes promise their users:  *)
(* a set of keys to which a key that is absent can be added and from which *)
(* a key that is present can be removed.                                   *)
(***************************************************************************)
CONSTANT Key
VARIABLE members

Init == members = {}

Add(k) == k \notin members /\ members' = members \cup {k}

Drop(k) == k \in members /\ members' = members \ {k}

Next == \E k \in Key : Add(k) \/ Drop(k)

Spec == Init /\ [][Next]_members
====
