------------------------------- MODULE KeyRing -------------------------------
(***************************************************************************)
(* What the issuer's signing keys promise together: a ring of keys.  A key *)
(* is published, becomes the one that signs and is retired, or signs from  *)
(* the start; at most one signs, it is retired only while a successor is   *)
(* published, and the material of a key in the ring is never destroyed.    *)
(***************************************************************************)
CONSTANT Key

VARIABLES
    state,     \* per key: none (not in the ring), pending, active, retired
    material   \* the keys whose private half is in the secret store

vars == <<state, material>>

KeysIn(s) == {k \in Key : state[k] = s}

Init ==
    /\ state = [k \in Key |-> "none"]
    /\ material = {}

Enter(k, s) == state' = [state EXCEPT ![k] = s]

Store(k) ==
    /\ state[k] = "none"
    /\ material' = material \cup {k}
    /\ UNCHANGED state

\* Only of keys that are not in the ring, whoever gave them up.
Destroy(K) ==
    /\ K \subseteq KeysIn("none")
    /\ material' = material \ K
    /\ UNCHANGED state

\* What is published is stored by then.
Publish(k) ==
    /\ state[k] = "none"
    /\ Enter(k, "pending")
    /\ material' = material \cup {k}

Activate(k) ==
    /\ state[k] \in {"none", "pending"} /\ k \in material
    /\ KeysIn("active") = {}
    /\ Enter(k, "active")
    /\ UNCHANGED material

Retire(k) ==
    /\ state[k] = "active"
    /\ KeysIn("pending") # {}
    /\ Enter(k, "retired")
    /\ UNCHANGED material

Next ==
    \/ \E k \in Key : Store(k) \/ Publish(k) \/ Activate(k) \/ Retire(k)
    \/ \E K \in SUBSET Key : Destroy(K)

Spec == Init /\ [][Next]_vars

\* The private half of every key in the ring is stored.
AllStored == \A k \in Key : state[k] # "none" => k \in material

\* Once a key is in the ring its private half stays, whether it waits, signs or has
\* been retired.
MaterialForGood ==
    \A k \in Key : [](state[k] # "none" => [](k \in material))

\* A key that was retired does not sign again.
RetiredForGood ==
    \A k \in Key : [](state[k] = "retired" => [](state[k] = "retired"))
==============================================================================
