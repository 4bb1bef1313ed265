---------------------------- MODULE CredentialCell ----------------------------
(***************************************************************************)
(* What the credential broker promises of one owner at one provider: a     *)
(* cell that names one credential at a time.  Each content of the cell is  *)
(* a generation of its own.  A credential enters it once, with its         *)
(* material in the store, and takes the place of the credential it was     *)
(* rotated from or comes from a login; it is taken out without a successor *)
(* only when the provider refuses it.  Callers are given what the cell has *)
(* held, and material is destroyed only of what it does not name.          *)
(***************************************************************************)
EXTENDS Naturals

CONSTANTS
    Credential,
    None         \* no credential

VARIABLES
    cell,      \* what the cell holds: a generation and its credential, if any
    held,      \* everything it has held
    known,     \* the credentials that the provider has issued
    parent,    \* what each of them was rotated from
    accepted,  \* those that the provider accepts
    material,  \* those whose material is in the store
    served     \* what callers were given

vars == <<cell, held, known, parent, accepted, material, served>>

Empty == [gen |-> 0, secret |-> None]

WasHeld(c) == \E p \in held : p.secret = c

Init ==
    /\ cell = Empty /\ held = {Empty}
    /\ known = {} /\ accepted = {} /\ material = {} /\ served = {}
    /\ parent = [c \in Credential |-> None]

\* The provider issues a credential, for another one that is thereby spent or for a
\* login; what a login brings is stored at once or never.
Issue(from) ==
    \E c \in Credential \ known :
        /\ from \in accepted \cup {None}
        /\ known' = known \cup {c}
        /\ parent' = [parent EXCEPT ![c] = from]
        /\ accepted' = (accepted \ {from}) \cup {c}
        /\ \/ UNCHANGED material
           \/ from = None /\ material' = material \cup {c}
        /\ UNCHANGED <<cell, held, served>>

\* Nothing is stored again once the cell has held it.
Store(c) ==
    /\ c \in known /\ ~WasHeld(c)
    /\ material' = material \cup {c}
    /\ UNCHANGED <<cell, held, known, parent, accepted, served>>

Hold(c) ==
    /\ cell' = [gen |-> cell.gen + 1, secret |-> c]
    /\ held' = held \cup {cell'}

\* Whoever publishes a rotated credential may be served it at once.
Publish(c) ==
    /\ c \in material /\ ~WasHeld(c)
    /\ parent[c] \in {None, cell.secret}
    /\ Hold(c)
    /\ served' \in {served, served \cup {cell'}}
    /\ UNCHANGED <<known, parent, accepted, material>>

Clear ==
    /\ cell.secret # None /\ cell.secret \notin accepted
    /\ Hold(None)
    /\ UNCHANGED <<known, parent, accepted, material, served>>

Serve(p) ==
    /\ p \in held /\ p.secret # None
    /\ served' = served \cup {p}
    /\ UNCHANGED <<cell, held, known, parent, accepted, material>>

Destroy(c) ==
    /\ c # cell.secret
    /\ material' = material \ {c}
    /\ UNCHANGED <<cell, held, known, parent, accepted, served>>

\* The provider stops accepting a credential.
Revoke(c) ==
    /\ accepted' = accepted \ {c}
    /\ UNCHANGED <<cell, held, known, parent, material, served>>

Next ==
    \/ Clear
    \/ \E c \in Credential : Store(c) \/ Publish(c) \/ Destroy(c) \/ Revoke(c)
    \/ \E c \in Credential \cup {None} : Issue(c)
    \/ \E p \in held : Serve(p)

Spec == Init /\ [][Next]_vars

\* Only what the provider has issued enters the cell or the store.
OnlyIssued ==
    /\ material \subseteq known
    /\ \A p \in held : p.secret \in known \cup {None}

\* A credential that was replaced or cleared does not come back, whoever still holds it.
ReplacedForGood ==
    \A c \in Credential : [](WasHeld(c) /\ cell.secret # c => [](cell.secret # c))

\* Material that was destroyed once its credential had been in the cell stays so: no
\* late write restores it.
DestroyedForGood ==
    \A c \in Credential : [](WasHeld(c) /\ c \notin material => [](c \notin material))
===============================================================================
