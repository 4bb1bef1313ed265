----------------------------- MODULE SigningKeys -----------------------------
(***************************************************************************)
(* The issuer's signing keys (domain/signing-keys.ts).  A key is a row     *)
(* (pending, active, retired; at most one active) and private material in  *)
(* the secret store.  Every instance makes sure at boot that some key is   *)
(* active; operators publish a successor and activate it in two writes.    *)
(* Nothing but the row versions and the unique index orders them.          *)
(*                                                                         *)
(* Rows only move forward, so a row version is the state it was read in,   *)
(* and a comparison with it is a comparison of states.                     *)
(***************************************************************************)
EXTENDS Naturals, FiniteSets

CONSTANTS
    Owner,       \* boots: each owns a bootstrap state; a restart is another boot
    Rotation,    \* operators' requests that run at a time
    Unstaged,    \* those that publish and activate in one call
    Late,        \* actors whose insert may land after its answer was given up
    Nobody,      \* no maker
    Somebody,    \* a maker that keeps no candidate: a request, or a process that is gone
    MaxKey,      \* keys, in the order of their created_at
    MaxFaults    \* bound on failed calls, lost answers and dead boots together

Key == 1 .. MaxKey
NoKey == 0

ASSUME KeysAssumption ==
    /\ {MaxKey, MaxFaults} \subseteq Nat
    /\ Owner \cap Rotation = {}
    /\ {Nobody, Somebody} \cap Owner = {} /\ Nobody # Somebody
    /\ Unstaged \subseteq Rotation /\ Late \subseteq Owner \cup Rotation

VARIABLES
    keys,      \* per key: no row, or the state of its row
    stored,    \* keys whose acknowledged secret version exists
    maker,     \* per key: the boot whose candidate it was made as, if any
    flight,    \* inserts given up that may still land: key and state
    boot,      \* per owner: its step, its candidate and the key it adopts
    rotation,  \* per request: kind, step, the key it replaces, its target
    faults

vars == <<keys, stored, maker, flight, boot, rotation, faults>>

RowState == {"none", "pending", "active", "retired"}
BootStep == {"idle", "adopt", "make", "insert", "last", "drop", "cleanup"}
RotationStep == {"idle", "publish", "write", "confirm", "converge",
                 "retire", "activate"}

BootRecord ==
    [step : BootStep, kid : Key \cup {NoKey}, written : BOOLEAN, barred : BOOLEAN,
     target : Key \cup {NoKey}]
RotationRecord ==
    [step : RotationStep, kind : {"publish", "rotate"}, pin : Key \cup {NoKey},
     target : Key \cup {NoKey}]

NoBoot == [step |-> "idle", kid |-> NoKey, written |-> FALSE, barred |-> FALSE,
           target |-> NoKey]
NoRotation == [step |-> "idle", kind |-> "publish", pin |-> NoKey, target |-> NoKey]

TypeOK ==
    /\ keys \in [Key -> RowState]
    /\ stored \subseteq Key
    /\ maker \in [Key -> Owner \cup {Nobody, Somebody}]
    /\ flight \subseteq Key \X {"pending", "active"}
    /\ boot \in [Owner -> BootRecord]
    /\ rotation \in [Rotation -> RotationRecord]
    /\ \A b \in Owner :
          /\ boot[b].step = "adopt" => boot[b].target \in Key
          /\ boot[b].step \in {"insert", "drop", "cleanup"} => boot[b].kid \in Key
    /\ \A r \in Rotation :
          /\ rotation[r].step \in {"confirm", "converge", "retire", "activate"} =>
                rotation[r].target \in Key
          /\ rotation[r].step = "retire" => rotation[r].pin \in Key
    /\ faults \in 0 .. MaxFaults

Init ==
    /\ keys = [k \in Key |-> "none"]
    /\ stored = {} /\ flight = {}
    /\ maker = [k \in Key |-> Nobody]
    /\ boot = [b \in Owner |-> NoBoot]
    /\ rotation = [r \in Rotation |-> NoRotation]
    /\ faults = 0

Fault == faults < MaxFaults /\ faults' = faults + 1
NoFault == UNCHANGED faults

--------------------------------------------------------------------------------
(* The store. *)

In(state) == {k \in Key : keys[k] = state}

\* The key of a set of at most one, or NoKey.
The(K) == IF K = {} THEN NoKey ELSE CHOOSE k \in K : TRUE

ActiveRow == The(In("active"))

\* The pending key of the latest created_at.
NewestPending == The({k \in In("pending") : \A j \in In("pending") : j <= k})

\* The unique index admits one active key, the primary key one row.
Insertable(k, state) == keys[k] = "none" /\ (state = "active" => In("active") = {})

\* The compare-and-set of a row read as from: the index may refuse it too.
Movable(k, from, to) == keys[k] = from /\ (to = "active" => In("active") = {})

Set(k, state) == keys' = [keys EXCEPT ![k] = state]

NoRowChange == UNCHANGED keys

InFlight(k) == \E f \in flight : f[1] = k

\* No row names the key, nor will one that is on its way.
Unclaimed(k) == keys[k] = "none" /\ ~InFlight(k)

\* An insert given up lands, or is refused by the index.
Land ==
    \E f \in flight :
        /\ flight' = flight \ {f}
        /\ IF Insertable(f[1], f[2]) THEN Set(f[1], f[2]) ELSE NoRowChange
        /\ UNCHANGED <<stored, maker, boot, rotation, faults>>

\* A lost answer: the insert took effect, did not, or is still on its way.
Lost(actor, k, state) ==
    /\ Fault
    /\ \/ NoRowChange /\ UNCHANGED flight
       \/ Insertable(k, state) /\ Set(k, state) /\ UNCHANGED flight
       \/ actor \in Late /\ NoRowChange /\ flight' = flight \cup {<<k, state>>}

--------------------------------------------------------------------------------
(* ensureActiveSigningKey, of one boot owner. *)

Release(c) == [c EXCEPT !.kid = NoKey, !.written = FALSE, !.barred = FALSE]

\* A boot that ends at winner: material it generated is dropped first; a key whose
\* material was never acknowledged is forgotten.
Settle(c, winner) ==
    IF c.written /\ c.kid # winner
    THEN [c EXCEPT !.step = "drop", !.barred = TRUE, !.target = NoKey]
    ELSE [Release(c) EXCEPT !.step = "idle", !.target = NoKey]

At(b, step) == boot[b].step = step

BootTo(b, c) == boot' = [boot EXCEPT ![b] = c]

\* The candidate after a read: a row of ours is owned by the table from then on.
AfterRead(b) ==
    IF boot[b].kid # NoKey /\ keys[boot[b].kid] # "none" THEN Release(boot[b]) ELSE boot[b]

\* Mutant: a boot leaves published keys to the operator.
ListActiveOnly(b) ==
    /\ At(b, "idle")
    /\ LET c == AfterRead(b) IN
       BootTo(b, CASE ActiveRow # NoKey -> Settle(c, ActiveRow)
                   [] ActiveRow = NoKey /\ NewestPending # NoKey -> c
                   [] OTHER -> [c EXCEPT !.step = IF c.barred THEN "cleanup"
                                                  ELSE IF c.written THEN "insert" ELSE "make"])
    /\ UNCHANGED <<keys, stored, maker, flight, rotation, faults>>

\* What the rows ask for: the active key, else the newest published, else a new one.
List(b) ==
    /\ At(b, "idle")
    /\ LET c == AfterRead(b) IN
       BootTo(b, CASE ActiveRow # NoKey -> Settle(c, ActiveRow)
                   [] ActiveRow = NoKey /\ NewestPending # NoKey ->
                          [c EXCEPT !.step = "adopt", !.target = NewestPending]
                   [] OTHER -> [c EXCEPT !.step = IF c.barred THEN "cleanup"
                                                  ELSE IF c.written THEN "insert" ELSE "make"])
    /\ UNCHANGED <<keys, stored, maker, flight, rotation, faults>>

\* A refused write: the loop reads again, or has run out of attempts.
Again(c) == {[c EXCEPT !.step = "idle", !.target = NoKey],
             [c EXCEPT !.step = IF c.written THEN "last" ELSE "idle", !.target = NoKey]}

Adopt(b) ==
    /\ At(b, "adopt")
    /\ LET k == boot[b].target IN
       \/ /\ Movable(k, "pending", "active")
          /\ Set(k, "active")
          /\ BootTo(b, Settle(boot[b], k))
          /\ NoFault
       \/ /\ ~Movable(k, "pending", "active")
          /\ NoRowChange
          /\ \E c \in Again(boot[b]) : BootTo(b, c)
          /\ NoFault
       \/ /\ Fault
          /\ \/ NoRowChange
             \/ Movable(k, "pending", "active") /\ Set(k, "active")
          /\ \E c \in Again(boot[b]) : BootTo(b, c)
    /\ UNCHANGED <<stored, maker, flight, rotation>>

Unused == {k \in Key : maker[k] = Nobody}

\* Material that no row names and nobody knows any more is inert: its key is free again.
Inert(K) ==
    /\ maker' = [k \in Key |-> IF k \in K /\ Unclaimed(k) THEN Nobody ELSE maker[k]]
    /\ stored' = stored \ K

\* Generate a key, unless one is at hand, and store its private half; the generator
\* fails when the keys of the model are used up.
Make(b) ==
    /\ At(b, "make")
    /\ \/ \E k \in IF boot[b].kid = NoKey THEN Unused ELSE {boot[b].kid} :
             /\ maker' = [maker EXCEPT ![k] = b]
             /\ \/ /\ stored' = stored \cup {k}
                   /\ BootTo(b, [boot[b] EXCEPT !.kid = k, !.written = TRUE, !.step = "insert"])
                   /\ NoFault
                \/ /\ UNCHANGED stored
                   /\ BootTo(b, [boot[b] EXCEPT !.kid = k, !.step = "idle"])
                   /\ Fault
       \/ /\ boot[b].kid = NoKey
          /\ BootTo(b, [boot[b] EXCEPT !.step = "idle"])
          /\ IF Unused = {} THEN NoFault ELSE Fault
          /\ UNCHANGED <<maker, stored>>
    /\ UNCHANGED <<keys, flight, rotation>>

\* The first key is inserted as active.
Insert(b) ==
    /\ At(b, "insert")
    /\ LET k == boot[b].kid IN
       \/ /\ Insertable(k, "active")
          /\ Set(k, "active")
          /\ BootTo(b, [Release(boot[b]) EXCEPT !.step = "idle"])
          /\ NoFault /\ UNCHANGED flight
       \/ /\ ~Insertable(k, "active")
          /\ NoRowChange
          /\ \E c \in Again(boot[b]) : BootTo(b, c)
          /\ NoFault /\ UNCHANGED flight
       \/ /\ Lost(b, k, "active")
          /\ \E c \in Again(boot[b]) : BootTo(b, c)
    /\ UNCHANGED <<stored, maker, rotation>>

\* One last read, with material that no row was seen to claim.
LastRead(b) ==
    /\ At(b, "last")
    /\ LET c == AfterRead(b) IN
       BootTo(b, IF ActiveRow # NoKey THEN Settle(c, ActiveRow)
                 ELSE [c EXCEPT !.step = "idle"])
    /\ UNCHANGED <<keys, stored, maker, flight, rotation, faults>>

\* Mutant: an answer that fails loses the handle.
DropForgets(b) ==
    /\ At(b, "drop") \/ At(b, "cleanup")
    /\ \/ /\ Inert({boot[b].kid})
          /\ BootTo(b, [Release(boot[b]) EXCEPT
                           !.step = IF boot[b].step = "cleanup" THEN "make" ELSE "idle"])
          /\ NoFault
       \/ /\ stored' \in {stored, stored \ {boot[b].kid}} /\ UNCHANGED maker
          /\ BootTo(b, [Release(boot[b]) EXCEPT !.step = "idle"])
          /\ Fault
    /\ UNCHANGED <<keys, flight, rotation>>

\* Destroy the candidate's material; an answer that fails keeps the handle, and bars
\* the candidate from being inserted.
Drop(b) ==
    /\ At(b, "drop") \/ At(b, "cleanup")
    /\ \/ /\ Inert({boot[b].kid})
          /\ BootTo(b, [Release(boot[b]) EXCEPT
                           !.step = IF boot[b].step = "cleanup" THEN "make" ELSE "idle"])
          /\ NoFault
       \/ /\ stored' \in {stored, stored \ {boot[b].kid}} /\ UNCHANGED maker
          /\ BootTo(b, [boot[b] EXCEPT !.step = "idle"])
          /\ Fault
    /\ UNCHANGED <<keys, flight, rotation>>

\* A read that fails ends the attempt; the next one goes on with the candidate.
ReadFails(b) ==
    /\ At(b, "last")
    /\ Fault
    /\ BootTo(b, [boot[b] EXCEPT !.step = "idle"])
    /\ UNCHANGED <<keys, stored, maker, flight, rotation>>

\* The process dies with whatever it had in memory and another boots; between its
\* attempts, of which it makes a few, that is no fault.
Restart(b) ==
    /\ boot[b] # NoBoot
    /\ IF At(b, "idle") THEN NoFault ELSE Fault
    /\ BootTo(b, NoBoot)
    /\ LET unnamed == {k \in Key : maker[k] = b /\ Unclaimed(k)} IN
       /\ stored' = stored \ unnamed
       /\ maker' = [k \in Key |-> IF k \in unnamed THEN Nobody
                                  ELSE IF maker[k] = b THEN Somebody ELSE maker[k]]
    /\ UNCHANGED <<keys, flight, rotation>>

--------------------------------------------------------------------------------
(* publishSigningKey, activatePublishedSigningKey and rotateSigningKey. *)

RotationTo(r, step) == rotation' = [rotation EXCEPT ![r].step = step]

End(r) == rotation' = [rotation EXCEPT ![r] = NoRotation]

\* A published key is at hand: publishing ends, a rotation goes on with it.
Published(r, k) ==
    rotation' = [rotation EXCEPT ![r] =
                    IF @.kind = "rotate" THEN [@ EXCEPT !.step = "converge", !.target = k]
                    ELSE NoRotation]

RequestPublish(r) ==
    /\ r \notin Unstaged
    /\ rotation[r].step = "idle" /\ NewestPending = NoKey
    /\ RotationTo(r, "write")
    /\ UNCHANGED <<keys, stored, maker, flight, boot, faults>>

\* Mutant: nothing published is not refused.
RequestActivateNothing(r) ==
    /\ r \notin Unstaged
    /\ rotation[r].step = "idle"
    /\ rotation' = [rotation EXCEPT ![r] =
                       [step |-> "converge", kind |-> "rotate", pin |-> ActiveRow,
                        target |-> NewestPending]]
    /\ UNCHANGED <<keys, stored, maker, flight, boot, faults>>

\* Pins the key it replaces in the read that finds its target; refuses when nothing
\* is published, or for less than the soak.
RequestActivate(r) ==
    /\ r \notin Unstaged
    /\ rotation[r].step = "idle" /\ NewestPending # NoKey
    /\ rotation' = [rotation EXCEPT ![r] =
                       [step |-> "converge", kind |-> "rotate", pin |-> ActiveRow,
                        target |-> NewestPending]]
    /\ UNCHANGED <<keys, stored, maker, flight, boot, faults>>

\* Pins the key it replaces before it publishes.
RequestRotate(r) ==
    /\ r \in Unstaged
    /\ rotation[r].step = "idle"
    /\ rotation' = [rotation EXCEPT ![r] =
                       [step |-> "publish", kind |-> "rotate", pin |-> ActiveRow,
                        target |-> NoKey]]
    /\ UNCHANGED <<keys, stored, maker, flight, boot, faults>>

\* An interrupted rotation is resumed rather than stacked.
Publish(r) ==
    /\ rotation[r].step = "publish"
    /\ IF NewestPending # NoKey THEN Published(r, NewestPending) ELSE RotationTo(r, "write")
    /\ UNCHANGED <<keys, stored, maker, flight, boot, faults>>

\* Generates a key, stores its private half and inserts its row: nobody sees the
\* one without the other.
WriteAndInsert(r) ==
    /\ rotation[r].step = "write"
    /\ \E k \in Unused :
          /\ maker' = [maker EXCEPT ![k] = Somebody]
          /\ stored' = stored \cup {k}
          /\ \/ /\ Set(k, "pending") /\ Published(r, k)
                /\ NoFault /\ UNCHANGED flight
             \/ /\ Lost(r, k, "pending")
                /\ rotation' = [rotation EXCEPT ![r].step = "confirm", ![r].target = k]
    /\ UNCHANGED boot

\* The key whose insert was never sent or did not take effect.
Abandoned(r) ==
    {k \in {rotation[r].target} : rotation[r].step = "confirm" /\ Unclaimed(k)}

\* Mutant: material whose row was not found is destroyed.
ConfirmDestroys(r) ==
    /\ rotation[r].step = "confirm"
    /\ IF keys[rotation[r].target] # "none"
       THEN Published(r, rotation[r].target) /\ UNCHANGED <<stored, maker>>
       ELSE End(r) /\ stored' = stored \ {rotation[r].target} /\ UNCHANGED maker
    /\ UNCHANGED <<keys, flight, boot, faults>>

\* Reads whether the insert took effect; material is left where it is either way.
Confirm(r) ==
    /\ rotation[r].step = "confirm"
    /\ IF keys[rotation[r].target] # "none"
       THEN Published(r, rotation[r].target) /\ UNCHANGED <<stored, maker>>
       ELSE End(r) /\ Inert(Abandoned(r))
    /\ UNCHANGED <<keys, flight, boot, faults>>

\* Retire the pinned key, and no other, then activate the target.
Converge(r) ==
    /\ rotation[r].step = "converge"
    /\ LET target == rotation[r].target IN
       CASE ActiveRow # NoKey /\ ActiveRow # rotation[r].pin -> End(r)
         [] ActiveRow # NoKey /\ ActiveRow = rotation[r].pin -> RotationTo(r, "retire")
         [] OTHER -> IF keys[target] = "pending" THEN RotationTo(r, "activate") ELSE End(r)
    /\ UNCHANGED <<keys, stored, maker, flight, boot, faults>>

\* A compare-and-set of the rotation: done, refused (the loop reads again or is out of
\* attempts), or lost, with or without its effect.
Move(r, k, from, to, done) ==
    \/ Movable(k, from, to) /\ Set(k, to) /\ done /\ NoFault
    \/ /\ ~Movable(k, from, to) /\ NoRowChange
       /\ RotationTo(r, "converge") \/ End(r)
       /\ NoFault
    \/ /\ Fault
       /\ NoRowChange \/ (Movable(k, from, to) /\ Set(k, to))
       /\ RotationTo(r, "converge") \/ End(r)

\* Mutant: whatever is active by now is retired.
RetireActive(r) ==
    /\ rotation[r].step = "retire" /\ ActiveRow # NoKey
    /\ Move(r, ActiveRow, "active", "retired", RotationTo(r, "activate"))
    /\ UNCHANGED <<stored, maker, flight, boot>>

Retire(r) ==
    /\ rotation[r].step = "retire"
    /\ Move(r, rotation[r].pin, "active", "retired", RotationTo(r, "activate"))
    /\ UNCHANGED <<stored, maker, flight, boot>>

Activate(r) ==
    /\ rotation[r].step = "activate"
    /\ Move(r, rotation[r].target, "pending", "active", End(r))
    /\ UNCHANGED <<stored, maker, flight, boot>>

\* A failed read or write ends the request, a dead process any request.
Break(r) ==
    /\ rotation[r].step # "idle"
    /\ Fault /\ End(r) /\ Inert(Abandoned(r))
    /\ UNCHANGED <<keys, flight, boot>>

--------------------------------------------------------------------------------
BootStepOf(b) ==
    \/ List(b) \/ Adopt(b) \/ Make(b) \/ Insert(b) \/ LastRead(b) \/ Drop(b)

RotationStepOf(r) ==
    \/ Publish(r) \/ WriteAndInsert(r) \/ Confirm(r) \/ Converge(r)
    \/ Retire(r) \/ Activate(r)

Next ==
    \/ \E b \in Owner : BootStepOf(b) \/ ReadFails(b) \/ Restart(b)
    \/ \E r \in Rotation : \/ RequestPublish(r) \/ RequestActivate(r) \/ RequestRotate(r)
                           \/ RotationStepOf(r) \/ Break(r)
    \/ Land

Spec == Init /\ [][Next]_vars

\* Some instance boots again and again, as each rollout has one do, and calls are
\* answered, faults apart.  Nothing is assumed of operators or of inserts in flight.
Fairness == WF_vars(\E b \in Owner : BootStepOf(b) /\ NoFault)

FairSpec == Spec /\ Fairness

--------------------------------------------------------------------------------
(* Properties. *)

\* A key that signs or may yet sign has its material: whatever races a boot loses and
\* whatever answers it misses, it destroys only what no row names or will name.
MaterialKept == \A k \in Key : keys[k] \in {"pending", "active"} => k \in stored

\* Once there are keys, the window in which none is active has a published successor:
\* of rotations at once none retires the key another has just activated, and any boot
\* can finish one that was cut off.
SuccessorReady ==
    (\E k \in Key : keys[k] # "none") /\ In("active") = {} => In("pending") # {}

\* A boot that lives still holds the material it wrote that no row names: failed
\* reads, refused inserts, lost answers and retries leave no private key behind.
OrphansAreKnown ==
    \A b \in Owner, k \in stored :
        maker[k] = b /\ keys[k] = "none" => boot[b].kid = k /\ boot[b].written

\* What an operator has published is never destroyed, whatever becomes of its row and
\* even when inserts of boots land late: a verifier that was told of a key may count on
\* its private half.  Only a boot's own first key may be lost to a late insert.
PublishedMaterialStays ==
    \A k \in Key : [](keys[k] = "pending" => [](k \in stored))

\* The rows and their material, as the promise of KeyRing.
Ring == INSTANCE KeyRing WITH state <- keys, material <- stored

\* Boots, rotations, lost answers and late inserts of requests together do to the keys
\* only what a ring allows: one step at a time, forward, with a successor at hand
\* whenever a key is retired and the private half of every key that has a row.
ImplementsRing == Ring!Spec

\* The issuer comes to sign again, with a key whose material is there, whatever
\* rotations are cut off, boots die and inserts land late.
IssuerSigns == []<>(ActiveRow \in stored)
================================================================================
