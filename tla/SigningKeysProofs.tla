--------------------------- MODULE SigningKeysProofs ---------------------------
(***************************************************************************)
(* The invariants of SigningKeys hold for any instances, requests and keys.*)
(***************************************************************************)
EXTENDS SigningKeysInv, TLAPS

LEMMA KeyFacts == NoKey \notin Key /\ Nobody \notin Owner /\ Somebody \notin Owner
                  /\ Nobody # Somebody
  BY KeysAssumption DEF Key, NoKey

LEMMA TheKey ==
  ASSUME NEW K, K \subseteq Key
  PROVE  /\ The(K) \in Key \cup {NoKey}
         /\ The(K) # NoKey => The(K) \in K
         /\ The(K) = NoKey <=> K = {}
  BY KeyFacts DEF The

LEMMA Choices ==
  ASSUME TypeOK
  PROVE  /\ ActiveRow \in Key \cup {NoKey} /\ NewestPending \in Key \cup {NoKey}
         /\ ActiveRow # NoKey => keys[ActiveRow] = "active"
         /\ ActiveRow = NoKey <=> In("active") = {}
         /\ NewestPending # NoKey => keys[NewestPending] = "pending"
<1>1. In("active") \subseteq Key
  BY DEF In
<1>2. {k \in In("pending") : \A j \in In("pending") : j <= k} \subseteq Key
  BY DEF In
<1> QED
  BY <1>1, <1>2, TheKey DEF ActiveRow, NewestPending, In

--------------------------------------------------------------------------------
(* What a boot makes of its candidate. *)

LEMMA Settled ==
  ASSUME NEW c \in BootRecord, NEW w,
         c.written => c.kid \in Key
  PROVE  /\ Settle(c, w) \in BootRecord
         /\ \/ /\ Settle(c, w).step = "drop" /\ Settle(c, w).barred
               /\ Settle(c, w).kid = c.kid /\ c.kid \in Key /\ c.kid # w
               /\ Settle(c, w).written = c.written
            \/ /\ Settle(c, w).step = "idle" /\ Settle(c, w).kid = NoKey
               /\ ~Settle(c, w).written /\ ~Settle(c, w).barred
               /\ c.written => c.kid = w
  BY DEF Settle, Release, BootRecord, BootStep

LEMMA Retried ==
  ASSUME NEW c \in BootRecord, NEW d \in Again(c)
  PROVE  /\ d \in BootRecord /\ d.step \in {"idle", "last"}
         /\ d.kid = c.kid /\ d.written = c.written /\ d.barred = c.barred
  BY DEF Again, BootRecord, BootStep

LEMMA ReadBack ==
  ASSUME TypeOK, NEW b \in Owner, CandidateOwned
  PROVE  /\ AfterRead(b) \in BootRecord
         /\ AfterRead(b).step = boot[b].step
         /\ AfterRead(b).target = boot[b].target
         /\ \/ /\ AfterRead(b) = boot[b]
               /\ boot[b].kid # NoKey => keys[boot[b].kid] = "none"
            \/ /\ AfterRead(b).kid = NoKey /\ ~AfterRead(b).written /\ ~AfterRead(b).barred
               /\ boot[b].kid # NoKey /\ keys[boot[b].kid] # "none"
         /\ AfterRead(b).written \/ AfterRead(b).barred => AfterRead(b).kid \in Key
<1>1. boot[b] \in BootRecord /\ (boot[b].written \/ boot[b].barred => boot[b].kid # NoKey)
  BY DEF TypeOK, CandidateOwned
<1>2. CASE boot[b].kid # NoKey /\ keys[boot[b].kid] # "none"
  <2>1. AfterRead(b) = Release(boot[b])
    BY <1>2 DEF AfterRead
  <2> QED
    BY <1>1, <1>2, <2>1 DEF Release, BootRecord
<1>3. CASE ~(boot[b].kid # NoKey /\ keys[boot[b].kid] # "none")
  <2>1. AfterRead(b) = boot[b]
    BY <1>3 DEF AfterRead
  <2> QED
    BY <1>1, <1>3, <2>1 DEF BootRecord
<1> QED
  BY <1>2, <1>3

--------------------------------------------------------------------------------
(* What a step changes of the boots and of the requests. *)

Shaped(c) ==
    /\ c.step = "adopt" => c.target \in Key
    /\ c.step \in {"insert", "drop", "cleanup"} => c.kid \in Key

Sound(q) ==
    /\ q.step \in {"confirm", "converge", "retire", "activate"} => q.target \in Key
    /\ q.step = "retire" => q.pin \in Key

LEMMA BootChanges ==
  ASSUME TypeOK, NEW b \in Owner, NEW c \in BootRecord, BootTo(b, c)
  PROVE  /\ boot' \in [Owner -> BootRecord]
         /\ boot'[b] = c
         /\ \A o \in Owner \ {b} : boot'[o] = boot[o]
  BY DEF BootTo, TypeOK

LEMMA RequestChanges ==
  ASSUME TypeOK, NEW r \in Rotation, NEW q \in RotationRecord,
         rotation' = [rotation EXCEPT ![r] = q]
  PROVE  /\ rotation' \in [Rotation -> RotationRecord]
         /\ rotation'[r] = q
         /\ \A o \in Rotation \ {r} : rotation'[o] = rotation[o]
  BY DEF TypeOK

LEMMA RotationToIs ==
  ASSUME TypeOK, NEW r \in Rotation, NEW s \in RotationStep, RotationTo(r, s)
  PROVE  /\ rotation' \in [Rotation -> RotationRecord]
         /\ rotation'[r].step = s /\ rotation'[r].kind = rotation[r].kind
         /\ rotation'[r].pin = rotation[r].pin /\ rotation'[r].target = rotation[r].target
         /\ \A o \in Rotation \ {r} : rotation'[o] = rotation[o]
<1> DEFINE q == [rotation[r] EXCEPT !.step = s]
<1>1. rotation[r] \in RotationRecord
  BY DEF TypeOK
<1>2. q \in RotationRecord /\ q.step = s /\ q.kind = rotation[r].kind
      /\ q.pin = rotation[r].pin /\ q.target = rotation[r].target
  BY <1>1 DEF RotationRecord
<1>3. rotation' = [rotation EXCEPT ![r] = q]
  BY DEF RotationTo
<1> HIDE DEF q
<1> QED
  BY <1>2, <1>3, RequestChanges

LEMMA EndIs ==
  ASSUME TypeOK, NEW r \in Rotation, End(r)
  PROVE  /\ rotation' \in [Rotation -> RotationRecord]
         /\ rotation'[r].step = "idle" /\ rotation'[r].pin = NoKey
         /\ \A o \in Rotation \ {r} : rotation'[o] = rotation[o]
<1>1. NoRotation \in RotationRecord /\ NoRotation.step = "idle" /\ NoRotation.pin = NoKey
  BY DEF NoRotation, RotationRecord, RotationStep
<1> QED
  BY <1>1, RequestChanges DEF End

LEMMA PublishedIs ==
  ASSUME TypeOK, NEW r \in Rotation, NEW k \in Key, Published(r, k)
  PROVE  /\ rotation' \in [Rotation -> RotationRecord]
         /\ \/ rotation'[r].step = "idle" /\ rotation'[r].pin = NoKey
            \/ /\ rotation'[r].step = "converge" /\ rotation'[r].target = k
               /\ rotation'[r].pin = rotation[r].pin
         /\ \A o \in Rotation \ {r} : rotation'[o] = rotation[o]
<1>1. rotation[r] \in RotationRecord
  BY DEF TypeOK
<1>2. CASE rotation[r].kind = "rotate"
  <2> DEFINE q == [rotation[r] EXCEPT !.step = "converge", !.target = k]
  <2>1. q \in RotationRecord /\ q.step = "converge" /\ q.target = k /\ q.pin = rotation[r].pin
    BY <1>1 DEF RotationRecord, RotationStep
  <2>2. rotation' = [rotation EXCEPT ![r] = q]
    BY <1>2 DEF Published
  <2> HIDE DEF q
  <2> QED
    BY <2>1, <2>2, RequestChanges
<1>3. CASE rotation[r].kind # "rotate"
  <2>1. rotation' = [rotation EXCEPT ![r] = NoRotation]
    BY <1>3 DEF Published
  <2> QED
    BY <2>1, EndIs DEF End
<1> QED
  BY <1>2, <1>3

--------------------------------------------------------------------------------
(* What a step may do to the rows. *)

Moved(k, state) == keys' = [keys EXCEPT ![k] = state]

RowStep ==
    \/ keys' = keys
    \/ \E k \in Key : keys[k] = "none" /\ Moved(k, "pending")
    \/ \E k \in Key :
          keys[k] \in {"none", "pending"} /\ In("active") = {} /\ Moved(k, "active")
    \/ \E r \in Rotation :
          /\ rotation[r].step = "retire" /\ rotation[r].pin \in In("active")
          /\ Moved(rotation[r].pin, "retired")

LEMMA LostRow ==
  ASSUME TypeOK, NEW a, NEW k \in Key, NEW s \in {"pending", "active"}, Lost(a, k, s)
  PROVE  RowStep /\ flight' \subseteq Key \X {"pending", "active"}
<1>1. RowStep
  BY DEF Lost, NoRowChange, Insertable, Set, RowStep, Moved, In
<1>2. flight' \subseteq Key \X {"pending", "active"}
  BY DEF Lost, TypeOK
<1> QED
  BY <1>1, <1>2

LEMMA RowsMove ==
  ASSUME TypeOK, FreshKeys, [Next]_vars
  PROVE  RowStep
<1> USE DEF RowStep, Moved
<1>1. CASE UNCHANGED vars
  BY <1>1 DEF vars
<1>2. ASSUME NEW b \in Owner, BootStepOf(b) \/ ReadFails(b) \/ Restart(b) PROVE RowStep
  <2>1. CASE List(b) \/ Make(b) \/ LastRead(b) \/ Drop(b) \/ ReadFails(b) \/ Restart(b)
    BY <2>1 DEF List, Make, LastRead, Drop, ReadFails, Restart
  <2>2. CASE Adopt(b)
    <3>1. boot[b].target \in Key
      BY <2>2 DEF Adopt, At, TypeOK
    <3> QED
      BY <2>2, <3>1 DEF Adopt, Movable, Set, NoRowChange, In
  <2>3. CASE Insert(b)
    <3>1. boot[b].kid \in Key
      BY <2>3 DEF Insert, At, TypeOK
    <3>2. CASE Lost(b, boot[b].kid, "active")
      BY <3>1, <3>2, LostRow
    <3> QED
      BY <2>3, <3>1, <3>2 DEF Insert, Insertable, Set, NoRowChange, In
  <2> QED
    BY <1>2, <2>1, <2>2, <2>3 DEF BootStepOf
<1>3. ASSUME NEW r \in Rotation,
             \/ RequestPublish(r) \/ RequestActivate(r) \/ RequestRotate(r)
             \/ RotationStepOf(r) \/ Break(r)
      PROVE RowStep
  <2>1. CASE \/ RequestPublish(r) \/ RequestActivate(r) \/ RequestRotate(r)
             \/ Publish(r) \/ Confirm(r) \/ Converge(r) \/ Break(r)
    BY <2>1 DEF RequestPublish, RequestActivate, RequestRotate, Publish, Confirm,
                Converge, Break
  <2>2. CASE WriteAndInsert(r)
    <3>1. PICK k \in Unused :
             \/ Set(k, "pending")
             \/ Lost(r, k, "pending")
      BY <2>2 DEF WriteAndInsert
    <3>2. k \in Key /\ keys[k] = "none"
      BY DEF Unused, FreshKeys, Unclaimed
    <3> QED
      BY <3>1, <3>2, LostRow DEF Set
  <2>3. CASE Retire(r)
    <3>1. rotation[r].step = "retire" /\ rotation[r].pin \in Key
      BY <2>3 DEF Retire, TypeOK
    <3>2. \/ NoRowChange
          \/ Movable(rotation[r].pin, "active", "retired") /\ Set(rotation[r].pin, "retired")
      BY <2>3 DEF Retire, Move
    <3> QED
      BY <3>1, <3>2 DEF Movable, NoRowChange, Set, In
  <2>4. CASE Activate(r)
    <3>1. rotation[r].target \in Key
      BY <2>4 DEF Activate, TypeOK
    <3>2. \/ NoRowChange
          \/ Movable(rotation[r].target, "pending", "active") /\ Set(rotation[r].target, "active")
      BY <2>4 DEF Activate, Move
    <3> QED
      BY <3>1, <3>2 DEF Movable, NoRowChange, Set, In
  <2> QED
    BY <1>3, <2>1, <2>2, <2>3, <2>4 DEF RotationStepOf
<1>4. CASE Land
  <2>1. PICK f \in flight : \/ Insertable(f[1], f[2]) /\ Set(f[1], f[2])
                            \/ NoRowChange
    BY <1>4 DEF Land
  <2>2. f[1] \in Key /\ f[2] \in {"pending", "active"}
    BY DEF TypeOK
  <2> QED
    BY <2>1, <2>2 DEF Insertable, Set, NoRowChange, In
<1> QED
  BY <1>1, <1>2, <1>3, <1>4 DEF Next

--------------------------------------------------------------------------------
(* What a step may do to the boots. *)

\* The boot has no candidate from here on; if it wrote one, a row names it.
LetsGo(b) ==
    /\ boot'[b].kid = NoKey /\ ~boot'[b].written /\ ~boot'[b].barred
    /\ boot'[b].step \in {"idle", "adopt", "make"}
    /\ boot[b].written => keys'[boot[b].kid] # "none"

\* The boot goes on with its candidate.
Holds(b) ==
    /\ boot'[b].kid = boot[b].kid /\ boot'[b].written = boot[b].written
    /\ \/ boot'[b].barred = boot[b].barred
       \/ boot'[b].barred /\ boot'[b].step = "drop" /\ boot[b].kid # NoKey
    /\ boot'[b].step = "insert" => boot'[b].written /\ ~boot'[b].barred
    /\ boot'[b].step = "make" => ~boot'[b].written /\ ~boot'[b].barred
    /\ boot'[b].step \in {"drop", "cleanup"} => boot'[b].barred
    /\ CandidateUnnamed /\ boot[b].kid # NoKey
         /\ boot'[b].step \in {"adopt", "make", "insert", "drop", "cleanup"} =>
               keys'[boot[b].kid] = "none"

BootChanged(b) ==
    /\ boot' \in [Owner -> BootRecord] /\ Shaped(boot'[b])
    /\ \A o \in Owner \ {b} : boot'[o] = boot[o]

\* Only its own insert names a key, or may yet name it.
Inserts(b) ==
    /\ \A k \in Key : keys[k] = "none" /\ keys'[k] # "none" =>
          k = boot[b].kid /\ boot[b].step = "insert" /\ keys'[k] = "active"
    /\ \/ UNCHANGED flight
       \/ /\ b \in Late /\ boot[b].kid \in Key
          /\ flight' = flight \cup {<<boot[b].kid, "active">>}

BootReads(b) ==
    /\ UNCHANGED <<stored, maker, rotation>> /\ Inserts(b)
    /\ BootChanged(b)
    /\ LetsGo(b) \/ Holds(b)

LEMMA ListReads ==
  ASSUME TypeOK, CandidateOwned, NEW b \in Owner, List(b)
  PROVE  BootReads(b)
<1> DEFINE c == AfterRead(b)
           s == IF c.barred THEN "cleanup" ELSE IF c.written THEN "insert" ELSE "make"
<1>1. /\ c \in BootRecord
      /\ \/ c = boot[b] /\ (boot[b].kid # NoKey => keys[boot[b].kid] = "none")
         \/ c.kid = NoKey /\ ~c.written /\ ~c.barred /\ keys[boot[b].kid] # "none"
      /\ c.written \/ c.barred => c.kid \in Key
      /\ c.step = "idle"
  BY ReadBack DEF List, At
<1>2. /\ keys' = keys /\ UNCHANGED <<stored, maker, rotation>>
      /\ Inserts(b)
  BY DEF List, Inserts
<1>3. c.kid # NoKey => keys[c.kid] = "none"
  BY <1>1
<1>4. CASE ActiveRow # NoKey
  <2> DEFINE d == Settle(c, ActiveRow)
  <2>1. BootTo(b, d)
    BY <1>4 DEF List
  <2>2. /\ d \in BootRecord
        /\ \/ /\ d.step = "drop" /\ d.barred /\ d.kid = c.kid /\ c.kid \in Key
              /\ d.written = c.written
           \/ /\ d.step = "idle" /\ d.kid = NoKey /\ ~d.written /\ ~d.barred
              /\ c.written => c.kid = ActiveRow
    BY <1>1, Settled
  <2>3. keys[ActiveRow] = "active"
    BY <1>4, Choices
  <2> HIDE DEF c, d
  <2>4. boot' \in [Owner -> BootRecord] /\ boot'[b] = d /\ \A o \in Owner \ {b} : boot'[o] = boot[o]
    BY <2>1, <2>2, BootChanges
  <2>5. Shaped(boot'[b])
    BY <2>2, <2>4 DEF Shaped
  <2>6. LetsGo(b) \/ Holds(b)
    BY <1>1, <1>2, <1>3, <2>2, <2>3, <2>4, KeyFacts DEF LetsGo, Holds
  <2> QED
    BY <1>2, <2>4, <2>5, <2>6 DEF BootReads, BootChanged
<1>5. CASE ActiveRow = NoKey /\ NewestPending # NoKey
  <2> DEFINE d == [c EXCEPT !.step = "adopt", !.target = NewestPending]
  <2>1. BootTo(b, d)
    BY <1>5 DEF List
  <2>2. /\ d \in BootRecord /\ d.step = "adopt" /\ d.target \in Key
        /\ d.kid = c.kid /\ d.written = c.written /\ d.barred = c.barred
    BY <1>1, <1>5, Choices DEF BootRecord, BootStep
  <2> HIDE DEF c, d
  <2>4. boot' \in [Owner -> BootRecord] /\ boot'[b] = d /\ \A o \in Owner \ {b} : boot'[o] = boot[o]
    BY <2>1, <2>2, BootChanges
  <2>5. Shaped(boot'[b])
    BY <2>2, <2>4 DEF Shaped
  <2>6. LetsGo(b) \/ Holds(b)
    BY <1>1, <1>2, <1>3, <2>2, <2>4, KeyFacts DEF LetsGo, Holds
  <2> QED
    BY <1>2, <2>4, <2>5, <2>6 DEF BootReads, BootChanged
<1>6. CASE ActiveRow = NoKey /\ NewestPending = NoKey
  <2> DEFINE d == [c EXCEPT !.step = s]
  <2>1. BootTo(b, d)
    BY <1>6 DEF List
  <2>2. /\ d \in BootRecord /\ d.step = s
        /\ d.kid = c.kid /\ d.written = c.written /\ d.barred = c.barred
    BY <1>1, <1>6 DEF BootRecord, BootStep
  <2>3. /\ s \in {"cleanup", "insert", "make"}
        /\ s = "cleanup" => c.barred
        /\ s = "insert" => c.written /\ ~c.barred
        /\ s = "make" => ~c.written /\ ~c.barred
    OBVIOUS
  <2> HIDE DEF c, d, s
  <2>4. boot' \in [Owner -> BootRecord] /\ boot'[b] = d /\ \A o \in Owner \ {b} : boot'[o] = boot[o]
    BY <2>1, <2>2, BootChanges
  <2>5. Shaped(boot'[b])
    BY <1>1, <2>2, <2>3, <2>4 DEF Shaped
  <2>6. LetsGo(b) \/ Holds(b)
    BY <1>1, <1>2, <1>3, <2>2, <2>3, <2>4, KeyFacts DEF LetsGo, Holds
  <2> QED
    BY <1>2, <2>4, <2>5, <2>6 DEF BootReads, BootChanged
<1> QED
  BY <1>4, <1>5, <1>6

LEMMA RetryReads ==
  ASSUME TypeOK, NEW b \in Owner, NEW c \in Again(boot[b]), BootTo(b, c),
         UNCHANGED <<stored, maker, rotation>>, Inserts(b)
  PROVE  BootReads(b)
<1>1. boot[b] \in BootRecord
  BY DEF TypeOK
<1>2. /\ c \in BootRecord /\ c.step \in {"idle", "last"}
      /\ c.kid = boot[b].kid /\ c.written = boot[b].written /\ c.barred = boot[b].barred
  BY <1>1, Retried
<1>3. boot' \in [Owner -> BootRecord] /\ boot'[b] = c /\ \A o \in Owner \ {b} : boot'[o] = boot[o]
  BY <1>2, BootChanges
<1> QED
  BY <1>2, <1>3 DEF BootReads, BootChanged, Shaped, Holds

LEMMA AdoptReads ==
  ASSUME TypeOK, CandidateOwned, NEW b \in Owner, Adopt(b)
  PROVE  BootReads(b)
<1>1. boot[b] \in BootRecord /\ boot[b].step = "adopt" /\ boot[b].target \in Key
      /\ UNCHANGED <<stored, maker, rotation>>
  BY DEF Adopt, At, TypeOK
<1> Inserts(b)
  <2>1. UNCHANGED flight
    BY DEF Adopt
  <2>2. \/ NoRowChange
        \/ Movable(boot[b].target, "pending", "active") /\ Set(boot[b].target, "active")
    BY DEF Adopt
  <2> QED
    BY <1>1, <2>1, <2>2 DEF Inserts, NoRowChange, Movable, Set, TypeOK
<1>2. ASSUME NEW c \in Again(boot[b]), BootTo(b, c) PROVE BootReads(b)
  BY <1>1, <1>2, RetryReads
<1>3. CASE /\ Movable(boot[b].target, "pending", "active") /\ Set(boot[b].target, "active")
           /\ BootTo(b, Settle(boot[b], boot[b].target))
  <2> DEFINE k == boot[b].target
             d == Settle(boot[b], k)
  <2>1. boot[b].written => boot[b].kid \in Key
    BY <1>1 DEF CandidateOwned, BootRecord
  <2>2. /\ d \in BootRecord
        /\ \/ /\ d.step = "drop" /\ d.barred /\ d.kid = boot[b].kid /\ boot[b].kid \in Key
              /\ d.kid # k /\ d.written = boot[b].written
           \/ /\ d.step = "idle" /\ d.kid = NoKey /\ ~d.written /\ ~d.barred
              /\ boot[b].written => boot[b].kid = k
    BY <1>1, <2>1, Settled
  <2>3. /\ keys'[k] = "active"
        /\ \A j \in Key \ {k} : keys'[j] = keys[j]
    BY <1>1, <1>3 DEF Set, TypeOK
  <2>4. BootTo(b, d)
    BY <1>3
  <2> HIDE DEF d
  <2>5. boot' \in [Owner -> BootRecord] /\ boot'[b] = d /\ \A o \in Owner \ {b} : boot'[o] = boot[o]
    BY <2>2, <2>4, BootChanges
  <2>6. Shaped(boot'[b])
    BY <2>2, <2>5 DEF Shaped
  <2>7. CASE d.step = "idle"
    <3>1. LetsGo(b)
      BY <2>2, <2>3, <2>5, <2>7 DEF LetsGo
    <3> QED
      BY <1>1, <2>5, <2>6, <3>1 DEF BootReads, BootChanged
  <2>8. CASE d.step = "drop"
    <3>1. CandidateUnnamed => keys'[boot[b].kid] = "none"
      BY <1>1, <2>2, <2>3, <2>8, KeyFacts DEF CandidateUnnamed
    <3>2. Holds(b)
      BY <2>2, <2>5, <2>8, <3>1, KeyFacts DEF Holds
    <3> QED
      BY <1>1, <2>5, <2>6, <3>2 DEF BootReads, BootChanged
  <2> QED
    BY <2>2, <2>7, <2>8
<1> QED
  BY <1>2, <1>3 DEF Adopt

LEMMA InsertReads ==
  ASSUME TypeOK, NEW b \in Owner, Insert(b)
  PROVE  BootReads(b)
<1>1. boot[b] \in BootRecord /\ boot[b].kid \in Key /\ UNCHANGED <<stored, maker, rotation>>
      /\ boot[b].step = "insert"
  BY DEF Insert, At, TypeOK
<1> Inserts(b)
  <2>1. \/ NoRowChange \/ Set(boot[b].kid, "active")
    BY DEF Insert, Lost
  <2>2. \/ UNCHANGED flight
        \/ b \in Late /\ flight' = flight \cup {<<boot[b].kid, "active">>}
    BY DEF Insert, Lost
  <2> QED
    BY <1>1, <2>1, <2>2 DEF Inserts, NoRowChange, Set, TypeOK
<1>2. ASSUME NEW c \in Again(boot[b]), BootTo(b, c) PROVE BootReads(b)
  BY <1>1, <1>2, RetryReads
<1>3. CASE /\ Set(boot[b].kid, "active")
           /\ BootTo(b, [Release(boot[b]) EXCEPT !.step = "idle"])
  <2> DEFINE d == [Release(boot[b]) EXCEPT !.step = "idle"]
  <2>1. d \in BootRecord /\ d.step = "idle" /\ d.kid = NoKey /\ ~d.written /\ ~d.barred
    BY <1>1 DEF Release, BootRecord, BootStep
  <2>2. BootTo(b, d)
    BY <1>3
  <2> HIDE DEF d
  <2>3. boot' \in [Owner -> BootRecord] /\ boot'[b] = d /\ \A o \in Owner \ {b} : boot'[o] = boot[o]
    BY <2>1, <2>2, BootChanges
  <2>4. keys'[boot[b].kid] = "active"
    BY <1>1, <1>3 DEF Set, TypeOK
  <2> QED
    BY <1>1, <2>1, <2>3, <2>4 DEF BootReads, BootChanged, Shaped, LetsGo
<1> QED
  BY <1>2, <1>3 DEF Insert

LEMMA LastReads ==
  ASSUME TypeOK, CandidateOwned, NEW b \in Owner, LastRead(b)
  PROVE  BootReads(b)
<1> DEFINE c == AfterRead(b)
<1>1. /\ c \in BootRecord
      /\ \/ c = boot[b] /\ (boot[b].kid # NoKey => keys[boot[b].kid] = "none")
         \/ c.kid = NoKey /\ ~c.written /\ ~c.barred /\ keys[boot[b].kid] # "none"
      /\ c.written \/ c.barred => c.kid \in Key
  BY ReadBack
<1>2. /\ keys' = keys /\ UNCHANGED <<stored, maker, rotation>>
      /\ Inserts(b)
  BY DEF LastRead, Inserts
<1>3. CASE ActiveRow # NoKey
  <2> DEFINE d == Settle(c, ActiveRow)
  <2>1. BootTo(b, d)
    BY <1>3 DEF LastRead
  <2>2. /\ d \in BootRecord
        /\ \/ /\ d.step = "drop" /\ d.barred /\ d.kid = c.kid /\ c.kid \in Key
              /\ d.written = c.written
           \/ /\ d.step = "idle" /\ d.kid = NoKey /\ ~d.written /\ ~d.barred
              /\ c.written => c.kid = ActiveRow
    BY <1>1, Settled
  <2>3. keys[ActiveRow] = "active"
    BY <1>3, Choices
  <2> HIDE DEF c, d
  <2>4. boot' \in [Owner -> BootRecord] /\ boot'[b] = d /\ \A o \in Owner \ {b} : boot'[o] = boot[o]
    BY <2>1, <2>2, BootChanges
  <2>5. Shaped(boot'[b])
    BY <2>2, <2>4 DEF Shaped
  <2>6. LetsGo(b) \/ Holds(b)
    BY <1>1, <1>2, <2>2, <2>3, <2>4, KeyFacts DEF LetsGo, Holds
  <2> QED
    BY <1>2, <2>4, <2>5, <2>6 DEF BootReads, BootChanged
<1>4. CASE ActiveRow = NoKey
  <2> DEFINE d == [c EXCEPT !.step = "idle"]
  <2>1. BootTo(b, d)
    BY <1>4 DEF LastRead
  <2>2. /\ d \in BootRecord /\ d.step = "idle"
        /\ d.kid = c.kid /\ d.written = c.written /\ d.barred = c.barred
    BY <1>1 DEF BootRecord, BootStep
  <2> HIDE DEF c, d
  <2>4. boot' \in [Owner -> BootRecord] /\ boot'[b] = d /\ \A o \in Owner \ {b} : boot'[o] = boot[o]
    BY <2>1, <2>2, BootChanges
  <2>5. Shaped(boot'[b])
    BY <2>2, <2>4 DEF Shaped
  <2>6. LetsGo(b) \/ Holds(b)
    BY <1>1, <1>2, <2>2, <2>4, KeyFacts DEF LetsGo, Holds
  <2> QED
    BY <1>2, <2>4, <2>5, <2>6 DEF BootReads, BootChanged
<1> QED
  BY <1>3, <1>4

LEMMA FailedReads ==
  ASSUME TypeOK, NEW b \in Owner, ReadFails(b)
  PROVE  BootReads(b)
<1> DEFINE d == [boot[b] EXCEPT !.step = "idle"]
<1>1. boot[b] \in BootRecord
  BY DEF TypeOK
<1>2. /\ d \in BootRecord /\ d.step = "idle"
      /\ d.kid = boot[b].kid /\ d.written = boot[b].written /\ d.barred = boot[b].barred
  BY <1>1 DEF BootRecord, BootStep
<1>3. BootTo(b, d) /\ UNCHANGED <<stored, maker, rotation>> /\ Inserts(b)
  BY DEF ReadFails, Inserts
<1> HIDE DEF d
<1>4. boot' \in [Owner -> BootRecord] /\ boot'[b] = d /\ \A o \in Owner \ {b} : boot'[o] = boot[o]
  BY <1>2, <1>3, BootChanges
<1> QED
  BY <1>2, <1>3, <1>4 DEF BootReads, BootChanged, Shaped, Holds

--------------------------------------------------------------------------------
(* The steps of a boot that make or destroy material. *)

\* A candidate is made, or made again, and its material stored or not.
BootMakes(b) ==
    /\ UNCHANGED <<keys, flight, rotation>>
    /\ BootChanged(b)
    /\ boot[b].step = "make"
    /\ \E k \in Key :
          /\ k = boot[b].kid \/ (boot[b].kid = NoKey /\ maker[k] = Nobody)
          /\ boot'[b].kid = k /\ boot'[b].barred = boot[b].barred
          /\ maker' = [maker EXCEPT ![k] = b]
          /\ \/ /\ stored' = stored \cup {k}
                /\ boot'[b].written /\ boot'[b].step = "insert"
             \/ /\ stored' = stored
                /\ boot'[b].written = boot[b].written /\ boot'[b].step = "idle"

LEMMA MakeIs ==
  ASSUME TypeOK, CandidateOwned, NEW b \in Owner, Make(b)
  PROVE  BootMakes(b) \/ BootReads(b)
<1>1. boot[b] \in BootRecord /\ boot[b].step = "make" /\ UNCHANGED <<keys, flight, rotation>>
  BY DEF Make, At, TypeOK
<1>2. ASSUME NEW k \in IF boot[b].kid = NoKey THEN Unused ELSE {boot[b].kid},
             maker' = [maker EXCEPT ![k] = b],
             stored' = stored \cup {k},
             BootTo(b, [boot[b] EXCEPT !.kid = k, !.written = TRUE, !.step = "insert"])
      PROVE  BootMakes(b)
  <2> DEFINE d == [boot[b] EXCEPT !.kid = k, !.written = TRUE, !.step = "insert"]
  <2>1. k \in Key /\ (k = boot[b].kid \/ (boot[b].kid = NoKey /\ maker[k] = Nobody))
    BY <1>1 DEF Unused, BootRecord
  <2>2. /\ d \in BootRecord /\ d.kid = k /\ d.written /\ d.step = "insert"
        /\ d.barred = boot[b].barred
    BY <1>1, <2>1 DEF BootRecord, BootStep
  <2>3. BootTo(b, d)
    BY <1>2
  <2> HIDE DEF d
  <2>4. boot' \in [Owner -> BootRecord] /\ boot'[b] = d /\ \A o \in Owner \ {b} : boot'[o] = boot[o]
    BY <2>2, <2>3, BootChanges
  <2>5. BootChanged(b)
    BY <2>1, <2>2, <2>4 DEF BootChanged, Shaped
  <2> QED
    BY <1>1, <1>2, <2>1, <2>2, <2>4, <2>5 DEF BootMakes
<1>3. ASSUME NEW k \in IF boot[b].kid = NoKey THEN Unused ELSE {boot[b].kid},
             maker' = [maker EXCEPT ![k] = b],
             stored' = stored,
             BootTo(b, [boot[b] EXCEPT !.kid = k, !.step = "idle"])
      PROVE  BootMakes(b)
  <2> DEFINE d == [boot[b] EXCEPT !.kid = k, !.step = "idle"]
  <2>1. k \in Key /\ (k = boot[b].kid \/ (boot[b].kid = NoKey /\ maker[k] = Nobody))
    BY <1>1 DEF Unused, BootRecord
  <2>2. /\ d \in BootRecord /\ d.kid = k /\ d.written = boot[b].written /\ d.step = "idle"
        /\ d.barred = boot[b].barred
    BY <1>1, <2>1 DEF BootRecord, BootStep
  <2>3. BootTo(b, d)
    BY <1>3
  <2> HIDE DEF d
  <2>4. boot' \in [Owner -> BootRecord] /\ boot'[b] = d /\ \A o \in Owner \ {b} : boot'[o] = boot[o]
    BY <2>2, <2>3, BootChanges
  <2>5. BootChanged(b)
    BY <2>1, <2>2, <2>4 DEF BootChanged, Shaped
  <2> QED
    BY <1>1, <1>3, <2>1, <2>2, <2>4, <2>5 DEF BootMakes
<1>4. CASE /\ boot[b].kid = NoKey
           /\ BootTo(b, [boot[b] EXCEPT !.step = "idle"])
           /\ UNCHANGED <<maker, stored>>
  <2> DEFINE d == [boot[b] EXCEPT !.step = "idle"]
  <2>1. /\ d \in BootRecord /\ d.step = "idle"
        /\ d.kid = boot[b].kid /\ d.written = boot[b].written /\ d.barred = boot[b].barred
    BY <1>1 DEF BootRecord, BootStep
  <2>2. BootTo(b, d)
    BY <1>4
  <2> HIDE DEF d
  <2>3. boot' \in [Owner -> BootRecord] /\ boot'[b] = d /\ \A o \in Owner \ {b} : boot'[o] = boot[o]
    BY <2>1, <2>2, BootChanges
  <2> QED
    BY <1>1, <1>4, <2>1, <2>3 DEF BootReads, BootChanged, Shaped, Holds, Inserts
<1> QED
  BY <1>2, <1>3, <1>4 DEF Make

\* The candidate's material is destroyed, or was to be.
BootDrops(b) ==
    /\ UNCHANGED <<keys, flight, rotation>>
    /\ BootChanged(b)
    /\ boot[b].step \in {"drop", "cleanup"} /\ boot[b].kid \in Key
    /\ \/ /\ Inert({boot[b].kid})
          /\ boot'[b].kid = NoKey /\ ~boot'[b].written /\ ~boot'[b].barred
          /\ boot'[b].step \in {"make", "idle"}
       \/ /\ stored' \in {stored, stored \ {boot[b].kid}} /\ UNCHANGED maker
          /\ boot'[b].kid = boot[b].kid /\ boot'[b].written = boot[b].written
          /\ boot'[b].barred = boot[b].barred /\ boot'[b].step = "idle"

LEMMA DropIs ==
  ASSUME TypeOK, NEW b \in Owner, Drop(b)
  PROVE  BootDrops(b)
<1>1. /\ boot[b] \in BootRecord /\ boot[b].step \in {"drop", "cleanup"} /\ boot[b].kid \in Key
      /\ UNCHANGED <<keys, flight, rotation>>
  BY DEF Drop, At, TypeOK
<1>2. CASE /\ Inert({boot[b].kid})
           /\ BootTo(b, [Release(boot[b]) EXCEPT
                            !.step = IF boot[b].step = "cleanup" THEN "make" ELSE "idle"])
  <2> DEFINE s == IF boot[b].step = "cleanup" THEN "make" ELSE "idle"
             d == [Release(boot[b]) EXCEPT !.step = s]
  <2>1. s \in {"make", "idle"}
    OBVIOUS
  <2>2. BootTo(b, d)
    BY <1>2
  <2> HIDE DEF s
  <2>3. d \in BootRecord /\ d.step = s /\ d.kid = NoKey /\ ~d.written /\ ~d.barred
    BY <1>1, <2>1 DEF Release, BootRecord, BootStep
  <2> HIDE DEF d
  <2>4. boot' \in [Owner -> BootRecord] /\ boot'[b] = d /\ \A o \in Owner \ {b} : boot'[o] = boot[o]
    BY <2>2, <2>3, BootChanges
  <2> QED
    BY <1>1, <1>2, <2>1, <2>3, <2>4 DEF BootDrops, BootChanged, Shaped
<1>3. CASE /\ stored' \in {stored, stored \ {boot[b].kid}} /\ UNCHANGED maker
           /\ BootTo(b, [boot[b] EXCEPT !.step = "idle"])
  <2> DEFINE d == [boot[b] EXCEPT !.step = "idle"]
  <2>1. /\ d \in BootRecord /\ d.step = "idle"
        /\ d.kid = boot[b].kid /\ d.written = boot[b].written /\ d.barred = boot[b].barred
    BY <1>1 DEF BootRecord, BootStep
  <2>2. BootTo(b, d)
    BY <1>3
  <2> HIDE DEF d
  <2>3. boot' \in [Owner -> BootRecord] /\ boot'[b] = d /\ \A o \in Owner \ {b} : boot'[o] = boot[o]
    BY <2>1, <2>2, BootChanges
  <2> QED
    BY <1>1, <1>3, <2>1, <2>3 DEF BootDrops, BootChanged, Shaped
<1> QED
  BY <1>2, <1>3 DEF Drop

\* A process forgets what it knew.
BootForgets(b) ==
    /\ UNCHANGED <<keys, flight, rotation>>
    /\ BootChanged(b)
    /\ boot'[b].kid = NoKey /\ ~boot'[b].written /\ ~boot'[b].barred
    /\ boot'[b].step = "idle"
    /\ stored' = stored \ {k \in Key : maker[k] = b /\ Unclaimed(k)}
    /\ maker' = [k \in Key |-> IF maker[k] = b /\ Unclaimed(k) THEN Nobody
                               ELSE IF maker[k] = b THEN Somebody ELSE maker[k]]

LEMMA RestartIs ==
  ASSUME TypeOK, NEW b \in Owner, Restart(b)
  PROVE  BootForgets(b)
<1>1. NoBoot \in BootRecord /\ NoBoot.kid = NoKey /\ ~NoBoot.written /\ ~NoBoot.barred
      /\ NoBoot.step = "idle"
  BY DEF NoBoot, BootRecord, BootStep
<1>2. BootTo(b, NoBoot) /\ UNCHANGED <<keys, flight, rotation>>
  BY DEF Restart
<1>3. boot' \in [Owner -> BootRecord] /\ boot'[b] = NoBoot
      /\ \A o \in Owner \ {b} : boot'[o] = boot[o]
  BY <1>1, <1>2, BootChanges
<1>4. BootChanged(b)
  BY <1>1, <1>3 DEF BootChanged, Shaped
<1>5. /\ stored' = stored \ {k \in Key : maker[k] = b /\ Unclaimed(k)}
      /\ maker' = [k \in Key |-> IF maker[k] = b /\ Unclaimed(k) THEN Nobody
                                 ELSE IF maker[k] = b THEN Somebody ELSE maker[k]]
  BY DEF Restart
<1> QED
  BY <1>1, <1>2, <1>3, <1>4, <1>5 DEF BootForgets

--------------------------------------------------------------------------------
(* The steps of a request. *)

LEMMA WhilePinned ==
  ASSUME TypeOK, RowStep, NEW p \in Key, keys'[p] = "active",
         keys[p] \in {"active", "retired"}, OneActive
  PROVE  /\ keys[p] = "active"
         /\ \A j \in Key : keys'[j] = keys[j] \/ (keys[j] = "none" /\ keys'[j] = "pending")
BY DEF RowStep, Moved, TypeOK, In, OneActive

LEMMA RowsKeep ==
  ASSUME TypeOK, RowStep
  PROVE  /\ keys' \in [Key -> RowState]
         /\ \A k \in Key : keys[k] \in {"active", "retired"} => keys'[k] \in {"active", "retired"}
         /\ \A k \in Key : keys'[k] = "none" => keys[k] = "none"
BY DEF RowStep, Moved, TypeOK, RowState, In

RequestChanged(r) ==
    /\ rotation' \in [Rotation -> RotationRecord] /\ Sound(rotation'[r])
    /\ \A o \in Rotation \ {r} : rotation'[o] = rotation[o]

RequestWrites(r) ==
    \E k \in Unused :
        /\ maker' = [maker EXCEPT ![k] = Somebody]
        /\ stored' = stored \cup {k}
        /\ flight' \in {flight, flight \cup {<<k, "pending">>}}
        /\ NoRowChange \/ Set(k, "pending")
        /\ rotation'[r].step = "confirm" => rotation'[r].target = k

\* A key that is named is one that was just written.
RequestNames ==
    \A k \in Key : keys[k] = "none" /\ keys'[k] # "none" => maker[k] = Nobody /\ k \in stored'

RequestGoesOn(r) ==
    /\ UNCHANGED boot /\ RequestNames
    /\ RequestChanged(r) /\ PinOf(r)' /\ Waits(r)'
    /\ \/ RequestWrites(r)
       \/ UNCHANGED <<maker, stored, flight>> /\ rotation'[r].step # "confirm"
       \/ Inert(Abandoned(r)) /\ UNCHANGED <<keys, flight>> /\ rotation'[r].step # "confirm"

\* The same pin and target, at a step that keeps what is known of them.
LEMMA StillWaits ==
  ASSUME TypeOK, RowStep, OneActive, NEW r \in Rotation, PinOf(r), Waits(r),
         rotation'[r].pin = rotation[r].pin, rotation'[r].target = rotation[r].target,
         \/ rotation'[r].step = rotation[r].step
         \/ rotation'[r].step \in {"idle", "write", "publish"}
         \/ rotation[r].step \in {"converge", "retire"} /\ rotation'[r].step \in {"converge", "retire"}
  PROVE  PinOf(r)' /\ Waits(r)'
<1>1. rotation[r].pin \in Key \cup {NoKey} /\ rotation[r].target \in Key \cup {NoKey}
      /\ Sound(rotation[r])
  BY DEF TypeOK, RotationRecord, Sound
<1>2. PinOf(r)'
  BY <1>1, RowsKeep DEF PinOf
<1>3. CASE rotation[r].pin # NoKey /\ keys'[rotation[r].pin] = "active"
  <2>1. /\ keys[rotation[r].pin] = "active"
        /\ \A j \in Key : keys'[j] = keys[j] \/ (keys[j] = "none" /\ keys'[j] = "pending")
    BY <1>1, <1>3, WhilePinned DEF PinOf
  <2> QED
    BY <1>1, <1>2, <1>3, <2>1 DEF Waits, Sound
<1> QED
  BY <1>2, <1>3 DEF Waits

\* The premises of every step of a request.
Steady(r) ==
    /\ TypeOK /\ RowStep /\ OneActive
    /\ PinOf(r) /\ Waits(r)

LEMMA PublishedGoesOn ==
  ASSUME NEW r \in Rotation, Steady(r), NEW k \in Key, Published(r, k),
         rotation[r].pin # NoKey /\ keys'[rotation[r].pin] = "active" => keys'[k] = "pending"
  PROVE  /\ RequestChanged(r) /\ PinOf(r)' /\ Waits(r)'
         /\ rotation'[r].step # "confirm"
<1>1. /\ rotation' \in [Rotation -> RotationRecord]
      /\ \/ rotation'[r].step = "idle" /\ rotation'[r].pin = NoKey
         \/ /\ rotation'[r].step = "converge" /\ rotation'[r].target = k
            /\ rotation'[r].pin = rotation[r].pin
      /\ \A o \in Rotation \ {r} : rotation'[o] = rotation[o]
  BY PublishedIs DEF Steady
<1>2. rotation[r].pin \in Key \cup {NoKey}
  BY DEF Steady, TypeOK, RotationRecord
<1>3. RequestChanged(r) /\ rotation'[r].step # "confirm"
  BY <1>1 DEF RequestChanged, Sound
<1>4. PinOf(r)'
  BY <1>1, <1>2, RowsKeep DEF PinOf, Steady
<1>5. Waits(r)'
  BY <1>1 DEF Waits
<1> QED
  BY <1>3, <1>4, <1>5

LEMMA EndGoesOn ==
  ASSUME NEW r \in Rotation, TypeOK, End(r)
  PROVE  /\ RequestChanged(r) /\ PinOf(r)' /\ Waits(r)'
         /\ rotation'[r].step # "confirm"
<1>1. /\ rotation' \in [Rotation -> RotationRecord]
      /\ rotation'[r].step = "idle" /\ rotation'[r].pin = NoKey
      /\ \A o \in Rotation \ {r} : rotation'[o] = rotation[o]
  BY EndIs
<1> QED
  BY <1>1 DEF RequestChanged, Sound, PinOf, Waits

LEMMA StepGoesOn ==
  ASSUME NEW r \in Rotation, Steady(r), NEW s \in RotationStep, RotationTo(r, s),
         s # "confirm",
         s \in {"converge", "retire", "activate"} => rotation[r].target \in Key,
         s = "retire" => rotation[r].pin \in Key,
         \/ s \in {"idle", "write", "publish"}
         \/ rotation[r].step \in {"converge", "retire"} /\ s \in {"converge", "retire"}
         \/ ~(rotation[r].pin # NoKey /\ keys'[rotation[r].pin] = "active")
  PROVE  /\ RequestChanged(r) /\ PinOf(r)' /\ Waits(r)'
         /\ rotation'[r].step # "confirm"
<1>1. /\ rotation' \in [Rotation -> RotationRecord]
      /\ rotation'[r].step = s
      /\ rotation'[r].pin = rotation[r].pin /\ rotation'[r].target = rotation[r].target
      /\ \A o \in Rotation \ {r} : rotation'[o] = rotation[o]
  BY RotationToIs DEF Steady
<1>2. rotation[r].pin \in Key \cup {NoKey}
  BY DEF Steady, TypeOK, RotationRecord
<1>3. RequestChanged(r) /\ rotation'[r].step # "confirm"
  BY <1>1 DEF RequestChanged, Sound
<1>4. PinOf(r)'
  BY <1>1, <1>2, RowsKeep DEF PinOf, Steady
<1>5. Waits(r)'
  BY <1>1, StillWaits DEF Waits, Steady
<1> QED
  BY <1>3, <1>4, <1>5

LEMMA RequestsGoOn ==
  ASSUME NEW r \in Rotation, Steady(r),
         RequestPublish(r) \/ RequestActivate(r) \/ RequestRotate(r)
  PROVE  RequestGoesOn(r)
<1>1. UNCHANGED <<keys, maker, stored, flight, boot>> /\ RequestNames
  BY DEF RequestPublish, RequestActivate, RequestRotate, RequestNames
<1>2. ASSUME NEW q \in RotationRecord, q.step \in {"publish", "converge"}, q.pin = ActiveRow,
             q.step = "converge" => q.target = NewestPending /\ NewestPending # NoKey,
             rotation' = [rotation EXCEPT ![r] = q]
      PROVE  RequestChanged(r) /\ PinOf(r)' /\ Waits(r)' /\ rotation'[r].step # "confirm"
  <2>1. /\ rotation' \in [Rotation -> RotationRecord] /\ rotation'[r] = q
        /\ \A o \in Rotation \ {r} : rotation'[o] = rotation[o]
    BY <1>2, RequestChanges DEF Steady
  <2> QED
    BY <1>1, <1>2, <2>1, Choices DEF Steady, RequestChanged, Sound, PinOf, Waits
<1>3. CASE RequestPublish(r)
  <2>1. RotationTo(r, "write") /\ "write" \in RotationStep
    BY <1>3 DEF RequestPublish, RotationStep
  <2>2. RequestChanged(r) /\ PinOf(r)' /\ Waits(r)' /\ rotation'[r].step # "confirm"
    BY <2>1, StepGoesOn
  <2> QED
    BY <1>1, <2>2 DEF RequestGoesOn
<1>4. CASE RequestActivate(r)
  <2> DEFINE q == [step |-> "converge", kind |-> "rotate", pin |-> ActiveRow,
                   target |-> NewestPending]
  <2>1. q \in RotationRecord
    BY Choices DEF Steady, RotationRecord, RotationStep
  <2>2. rotation' = [rotation EXCEPT ![r] = q] /\ NewestPending # NoKey
    BY <1>4 DEF RequestActivate
  <2>3. RequestChanged(r) /\ PinOf(r)' /\ Waits(r)' /\ rotation'[r].step # "confirm"
    BY <1>2, <2>1, <2>2
  <2> QED
    BY <1>1, <2>3 DEF RequestGoesOn
<1>5. CASE RequestRotate(r)
  <2> DEFINE q == [step |-> "publish", kind |-> "rotate", pin |-> ActiveRow,
                   target |-> NoKey]
  <2>1. q \in RotationRecord
    BY Choices DEF Steady, RotationRecord, RotationStep
  <2>2. rotation' = [rotation EXCEPT ![r] = q]
    BY <1>5 DEF RequestRotate
  <2>3. RequestChanged(r) /\ PinOf(r)' /\ Waits(r)' /\ rotation'[r].step # "confirm"
    BY <1>2, <2>1, <2>2
  <2> QED
    BY <1>1, <2>3 DEF RequestGoesOn
<1> QED
  BY <1>3, <1>4, <1>5

LEMMA ReadsGoOn ==
  ASSUME NEW r \in Rotation, Steady(r), Publish(r) \/ Confirm(r) \/ Converge(r) \/ Break(r)
  PROVE  RequestGoesOn(r)
<1>1. UNCHANGED <<keys, flight, boot>> /\ RequestNames
  BY DEF Publish, Confirm, Converge, Break, RequestNames
<1>2. rotation[r] \in RotationRecord /\ Sound(rotation[r])
  BY DEF Steady, TypeOK, Sound
<1>3. CASE Publish(r)
  <2>1. UNCHANGED <<maker, stored>>
    BY <1>3 DEF Publish
  <2>2. CASE NewestPending # NoKey
    <3>1. Published(r, NewestPending) /\ NewestPending \in Key /\ keys[NewestPending] = "pending"
      BY <1>3, <2>2, Choices DEF Publish, Steady
    <3>2. keys'[NewestPending] = "pending"
      BY <1>1, <3>1
    <3>3. RequestChanged(r) /\ PinOf(r)' /\ Waits(r)' /\ rotation'[r].step # "confirm"
      BY <3>1, <3>2, PublishedGoesOn
    <3> QED
      BY <1>1, <2>1, <3>3 DEF RequestGoesOn
  <2>3. CASE NewestPending = NoKey
    <3>1. RotationTo(r, "write") /\ "write" \in RotationStep
      BY <1>3, <2>3 DEF Publish, RotationStep
    <3>2. RequestChanged(r) /\ PinOf(r)' /\ Waits(r)' /\ rotation'[r].step # "confirm"
      BY <3>1, StepGoesOn
    <3> QED
      BY <1>1, <2>1, <3>2 DEF RequestGoesOn
  <2> QED
    BY <2>2, <2>3
<1>4. CASE Confirm(r)
  <2>1. rotation[r].step = "confirm" /\ rotation[r].target \in Key
    BY <1>2, <1>4 DEF Confirm, Sound
  <2>2. CASE keys[rotation[r].target] # "none"
    <3>1. Published(r, rotation[r].target) /\ UNCHANGED <<maker, stored>>
      BY <1>4, <2>2 DEF Confirm
    <3>2. rotation[r].pin # NoKey /\ keys'[rotation[r].pin] = "active" =>
            keys'[rotation[r].target] = "pending"
      BY <1>1, <2>1, <2>2 DEF Steady, Waits
    <3>3. RequestChanged(r) /\ PinOf(r)' /\ Waits(r)' /\ rotation'[r].step # "confirm"
      BY <2>1, <3>1, <3>2, PublishedGoesOn
    <3> QED
      BY <1>1, <3>1, <3>3 DEF RequestGoesOn
  <2>3. CASE keys[rotation[r].target] = "none"
    <3>1. End(r) /\ Inert(Abandoned(r))
      BY <1>4, <2>3 DEF Confirm
    <3>2. RequestChanged(r) /\ PinOf(r)' /\ Waits(r)' /\ rotation'[r].step # "confirm"
      BY <3>1, EndGoesOn DEF Steady
    <3> QED
      BY <1>1, <3>1, <3>2 DEF RequestGoesOn
  <2> QED
    BY <2>2, <2>3
<1>5. CASE Converge(r)
  <2>1. rotation[r].step = "converge" /\ rotation[r].target \in Key /\ UNCHANGED <<maker, stored>>
    BY <1>2, <1>5 DEF Converge, Sound
  <2>2. CASE End(r)
    <3>1. RequestChanged(r) /\ PinOf(r)' /\ Waits(r)' /\ rotation'[r].step # "confirm"
      BY <2>2, EndGoesOn DEF Steady
    <3> QED
      BY <1>1, <2>1, <3>1 DEF RequestGoesOn
  <2>3. CASE ActiveRow # NoKey /\ ActiveRow = rotation[r].pin /\ RotationTo(r, "retire")
    <3>1. rotation[r].pin \in Key /\ "retire" \in RotationStep
      BY <2>3, Choices DEF Steady, RotationStep
    <3>2. RequestChanged(r) /\ PinOf(r)' /\ Waits(r)' /\ rotation'[r].step # "confirm"
      BY <2>1, <2>3, <3>1, StepGoesOn
    <3> QED
      BY <1>1, <2>1, <3>2 DEF RequestGoesOn
  <2>4. CASE ActiveRow = NoKey /\ RotationTo(r, "activate")
    <3>1. "activate" \in RotationStep
      BY DEF RotationStep
    <3>2. ~(rotation[r].pin # NoKey /\ keys'[rotation[r].pin] = "active")
      BY <1>1, <1>2, <2>4, Choices DEF Steady, In, RotationRecord
    <3>3. RequestChanged(r) /\ PinOf(r)' /\ Waits(r)' /\ rotation'[r].step # "confirm"
      BY <2>1, <2>4, <3>1, <3>2, StepGoesOn
    <3> QED
      BY <1>1, <2>1, <3>3 DEF RequestGoesOn
  <2> QED
    BY <1>5, <2>2, <2>3, <2>4 DEF Converge
<1>6. CASE Break(r)
  <2>1. End(r) /\ Inert(Abandoned(r))
    BY <1>6 DEF Break
  <2>2. RequestChanged(r) /\ PinOf(r)' /\ Waits(r)' /\ rotation'[r].step # "confirm"
    BY <2>1, EndGoesOn DEF Steady
  <2> QED
    BY <1>1, <2>1, <2>2 DEF RequestGoesOn
<1> QED
  BY <1>3, <1>4, <1>5, <1>6

LEMMA WriteGoesOn ==
  ASSUME NEW r \in Rotation, Steady(r), FreshKeys, WriteAndInsert(r)
  PROVE  RequestGoesOn(r)
<1>1. PICK k \in Unused :
         /\ maker' = [maker EXCEPT ![k] = Somebody]
         /\ stored' = stored \cup {k}
         /\ \/ Set(k, "pending") /\ Published(r, k) /\ UNCHANGED flight
            \/ /\ Lost(r, k, "pending")
               /\ rotation' = [rotation EXCEPT ![r].step = "confirm", ![r].target = k]
  BY DEF WriteAndInsert
<1>2. k \in Key /\ keys[k] = "none"
  BY DEF Unused, FreshKeys, Unclaimed
<1>3. UNCHANGED boot /\ RequestNames
  <2>1. NoRowChange \/ Set(k, "pending")
    BY <1>1 DEF Lost
  <2>2. UNCHANGED boot
    BY DEF WriteAndInsert
  <2> QED
    BY <1>1, <1>2, <2>1, <2>2 DEF RequestNames, NoRowChange, Set, Unused, Steady, TypeOK
<1>4. rotation[r] \in RotationRecord
  BY DEF Steady, TypeOK
<1>5. CASE Set(k, "pending") /\ Published(r, k) /\ UNCHANGED flight
  <2>1. keys'[k] = "pending"
    BY <1>2, <1>5 DEF Set, Steady, TypeOK
  <2>2. RequestChanged(r) /\ PinOf(r)' /\ Waits(r)' /\ rotation'[r].step # "confirm"
    BY <1>2, <1>5, <2>1, PublishedGoesOn
  <2>3. RequestWrites(r)
    BY <1>1, <1>5, <2>2 DEF RequestWrites
  <2> QED
    BY <1>3, <2>2, <2>3 DEF RequestGoesOn
<1>6. CASE /\ Lost(r, k, "pending")
           /\ rotation' = [rotation EXCEPT ![r].step = "confirm", ![r].target = k]
  <2> DEFINE q == [rotation[r] EXCEPT !.step = "confirm", !.target = k]
  <2>1. q \in RotationRecord /\ q.step = "confirm" /\ q.target = k /\ q.pin = rotation[r].pin
    BY <1>2, <1>4 DEF RotationRecord, RotationStep
  <2>2. rotation' = [rotation EXCEPT ![r] = q]
    BY <1>4, <1>6 DEF Steady, TypeOK, RotationRecord
  <2> HIDE DEF q
  <2>3. /\ rotation' \in [Rotation -> RotationRecord] /\ rotation'[r] = q
        /\ \A o \in Rotation \ {r} : rotation'[o] = rotation[o]
    BY <2>1, <2>2, RequestChanges DEF Steady
  <2>4. keys'[k] \in {"none", "pending"} /\ flight' \in {flight, flight \cup {<<k, "pending">>}}
    BY <1>2, <1>6 DEF Lost, NoRowChange, Set, Steady, TypeOK
  <2>5. RequestChanged(r)
    BY <1>2, <2>1, <2>3 DEF RequestChanged, Sound
  <2>6. PinOf(r)'
    BY <1>4, <2>1, <2>3, RowsKeep DEF PinOf, Steady, RotationRecord
  <2>7. Waits(r)'
    BY <2>1, <2>3, <2>4 DEF Waits
  <2>8. RequestWrites(r)
    BY <1>1, <1>6, <2>1, <2>3, <2>4 DEF RequestWrites, Lost
  <2> QED
    BY <1>3, <2>5, <2>6, <2>7, <2>8 DEF RequestGoesOn
<1> QED
  BY <1>1, <1>5, <1>6

LEMMA MovesGoOn ==
  ASSUME NEW r \in Rotation, Steady(r), Retire(r) \/ Activate(r)
  PROVE  RequestGoesOn(r)
<1>1. UNCHANGED <<maker, stored, flight, boot>> /\ rotation[r].step \in {"retire", "activate"}
  BY DEF Retire, Activate
<1>2. /\ rotation[r] \in RotationRecord /\ rotation[r].target \in Key
      /\ rotation[r].step = "retire" => rotation[r].pin \in Key
  BY <1>1 DEF Steady, TypeOK
<1>3. keys \in [Key -> RowState]
  BY DEF Steady, TypeOK
<1>4. "converge" \in RotationStep /\ "activate" \in RotationStep
  BY DEF RotationStep
<1> RequestNames
  BY <1>2, <1>3 DEF Retire, Activate, Move, Movable, Set, NoRowChange, RequestNames
<1>5. CASE End(r)
  <2>1. RequestChanged(r) /\ PinOf(r)' /\ Waits(r)' /\ rotation'[r].step # "confirm"
    BY <1>5, EndGoesOn DEF Steady
  <2> QED
    BY <1>1, <2>1 DEF RequestGoesOn
<1>6. CASE Retire(r) /\ RotationTo(r, "activate")
           /\ Movable(rotation[r].pin, "active", "retired") /\ Set(rotation[r].pin, "retired")
  <2>1. keys'[rotation[r].pin] # "active"
    BY <1>2, <1>3, <1>6 DEF Retire, Set
  <2>2. RequestChanged(r) /\ PinOf(r)' /\ Waits(r)' /\ rotation'[r].step # "confirm"
    BY <1>2, <1>4, <1>6, <2>1, StepGoesOn
  <2> QED
    BY <1>1, <2>2 DEF RequestGoesOn
<1>7. CASE Retire(r) /\ RotationTo(r, "converge")
  <2>1. rotation[r].step = "retire"
    BY <1>7 DEF Retire
  <2>2. RequestChanged(r) /\ PinOf(r)' /\ Waits(r)' /\ rotation'[r].step # "confirm"
    BY <1>2, <1>4, <1>7, <2>1, StepGoesOn
  <2> QED
    BY <1>1, <2>2 DEF RequestGoesOn
<1>8. CASE Activate(r) /\ RotationTo(r, "converge")
  <2>1. rotation[r].step = "activate"
    BY <1>8 DEF Activate
  <2>2. ~(rotation[r].pin # NoKey /\ keys[rotation[r].pin] = "active")
    BY <2>1 DEF Steady, Waits
  <2>3. ~(rotation[r].pin # NoKey /\ keys'[rotation[r].pin] = "active")
    BY <1>2, <2>2, WhilePinned DEF Steady, PinOf, RotationRecord
  <2>4. RequestChanged(r) /\ PinOf(r)' /\ Waits(r)' /\ rotation'[r].step # "confirm"
    BY <1>2, <1>4, <1>8, <2>3, StepGoesOn
  <2> QED
    BY <1>1, <2>4 DEF RequestGoesOn
<1> QED
  BY <1>5, <1>6, <1>7, <1>8 DEF Retire, Activate, Move

--------------------------------------------------------------------------------
(* The steps of all actors. *)

Lands ==
    /\ UNCHANGED <<stored, maker, boot, rotation>>
    /\ flight' \subseteq flight
    /\ \A k \in Key : keys[k] = "none" /\ keys'[k] # "none" =>
          InFlight(k) /\ <<k, keys'[k]>> \in flight

LEMMA Steps ==
  ASSUME RowInv, [Next]_vars
  PROVE  /\ RowStep
         /\ \/ \E b \in Owner : BootReads(b) \/ BootMakes(b) \/ BootDrops(b) \/ BootForgets(b)
            \/ \E r \in Rotation : RequestGoesOn(r)
            \/ Lands
<1>1. RowStep
  BY RowsMove DEF RowInv
<1>2. CASE UNCHANGED vars
  BY <1>1, <1>2 DEF vars, Lands
<1>3. ASSUME NEW b \in Owner, BootStepOf(b) \/ ReadFails(b) \/ Restart(b)
      PROVE  BootReads(b) \/ BootMakes(b) \/ BootDrops(b) \/ BootForgets(b)
  BY <1>3, ListReads, AdoptReads, InsertReads, LastReads, FailedReads, MakeIs, DropIs, RestartIs
     DEF RowInv, BootStepOf
<1>4. ASSUME NEW r \in Rotation,
             \/ RequestPublish(r) \/ RequestActivate(r) \/ RequestRotate(r)
             \/ RotationStepOf(r) \/ Break(r)
      PROVE  RequestGoesOn(r)
  <2>1. Steady(r) /\ FreshKeys
    BY <1>1 DEF RowInv, Steady, PinWasActive, TargetWaits
  <2> QED
    BY <1>4, <2>1, RequestsGoOn, ReadsGoOn, WriteGoesOn, MovesGoOn DEF RotationStepOf
<1>5. ASSUME Land PROVE Lands
  <2>1. PICK f \in flight : NoRowChange \/ Set(f[1], f[2])
    BY <1>5 DEF Land
  <2>2. keys \in [Key -> RowState] /\ f[1] \in Key
    BY DEF RowInv, TypeOK
  <2>3. UNCHANGED <<stored, maker, boot, rotation>> /\ flight' \subseteq flight
    BY <1>5 DEF Land
  <2>4. f = <<f[1], f[2]>>
    BY DEF RowInv, TypeOK
  <2>5. ASSUME NEW k \in Key, keys[k] = "none", keys'[k] # "none"
        PROVE  k = f[1] /\ keys'[k] = f[2]
    BY <2>1, <2>2, <2>5 DEF NoRowChange, Set
  <2> QED
    BY <2>3, <2>4, <2>5 DEF Lands, InFlight
<1> QED
  BY <1>1, <1>2, <1>3, <1>4, <1>5 DEF Next

--------------------------------------------------------------------------------
(* What is known of the rows and of who holds which key. *)

LEMMA FaultsTyped ==
  ASSUME TypeOK, [Next]_vars
  PROVE  faults' \in 0 .. MaxFaults
<1>1. Fault \/ NoFault
  BY DEF Next, BootStepOf, RotationStepOf, List, Adopt, Make, Insert, LastRead, Drop, ReadFails,
         Restart, RequestPublish, RequestActivate, RequestRotate, Publish, WriteAndInsert,
         Lost, Confirm, Converge, Retire, Activate, Move, Break, Land, NoFault, vars
<1>2. faults \in 0 .. MaxFaults /\ MaxFaults \in Nat
  BY KeysAssumption DEF TypeOK
<1> QED
  BY <1>1, <1>2 DEF Fault, NoFault

LEMMA InertIs ==
  ASSUME TypeOK, NEW K, Inert(K)
  PROVE  /\ maker' \in [Key -> Owner \cup {Nobody, Somebody}] /\ stored' = stored \ K
         /\ \A k \in Key : maker'[k] = maker[k] \/ (k \in K /\ Unclaimed(k) /\ maker'[k] = Nobody)
  BY DEF Inert, TypeOK

LEMMA TypesHold ==
  ASSUME RowInv, [Next]_vars
  PROVE  TypeOK'
<1>1. TypeOK /\ RowStep
  BY Steps DEF RowInv
<1>2. keys' \in [Key -> RowState] /\ faults' \in 0 .. MaxFaults
  BY <1>1, RowsKeep, FaultsTyped
<1>3. ASSUME NEW b \in Owner, BootReads(b) \/ BootMakes(b) \/ BootDrops(b) \/ BootForgets(b)
      PROVE TypeOK'
  <2>1. BootChanged(b) /\ UNCHANGED rotation
    BY <1>3 DEF BootReads, BootMakes, BootDrops, BootForgets
  <2>2. boot' \in [Owner -> BootRecord] /\ \A o \in Owner : Shaped(boot'[o])
    BY <1>1, <2>1 DEF BootChanged, Shaped, TypeOK
  <2>3. rotation' \in [Rotation -> RotationRecord] /\ \A r \in Rotation : Sound(rotation'[r])
    BY <1>1, <2>1 DEF Sound, TypeOK
  <2>4. stored' \subseteq Key
    BY <1>1, <1>3, InertIs DEF BootReads, BootMakes, BootDrops, BootForgets, TypeOK
  <2>5. maker' \in [Key -> Owner \cup {Nobody, Somebody}]
    BY <1>1, <1>3, InertIs DEF BootReads, BootMakes, BootDrops, BootForgets, TypeOK
  <2>6. flight' \subseteq Key \X {"pending", "active"}
    BY <1>1, <1>3 DEF BootReads, BootMakes, BootDrops, BootForgets, Inserts, TypeOK
  <2> QED
    BY <1>2, <2>2, <2>3, <2>4, <2>5, <2>6 DEF TypeOK, Shaped, Sound
<1>4. ASSUME NEW r \in Rotation, RequestGoesOn(r)
      PROVE TypeOK'
  <2>1. RequestChanged(r) /\ UNCHANGED boot
    BY <1>4 DEF RequestGoesOn
  <2>2. boot' \in [Owner -> BootRecord] /\ \A o \in Owner : Shaped(boot'[o])
    BY <1>1, <2>1 DEF Shaped, TypeOK
  <2>3. rotation' \in [Rotation -> RotationRecord] /\ \A q \in Rotation : Sound(rotation'[q])
    BY <1>1, <2>1 DEF RequestChanged, Sound, TypeOK
  <2>4. stored' \subseteq Key
    BY <1>1, <1>4, InertIs DEF RequestGoesOn, RequestWrites, Unused, TypeOK
  <2>5. maker' \in [Key -> Owner \cup {Nobody, Somebody}]
    BY <1>1, <1>4, InertIs DEF RequestGoesOn, RequestWrites, TypeOK
  <2>6. flight' \subseteq Key \X {"pending", "active"}
    BY <1>1, <1>4 DEF RequestGoesOn, RequestWrites, Unused, TypeOK
  <2> QED
    BY <1>2, <2>2, <2>3, <2>4, <2>5, <2>6 DEF TypeOK, Shaped, Sound
<1>5. CASE Lands
  BY <1>1, <1>2, <1>5 DEF Lands, TypeOK
<1> QED
  BY <1>3, <1>4, <1>5, Steps

LEMMA RowsHold ==
  ASSUME RowInv, [Next]_vars
  PROVE  OneActive' /\ SuccessorReady'
<1>1. TypeOK /\ RowStep /\ OneActive /\ SuccessorReady
  BY Steps DEF RowInv
<1>2. OneActive'
  BY <1>1 DEF RowStep, Moved, OneActive, In, TypeOK
<1>3. SuccessorReady'
  <2>1. CASE keys' = keys
    BY <1>1, <2>1 DEF SuccessorReady, In
  <2>2. ASSUME NEW k \in Key, keys[k] = "none", Moved(k, "pending") PROVE SuccessorReady'
    BY <1>1, <2>2 DEF Moved, SuccessorReady, In, TypeOK
  <2>3. ASSUME NEW k \in Key, Moved(k, "active") PROVE SuccessorReady'
    BY <1>1, <2>3 DEF Moved, SuccessorReady, In, TypeOK
  <2>4. ASSUME NEW r \in Rotation, rotation[r].step = "retire",
               rotation[r].pin \in In("active"), Moved(rotation[r].pin, "retired")
        PROVE SuccessorReady'
    <3>1. rotation[r].target \in Key /\ rotation[r].pin \in Key /\ rotation[r].pin # NoKey
      BY <1>1, <2>4, KeyFacts DEF TypeOK
    <3>2. keys[rotation[r].target] = "pending"
      BY <2>4, <3>1 DEF RowInv, TargetWaits, Waits, In
    <3>3. keys'[rotation[r].target] = "pending"
      BY <1>1, <2>4, <3>1, <3>2 DEF Moved, In, TypeOK
    <3> QED
      BY <3>1, <3>3 DEF SuccessorReady, In
  <2> QED
    BY <1>1, <2>1, <2>2, <2>3, <2>4 DEF RowStep
<1> QED
  BY <1>2, <1>3

LEMMA PinsHold ==
  ASSUME RowInv, [Next]_vars
  PROVE  PinWasActive' /\ TargetWaits'
<1>1. TypeOK /\ RowStep /\ OneActive /\ PinWasActive /\ TargetWaits
  BY Steps DEF RowInv
<1>2. ASSUME NEW q \in Rotation, rotation'[q] = rotation[q]
      PROVE  PinOf(q)' /\ Waits(q)'
  BY <1>1, <1>2, StillWaits DEF PinWasActive, TargetWaits
<1>3. ASSUME NEW b \in Owner, BootReads(b) \/ BootMakes(b) \/ BootDrops(b) \/ BootForgets(b)
      PROVE  PinWasActive' /\ TargetWaits'
  <2>1. UNCHANGED rotation
    BY <1>3 DEF BootReads, BootMakes, BootDrops, BootForgets
  <2> QED
    BY <1>2, <2>1 DEF PinWasActive, TargetWaits
<1>4. ASSUME NEW r \in Rotation, RequestGoesOn(r)
      PROVE  PinWasActive' /\ TargetWaits'
  BY <1>2, <1>4 DEF RequestGoesOn, RequestChanged, PinWasActive, TargetWaits
<1>5. CASE Lands
  BY <1>2, <1>5 DEF Lands, PinWasActive, TargetWaits
<1> QED
  BY <1>3, <1>4, <1>5, Steps

\* What the steps of a boot and of a request have in common: only their own keys
\* change hands.
LEMMA BootHands ==
  ASSUME RowInv, NEW b \in Owner,
         BootReads(b) \/ BootMakes(b) \/ BootDrops(b) \/ BootForgets(b)
  PROVE  /\ \A k \in Key : maker[k] \notin {b, Nobody} =>
               maker'[k] = maker[k] /\ (k \in stored' <=> k \in stored)
         /\ \A k \in Key : maker[k] = Nobody => maker'[k] \in {Nobody, b}
         /\ \A k \in Key : maker[k] = b => maker'[k] \in {b, Nobody, Somebody}
         /\ \A k \in Key : maker'[k] = Nobody => maker[k] = Nobody \/ Unclaimed(k)
<1>1. TypeOK /\ (boot[b].kid # NoKey => boot[b].kid \in Key /\ maker[boot[b].kid] = b)
  BY DEF RowInv, CandidateOwned, TypeOK, BootRecord
<1>2. CASE BootReads(b)
  BY <1>2 DEF BootReads
<1>3. CASE BootMakes(b)
  BY <1>1, <1>3, KeyFacts DEF BootMakes, TypeOK
<1>4. CASE BootDrops(b)
  <2>1. CASE Inert({boot[b].kid})
    BY <1>1, <1>4, <2>1, InertIs, KeyFacts DEF BootDrops
  <2>2. CASE stored' \in {stored, stored \ {boot[b].kid}} /\ UNCHANGED maker
    BY <1>1, <1>4, <2>2, KeyFacts DEF BootDrops
  <2> QED
    BY <1>4, <2>1, <2>2 DEF BootDrops
<1>5. CASE BootForgets(b)
  BY <1>1, <1>5, KeyFacts DEF BootForgets
<1> QED
  BY <1>2, <1>3, <1>4, <1>5

LEMMA RequestHands ==
  ASSUME RowInv, NEW r \in Rotation, RequestGoesOn(r)
  PROVE  /\ \A k \in Key : maker[k] \in Owner =>
               maker'[k] = maker[k] /\ (k \in stored' <=> k \in stored)
         /\ \A k \in Key : maker[k] = Nobody => maker'[k] \in {Nobody, Somebody}
         /\ \A k \in Key : maker[k] = Somebody =>
               \/ maker'[k] = Somebody /\ (k \in stored' <=> k \in stored)
               \/ /\ maker'[k] = Nobody /\ k \notin stored' /\ Unclaimed(k)
                  /\ rotation[r].step = "confirm" /\ rotation[r].target = k
                  /\ rotation'[r].step # "confirm"
         /\ \A k \in Key : maker[k] = Nobody /\ maker'[k] # Nobody =>
               k \in stored' /\ (rotation'[r].step = "confirm" => rotation'[r].target = k)
<1>1. TypeOK /\ ConfirmOwned
  BY DEF RowInv
<1>2. CASE RequestWrites(r)
  BY <1>1, <1>2, KeyFacts DEF RequestWrites, Unused, TypeOK
<1>3. CASE UNCHANGED <<maker, stored, flight>>
  BY <1>3, KeyFacts
<1>4. CASE Inert(Abandoned(r)) /\ rotation'[r].step # "confirm"
  <2>1. \A k \in Abandoned(r) : /\ rotation[r].step = "confirm" /\ rotation[r].target = k
                                /\ Unclaimed(k) /\ maker[k] = Somebody
    BY <1>1 DEF Abandoned, ConfirmOwned
  <2>2. /\ stored' = stored \ Abandoned(r)
        /\ \A k \in Key : maker'[k] = IF k \in Abandoned(r) /\ Unclaimed(k) THEN Nobody ELSE maker[k]
    BY <1>4 DEF Inert
  <2> QED
    BY <1>4, <2>1, <2>2, KeyFacts
<1> QED
  BY <1>2, <1>3, <1>4 DEF RequestGoesOn

LEMMA FreshHolds ==
  ASSUME RowInv, [Next]_vars
  PROVE  FreshKeys'
<1>1. TypeOK /\ RowStep /\ FreshKeys /\ (\A k \in Key : keys'[k] = "none" => keys[k] = "none")
  BY Steps, RowsKeep DEF RowInv
<1>2. ASSUME NEW b \in Owner, BootReads(b) \/ BootMakes(b) \/ BootDrops(b) \/ BootForgets(b),
             NEW k \in Key, maker'[k] = Nobody
      PROVE  keys'[k] = "none" /\ ~InFlight(k)' /\ k \notin stored'
  <2>1. maker[k] = Nobody \/ Unclaimed(k)
    BY <1>2, BootHands
  <2>2. keys[k] = "none" /\ ~InFlight(k)
    BY <1>1, <2>1 DEF FreshKeys, Unclaimed
  <2>3. CASE BootReads(b)
    <3>1. maker[k] = Nobody
      BY <1>2, <2>3 DEF BootReads
    <3>2. k # boot[b].kid
      BY <3>1, KeyFacts DEF RowInv, CandidateOwned
    <3>3. keys'[k] = "none"
      BY <2>2, <2>3, <3>2 DEF BootReads, Inserts
    <3>4. ~InFlight(k)'
      BY <2>2, <2>3, <3>2 DEF BootReads, Inserts, InFlight
    <3> QED
      BY <1>1, <2>3, <3>1, <3>3, <3>4 DEF FreshKeys, BootReads
  <2>4. CASE BootMakes(b) \/ BootDrops(b) \/ BootForgets(b)
    <3>1. keys'[k] = "none" /\ ~InFlight(k)'
      BY <2>2, <2>4 DEF BootMakes, BootDrops, BootForgets, InFlight
    <3>2. CASE BootMakes(b)
      <4>1. maker[k] = Nobody /\ k \notin stored
        BY <1>1, <1>2, <3>2, KeyFacts DEF BootMakes, FreshKeys, TypeOK
      <4>2. k \notin stored'
        BY <1>1, <1>2, <3>2, <4>1, KeyFacts DEF BootMakes, TypeOK
      <4> QED
        BY <3>1, <4>2
    <3>3. CASE BootDrops(b)
      <4>1. CASE Inert({boot[b].kid})
        <5>1. stored' = stored \ {boot[b].kid}
              /\ (maker'[k] = maker[k] \/ k \in {boot[b].kid})
          BY <1>1, <4>1, InertIs
        <5>2. k \notin stored'
          BY <1>1, <1>2, <5>1 DEF FreshKeys
        <5> QED
          BY <3>1, <5>2
      <4>2. CASE stored' \in {stored, stored \ {boot[b].kid}} /\ UNCHANGED maker
        <5>1. k \notin stored'
          BY <1>1, <1>2, <4>2 DEF FreshKeys
        <5> QED
          BY <3>1, <5>1
      <4> QED
        BY <3>3, <4>1, <4>2 DEF BootDrops
    <3>4. CASE BootForgets(b)
      <4>1. k \notin stored'
        BY <1>1, <1>2, <3>4, KeyFacts DEF BootForgets, FreshKeys
      <4> QED
        BY <3>1, <4>1
    <3> QED
      BY <2>4, <3>1, <3>2, <3>3, <3>4
  <2> QED
    BY <1>2, <2>3, <2>4
<1>3. ASSUME NEW r \in Rotation, RequestGoesOn(r), NEW k \in Key, maker'[k] = Nobody
      PROVE  keys'[k] = "none" /\ ~InFlight(k)' /\ k \notin stored'
  <2>1. \/ maker[k] = Nobody
        \/ Unclaimed(k) /\ k \notin stored' /\ rotation'[r].step # "confirm" /\ maker[k] = Somebody
    BY <1>1, <1>3, RequestHands, KeyFacts DEF TypeOK
  <2>2. keys[k] = "none" /\ ~InFlight(k)
    BY <1>1, <2>1 DEF FreshKeys, Unclaimed
  <2>3. k \notin stored' /\ ~InFlight(k)'
    <3>1. CASE RequestWrites(r)
      <4>1. maker[k] = Nobody
        BY <1>1, <1>3, <3>1, KeyFacts DEF RequestWrites, Unused, TypeOK
      <4> QED
        BY <1>1, <1>3, <2>2, <3>1, <4>1, KeyFacts
           DEF RequestWrites, Unused, FreshKeys, InFlight, TypeOK
    <3>2. CASE UNCHANGED <<maker, stored, flight>>
      BY <1>1, <1>3, <2>2, <3>2 DEF FreshKeys, InFlight
    <3>3. CASE Inert(Abandoned(r)) /\ UNCHANGED flight
      BY <1>1, <1>3, <2>1, <2>2, <3>3, InertIs DEF FreshKeys, InFlight
    <3> QED
      BY <1>3, <3>1, <3>2, <3>3 DEF RequestGoesOn
  <2>4. keys'[k] = "none"
    BY <1>3, <2>2, <2>3 DEF RequestGoesOn, RequestNames
  <2> QED
    BY <2>3, <2>4
<1>4. ASSUME Lands, NEW k \in Key, maker'[k] = Nobody
      PROVE  keys'[k] = "none" /\ ~InFlight(k)' /\ k \notin stored'
  BY <1>1, <1>4 DEF Lands, FreshKeys, Unclaimed, InFlight
<1> QED
  BY <1>2, <1>3, <1>4, Steps DEF FreshKeys, Unclaimed

\* The record of another boot is unchanged, and so is what becomes of its keys.
LEMMA Bystander ==
  ASSUME RowInv, NEW b \in Owner,
         BootReads(b) \/ BootMakes(b) \/ BootDrops(b) \/ BootForgets(b),
         NEW o \in Owner \ {b}
  PROVE  /\ boot'[o] = boot[o]
         /\ \A k \in Key : maker[k] = o => maker'[k] = o /\ (k \in stored' <=> k \in stored)
         /\ \A k \in Key : maker'[k] = o => maker[k] = o
<1>1. boot'[o] = boot[o]
  BY DEF BootReads, BootMakes, BootDrops, BootForgets, BootChanged
<1>2. TypeOK
  BY DEF RowInv
<1> QED
  BY <1>1, <1>2, BootHands, KeyFacts DEF TypeOK

LEMMA CandidatesHold ==
  ASSUME RowInv, [Next]_vars
  PROVE  CandidateOwned'
<1>1. TypeOK /\ CandidateOwned
  BY DEF RowInv
<1>2. ASSUME NEW o \in Owner, boot'[o] = boot[o],
             \A k \in Key : maker[k] = o => maker'[k] = o
      PROVE  /\ boot'[o].kid # NoKey => maker'[boot'[o].kid] = o
             /\ boot'[o].written \/ boot'[o].barred => boot'[o].kid # NoKey
  BY <1>1, <1>2 DEF CandidateOwned, TypeOK, BootRecord
<1>3. ASSUME NEW b \in Owner, BootReads(b) \/ BootMakes(b) \/ BootDrops(b) \/ BootForgets(b)
      PROVE  CandidateOwned'
  <2>1. /\ boot'[b].kid # NoKey => maker'[boot'[b].kid] = b
        /\ boot'[b].written \/ boot'[b].barred => boot'[b].kid # NoKey
    <3>1. /\ boot[b].kid # NoKey => maker[boot[b].kid] = b
          /\ boot[b].written \/ boot[b].barred => boot[b].kid # NoKey
      BY <1>1 DEF CandidateOwned
    <3>2. CASE BootReads(b)
      BY <3>1, <3>2 DEF BootReads, LetsGo, Holds
    <3>3. CASE BootMakes(b)
      BY <1>1, <3>1, <3>3, KeyFacts DEF BootMakes, TypeOK
    <3>4. CASE BootDrops(b)
      BY <3>1, <3>4 DEF BootDrops
    <3>5. CASE BootForgets(b)
      BY <3>5 DEF BootForgets
    <3> QED
      BY <1>3, <3>2, <3>3, <3>4, <3>5
  <2>2. ASSUME NEW o \in Owner \ {b}
        PROVE  /\ boot'[o].kid # NoKey => maker'[boot'[o].kid] = o
               /\ boot'[o].written \/ boot'[o].barred => boot'[o].kid # NoKey
    BY <1>2, <1>3, Bystander
  <2> QED
    BY <2>1, <2>2 DEF CandidateOwned
<1>4. ASSUME NEW r \in Rotation, RequestGoesOn(r)
      PROVE  CandidateOwned'
  <2>1. UNCHANGED boot /\ \A k \in Key : maker[k] \in Owner => maker'[k] = maker[k]
    BY <1>4, RequestHands DEF RequestGoesOn
  <2> QED
    BY <1>2, <2>1 DEF CandidateOwned
<1>5. CASE Lands
  BY <1>2, <1>5 DEF Lands, CandidateOwned
<1> QED
  BY <1>3, <1>4, <1>5, Steps

LEMMA ConfirmsHold ==
  ASSUME RowInv, [Next]_vars
  PROVE  ConfirmOwned'
<1>1. TypeOK /\ ConfirmOwned
  BY DEF RowInv
<1>2. \A r \in Rotation : rotation[r].step = "confirm" => rotation[r].target \in Key
  BY <1>1 DEF TypeOK
<1>3. ASSUME NEW b \in Owner, BootReads(b) \/ BootMakes(b) \/ BootDrops(b) \/ BootForgets(b)
      PROVE  ConfirmOwned'
  <2>1. UNCHANGED rotation
    BY <1>3 DEF BootReads, BootMakes, BootDrops, BootForgets
  <2>2. \A k \in Key : maker[k] = Somebody => maker'[k] = Somebody
    BY <1>3, BootHands, KeyFacts
  <2> QED
    BY <1>1, <1>2, <2>1, <2>2 DEF ConfirmOwned
<1>4. ASSUME NEW r \in Rotation, RequestGoesOn(r)
      PROVE  ConfirmOwned'
  <2>1. \A o \in Rotation \ {r} : rotation'[o] = rotation[o]
    BY <1>4 DEF RequestGoesOn, RequestChanged
  <2>2. ASSUME NEW o \in Rotation \ {r}, rotation[o].step = "confirm"
        PROVE  maker'[rotation[o].target] = Somebody
    BY <1>1, <1>2, <1>4, <2>2, RequestHands DEF ConfirmOwned
  <2>3. CASE rotation'[r].step = "confirm"
    <3>1. RequestWrites(r)
      BY <1>4, <2>3 DEF RequestGoesOn
    <3>2. /\ maker[rotation'[r].target] = Nobody /\ rotation'[r].target \in Key
          /\ maker'[rotation'[r].target] = Somebody
      BY <1>1, <2>3, <3>1 DEF RequestWrites, Unused, TypeOK
    <3>3. \A o \in Rotation \ {r} :
            rotation[o].step = "confirm" => rotation[o].target # rotation'[r].target
      BY <1>1, <3>2, KeyFacts DEF ConfirmOwned
    <3> QED
      BY <1>1, <2>1, <2>2, <2>3, <3>2, <3>3 DEF ConfirmOwned
  <2>4. CASE rotation'[r].step # "confirm"
    BY <1>1, <2>1, <2>2, <2>4 DEF ConfirmOwned
  <2> QED
    BY <2>3, <2>4
<1>5. CASE Lands
  BY <1>1, <1>5 DEF Lands, ConfirmOwned
<1> QED
  BY <1>3, <1>4, <1>5, Steps

\* No orphan appears that its boot does not hold.
LEMMA OrphansHold ==
  ASSUME RowInv, [Next]_vars
  PROVE  OrphansAreKnown'
<1>1. TypeOK /\ OrphansAreKnown /\ CandidateOwned /\ FreshKeys
      /\ TypeOK' /\ \A k \in Key : keys'[k] = "none" => keys[k] = "none"
  BY Steps, RowsKeep, TypesHold DEF RowInv
<1>2. ASSUME NEW o \in Owner, boot'[o] = boot[o],
             \A k \in Key : maker'[k] = o => maker[k] = o /\ (k \in stored' <=> k \in stored),
             NEW k \in Key, k \in stored', maker'[k] = o, keys'[k] = "none"
      PROVE  boot'[o].kid = k /\ boot'[o].written
  BY <1>1, <1>2 DEF OrphansAreKnown
<1>3. ASSUME NEW b \in Owner, BootReads(b) \/ BootMakes(b) \/ BootDrops(b) \/ BootForgets(b),
             NEW o \in Owner, NEW k \in Key, k \in stored', maker'[k] = o, keys'[k] = "none"
      PROVE  boot'[o].kid = k /\ boot'[o].written
  <2>1. CASE o # b
    <3>1. /\ boot'[o] = boot[o]
          /\ \A j \in Key : maker'[j] = o => maker[j] = o /\ (j \in stored' <=> j \in stored)
      BY <1>3, <2>1, Bystander
    <3> QED
      BY <1>2, <1>3, <3>1
  <2>2. CASE o = b
    <3>1. keys[k] = "none"
      BY <1>1, <1>3
    <3>2. k \in stored /\ maker[k] = b => boot[b].kid = k /\ boot[b].written
      BY <1>1, <3>1 DEF OrphansAreKnown
    <3>3. CASE BootReads(b)
      <4>1. boot[b].kid = k /\ boot[b].written
        BY <1>3, <2>2, <3>2, <3>3 DEF BootReads
      <4> QED
        BY <1>3, <2>2, <3>3, <4>1 DEF BootReads, LetsGo, Holds
    <3>4. CASE BootMakes(b)
      <4>1. PICK j \in Key :
              /\ j = boot[b].kid \/ (boot[b].kid = NoKey /\ maker[j] = Nobody)
              /\ boot'[b].kid = j
              /\ maker' = [maker EXCEPT ![j] = b]
              /\ \/ stored' = stored \cup {j} /\ boot'[b].written
                 \/ stored' = stored /\ boot'[b].written = boot[b].written
        BY <3>4 DEF BootMakes
      <4>2. CASE k = j
        <5>1. CASE boot'[b].written
          BY <2>2, <4>1, <4>2, <5>1
        <5>2. CASE ~boot'[b].written
          <6>1. k \in stored /\ ~boot[b].written
            BY <1>3, <4>1, <5>2
          <6>2. maker[k] = b \/ maker[k] = Nobody
            BY <1>1, <4>1, <4>2, KeyFacts DEF CandidateOwned
          <6> QED
            BY <1>1, <3>2, <6>1, <6>2 DEF FreshKeys
        <5> QED
          BY <5>1, <5>2
      <4>3. CASE k # j
        <5>1. maker[k] = b /\ k \in stored
          BY <1>1, <1>3, <2>2, <4>1, <4>3 DEF TypeOK
        <5>2. boot[b].kid = k
          BY <3>2, <5>1
        <5> QED
          BY <4>1, <4>3, <5>2, KeyFacts
      <4> QED
        BY <4>2, <4>3
    <3>5. CASE BootDrops(b)
      <4>1. CASE /\ Inert({boot[b].kid})
        <5>1. k \in stored /\ k # boot[b].kid /\ maker[k] = b
          BY <1>1, <1>3, <2>2, <4>1, InertIs, KeyFacts
        <5> QED
          BY <3>2, <5>1
      <4>2. CASE /\ stored' \in {stored, stored \ {boot[b].kid}} /\ UNCHANGED maker
                 /\ boot'[b].kid = boot[b].kid /\ boot'[b].written = boot[b].written
        BY <1>3, <2>2, <3>2, <4>2
      <4> QED
        BY <3>5, <4>1, <4>2 DEF BootDrops
    <3>6. CASE BootForgets(b)
      BY <1>3, <2>2, <3>6, KeyFacts DEF BootForgets
    <3> QED
      BY <1>3, <3>3, <3>4, <3>5, <3>6
  <2> QED
    BY <2>1, <2>2
<1>4. ASSUME NEW r \in Rotation, RequestGoesOn(r),
             NEW o \in Owner, NEW k \in Key, k \in stored', maker'[k] = o, keys'[k] = "none"
      PROVE  boot'[o].kid = k /\ boot'[o].written
  <2>1. boot' = boot
    BY <1>4 DEF RequestGoesOn
  <2>2. maker[k] = o /\ k \in stored
    <3>1. maker[k] \in Owner \cup {Nobody, Somebody}
      BY <1>1 DEF TypeOK
    <3>2. maker[k] \notin {Nobody, Somebody}
      BY <1>4, RequestHands, KeyFacts
    <3> QED
      BY <1>4, <3>1, <3>2, RequestHands
  <2> QED
    BY <1>1, <1>4, <2>1, <2>2 DEF OrphansAreKnown
<1>5. ASSUME Lands,
             NEW o \in Owner, NEW k \in Key, k \in stored', maker'[k] = o, keys'[k] = "none"
      PROVE  boot'[o].kid = k /\ boot'[o].written
  BY <1>1, <1>5 DEF Lands, OrphansAreKnown
<1>6. stored' \subseteq Key
  BY <1>1 DEF TypeOK
<1> QED
  BY <1>3, <1>4, <1>5, <1>6, Steps DEF OrphansAreKnown

LEMMA Start ==
  ASSUME Init
  PROVE  RowInv /\ MaterialInv
<1> USE DEF Init
<1>1. NoBoot \in BootRecord /\ NoRotation \in RotationRecord
  BY DEF NoBoot, NoRotation, BootRecord, RotationRecord, BootStep, RotationStep
<1>2. TypeOK
  BY <1>1, KeysAssumption DEF TypeOK, RowState, NoBoot, NoRotation
<1>3. OneActive /\ SuccessorReady /\ OrphansAreKnown /\ FreshKeys /\ CandidateOwned
      /\ ConfirmOwned /\ PinWasActive /\ TargetWaits
  BY DEF OneActive, SuccessorReady, OrphansAreKnown, FreshKeys, CandidateOwned, ConfirmOwned,
         PinWasActive, PinOf, TargetWaits, Waits, In, Unclaimed, InFlight, NoBoot, NoRotation
<1>4. MaterialInv
  BY DEF MaterialInv, MaterialKept, FlightHeld, CandidateUnnamed, CandidateStored, NoBoot
<1> QED
  BY <1>2, <1>3, <1>4 DEF RowInv

\* What holds of every reachable row, boot and request; the results below are parts of it.
THEOREM Invariance == Spec => []RowInv
<1>1. Init => RowInv
  BY Start
<1>2. RowInv /\ [Next]_vars => RowInv'
  <2> SUFFICES ASSUME RowInv, [Next]_vars PROVE RowInv'
    OBVIOUS
  <2> QED
    BY TypesHold, RowsHold, PinsHold, FreshHolds, CandidatesHold, ConfirmsHold, OrphansHold
       DEF RowInv
<1> QED
  BY <1>1, <1>2, PTL DEF Spec

--------------------------------------------------------------------------------
(* What is known of the material, when the inserts of boots land in time. *)

LEMMA FlightHolds ==
  ASSUME RowInv, MaterialInv, BootsLandInTime, [Next]_vars
  PROVE  FlightHeld'
<1>1. TypeOK /\ FlightHeld /\ \A f \in flight : f[1] \in Key
  BY DEF RowInv, MaterialInv, TypeOK
<1>2. ASSUME NEW b \in Owner, BootReads(b) \/ BootMakes(b) \/ BootDrops(b) \/ BootForgets(b)
      PROVE  FlightHeld'
  <2>1. flight' = flight
    BY <1>2 DEF BootReads, BootMakes, BootDrops, BootForgets, Inserts, BootsLandInTime
  <2>2. \A k \in Key : maker[k] = Somebody => maker'[k] = Somebody /\ (k \in stored' <=> k \in stored)
    BY <1>2, BootHands, KeyFacts
  <2> QED
    BY <1>1, <2>1, <2>2 DEF FlightHeld
<1>3. ASSUME NEW r \in Rotation, RequestGoesOn(r)
      PROVE  FlightHeld'
  <2>1. ASSUME NEW f \in flight
        PROVE  maker'[f[1]] = Somebody /\ f[1] \in stored'
    <3>1. f[1] \in Key /\ maker[f[1]] = Somebody /\ f[1] \in stored /\ ~Unclaimed(f[1])
      BY <1>1 DEF FlightHeld, Unclaimed, InFlight
    <3> QED
      BY <1>3, <3>1, RequestHands
  <2>2. CASE RequestWrites(r)
    <3>1. PICK k \in Unused :
            /\ maker' = [maker EXCEPT ![k] = Somebody] /\ stored' = stored \cup {k}
            /\ flight' \in {flight, flight \cup {<<k, "pending">>}}
      BY <2>2 DEF RequestWrites
    <3>2. maker'[k] = Somebody /\ k \in stored'
      BY <1>1, <3>1 DEF Unused, TypeOK
    <3>3. ASSUME NEW f \in flight'
          PROVE  maker'[f[1]] = Somebody /\ f[1] \in stored'
      BY <2>1, <3>1, <3>2, <3>3
    <3> QED
      BY <3>3 DEF FlightHeld
  <2>3. CASE UNCHANGED flight
    BY <2>1, <2>3 DEF FlightHeld
  <2> QED
    BY <1>3, <2>2, <2>3 DEF RequestGoesOn
<1>4. CASE Lands
  BY <1>1, <1>4 DEF Lands, FlightHeld
<1> QED
  BY <1>2, <1>3, <1>4, Steps

LEMMA StoredHolds ==
  ASSUME RowInv, MaterialInv, [Next]_vars
  PROVE  CandidateStored'
<1>1. TypeOK /\ CandidateOwned /\ CandidateStored
  BY DEF RowInv, MaterialInv
<1>2. ASSUME NEW o \in Owner, boot'[o] = boot[o],
             \A k \in Key : maker[k] = o => (k \in stored' <=> k \in stored)
      PROVE  /\ boot'[o].written /\ ~boot'[o].barred => boot'[o].kid \in stored'
             /\ boot'[o].step = "insert" => boot'[o].written /\ ~boot'[o].barred
             /\ boot'[o].step = "make" => ~boot'[o].barred
             /\ boot'[o].step \in {"drop", "cleanup"} => boot'[o].barred
  BY <1>1, <1>2 DEF CandidateStored, CandidateOwned, TypeOK, BootRecord
<1>3. ASSUME NEW b \in Owner, BootReads(b) \/ BootMakes(b) \/ BootDrops(b) \/ BootForgets(b)
      PROVE  CandidateStored'
  <2>1. /\ boot'[b].written /\ ~boot'[b].barred => boot'[b].kid \in stored'
        /\ boot'[b].step = "insert" => boot'[b].written /\ ~boot'[b].barred
        /\ boot'[b].step = "make" => ~boot'[b].barred
        /\ boot'[b].step \in {"drop", "cleanup"} => boot'[b].barred
    <3>1. /\ boot[b].written /\ ~boot[b].barred => boot[b].kid \in stored
          /\ boot[b].step = "make" => ~boot[b].barred
          /\ boot[b].step \in {"drop", "cleanup"} => boot[b].barred
          /\ boot[b].written => boot[b].kid # NoKey
      BY <1>1 DEF CandidateStored, CandidateOwned
    <3>2. CASE BootReads(b)
      BY <3>1, <3>2 DEF BootReads, LetsGo, Holds
    <3>3. CASE BootMakes(b)
      BY <3>1, <3>3 DEF BootMakes
    <3>4. CASE BootDrops(b)
      BY <3>1, <3>4 DEF BootDrops
    <3>5. CASE BootForgets(b)
      BY <3>5 DEF BootForgets
    <3> QED
      BY <1>3, <3>2, <3>3, <3>4, <3>5
  <2>2. ASSUME NEW o \in Owner \ {b}
        PROVE  /\ boot'[o].written /\ ~boot'[o].barred => boot'[o].kid \in stored'
               /\ boot'[o].step = "insert" => boot'[o].written /\ ~boot'[o].barred
               /\ boot'[o].step = "make" => ~boot'[o].barred
               /\ boot'[o].step \in {"drop", "cleanup"} => boot'[o].barred
    BY <1>2, <1>3, Bystander
  <2> QED
    BY <2>1, <2>2 DEF CandidateStored
<1>4. ASSUME NEW r \in Rotation, RequestGoesOn(r)
      PROVE  CandidateStored'
  <2>1. UNCHANGED boot /\ \A k \in Key : maker[k] \in Owner => (k \in stored' <=> k \in stored)
    BY <1>4, RequestHands DEF RequestGoesOn
  <2> QED
    BY <1>2, <2>1 DEF CandidateStored
<1>5. CASE Lands
  BY <1>2, <1>5 DEF Lands, CandidateStored
<1> QED
  BY <1>3, <1>4, <1>5, Steps

LEMMA UnnamedHolds ==
  ASSUME RowInv, MaterialInv, [Next]_vars
  PROVE  CandidateUnnamed'
<1> DEFINE Before == {"adopt", "make", "insert", "drop", "cleanup"}
<1>1. /\ TypeOK /\ CandidateOwned /\ CandidateUnnamed /\ FreshKeys /\ FlightHeld
      /\ \A o \in Owner : boot[o].kid \in Key \cup {NoKey}
  BY DEF RowInv, MaterialInv, TypeOK, BootRecord
<1>2. ASSUME NEW b \in Owner, BootReads(b) \/ BootMakes(b) \/ BootDrops(b) \/ BootForgets(b),
             NEW o \in Owner, boot'[o].kid # NoKey, boot'[o].step \in Before
      PROVE  keys'[boot'[o].kid] = "none"
  <2>1. CASE o # b
    <3>1. boot'[o] = boot[o]
      BY <1>2, <2>1, Bystander
    <3>2. boot[o].kid \in Key /\ maker[boot[o].kid] = o /\ keys[boot[o].kid] = "none"
      BY <1>1, <1>2, <3>1 DEF CandidateOwned, CandidateUnnamed
    <3>3. boot[o].kid # boot[b].kid
      BY <1>1, <2>1, <3>2, KeyFacts DEF CandidateOwned
    <3> QED
      BY <1>2, <3>1, <3>2, <3>3
         DEF BootReads, BootMakes, BootDrops, BootForgets, Inserts
  <2>2. CASE o = b
    <3>1. CASE BootReads(b)
      BY <1>1, <1>2, <2>2, <3>1 DEF BootReads, LetsGo, Holds
    <3>2. CASE BootMakes(b)
      <4>1. \/ boot'[b].kid = boot[b].kid
            \/ boot'[b].kid \in Key /\ maker[boot'[b].kid] = Nobody
        BY <3>2 DEF BootMakes
      <4>2. keys[boot'[b].kid] = "none"
        BY <1>1, <1>2, <2>2, <3>2, <4>1
           DEF BootMakes, CandidateUnnamed, FreshKeys, Unclaimed
      <4> QED
        BY <2>2, <3>2, <4>2 DEF BootMakes
    <3>3. CASE BootDrops(b) \/ BootForgets(b)
      BY <1>2, <2>2, <3>3 DEF BootDrops, BootForgets
    <3> QED
      BY <1>2, <3>1, <3>2, <3>3
  <2> QED
    BY <2>1, <2>2
<1>3. ASSUME NEW r \in Rotation, RequestGoesOn(r),
             NEW o \in Owner, boot'[o].kid # NoKey, boot'[o].step \in Before
      PROVE  keys'[boot'[o].kid] = "none"
  <2>1. boot' = boot /\ RequestNames
    BY <1>3 DEF RequestGoesOn
  <2>2. boot[o].kid \in Key /\ maker[boot[o].kid] = o /\ keys[boot[o].kid] = "none"
    BY <1>1, <1>3, <2>1 DEF CandidateOwned, CandidateUnnamed
  <2> QED
    BY <2>1, <2>2, KeyFacts DEF RequestNames
<1>4. ASSUME Lands, NEW o \in Owner, boot'[o].kid # NoKey, boot'[o].step \in Before
      PROVE  keys'[boot'[o].kid] = "none"
  <2>1. boot' = boot
    BY <1>4 DEF Lands
  <2>2. boot[o].kid \in Key /\ maker[boot[o].kid] = o /\ keys[boot[o].kid] = "none"
    BY <1>1, <1>4, <2>1 DEF CandidateOwned, CandidateUnnamed
  <2>3. ~InFlight(boot[o].kid)
    BY <1>1, <2>2, KeyFacts DEF FlightHeld, InFlight
  <2> QED
    BY <1>4, <2>1, <2>2, <2>3 DEF Lands
<1> QED
  BY <1>2, <1>3, <1>4, Steps DEF CandidateUnnamed

LEMMA KeptHolds ==
  ASSUME RowInv, MaterialInv, [Next]_vars
  PROVE  MaterialKept'
<1>1. /\ TypeOK /\ CandidateOwned /\ MaterialKept /\ FlightHeld /\ CandidateStored
      /\ CandidateUnnamed /\ RowStep
  BY Steps DEF RowInv, MaterialInv
<1>2. ASSUME NEW k \in Key, keys'[k] \in {"pending", "active"}, keys[k] # "none"
      PROVE  keys[k] \in {"pending", "active"} /\ k \in stored
  <2>1. keys[k] \in {"pending", "active"}
    BY <1>1, <1>2 DEF RowStep, Moved, In, TypeOK, RowState
  <2> QED
    BY <1>1, <2>1 DEF MaterialKept
<1>3. ASSUME NEW b \in Owner, BootReads(b) \/ BootMakes(b) \/ BootDrops(b) \/ BootForgets(b),
             NEW k \in Key, keys'[k] \in {"pending", "active"}
      PROVE  k \in stored'
  <2>1. CASE keys[k] = "none"
    <3>1. BootReads(b)
      BY <1>3, <2>1 DEF BootMakes, BootDrops, BootForgets
    <3>2. k = boot[b].kid /\ boot[b].step = "insert"
      BY <1>3, <2>1, <3>1 DEF BootReads, Inserts
    <3> QED
      BY <1>1, <3>1, <3>2 DEF BootReads, CandidateStored
  <2>2. CASE keys[k] # "none"
    <3>1. k \in stored
      BY <1>2, <1>3, <2>2
    <3>2. CASE BootReads(b) \/ BootMakes(b)
      BY <3>1, <3>2 DEF BootReads, BootMakes
    <3>3. CASE BootDrops(b)
      <4>1. keys[boot[b].kid] = "none"
        BY <1>1, <3>3, KeyFacts DEF BootDrops, CandidateUnnamed
      <4>2. stored' \in {stored, stored \ {boot[b].kid}}
        BY <3>3 DEF BootDrops, Inert
      <4> QED
        BY <2>2, <3>1, <4>1, <4>2
    <3>4. CASE BootForgets(b)
      BY <2>2, <3>1, <3>4 DEF BootForgets, Unclaimed
    <3> QED
      BY <1>3, <3>2, <3>3, <3>4
  <2> QED
    BY <2>1, <2>2
<1>4. ASSUME NEW r \in Rotation, RequestGoesOn(r),
             NEW k \in Key, keys'[k] \in {"pending", "active"}
      PROVE  k \in stored'
  <2>1. CASE keys[k] = "none"
    BY <1>4, <2>1 DEF RequestGoesOn, RequestNames
  <2>2. CASE keys[k] # "none"
    <3>1. k \in stored /\ ~Unclaimed(k)
      BY <1>2, <1>4, <2>2 DEF Unclaimed
    <3> QED
      BY <1>4, <3>1 DEF RequestGoesOn, RequestWrites, Inert, Abandoned
  <2> QED
    BY <2>1, <2>2
<1>5. ASSUME Lands, NEW k \in Key, keys'[k] \in {"pending", "active"}
      PROVE  k \in stored'
  <2>1. CASE keys[k] = "none"
    <3>1. InFlight(k)
      BY <1>5, <2>1 DEF Lands
    <3> QED
      BY <1>1, <1>5, <3>1 DEF InFlight, FlightHeld, Lands
  <2>2. CASE keys[k] # "none"
    BY <1>2, <1>5, <2>2 DEF Lands
  <2> QED
    BY <2>1, <2>2
<1> QED
  BY <1>3, <1>4, <1>5, Steps DEF MaterialKept

LEMMA MaterialHolds == BootsLandInTime => (Spec => []MaterialInv)
<1> SUFFICES ASSUME BootsLandInTime PROVE Spec => []MaterialInv
  OBVIOUS
<1>1. Init => RowInv /\ MaterialInv
  BY Start
<1>2. RowInv /\ MaterialInv /\ [Next]_vars => MaterialInv'
  <2> SUFFICES ASSUME RowInv, MaterialInv, [Next]_vars PROVE MaterialInv'
    OBVIOUS
  <2> QED
    BY KeptHolds, FlightHolds, UnnamedHolds, StoredHolds DEF MaterialInv
<1> QED
  BY <1>1, <1>2, Invariance, PTL DEF Spec

--------------------------------------------------------------------------------
(* What is known of a published key, wherever inserts land. *)

LEMMA PendingHolds ==
  ASSUME RowInv, PendingHeld, [Next]_vars
  PROVE  PendingHeld'
<1>1. TypeOK /\ RowStep
  BY Steps DEF RowInv
<1>2. ASSUME NEW k \in Key, keys'[k] = "pending"
      PROVE  keys[k] \in {"none", "pending"}
  BY <1>1, <1>2 DEF RowStep, Moved, In, TypeOK
<1>3. ASSUME NEW b \in Owner, BootReads(b) \/ BootMakes(b) \/ BootDrops(b) \/ BootForgets(b)
      PROVE  PendingHeld'
  <2>1. ASSUME NEW k \in Key, keys'[k] = "pending" \/ <<k, "pending">> \in flight'
        PROVE  keys[k] = "pending" \/ <<k, "pending">> \in flight
    BY <1>2, <1>3, <2>1 DEF BootReads, BootMakes, BootDrops, BootForgets, Inserts
  <2>2. \A k \in Key : maker[k] = Somebody => maker'[k] = Somebody /\ (k \in stored' <=> k \in stored)
    BY <1>3, BootHands, KeyFacts
  <2> QED
    BY <2>1, <2>2 DEF PendingHeld
<1>4. ASSUME NEW r \in Rotation, RequestGoesOn(r)
      PROVE  PendingHeld'
  <2> SUFFICES ASSUME NEW k \in Key, keys'[k] = "pending" \/ <<k, "pending">> \in flight'
               PROVE  maker'[k] = Somebody /\ k \in stored'
    BY DEF PendingHeld
  <2>1. CASE keys[k] = "pending" \/ <<k, "pending">> \in flight
    <3>1. maker[k] = Somebody /\ k \in stored
      BY <2>1 DEF PendingHeld
    <3>2. ~Unclaimed(k)
      BY <2>1 DEF Unclaimed, InFlight
    <3> QED
      BY <1>4, <3>1, <3>2, RequestHands
  <2>2. CASE keys[k] # "pending" /\ <<k, "pending">> \notin flight
    <3>1. CASE keys'[k] = "pending"
      <4>1. keys[k] = "none" /\ maker[k] = Nobody /\ k \in stored'
        BY <1>2, <1>4, <2>2, <3>1 DEF RequestGoesOn, RequestNames
      <4>2. maker'[k] # Nobody
        BY <3>1, FreshHolds DEF FreshKeys, Unclaimed
      <4> QED
        BY <1>4, <4>1, <4>2, RequestHands
    <3>2. CASE <<k, "pending">> \in flight'
      <4>1. RequestWrites(r)
        BY <1>4, <2>2, <3>2 DEF RequestGoesOn
      <4>2. PICK j \in Unused :
              /\ maker' = [maker EXCEPT ![j] = Somebody] /\ stored' = stored \cup {j}
              /\ flight' \in {flight, flight \cup {<<j, "pending">>}}
        BY <4>1 DEF RequestWrites
      <4>3. j = k
        BY <2>2, <3>2, <4>2
      <4> QED
        BY <1>1, <4>2, <4>3 DEF TypeOK, Unused
    <3> QED
      BY <3>1, <3>2
  <2> QED
    BY <2>1, <2>2
<1>5. CASE Lands
  <2>1. ASSUME NEW k \in Key, keys'[k] = "pending" \/ <<k, "pending">> \in flight'
        PROVE  keys[k] = "pending" \/ <<k, "pending">> \in flight
    BY <1>2, <1>5, <2>1 DEF Lands
  <2> QED
    BY <1>5, <2>1 DEF Lands, PendingHeld
<1> QED
  BY <1>3, <1>4, <1>5, Steps

LEMMA HeldStays ==
  ASSUME RowInv, NEW k \in Key, Held(k), [Next]_vars
  PROVE  Held(k)'
<1>1. TypeOK /\ RowStep /\ keys[k] # "none" /\ maker[k] = Somebody /\ k \in stored
  BY Steps DEF RowInv, Held
<1>2. keys'[k] # "none"
  BY <1>1, RowsKeep
<1>3. ~Unclaimed(k)
  BY <1>1 DEF Unclaimed
<1>4. maker'[k] = Somebody /\ k \in stored'
  <2>1. ASSUME NEW b \in Owner, BootReads(b) \/ BootMakes(b) \/ BootDrops(b) \/ BootForgets(b)
        PROVE  maker'[k] = Somebody /\ k \in stored'
    BY <1>1, <2>1, BootHands, KeyFacts
  <2>2. ASSUME NEW r \in Rotation, RequestGoesOn(r)
        PROVE  maker'[k] = Somebody /\ k \in stored'
    BY <1>1, <1>3, <2>2, RequestHands
  <2>3. CASE Lands
    BY <1>1, <2>3 DEF Lands
  <2> QED
    BY <2>1, <2>2, <2>3, Steps
<1> QED
  BY <1>2, <1>4 DEF Held

--------------------------------------------------------------------------------
(* Results. *)

\* Every reachable row, boot and request has its type, for any instances, requests and
\* number of keys: a boot that adopts, inserts or destroys holds the key it does that to.
THEOREM TypeCorrect == Spec => []TypeOK
  BY Invariance, PTL DEF RowInv

\* However rotations and boots interleave and wherever they are cut off, the issuer is
\* never left without both a key that signs and a published one to go on with.
THEOREM SuccessorWaits == Spec => []SuccessorReady
  BY Invariance, PTL DEF RowInv

\* No private key is left behind by a boot that lives.
THEOREM NoOrphans == Spec => []OrphansAreKnown
  BY Invariance, PTL DEF RowInv

\* No boot and no rotation destroys the material of a key that signs or will, as long
\* as an insert of a boot does not land after the boot has given it up: what the
\* comment in dropOrphanedMaterial assumes.
THEOREM MaterialSurvives == BootsLandInTime => (Spec => []MaterialKept)
<1> SUFFICES ASSUME BootsLandInTime PROVE Spec => []MaterialKept
  OBVIOUS
<1>1. MaterialInv => MaterialKept
  BY DEF MaterialInv
<1> QED
  BY <1>1, MaterialHolds, PTL

\* The material of a published key outlives whatever happens to its row, with no
\* condition on where inserts land: the way in which a boot's own key may be lost is not
\* open to a key that an operator has published.
THEOREM PublishedIsKept == Spec => PublishedMaterialStays
<1>1. RowInv /\ Init => PendingHeld
  BY DEF Init, PendingHeld
<1>2. RowInv /\ PendingHeld /\ [Next]_vars => PendingHeld'
  BY PendingHolds
<1>3. Spec => []PendingHeld
  BY <1>1, <1>2, Invariance, PTL DEF Spec
<1>4. ASSUME NEW k \in Key
      PROVE  Spec => [](keys[k] = "pending" => [](k \in stored))
  <2>1. PendingHeld => (keys[k] = "pending" => Held(k))
    BY DEF PendingHeld, Held
  <2>2. RowInv /\ Held(k) /\ [Next]_vars => Held(k)'
    BY HeldStays
  <2>3. Held(k) => k \in stored
    BY DEF Held
  <2> QED
    BY <1>3, <2>1, <2>2, <2>3, Invariance, PTL DEF Spec
<1> QED
  BY <1>4 DEF PublishedMaterialStays

--------------------------------------------------------------------------------
(* The rows and the material implement the ring of KeyRing. *)

\* With the material left alone, every step of the rows is one of the ring.
LEMMA RowsAreRing ==
  ASSUME TypeOK, OneActive, RowStep, MaterialKept', SuccessorReady', UNCHANGED stored
  PROVE  Ring!Next \/ UNCHANGED Ring!vars
<1>1. CASE keys' = keys
  BY <1>1 DEF Ring!vars
<1>2. ASSUME NEW k \in Key, keys[k] = "none", Moved(k, "pending")
      PROVE  Ring!Next
  <2>1. keys'[k] = "pending"
    BY <1>2 DEF Moved, TypeOK
  <2>2. stored' = stored \cup {k}
    BY <2>1 DEF MaterialKept
  <2>3. Ring!Publish(k)
    BY <1>2, <2>2 DEF Ring!Publish, Ring!Enter, Moved
  <2> QED
    BY <2>3 DEF Ring!Next
<1>3. ASSUME NEW k \in Key, keys[k] \in {"none", "pending"}, In("active") = {},
             Moved(k, "active")
      PROVE  Ring!Next
  <2>1. keys'[k] = "active"
    BY <1>3 DEF Moved, TypeOK
  <2>2. k \in stored
    BY <2>1 DEF MaterialKept
  <2>3. Ring!Activate(k)
    BY <1>3, <2>2 DEF Ring!Activate, Ring!Enter, Ring!KeysIn, In, Moved
  <2> QED
    BY <2>3 DEF Ring!Next
<1>4. ASSUME NEW k \in Key, keys[k] = "active", Moved(k, "retired")
      PROVE  Ring!Next
  <2>1. /\ keys'[k] = "retired"
        /\ \A j \in Key \ {k} : keys'[j] = keys[j]
    BY <1>4 DEF Moved, TypeOK
  <2>2. \A j \in Key : keys'[j] # "active"
    BY <1>4, <2>1 DEF OneActive, In
  <2>3. PICK j \in Key : keys'[j] = "pending"
    BY <2>1, <2>2 DEF SuccessorReady, In
  <2>4. keys[j] = "pending"
    BY <2>1, <2>3
  <2>5. Ring!Retire(k)
    BY <1>4, <2>4 DEF Ring!Retire, Ring!Enter, Ring!KeysIn, Moved
  <2> QED
    BY <2>5 DEF Ring!Next
<1> QED
  BY <1>1, <1>2, <1>3, <1>4 DEF RowStep, In

LEMMA RingSteps ==
  ASSUME RowInv, MaterialInv, [Next]_vars
  PROVE  Ring!Next \/ UNCHANGED Ring!vars
<1>1. /\ TypeOK /\ OneActive /\ RowStep /\ MaterialKept' /\ SuccessorReady'
      /\ FreshKeys /\ CandidateUnnamed
  BY Steps, RowsHold, KeptHolds DEF RowInv, MaterialInv
<1>2. ASSUME UNCHANGED stored
      PROVE  Ring!Next \/ UNCHANGED Ring!vars
  BY <1>1, <1>2, RowsAreRing
<1>3. ASSUME NEW K \in SUBSET Key, K \subseteq In("none"), stored' = stored \ K, UNCHANGED keys
      PROVE  Ring!Next
  <2>1. Ring!Destroy(K)
    BY <1>3 DEF Ring!Destroy, Ring!KeysIn, In
  <2> QED
    BY <2>1 DEF Ring!Next
<1>4. ASSUME NEW k \in Key, keys[k] = "none", stored' = stored \cup {k}, UNCHANGED keys
      PROVE  Ring!Next
  <2>1. Ring!Store(k)
    BY <1>4 DEF Ring!Store
  <2> QED
    BY <2>1 DEF Ring!Next
<1>5. ASSUME NEW b \in Owner, BootReads(b)
      PROVE  Ring!Next \/ UNCHANGED Ring!vars
  BY <1>2, <1>5 DEF BootReads
<1>6. ASSUME NEW b \in Owner, BootMakes(b)
      PROVE  Ring!Next \/ UNCHANGED Ring!vars
  <2>1. PICK k \in Key : /\ k = boot[b].kid \/ (boot[b].kid = NoKey /\ maker[k] = Nobody)
                         /\ stored' \in {stored, stored \cup {k}}
    BY <1>6 DEF BootMakes
  <2>2. keys[k] = "none" /\ UNCHANGED keys
    BY <1>1, <1>6, <2>1, KeyFacts DEF BootMakes, CandidateUnnamed, FreshKeys, Unclaimed
  <2> QED
    BY <1>2, <1>4, <2>1, <2>2
<1>7. ASSUME NEW b \in Owner, BootDrops(b)
      PROVE  Ring!Next \/ UNCHANGED Ring!vars
  <2>1. boot[b].kid \in Key /\ keys[boot[b].kid] = "none" /\ UNCHANGED keys
    BY <1>1, <1>7, KeyFacts DEF BootDrops, CandidateUnnamed
  <2>2. stored' \in {stored, stored \ {boot[b].kid}}
    BY <1>7 DEF BootDrops, Inert
  <2>3. {boot[b].kid} \in SUBSET Key /\ {boot[b].kid} \subseteq In("none")
    BY <2>1 DEF In
  <2> QED
    BY <1>2, <1>3, <2>1, <2>2, <2>3
<1>8. ASSUME NEW b \in Owner, BootForgets(b)
      PROVE  Ring!Next \/ UNCHANGED Ring!vars
  <2> DEFINE K == {k \in Key : maker[k] = b /\ Unclaimed(k)}
  <2>1. K \in SUBSET Key /\ K \subseteq In("none") /\ stored' = stored \ K /\ UNCHANGED keys
    BY <1>8 DEF BootForgets, Unclaimed, In
  <2> HIDE DEF K
  <2> QED
    BY <1>3, <2>1
<1>9. ASSUME NEW r \in Rotation, RequestGoesOn(r)
      PROVE  Ring!Next \/ UNCHANGED Ring!vars
  <2>1. CASE RequestWrites(r)
    <3>1. PICK k \in Unused : /\ stored' = stored \cup {k}
                              /\ NoRowChange \/ Set(k, "pending")
      BY <2>1 DEF RequestWrites
    <3>2. k \in Key /\ keys[k] = "none"
      BY <1>1 DEF Unused, FreshKeys, Unclaimed
    <3>3. CASE NoRowChange
      BY <1>4, <3>1, <3>2, <3>3 DEF NoRowChange
    <3>4. CASE Set(k, "pending")
      <4>1. Ring!Publish(k)
        BY <3>1, <3>2, <3>4 DEF Ring!Publish, Ring!Enter, Set
      <4> QED
        BY <3>2, <4>1 DEF Ring!Next
    <3> QED
      BY <3>1, <3>3, <3>4
  <2>2. CASE UNCHANGED stored
    BY <1>2, <2>2
  <2>3. CASE Inert(Abandoned(r)) /\ UNCHANGED keys
    <3> DEFINE K == Abandoned(r) \cap Key
    <3>1. stored' = stored \ Abandoned(r) /\ stored \subseteq Key
      BY <1>1, <2>3 DEF Inert, TypeOK
    <3>2. K \in SUBSET Key /\ K \subseteq In("none") /\ stored' = stored \ K
      BY <3>1 DEF Abandoned, Unclaimed, In
    <3> HIDE DEF K
    <3> QED
      BY <1>3, <2>3, <3>2
  <2> QED
    BY <1>9, <2>1, <2>2, <2>3 DEF RequestGoesOn
<1>10. CASE Lands
  BY <1>2, <1>10 DEF Lands
<1> QED
  BY <1>5, <1>6, <1>7, <1>8, <1>9, <1>10, Steps

\* As long as the inserts of boots land in time, instances and operators do to the keys
\* only what the ring allows.
THEOREM Implements == BootsLandInTime => (Spec => ImplementsRing)
<1> SUFFICES ASSUME BootsLandInTime PROVE Spec => ImplementsRing
  OBVIOUS
<1>1. Init => Ring!Init
  BY DEF Init, Ring!Init
<1>2. RowInv /\ MaterialInv /\ [Next]_vars => [Ring!Next]_(Ring!vars)
  BY RingSteps
<1> QED
  BY <1>1, <1>2, Invariance, MaterialHolds, PTL DEF Spec, ImplementsRing, Ring!Spec

LEMMA RingGoesOn ==
  ASSUME NEW k \in Key, keys \in [Key -> RowState], [Ring!Next]_(Ring!vars),
         keys[k] # "none", k \in stored
  PROVE  keys'[k] # "none" /\ k \in stored'
<1>1. ASSUME NEW j \in Key,
             Ring!Store(j) \/ Ring!Publish(j) \/ Ring!Activate(j) \/ Ring!Retire(j)
      PROVE  keys'[k] # "none" /\ k \in stored'
  BY <1>1 DEF Ring!Store, Ring!Publish, Ring!Activate, Ring!Retire, Ring!Enter
<1>2. ASSUME NEW K \in SUBSET Key, Ring!Destroy(K)
      PROVE  keys'[k] # "none" /\ k \in stored'
  BY <1>2 DEF Ring!Destroy, Ring!KeysIn
<1>3. CASE UNCHANGED Ring!vars
  BY <1>3 DEF Ring!vars
<1> QED
  BY <1>1, <1>2, <1>3 DEF Ring!Next

LEMMA RingKeepsStored ==
  ASSUME keys \in [Key -> RowState], Ring!AllStored, [Ring!Next]_(Ring!vars)
  PROVE  Ring!AllStored'
<1>1. ASSUME NEW j \in Key,
             Ring!Store(j) \/ Ring!Publish(j) \/ Ring!Activate(j) \/ Ring!Retire(j)
      PROVE  Ring!AllStored'
  BY <1>1 DEF Ring!Store, Ring!Publish, Ring!Activate, Ring!Retire, Ring!Enter, Ring!AllStored
<1>2. ASSUME NEW K \in SUBSET Key, Ring!Destroy(K)
      PROVE  Ring!AllStored'
  BY <1>2 DEF Ring!Destroy, Ring!KeysIn, Ring!AllStored
<1>3. CASE UNCHANGED Ring!vars
  BY <1>3 DEF Ring!vars, Ring!AllStored
<1> QED
  BY <1>1, <1>2, <1>3 DEF Ring!Next

\* Under the same condition the private half of a key that ever had a row is there for
\* ever, through activation, retirement and whatever boots and requests are cut off: the
\* keys that verifiers were once told of are the ones the store still has.
THEOREM MaterialStays == BootsLandInTime => (Spec => Ring!MaterialForGood)
<1> SUFFICES ASSUME BootsLandInTime PROVE Spec => Ring!MaterialForGood
  OBVIOUS
<1>1. Spec => Ring!Spec
  BY Implements DEF ImplementsRing
<1>2. Spec => [](keys \in [Key -> RowState])
  <2>1. TypeOK => keys \in [Key -> RowState]
    BY DEF TypeOK
  <2> QED
    BY <2>1, TypeCorrect, PTL
<1>3. Spec => []Ring!AllStored
  <2>1. Ring!Init => Ring!AllStored
    BY DEF Ring!Init, Ring!AllStored
  <2>2. keys \in [Key -> RowState] /\ Ring!AllStored /\ [Ring!Next]_(Ring!vars) => Ring!AllStored'
    BY RingKeepsStored
  <2> QED
    BY <1>1, <1>2, <2>1, <2>2, PTL DEF Ring!Spec
<1>4. ASSUME NEW k \in Key
      PROVE  Spec => [](keys[k] # "none" => [](k \in stored))
  <2> DEFINE Here == keys[k] # "none" /\ k \in stored
  <2>1. Ring!AllStored => (keys[k] # "none" => Here)
    BY DEF Ring!AllStored
  <2>2. keys \in [Key -> RowState] /\ Here /\ [Ring!Next]_(Ring!vars) => Here'
    BY RingGoesOn
  <2>3. Here => k \in stored
    OBVIOUS
  <2> HIDE DEF Here
  <2> QED
    BY <1>1, <1>2, <1>3, <2>1, <2>2, <2>3, PTL DEF Ring!Spec
<1> QED
  BY <1>4 DEF Ring!MaterialForGood

\* A key that was retired never signs again, wherever inserts and answers land: rotation
\* is not undone by a boot or a request that read the rows before it.
THEOREM RetiredStays == Spec => Ring!RetiredForGood
<1>1. ASSUME NEW k \in Key
      PROVE  Spec => [](keys[k] = "retired" => [](keys[k] = "retired"))
  <2>1. ASSUME RowInv, keys[k] = "retired", [Next]_vars
        PROVE  (keys[k] = "retired")'
    <3>1. TypeOK /\ RowStep
      BY <2>1, Steps DEF RowInv
    <3> QED
      BY <2>1, <3>1 DEF RowStep, Moved, In, TypeOK
  <2> QED
    BY <2>1, Invariance, PTL DEF Spec
<1> QED
  BY <1>1 DEF Ring!RetiredForGood
================================================================================
