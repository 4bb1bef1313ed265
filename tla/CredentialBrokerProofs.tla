------------------------ MODULE CredentialBrokerProofs ------------------------
EXTENDS CredentialBrokerInv, TLAPS

(* The parts of what the row may hold.                                      *)
LEMMA PointerParts ==
    \A p \in Pointer : p.gen \in Nat /\ p.secret \in Nat /\ p.secret \in Cred \cup {None}
  BY BrokerAssumption DEF Pointer, Cred, None

(* A pair is made of its parts.                                              *)
LEMMA PointerIs == \A p \in Pointer : p = [gen |-> p.gen, secret |-> p.secret]
  BY DEF Pointer

(* A write that lands, of a credential or of none, is the next generation.  *)
LEMMA Landing ==
    ASSUME TypeOK, Copies, NEW a \in Actors, NEW c \in Cred \cup {None},
           Cas(a, After(copy[a], c), FALSE)
    PROVE  /\ copy[a] = ptr
           /\ ptr' \in Pointer
           /\ ptr'.gen = ptr.gen + 1 /\ ptr'.secret = c
           /\ ptr' = [gen |-> copy[a].gen + 1, secret |-> c]
           /\ named' = named \cup {ptr'}
           /\ lease' = FALSE
  BY DEF TypeOK, Copies, Cas, After, Pointer

(* Every step keeps the types of the row, the stores and the actors.        *)
LEMMA TypeStep ==
    ASSUME TypeOK, Copies, Own, [Next]_vars
    PROVE  TypeOK'
<1> USE BrokerAssumption DEF Actors, Cred, None, row, upstream, Upstream, TypeOK, Own, CallerSteps, LoginSteps, Pointer
<1>1. ASSUME NEW a \in Callers, ReadPointer(a) PROVE TypeOK'
  BY <1>1 DEF ReadPointer, Take, Goto
<1>2. ASSUME NEW a \in Callers, ReadSecret(a) PROVE TypeOK'
  <2>1. pc[a] = "read" /\ UNCHANGED <<row, stored, upstream, grants>>
    BY <1>2 DEF ReadSecret
  <2>2. CASE Goto(a, "held") /\ UNCHANGED <<current, copy, got>>
    BY <2>1, <2>2 DEF Goto
  <2>3. CASE Finish(a) /\ current' = current \ {a}
    BY <2>1, <2>3 DEF Finish, Goto
  <2> QED BY <1>2, <2>2, <2>3 DEF ReadSecret
<1>3. ASSUME NEW a \in Callers, Serve(a) PROVE TypeOK'
  BY <1>3 DEF Serve, Finish, NoCas, Grant, Goto
<1>4. ASSUME NEW a \in Callers, Lease(a) PROVE TypeOK'
  <2>1. pc[a] = "held" /\ ~lease /\ Cas(a, ptr, TRUE) /\ UNCHANGED <<stored, upstream, grants>>
    BY <1>4 DEF Lease
  <2>2. CASE current' = {a} /\ Goto(a, "leased") /\ UNCHANGED <<copy, got>>
    BY <2>1, <2>2 DEF Cas, Goto
  <2>3. CASE current' = {} /\ Finish(a)
    BY <2>1, <2>3 DEF Cas, Finish, Goto
  <2> QED BY <1>4, <2>2, <2>3 DEF Lease
<1>5. ASSUME NEW a \in Callers, Wait(a) PROVE TypeOK'
  BY <1>5 DEF Wait, Finish, NoCas, Goto
<1>6. ASSUME NEW a \in Callers, Refresh(a) PROVE TypeOK'
  <2>1. issued' \in Cred /\ issued' = issued + 1
    BY <1>6 DEF Refresh, Issue
  <2>2. live' \subseteq Cred /\ parent' \in [Cred -> Cred \cup {None}]
    <3>1. copy[a].secret \in Cred \cup {None}
      BY DEF Pointer
    <3> QED BY <1>6, <2>1, <3>1 DEF Refresh, Issue
  <2>3. got' \in [Actors -> Cred \cup {None}]
    BY <1>6, <2>1 DEF Refresh
  <2>4. pc' \in [Actors -> CallerSteps \cup LoginSteps]
    BY <1>6 DEF Refresh, Goto
  <2> QED BY <1>6, <2>1, <2>2, <2>3, <2>4 DEF Refresh
<1>7. ASSUME NEW a \in Callers, InvalidGrant(a) PROVE TypeOK'
  BY <1>7 DEF InvalidGrant, Goto
<1>8. ASSUME NEW a \in Callers, NoRefresh(a) PROVE TypeOK'
  BY <1>8 DEF NoRefresh, Goto
<1>9. ASSUME NEW a \in Callers, ReleaseLease(a) PROVE TypeOK'
  <2>1. grants' \subseteq Pointer
    BY <1>9 DEF ReleaseLease, Grant
  <2>2. pc' \in [Actors -> CallerSteps \cup LoginSteps] /\ got' \in [Actors -> Cred \cup {None}]
    BY <1>9 DEF ReleaseLease, Finish, Goto
  <2>3. copy' \in [Actors -> Pointer]
    BY <1>9 DEF ReleaseLease, Finish
  <2>4. ptr' = ptr /\ lease' \in BOOLEAN /\ current' \subseteq Actors /\ named' \subseteq Pointer
    BY <1>9 DEF ReleaseLease, Cas, NoCas
  <2> QED BY <1>9, <2>1, <2>2, <2>3, <2>4 DEF ReleaseLease
<1>10. ASSUME NEW a \in Callers, WriteSecret(a) PROVE TypeOK'
  <2>1. got[a] \in Cred
    BY <1>10 DEF WriteSecret
  <2>2. pc' \in [Actors -> CallerSteps \cup LoginSteps]
    BY <1>10 DEF WriteSecret, Goto
  <2> QED BY <1>10, <2>1, <2>2 DEF WriteSecret
<1>11. ASSUME NEW a \in Callers, Publish(a) PROVE TypeOK'
  <2>1. CASE Cas(a, After(copy[a], got[a]), FALSE) /\ current' = {} /\ pc'[a] \in {"retire", "unsure"}
    <3>1. a \in Actors /\ got[a] \in Cred \cup {None}
      BY DEF TypeOK, Actors
    <3>2. /\ ptr' \in Pointer /\ named' = named \cup {ptr'} /\ lease' = FALSE
          /\ ptr' = [gen |-> copy[a].gen + 1, secret |-> got[a]]
      BY <2>1, <3>1, Landing
    <3>3. grants' \subseteq Pointer
      BY <1>11, <3>2 DEF Publish, Grant
    <3>4. pc' \in [Actors -> CallerSteps \cup LoginSteps]
      BY <1>11 DEF Publish, Goto
    <3> QED BY <1>11, <2>1, <3>2, <3>3, <3>4 DEF Publish
  <2>2. CASE NoCas(a) /\ Goto(a, "unsure") /\ UNCHANGED grants
    BY <1>11, <2>2 DEF Publish, NoCas, Goto
  <2> QED BY <1>11, <2>1, <2>2 DEF Publish, Goto, TypeOK, Actors
<1>12. ASSUME NEW a \in Callers, RereadPublished(a) PROVE TypeOK'
  BY <1>12 DEF RereadPublished, Goto, Grant
<1>13. ASSUME NEW a \in Callers, RereadConsumed(a) PROVE TypeOK'
  BY <1>13 DEF RereadConsumed, StillConsumed, Goto
<1>14. ASSUME NEW a \in Callers, RereadSuperseded(a) PROVE TypeOK'
  BY <1>14 DEF RereadSuperseded, StillConsumed, Destroy, Finish, NoCas, Goto
<1>15. ASSUME NEW a \in Actors, Retire(a) PROVE TypeOK'
  BY <1>15 DEF Retire, Destroy, Finish, NoCas, Goto
<1>16. ASSUME NEW a \in Callers, Clear(a) PROVE TypeOK'
  <2>1. CASE Cas(a, After(copy[a], None), FALSE) /\ current' = {}
    <3>1. a \in Actors /\ None \in Cred \cup {None}
      BY DEF TypeOK, Actors
    <3>2. /\ copy[a] = ptr /\ ptr' \in Pointer /\ ptr'.gen = ptr.gen + 1
          /\ ptr'.secret = None /\ named' = named \cup {ptr'} /\ lease' = FALSE
          /\ ptr' = [gen |-> copy[a].gen + 1, secret |-> None]
      BY <2>1, <3>1, Landing
    <3> QED BY <1>16, <2>1, <3>2 DEF Clear, Cas, Finish, Goto
  <2>2. CASE NoCas(a)
    BY <1>16, <2>2 DEF Clear, NoCas, Finish, Goto
  <2> QED BY <1>16, <2>1, <2>2 DEF Clear, Goto, TypeOK, Actors
<1>17. ASSUME NEW a \in Logins, WriteLogin(a) PROVE TypeOK'
  <2>1. CASE got' = [got EXCEPT ![a] = issued'] /\ Goto(a, "written")
             /\ stored' = stored \cup {issued'}
    BY <1>17, <2>1 DEF WriteLogin, Issue, Goto
  <2>2. CASE UNCHANGED <<stored, got, pc>>
    BY <1>17, <2>2 DEF WriteLogin, Issue, Goto
  <2> QED BY <1>17, <2>1, <2>2 DEF WriteLogin
<1>18. ASSUME NEW a \in Logins, ReadForLogin(a) PROVE TypeOK'
  BY <1>18 DEF ReadForLogin, Take, Goto
<1>19. ASSUME NEW a \in Logins, CommitLogin(a) PROVE TypeOK'
  <2>1. CASE Cas(a, After(copy[a], got[a]), FALSE) /\ current' = {} /\ pc'[a] \in {"retire", "unsure"}
    <3>1. a \in Actors /\ got[a] \in Cred \cup {None}
      BY DEF TypeOK, Actors
    <3>2. /\ copy[a] = ptr /\ ptr' \in Pointer /\ ptr'.gen = ptr.gen + 1
          /\ ptr'.secret = got[a] /\ named' = named \cup {ptr'} /\ lease' = FALSE
          /\ ptr' = [gen |-> copy[a].gen + 1, secret |-> got[a]]
      BY <2>1, <3>1, Landing
    <3> QED BY <1>19, <2>1, <3>2 DEF CommitLogin, Cas, Goto
  <2>2. CASE NoCas(a) /\ pc'[a] \in {"unsure", "written"}
    BY <1>19, <2>2 DEF CommitLogin, NoCas, Goto
  <2> QED BY <1>19, <2>1, <2>2 DEF CommitLogin, Goto, TypeOK, Actors
<1>20. ASSUME NEW a \in Logins, EndLogin(a) PROVE TypeOK'
  BY <1>20 DEF EndLogin, Finish, NoCas, Goto
<1>21. ASSUME NEW a \in Logins, ExhaustLogin(a) PROVE TypeOK'
  BY <1>21 DEF ExhaustLogin, Destroy, Finish, NoCas, Goto
<1>22. ASSUME NEW a \in Actors, Abandon(a) PROVE TypeOK'
  BY <1>22 DEF Abandon, Finish, NoCas, Goto
<1>23. ASSUME NEW c \in Cred, Revoke(c) PROVE TypeOK'
  BY <1>23 DEF Revoke
<1>24. CASE ExpireLease
  BY <1>24 DEF ExpireLease
<1>25. CASE UNCHANGED vars
  BY <1>25 DEF vars
<1> QED BY <1>1, <1>2, <1>3, <1>4, <1>5, <1>6, <1>7, <1>8, <1>9, <1>10, <1>11, <1>12, <1>13, <1>14, <1>15, <1>16, <1>17, <1>18, <1>19, <1>20, <1>21, <1>22, <1>23, <1>24, <1>25 DEF Next, Call, Login

(* What is published is of the next generation and was never named before;  *)
(* every grant is of a pair that the row has held.                          *)
LEMMA HistoryStep ==
    ASSUME TypeOK, History, Copies, Unpublished, Own, [Next]_vars
    PROVE  History'
<1> USE BrokerAssumption, PointerParts DEF Actors, Cred, None, row, upstream, Upstream, TypeOK, History, Copies, Unpublished, Own, OneCredentialPerGeneration
<1>1. ASSUME NEW a \in Callers, ReadPointer(a) PROVE History'
  BY <1>1 DEF ReadPointer, Take, Goto
<1>2. ASSUME NEW a \in Callers, ReadSecret(a) PROVE History'
  <2>1. pc[a] = "read" /\ UNCHANGED <<row, stored, upstream, grants>>
    BY <1>2 DEF ReadSecret
  <2>2. CASE Goto(a, "held") /\ UNCHANGED <<current, copy, got>>
    BY <2>1, <2>2 DEF Goto
  <2>3. CASE Finish(a) /\ current' = current \ {a}
    BY <2>1, <2>3 DEF Finish, Goto
  <2> QED BY <1>2, <2>2, <2>3 DEF ReadSecret
<1>3. ASSUME NEW a \in Callers, Serve(a) PROVE History'
  <2>1. [gen |-> copy[a].gen, secret |-> copy[a].secret] \in named
    BY PointerIs, copy[a] \in Pointer
  <2>2. UNCHANGED <<row, upstream>>
    BY <1>3 DEF Serve, NoCas
  <2>3. grants' \subseteq named
    BY <1>3, <2>1 DEF Serve, Grant
  <2> QED BY <2>2, <2>3
<1>4. ASSUME NEW a \in Callers, Lease(a) PROVE History'
  <2>1. pc[a] = "held" /\ ~lease /\ Cas(a, ptr, TRUE) /\ UNCHANGED <<stored, upstream, grants>>
    BY <1>4 DEF Lease
  <2>2. CASE current' = {a} /\ Goto(a, "leased") /\ UNCHANGED <<copy, got>>
    BY <2>1, <2>2 DEF Cas, Goto
  <2>3. CASE current' = {} /\ Finish(a)
    BY <2>1, <2>3 DEF Cas, Finish, Goto
  <2> QED BY <1>4, <2>2, <2>3 DEF Lease
<1>5. ASSUME NEW a \in Callers, Wait(a) PROVE History'
  BY <1>5 DEF Wait, Finish, NoCas, Goto
<1>6. ASSUME NEW a \in Callers, Refresh(a) PROVE History'
  BY <1>6 DEF Refresh, Issue, Goto
<1>7. ASSUME NEW a \in Callers, InvalidGrant(a) PROVE History'
  BY <1>7 DEF InvalidGrant, Goto
<1>8. ASSUME NEW a \in Callers, NoRefresh(a) PROVE History'
  BY <1>8 DEF NoRefresh, Goto
<1>9. ASSUME NEW a \in Callers, ReleaseLease(a) PROVE History'
  <2>1. [gen |-> copy[a].gen, secret |-> copy[a].secret] \in named
    BY PointerIs, copy[a] \in Pointer
  <2>2. ptr' = ptr /\ named' = named /\ issued' = issued
    <3>1. issued' = issued /\ (Cas(a, ptr, FALSE) \/ NoCas(a))
      BY <1>9 DEF ReleaseLease
    <3>2. CASE Cas(a, ptr, FALSE)
      BY <3>1, <3>2, ptr \in named, named \cup {ptr} = named DEF Cas
    <3>3. CASE NoCas(a)
      BY <3>1, <3>3 DEF NoCas
    <3> QED BY <3>1, <3>2, <3>3
  <2>3. grants' \subseteq named
    BY <1>9, <2>1 DEF ReleaseLease, Grant
  <2> QED BY <2>2, <2>3
<1>10. ASSUME NEW a \in Callers, WriteSecret(a) PROVE History'
  <2>1. pc[a] = "rotated" /\ UNCHANGED <<row, current, upstream, copy, got, grants>>
    BY <1>10 DEF WriteSecret
  <2>2. CASE stored' = stored \cup {got[a]} /\ Goto(a, "staged")
    BY <2>1, <2>2 DEF Goto
  <2>3. CASE UNCHANGED stored /\ Goto(a, "release")
    BY <2>1, <2>3 DEF Goto
  <2> QED BY <1>10, <2>2, <2>3 DEF WriteSecret
<1>11. ASSUME NEW a \in Callers, Publish(a) PROVE History'
  <2>1. CASE Cas(a, After(copy[a], got[a]), FALSE) /\ current' = {} /\ pc'[a] \in {"retire", "unsure"}
    <3>1. a \in Actors /\ got[a] \in Cred \cup {None}
      BY DEF TypeOK, Actors
    <3>2. /\ copy[a] = ptr /\ ptr' \in Pointer /\ ptr'.gen = ptr.gen + 1
          /\ ptr'.secret = got[a] /\ named' = named \cup {ptr'} /\ lease' = FALSE
          /\ ptr' = [gen |-> copy[a].gen + 1, secret |-> got[a]]
      BY <2>1, <3>1, Landing
    <3> QED BY <1>11, <2>1, <3>2 DEF Publish, Cas, Goto, Grant
  <2>2. CASE NoCas(a) /\ Goto(a, "unsure") /\ UNCHANGED grants
    BY <1>11, <2>2 DEF Publish, NoCas, Goto, Grant
  <2> QED BY <1>11, <2>1, <2>2 DEF Publish, Goto, TypeOK, Actors
<1>12. ASSUME NEW a \in Callers, RereadPublished(a) PROVE History'
  <2>1. [gen |-> ptr.gen, secret |-> got[a]] \in named
    BY <1>12, PointerIs, ptr \in Pointer DEF RereadPublished
  <2>2. UNCHANGED <<row, upstream>>
    BY <1>12 DEF RereadPublished
  <2>3. grants' \subseteq named
    BY <1>12, <2>1 DEF RereadPublished, Grant
  <2> QED BY <2>2, <2>3
<1>13. ASSUME NEW a \in Callers, RereadConsumed(a) PROVE History'
  BY <1>13 DEF RereadConsumed, StillConsumed, Goto
<1>14. ASSUME NEW a \in Callers, RereadSuperseded(a) PROVE History'
  BY <1>14 DEF RereadSuperseded, StillConsumed, Destroy, Finish, NoCas, Goto
<1>15. ASSUME NEW a \in Actors, Retire(a) PROVE History'
  BY <1>15 DEF Retire, Destroy, Finish, NoCas, Goto
<1>16. ASSUME NEW a \in Callers, Clear(a) PROVE History'
  <2>1. CASE Cas(a, After(copy[a], None), FALSE) /\ current' = {}
    <3>1. a \in Actors /\ None \in Cred \cup {None}
      BY DEF TypeOK, Actors
    <3>2. /\ copy[a] = ptr /\ ptr' \in Pointer /\ ptr'.gen = ptr.gen + 1
          /\ ptr'.secret = None /\ named' = named \cup {ptr'} /\ lease' = FALSE
          /\ ptr' = [gen |-> copy[a].gen + 1, secret |-> None]
      BY <2>1, <3>1, Landing
    <3> QED BY <1>16, <2>1, <3>2 DEF Clear, Cas, Finish, Goto
  <2>2. CASE NoCas(a)
    BY <1>16, <2>2 DEF Clear, NoCas, Finish, Goto
  <2> QED BY <1>16, <2>1, <2>2 DEF Clear, Goto, TypeOK, Actors
<1>17. ASSUME NEW a \in Logins, WriteLogin(a) PROVE History'
  BY <1>17 DEF WriteLogin, Issue, Goto
<1>18. ASSUME NEW a \in Logins, ReadForLogin(a) PROVE History'
  BY <1>18 DEF ReadForLogin, Take, Goto
<1>19. ASSUME NEW a \in Logins, CommitLogin(a) PROVE History'
  <2>1. CASE Cas(a, After(copy[a], got[a]), FALSE) /\ current' = {} /\ pc'[a] \in {"retire", "unsure"}
    <3>1. a \in Actors /\ got[a] \in Cred \cup {None}
      BY DEF TypeOK, Actors
    <3>2. /\ copy[a] = ptr /\ ptr' \in Pointer /\ ptr'.gen = ptr.gen + 1
          /\ ptr'.secret = got[a] /\ named' = named \cup {ptr'} /\ lease' = FALSE
          /\ ptr' = [gen |-> copy[a].gen + 1, secret |-> got[a]]
      BY <2>1, <3>1, Landing
    <3> QED BY <1>19, <2>1, <3>2 DEF CommitLogin, Cas, Goto
  <2>2. CASE NoCas(a) /\ pc'[a] \in {"unsure", "written"}
    BY <1>19, <2>2 DEF CommitLogin, NoCas, Goto
  <2> QED BY <1>19, <2>1, <2>2 DEF CommitLogin, Goto, TypeOK, Actors
<1>20. ASSUME NEW a \in Logins, EndLogin(a) PROVE History'
  BY <1>20 DEF EndLogin, Finish, NoCas, Goto
<1>21. ASSUME NEW a \in Logins, ExhaustLogin(a) PROVE History'
  BY <1>21 DEF ExhaustLogin, Destroy, Finish, NoCas, Goto
<1>22. ASSUME NEW a \in Actors, Abandon(a) PROVE History'
  BY <1>22 DEF Abandon, Finish, NoCas, Goto
<1>23. ASSUME NEW c \in Cred, Revoke(c) PROVE History'
  BY <1>23 DEF Revoke
<1>24. CASE ExpireLease
  BY <1>24 DEF ExpireLease
<1>25. CASE UNCHANGED vars
  BY <1>25 DEF vars
<1> QED BY <1>1, <1>2, <1>3, <1>4, <1>5, <1>6, <1>7, <1>8, <1>9, <1>10, <1>11, <1>12, <1>13, <1>14, <1>15, <1>16, <1>17, <1>18, <1>19, <1>20, <1>21, <1>22, <1>23, <1>24, <1>25 DEF Next, Call, Login

(* Callers stay in getToken, logins in commitLoginCredential.               *)
LEMMA PlacesStep ==
    ASSUME TypeOK, Places, [Next]_vars
    PROVE  Places'
<1> USE BrokerAssumption DEF Actors, Cred, None, row, upstream, Upstream, TypeOK, Places, CallerSteps, LoginSteps
<1>1. ASSUME NEW a \in Callers, ReadPointer(a) PROVE Places'
  BY <1>1 DEF ReadPointer, Take, Goto
<1>2. ASSUME NEW a \in Callers, ReadSecret(a) PROVE Places'
  BY <1>2 DEF ReadSecret, Goto, Finish
<1>3. ASSUME NEW a \in Callers, Serve(a) PROVE Places'
  BY <1>3 DEF Serve, Finish, NoCas, Grant, Goto
<1>4. ASSUME NEW a \in Callers, Lease(a) PROVE Places'
  BY <1>4 DEF Lease, Cas, Goto, Finish
<1>5. ASSUME NEW a \in Callers, Wait(a) PROVE Places'
  BY <1>5 DEF Wait, Finish, NoCas, Goto
<1>6. ASSUME NEW a \in Callers, Refresh(a) PROVE Places'
  BY <1>6 DEF Refresh, Issue, Goto
<1>7. ASSUME NEW a \in Callers, InvalidGrant(a) PROVE Places'
  BY <1>7 DEF InvalidGrant, Goto
<1>8. ASSUME NEW a \in Callers, NoRefresh(a) PROVE Places'
  BY <1>8 DEF NoRefresh, Goto
<1>9. ASSUME NEW a \in Callers, ReleaseLease(a) PROVE Places'
  BY <1>9 DEF ReleaseLease, Cas, NoCas, Finish, Goto
<1>10. ASSUME NEW a \in Callers, WriteSecret(a) PROVE Places'
  BY <1>10 DEF WriteSecret, Goto
<1>11. ASSUME NEW a \in Callers, Publish(a) PROVE Places'
  BY <1>11 DEF Publish, Cas, NoCas, Goto, Grant
<1>12. ASSUME NEW a \in Callers, RereadPublished(a) PROVE Places'
  BY <1>12 DEF RereadPublished, Goto, Grant
<1>13. ASSUME NEW a \in Callers, RereadConsumed(a) PROVE Places'
  BY <1>13 DEF RereadConsumed, StillConsumed, Goto
<1>14. ASSUME NEW a \in Callers, RereadSuperseded(a) PROVE Places'
  BY <1>14 DEF RereadSuperseded, StillConsumed, Destroy, Finish, NoCas, Goto
<1>15. ASSUME NEW a \in Actors, Retire(a) PROVE Places'
  BY <1>15 DEF Retire, Destroy, Finish, NoCas, Goto
<1>16. ASSUME NEW a \in Callers, Clear(a) PROVE Places'
  BY <1>16 DEF Clear, Cas, NoCas, Finish, Goto
<1>17. ASSUME NEW a \in Logins, WriteLogin(a) PROVE Places'
  BY <1>17 DEF WriteLogin, Issue, Goto
<1>18. ASSUME NEW a \in Logins, ReadForLogin(a) PROVE Places'
  BY <1>18 DEF ReadForLogin, Take, Goto
<1>19. ASSUME NEW a \in Logins, CommitLogin(a) PROVE Places'
  BY <1>19 DEF CommitLogin, Cas, NoCas, Goto
<1>20. ASSUME NEW a \in Logins, EndLogin(a) PROVE Places'
  BY <1>20 DEF EndLogin, Finish, NoCas, Goto
<1>21. ASSUME NEW a \in Logins, ExhaustLogin(a) PROVE Places'
  BY <1>21 DEF ExhaustLogin, Destroy, Finish, NoCas, Goto
<1>22. ASSUME NEW a \in Actors, Abandon(a) PROVE Places'
  BY <1>22 DEF Abandon, Finish, NoCas, Goto
<1>23. ASSUME NEW c \in Cred, Revoke(c) PROVE Places'
  BY <1>23 DEF Revoke
<1>24. CASE ExpireLease
  BY <1>24 DEF ExpireLease
<1>25. CASE UNCHANGED vars
  BY <1>25 DEF vars
<1> QED BY <1>1, <1>2, <1>3, <1>4, <1>5, <1>6, <1>7, <1>8, <1>9, <1>10, <1>11, <1>12, <1>13, <1>14, <1>15, <1>16, <1>17, <1>18, <1>19, <1>20, <1>21, <1>22, <1>23, <1>24, <1>25 DEF Next, Call, Login

(* Whoever moves the row leaves nobody current but itself.                  *)
LEMMA CopiesStep ==
    ASSUME TypeOK, Copies, History, [Next]_vars
    PROVE  Copies'
<1> USE BrokerAssumption DEF Actors, Cred, None, row, upstream, Upstream, TypeOK, Copies, History
<1>1. ASSUME NEW a \in Callers, ReadPointer(a) PROVE Copies'
  BY <1>1 DEF ReadPointer, Take, Goto
<1>2. ASSUME NEW a \in Callers, ReadSecret(a) PROVE Copies'
  <2>1. pc[a] = "read" /\ UNCHANGED <<row, stored, upstream, grants>>
    BY <1>2 DEF ReadSecret
  <2>2. CASE Goto(a, "held") /\ UNCHANGED <<current, copy, got>>
    BY <2>1, <2>2 DEF Goto
  <2>3. CASE Finish(a) /\ current' = current \ {a}
    BY <2>1, <2>3 DEF Finish, Goto
  <2> QED BY <1>2, <2>2, <2>3 DEF ReadSecret
<1>3. ASSUME NEW a \in Callers, Serve(a) PROVE Copies'
  BY <1>3 DEF Serve, Finish, NoCas, Grant, Goto
<1>4. ASSUME NEW a \in Callers, Lease(a) PROVE Copies'
  <2>1. pc[a] = "held" /\ ~lease /\ Cas(a, ptr, TRUE) /\ UNCHANGED <<stored, upstream, grants>>
    BY <1>4 DEF Lease
  <2>2. CASE current' = {a} /\ Goto(a, "leased") /\ UNCHANGED <<copy, got>>
    BY <2>1, <2>2 DEF Cas, Goto
  <2>3. CASE current' = {} /\ Finish(a)
    BY <2>1, <2>3 DEF Cas, Finish, Goto
  <2> QED BY <1>4, <2>2, <2>3 DEF Lease
<1>5. ASSUME NEW a \in Callers, Wait(a) PROVE Copies'
  BY <1>5 DEF Wait, Finish, NoCas, Goto
<1>6. ASSUME NEW a \in Callers, Refresh(a) PROVE Copies'
  BY <1>6 DEF Refresh, Issue, Goto
<1>7. ASSUME NEW a \in Callers, InvalidGrant(a) PROVE Copies'
  BY <1>7 DEF InvalidGrant, Goto
<1>8. ASSUME NEW a \in Callers, NoRefresh(a) PROVE Copies'
  BY <1>8 DEF NoRefresh, Goto
<1>9. ASSUME NEW a \in Callers, ReleaseLease(a) PROVE Copies'
  <2>1. pc[a] = "release" /\ Finish(a) /\ UNCHANGED <<stored, upstream>>
    BY <1>9 DEF ReleaseLease
  <2>2. CASE Cas(a, ptr, FALSE) /\ current' = {}
    BY <2>1, <2>2 DEF Cas, Finish, Goto
  <2>3. CASE NoCas(a)
    BY <2>1, <2>3 DEF NoCas, Finish, Goto
  <2> QED BY <1>9, <2>2, <2>3 DEF ReleaseLease
<1>10. ASSUME NEW a \in Callers, WriteSecret(a) PROVE Copies'
  <2>1. pc[a] = "rotated" /\ UNCHANGED <<row, current, upstream, copy, got, grants>>
    BY <1>10 DEF WriteSecret
  <2>2. CASE stored' = stored \cup {got[a]} /\ Goto(a, "staged")
    BY <2>1, <2>2 DEF Goto
  <2>3. CASE UNCHANGED stored /\ Goto(a, "release")
    BY <2>1, <2>3 DEF Goto
  <2> QED BY <1>10, <2>2, <2>3 DEF WriteSecret
<1>11. ASSUME NEW a \in Callers, Publish(a) PROVE Copies'
  <2>1. CASE Cas(a, After(copy[a], got[a]), FALSE) /\ current' = {} /\ pc'[a] \in {"retire", "unsure"}
    <3>1. a \in Actors /\ got[a] \in Cred \cup {None}
      BY DEF TypeOK, Actors
    <3>2. /\ copy[a] = ptr /\ ptr' \in Pointer /\ ptr'.gen = ptr.gen + 1
          /\ ptr'.secret = got[a] /\ named' = named \cup {ptr'} /\ lease' = FALSE
          /\ ptr' = [gen |-> copy[a].gen + 1, secret |-> got[a]]
      BY <2>1, <3>1, Landing
    <3> QED BY <1>11, <2>1, <3>2 DEF Publish, Cas, Goto, Grant
  <2>2. CASE NoCas(a) /\ Goto(a, "unsure") /\ UNCHANGED grants
    BY <1>11, <2>2 DEF Publish, NoCas, Goto, Grant
  <2> QED BY <1>11, <2>1, <2>2 DEF Publish, Goto, TypeOK, Actors
<1>12. ASSUME NEW a \in Callers, RereadPublished(a) PROVE Copies'
  BY <1>12 DEF RereadPublished, Goto, Grant
<1>13. ASSUME NEW a \in Callers, RereadConsumed(a) PROVE Copies'
  BY <1>13 DEF RereadConsumed, StillConsumed, Goto
<1>14. ASSUME NEW a \in Callers, RereadSuperseded(a) PROVE Copies'
  BY <1>14 DEF RereadSuperseded, StillConsumed, Destroy, Finish, NoCas, Goto
<1>15. ASSUME NEW a \in Actors, Retire(a) PROVE Copies'
  BY <1>15 DEF Retire, Destroy, Finish, NoCas, Goto
<1>16. ASSUME NEW a \in Callers, Clear(a) PROVE Copies'
  <2>1. CASE Cas(a, After(copy[a], None), FALSE) /\ current' = {}
    <3>1. a \in Actors /\ None \in Cred \cup {None}
      BY DEF TypeOK, Actors
    <3>2. /\ copy[a] = ptr /\ ptr' \in Pointer /\ ptr'.gen = ptr.gen + 1
          /\ ptr'.secret = None /\ named' = named \cup {ptr'} /\ lease' = FALSE
          /\ ptr' = [gen |-> copy[a].gen + 1, secret |-> None]
      BY <2>1, <3>1, Landing
    <3> QED BY <1>16, <2>1, <3>2 DEF Clear, Cas, Finish, Goto
  <2>2. CASE NoCas(a)
    BY <1>16, <2>2 DEF Clear, NoCas, Finish, Goto
  <2> QED BY <1>16, <2>1, <2>2 DEF Clear, Goto, TypeOK, Actors
<1>17. ASSUME NEW a \in Logins, WriteLogin(a) PROVE Copies'
  BY <1>17 DEF WriteLogin, Issue, Goto
<1>18. ASSUME NEW a \in Logins, ReadForLogin(a) PROVE Copies'
  BY <1>18 DEF ReadForLogin, Take, Goto
<1>19. ASSUME NEW a \in Logins, CommitLogin(a) PROVE Copies'
  <2>1. CASE Cas(a, After(copy[a], got[a]), FALSE) /\ current' = {} /\ pc'[a] \in {"retire", "unsure"}
    <3>1. a \in Actors /\ got[a] \in Cred \cup {None}
      BY DEF TypeOK, Actors
    <3>2. /\ copy[a] = ptr /\ ptr' \in Pointer /\ ptr'.gen = ptr.gen + 1
          /\ ptr'.secret = got[a] /\ named' = named \cup {ptr'} /\ lease' = FALSE
          /\ ptr' = [gen |-> copy[a].gen + 1, secret |-> got[a]]
      BY <2>1, <3>1, Landing
    <3> QED BY <1>19, <2>1, <3>2 DEF CommitLogin, Cas, Goto
  <2>2. CASE NoCas(a) /\ pc'[a] \in {"unsure", "written"}
    BY <1>19, <2>2 DEF CommitLogin, NoCas, Goto
  <2> QED BY <1>19, <2>1, <2>2 DEF CommitLogin, Goto, TypeOK, Actors
<1>20. ASSUME NEW a \in Logins, EndLogin(a) PROVE Copies'
  BY <1>20 DEF EndLogin, Finish, NoCas, Goto
<1>21. ASSUME NEW a \in Logins, ExhaustLogin(a) PROVE Copies'
  BY <1>21 DEF ExhaustLogin, Destroy, Finish, NoCas, Goto
<1>22. ASSUME NEW a \in Actors, Abandon(a) PROVE Copies'
  BY <1>22 DEF Abandon, Finish, NoCas, Goto
<1>23. ASSUME NEW c \in Cred, Revoke(c) PROVE Copies'
  BY <1>23 DEF Revoke
<1>24. CASE ExpireLease
  BY <1>24 DEF ExpireLease
<1>25. CASE UNCHANGED vars
  BY <1>25 DEF vars
<1> QED BY <1>1, <1>2, <1>3, <1>4, <1>5, <1>6, <1>7, <1>8, <1>9, <1>10, <1>11, <1>12, <1>13, <1>14, <1>15, <1>16, <1>17, <1>18, <1>19, <1>20, <1>21, <1>22, <1>23, <1>24, <1>25 DEF Next, Call, Login

(* What the provider issues is new, so no two actors publish the same.      *)
LEMMA OwnStep ==
    ASSUME TypeOK, Own, Places, Copies, [Next]_vars
    PROVE  Own'
<1> USE BrokerAssumption DEF Actors, Cred, None, row, upstream, Upstream, TypeOK, Own, Places, CallerSteps, LoginSteps
<1>1. ASSUME NEW a \in Callers, ReadPointer(a) PROVE Own'
  BY <1>1 DEF ReadPointer, Take, Goto
<1>2. ASSUME NEW a \in Callers, ReadSecret(a) PROVE Own'
  <2>1. pc[a] = "read" /\ UNCHANGED <<row, stored, upstream, grants>>
    BY <1>2 DEF ReadSecret
  <2>2. CASE Goto(a, "held") /\ UNCHANGED <<current, copy, got>>
    BY <2>1, <2>2 DEF Goto
  <2>3. CASE Finish(a) /\ current' = current \ {a}
    BY <2>1, <2>3 DEF Finish, Goto
  <2> QED BY <1>2, <2>2, <2>3 DEF ReadSecret
<1>3. ASSUME NEW a \in Callers, Serve(a) PROVE Own'
  BY <1>3 DEF Serve, Finish, NoCas, Grant, Goto
<1>4. ASSUME NEW a \in Callers, Lease(a) PROVE Own'
  <2>1. pc[a] = "held" /\ ~lease /\ Cas(a, ptr, TRUE) /\ UNCHANGED <<stored, upstream, grants>>
    BY <1>4 DEF Lease
  <2>2. CASE current' = {a} /\ Goto(a, "leased") /\ UNCHANGED <<copy, got>>
    BY <2>1, <2>2 DEF Cas, Goto
  <2>3. CASE current' = {} /\ Finish(a)
    BY <2>1, <2>3 DEF Cas, Finish, Goto
  <2> QED BY <1>4, <2>2, <2>3 DEF Lease
<1>5. ASSUME NEW a \in Callers, Wait(a) PROVE Own'
  BY <1>5 DEF Wait, Finish, NoCas, Goto
<1>6. ASSUME NEW a \in Callers, Refresh(a) PROVE Own'
  <2>1. CASE Goto(a, "rotated") /\ got' = [got EXCEPT ![a] = issued']
    BY <1>6, <2>1 DEF Refresh, Issue, Goto
  <2>2. CASE Goto(a, "release") /\ UNCHANGED got
    BY <1>6, <2>2 DEF Refresh, Issue, Goto
  <2> QED BY <1>6, <2>1, <2>2 DEF Refresh
<1>7. ASSUME NEW a \in Callers, InvalidGrant(a) PROVE Own'
  BY <1>7 DEF InvalidGrant, Goto
<1>8. ASSUME NEW a \in Callers, NoRefresh(a) PROVE Own'
  BY <1>8 DEF NoRefresh, Goto
<1>9. ASSUME NEW a \in Callers, ReleaseLease(a) PROVE Own'
  <2>1. pc[a] = "release" /\ Finish(a) /\ UNCHANGED <<stored, upstream>>
    BY <1>9 DEF ReleaseLease
  <2>2. CASE Cas(a, ptr, FALSE) /\ current' = {}
    BY <2>1, <2>2 DEF Cas, Finish, Goto
  <2>3. CASE NoCas(a)
    BY <2>1, <2>3 DEF NoCas, Finish, Goto
  <2> QED BY <1>9, <2>2, <2>3 DEF ReleaseLease
<1>10. ASSUME NEW a \in Callers, WriteSecret(a) PROVE Own'
  <2>1. pc[a] = "rotated" /\ UNCHANGED <<row, current, upstream, copy, got, grants>>
    BY <1>10 DEF WriteSecret
  <2>2. CASE stored' = stored \cup {got[a]} /\ Goto(a, "staged")
    BY <2>1, <2>2 DEF Goto
  <2>3. CASE UNCHANGED stored /\ Goto(a, "release")
    BY <2>1, <2>3 DEF Goto
  <2> QED BY <1>10, <2>2, <2>3 DEF WriteSecret
<1>11. ASSUME NEW a \in Callers, Publish(a) PROVE Own'
  <2>1. CASE Cas(a, After(copy[a], got[a]), FALSE) /\ current' = {} /\ pc'[a] \in {"retire", "unsure"}
    <3>1. a \in Actors /\ got[a] \in Cred \cup {None}
      BY DEF TypeOK, Actors
    <3>2. /\ copy[a] = ptr /\ ptr' \in Pointer /\ ptr'.gen = ptr.gen + 1
          /\ ptr'.secret = got[a] /\ named' = named \cup {ptr'} /\ lease' = FALSE
          /\ ptr' = [gen |-> copy[a].gen + 1, secret |-> got[a]]
      BY <2>1, <3>1, Landing
    <3> QED BY <1>11, <2>1, <3>2 DEF Publish, Cas, Goto, Grant
  <2>2. CASE NoCas(a) /\ Goto(a, "unsure") /\ UNCHANGED grants
    BY <1>11, <2>2 DEF Publish, NoCas, Goto, Grant
  <2> QED BY <1>11, <2>1, <2>2 DEF Publish, Goto, TypeOK, Actors
<1>12. ASSUME NEW a \in Callers, RereadPublished(a) PROVE Own'
  BY <1>12 DEF RereadPublished, Goto, Grant
<1>13. ASSUME NEW a \in Callers, RereadConsumed(a) PROVE Own'
  BY <1>13 DEF RereadConsumed, StillConsumed, Goto
<1>14. ASSUME NEW a \in Callers, RereadSuperseded(a) PROVE Own'
  BY <1>14 DEF RereadSuperseded, StillConsumed, Destroy, Finish, NoCas, Goto
<1>15. ASSUME NEW a \in Actors, Retire(a) PROVE Own'
  BY <1>15 DEF Retire, Destroy, Finish, NoCas, Goto
<1>16. ASSUME NEW a \in Callers, Clear(a) PROVE Own'
  <2>1. CASE Cas(a, After(copy[a], None), FALSE) /\ current' = {}
    <3>1. a \in Actors /\ None \in Cred \cup {None}
      BY DEF TypeOK, Actors
    <3>2. /\ copy[a] = ptr /\ ptr' \in Pointer /\ ptr'.gen = ptr.gen + 1
          /\ ptr'.secret = None /\ named' = named \cup {ptr'} /\ lease' = FALSE
          /\ ptr' = [gen |-> copy[a].gen + 1, secret |-> None]
      BY <2>1, <3>1, Landing
    <3> QED BY <1>16, <2>1, <3>2 DEF Clear, Cas, Finish, Goto
  <2>2. CASE NoCas(a)
    BY <1>16, <2>2 DEF Clear, NoCas, Finish, Goto
  <2> QED BY <1>16, <2>1, <2>2 DEF Clear, Goto, TypeOK, Actors
<1>17. ASSUME NEW a \in Logins, WriteLogin(a) PROVE Own'
  <2>1. CASE got' = [got EXCEPT ![a] = issued'] /\ Goto(a, "written")
             /\ stored' = stored \cup {issued'}
    BY <1>17, <2>1 DEF WriteLogin, Issue, Goto
  <2>2. CASE UNCHANGED <<stored, got, pc>>
    BY <1>17, <2>2 DEF WriteLogin, Issue, Goto
  <2> QED BY <1>17, <2>1, <2>2 DEF WriteLogin
<1>18. ASSUME NEW a \in Logins, ReadForLogin(a) PROVE Own'
  BY <1>18 DEF ReadForLogin, Take, Goto
<1>19. ASSUME NEW a \in Logins, CommitLogin(a) PROVE Own'
  <2>1. CASE Cas(a, After(copy[a], got[a]), FALSE) /\ current' = {} /\ pc'[a] \in {"retire", "unsure"}
    <3>1. a \in Actors /\ got[a] \in Cred \cup {None}
      BY DEF TypeOK, Actors
    <3>2. /\ copy[a] = ptr /\ ptr' \in Pointer /\ ptr'.gen = ptr.gen + 1
          /\ ptr'.secret = got[a] /\ named' = named \cup {ptr'} /\ lease' = FALSE
          /\ ptr' = [gen |-> copy[a].gen + 1, secret |-> got[a]]
      BY <2>1, <3>1, Landing
    <3> QED BY <1>19, <2>1, <3>2 DEF CommitLogin, Cas, Goto
  <2>2. CASE NoCas(a) /\ pc'[a] \in {"unsure", "written"}
    BY <1>19, <2>2 DEF CommitLogin, NoCas, Goto
  <2> QED BY <1>19, <2>1, <2>2 DEF CommitLogin, Goto, TypeOK, Actors
<1>20. ASSUME NEW a \in Logins, EndLogin(a) PROVE Own'
  BY <1>20 DEF EndLogin, Finish, NoCas, Goto
<1>21. ASSUME NEW a \in Logins, ExhaustLogin(a) PROVE Own'
  BY <1>21 DEF ExhaustLogin, Destroy, Finish, NoCas, Goto
<1>22. ASSUME NEW a \in Actors, Abandon(a) PROVE Own'
  BY <1>22 DEF Abandon, Finish, NoCas, Goto
<1>23. ASSUME NEW c \in Cred, Revoke(c) PROVE Own'
  BY <1>23 DEF Revoke
<1>24. CASE ExpireLease
  BY <1>24 DEF ExpireLease
<1>25. CASE UNCHANGED vars
  BY <1>25 DEF vars
<1> QED BY <1>1, <1>2, <1>3, <1>4, <1>5, <1>6, <1>7, <1>8, <1>9, <1>10, <1>11, <1>12, <1>13, <1>14, <1>15, <1>16, <1>17, <1>18, <1>19, <1>20, <1>21, <1>22, <1>23, <1>24, <1>25 DEF Next, Call, Login

(* Nobody but its owner publishes a credential, and the owner only once.    *)
LEMMA UnpublishedStep ==
    ASSUME TypeOK, Unpublished, Own, Copies, History, [Next]_vars
    PROVE  Unpublished'
<1> USE BrokerAssumption, PointerParts DEF Actors, Cred, None, row, upstream, Upstream, TypeOK, Unpublished, Own, Copies, History
<1>1. ASSUME NEW a \in Callers, ReadPointer(a) PROVE Unpublished'
  BY <1>1 DEF ReadPointer, Take, Goto
<1>2. ASSUME NEW a \in Callers, ReadSecret(a) PROVE Unpublished'
  <2>1. pc[a] = "read" /\ UNCHANGED <<row, stored, upstream, grants>>
    BY <1>2 DEF ReadSecret
  <2>2. CASE Goto(a, "held") /\ UNCHANGED <<current, copy, got>>
    BY <2>1, <2>2 DEF Goto
  <2>3. CASE Finish(a) /\ current' = current \ {a}
    BY <2>1, <2>3 DEF Finish, Goto
  <2> QED BY <1>2, <2>2, <2>3 DEF ReadSecret
<1>3. ASSUME NEW a \in Callers, Serve(a) PROVE Unpublished'
  BY <1>3 DEF Serve, Finish, NoCas, Grant, Goto
<1>4. ASSUME NEW a \in Callers, Lease(a) PROVE Unpublished'
  <2>1. pc[a] = "held" /\ ~lease /\ Cas(a, ptr, TRUE) /\ UNCHANGED <<stored, upstream, grants>>
    BY <1>4 DEF Lease
  <2>2. CASE current' = {a} /\ Goto(a, "leased") /\ UNCHANGED <<copy, got>>
    BY <2>1, <2>2 DEF Cas, Goto
  <2>3. CASE current' = {} /\ Finish(a)
    BY <2>1, <2>3 DEF Cas, Finish, Goto
  <2> QED BY <1>4, <2>2, <2>3 DEF Lease
<1>5. ASSUME NEW a \in Callers, Wait(a) PROVE Unpublished'
  BY <1>5 DEF Wait, Finish, NoCas, Goto
<1>6. ASSUME NEW a \in Callers, Refresh(a) PROVE Unpublished'
  <2>1. CASE Goto(a, "rotated") /\ got' = [got EXCEPT ![a] = issued']
    BY <1>6, <2>1 DEF Refresh, Issue, Goto
  <2>2. CASE Goto(a, "release") /\ UNCHANGED got
    BY <1>6, <2>2 DEF Refresh, Issue, Goto
  <2> QED BY <1>6, <2>1, <2>2 DEF Refresh
<1>7. ASSUME NEW a \in Callers, InvalidGrant(a) PROVE Unpublished'
  BY <1>7 DEF InvalidGrant, Goto
<1>8. ASSUME NEW a \in Callers, NoRefresh(a) PROVE Unpublished'
  BY <1>8 DEF NoRefresh, Goto
<1>9. ASSUME NEW a \in Callers, ReleaseLease(a) PROVE Unpublished'
  <2>1. pc[a] = "release" /\ Finish(a) /\ UNCHANGED <<stored, upstream>>
    BY <1>9 DEF ReleaseLease
  <2>2. CASE Cas(a, ptr, FALSE) /\ current' = {}
    BY <2>1, <2>2 DEF Cas, Finish, Goto
  <2>3. CASE NoCas(a)
    BY <2>1, <2>3 DEF NoCas, Finish, Goto
  <2> QED BY <1>9, <2>2, <2>3 DEF ReleaseLease
<1>10. ASSUME NEW a \in Callers, WriteSecret(a) PROVE Unpublished'
  <2>1. pc[a] = "rotated" /\ UNCHANGED <<row, current, upstream, copy, got, grants>>
    BY <1>10 DEF WriteSecret
  <2>2. CASE stored' = stored \cup {got[a]} /\ Goto(a, "staged")
    BY <2>1, <2>2 DEF Goto
  <2>3. CASE UNCHANGED stored /\ Goto(a, "release")
    BY <2>1, <2>3 DEF Goto
  <2> QED BY <1>10, <2>2, <2>3 DEF WriteSecret
<1>11. ASSUME NEW a \in Callers, Publish(a) PROVE Unpublished'
  <2>1. CASE Cas(a, After(copy[a], got[a]), FALSE) /\ current' = {} /\ pc'[a] \in {"retire", "unsure"}
    <3>1. a \in Actors /\ got[a] \in Cred \cup {None}
      BY DEF TypeOK, Actors
    <3>2. /\ copy[a] = ptr /\ ptr' \in Pointer /\ ptr'.gen = ptr.gen + 1
          /\ ptr'.secret = got[a] /\ named' = named \cup {ptr'}
      BY <2>1, <3>1, Landing
    <3>3. /\ UNCHANGED <<copy, got>>
          /\ \A b \in Actors : b # a => pc'[b] = pc[b]
      BY <1>11 DEF Publish, Goto
    <3>4. \A b \in Actors : got[b] # None /\ b # a => ptr'.secret # got[b]
      BY <3>1, <3>2
    <3>5. \A p \in named : p.secret # got[a]
      BY <1>11 DEF Publish
    <3>6. copy[a].gen < ptr'.gen
      BY <3>2
    <3> QED BY <2>1, <3>2, <3>3, <3>4, <3>5, <3>6
  <2>2. CASE NoCas(a) /\ pc'[a] \in {"unsure", "written"}
    BY <1>11, <2>2 DEF Publish, NoCas, Goto
  <2> QED BY <1>11, <2>1, <2>2 DEF Publish, Goto, TypeOK, Actors
<1>12. ASSUME NEW a \in Callers, RereadPublished(a) PROVE Unpublished'
  BY <1>12 DEF RereadPublished, Goto, Grant
<1>13. ASSUME NEW a \in Callers, RereadConsumed(a) PROVE Unpublished'
  BY <1>13 DEF RereadConsumed, StillConsumed, Goto
<1>14. ASSUME NEW a \in Callers, RereadSuperseded(a) PROVE Unpublished'
  BY <1>14 DEF RereadSuperseded, StillConsumed, Destroy, Finish, NoCas, Goto
<1>15. ASSUME NEW a \in Actors, Retire(a) PROVE Unpublished'
  BY <1>15 DEF Retire, Destroy, Finish, NoCas, Goto
<1>16. ASSUME NEW a \in Callers, Clear(a) PROVE Unpublished'
  <2>1. CASE Cas(a, After(copy[a], None), FALSE) /\ current' = {}
    <3>1. a \in Actors /\ None \in Cred \cup {None}
      BY DEF TypeOK, Actors
    <3>2. /\ copy[a] = ptr /\ ptr' \in Pointer /\ ptr'.gen = ptr.gen + 1
          /\ ptr'.secret = None /\ named' = named \cup {ptr'} /\ lease' = FALSE
          /\ ptr' = [gen |-> copy[a].gen + 1, secret |-> None]
      BY <2>1, <3>1, Landing
    <3> QED BY <1>16, <2>1, <3>2 DEF Clear, Cas, Finish, Goto
  <2>2. CASE NoCas(a)
    BY <1>16, <2>2 DEF Clear, NoCas, Finish, Goto
  <2> QED BY <1>16, <2>1, <2>2 DEF Clear, Goto, TypeOK, Actors
<1>17. ASSUME NEW a \in Logins, WriteLogin(a) PROVE Unpublished'
  <2>1. CASE got' = [got EXCEPT ![a] = issued'] /\ Goto(a, "written")
             /\ stored' = stored \cup {issued'}
    BY <1>17, <2>1 DEF WriteLogin, Issue, Goto
  <2>2. CASE UNCHANGED <<stored, got, pc>>
    BY <1>17, <2>2 DEF WriteLogin, Issue, Goto
  <2> QED BY <1>17, <2>1, <2>2 DEF WriteLogin
<1>18. ASSUME NEW a \in Logins, ReadForLogin(a) PROVE Unpublished'
  BY <1>18 DEF ReadForLogin, Take, Goto
<1>19. ASSUME NEW a \in Logins, CommitLogin(a) PROVE Unpublished'
  <2>1. CASE Cas(a, After(copy[a], got[a]), FALSE) /\ current' = {} /\ pc'[a] \in {"retire", "unsure"}
    <3>1. a \in Actors /\ got[a] \in Cred \cup {None}
      BY DEF TypeOK, Actors
    <3>2. /\ copy[a] = ptr /\ ptr' \in Pointer /\ ptr'.gen = ptr.gen + 1
          /\ ptr'.secret = got[a] /\ named' = named \cup {ptr'}
      BY <2>1, <3>1, Landing
    <3>3. /\ UNCHANGED <<copy, got>>
          /\ \A b \in Actors : b # a => pc'[b] = pc[b]
      BY <1>19 DEF CommitLogin, Goto
    <3>4. \A b \in Actors : got[b] # None /\ b # a => ptr'.secret # got[b]
      BY <3>1, <3>2
    <3>5. \A p \in named : p.secret # got[a]
      BY <1>19 DEF CommitLogin
    <3>6. copy[a].gen < ptr'.gen
      BY <3>2
    <3> QED BY <2>1, <3>2, <3>3, <3>4, <3>5, <3>6
  <2>2. CASE NoCas(a) /\ pc'[a] \in {"unsure", "written"}
    BY <1>19, <2>2 DEF CommitLogin, NoCas, Goto
  <2> QED BY <1>19, <2>1, <2>2 DEF CommitLogin, Goto, TypeOK, Actors
<1>20. ASSUME NEW a \in Logins, EndLogin(a) PROVE Unpublished'
  BY <1>20 DEF EndLogin, Finish, NoCas, Goto
<1>21. ASSUME NEW a \in Logins, ExhaustLogin(a) PROVE Unpublished'
  BY <1>21 DEF ExhaustLogin, Destroy, Finish, NoCas, Goto
<1>22. ASSUME NEW a \in Actors, Abandon(a) PROVE Unpublished'
  BY <1>22 DEF Abandon, Finish, NoCas, Goto
<1>23. ASSUME NEW c \in Cred, Revoke(c) PROVE Unpublished'
  BY <1>23 DEF Revoke
<1>24. CASE ExpireLease
  BY <1>24 DEF ExpireLease
<1>25. CASE UNCHANGED vars
  BY <1>25 DEF vars
<1> QED BY <1>1, <1>2, <1>3, <1>4, <1>5, <1>6, <1>7, <1>8, <1>9, <1>10, <1>11, <1>12, <1>13, <1>14, <1>15, <1>16, <1>17, <1>18, <1>19, <1>20, <1>21, <1>22, <1>23, <1>24, <1>25 DEF Next, Call, Login

(* Versions are destroyed by their owner before they are published, or after *)
(* they were superseded: never while the row may name them.                 *)
LEMMA KeptStep ==
    ASSUME TypeOK, Kept, Unpublished, Own, Copies, History, Superseded, [Next]_vars
    PROVE  Kept'
<1> USE BrokerAssumption, PointerParts DEF Actors, Cred, None, row, upstream, Upstream, TypeOK, Kept, PointerNamesStored, Unpublished, Own, Copies, History, Superseded, OneCredentialPerGeneration
<1>1. ASSUME NEW a \in Callers, ReadPointer(a) PROVE Kept'
  BY <1>1 DEF ReadPointer, Take, Goto
<1>2. ASSUME NEW a \in Callers, ReadSecret(a) PROVE Kept'
  <2>1. pc[a] = "read" /\ UNCHANGED <<row, stored, upstream, grants>>
    BY <1>2 DEF ReadSecret
  <2>2. CASE Goto(a, "held") /\ UNCHANGED <<current, copy, got>>
    BY <2>1, <2>2 DEF Goto
  <2>3. CASE Finish(a) /\ current' = current \ {a}
    BY <2>1, <2>3 DEF Finish, Goto
  <2> QED BY <1>2, <2>2, <2>3 DEF ReadSecret
<1>3. ASSUME NEW a \in Callers, Serve(a) PROVE Kept'
  BY <1>3 DEF Serve, Finish, NoCas, Grant, Goto
<1>4. ASSUME NEW a \in Callers, Lease(a) PROVE Kept'
  <2>1. pc[a] = "held" /\ ~lease /\ Cas(a, ptr, TRUE) /\ UNCHANGED <<stored, upstream, grants>>
    BY <1>4 DEF Lease
  <2>2. CASE current' = {a} /\ Goto(a, "leased") /\ UNCHANGED <<copy, got>>
    BY <2>1, <2>2 DEF Cas, Goto
  <2>3. CASE current' = {} /\ Finish(a)
    BY <2>1, <2>3 DEF Cas, Finish, Goto
  <2> QED BY <1>4, <2>2, <2>3 DEF Lease
<1>5. ASSUME NEW a \in Callers, Wait(a) PROVE Kept'
  BY <1>5 DEF Wait, Finish, NoCas, Goto
<1>6. ASSUME NEW a \in Callers, Refresh(a) PROVE Kept'
  <2>1. CASE Goto(a, "rotated") /\ got' = [got EXCEPT ![a] = issued']
    BY <1>6, <2>1 DEF Refresh, Issue, Goto
  <2>2. CASE Goto(a, "release") /\ UNCHANGED got
    BY <1>6, <2>2 DEF Refresh, Issue, Goto
  <2> QED BY <1>6, <2>1, <2>2 DEF Refresh
<1>7. ASSUME NEW a \in Callers, InvalidGrant(a) PROVE Kept'
  BY <1>7 DEF InvalidGrant, Goto
<1>8. ASSUME NEW a \in Callers, NoRefresh(a) PROVE Kept'
  BY <1>8 DEF NoRefresh, Goto
<1>9. ASSUME NEW a \in Callers, ReleaseLease(a) PROVE Kept'
  <2>1. pc[a] = "release" /\ Finish(a) /\ UNCHANGED <<stored, upstream>>
    BY <1>9 DEF ReleaseLease
  <2>2. CASE Cas(a, ptr, FALSE) /\ current' = {}
    BY <2>1, <2>2 DEF Cas, Finish, Goto
  <2>3. CASE NoCas(a)
    BY <2>1, <2>3 DEF NoCas, Finish, Goto
  <2> QED BY <1>9, <2>2, <2>3 DEF ReleaseLease
<1>10. ASSUME NEW a \in Callers, WriteSecret(a) PROVE Kept'
  <2>1. pc[a] = "rotated" /\ UNCHANGED <<row, current, upstream, copy, got, grants>>
    BY <1>10 DEF WriteSecret
  <2>2. CASE stored' = stored \cup {got[a]} /\ Goto(a, "staged")
    BY <2>1, <2>2 DEF Goto
  <2>3. CASE UNCHANGED stored /\ Goto(a, "release")
    BY <2>1, <2>3 DEF Goto
  <2> QED BY <1>10, <2>2, <2>3 DEF WriteSecret
<1>11. ASSUME NEW a \in Callers, Publish(a) PROVE Kept'
  <2>1. CASE Cas(a, After(copy[a], got[a]), FALSE) /\ current' = {} /\ pc'[a] \in {"retire", "unsure"}
    <3>1. a \in Actors /\ got[a] \in Cred \cup {None}
      BY DEF TypeOK, Actors
    <3>2. /\ copy[a] = ptr /\ ptr' \in Pointer /\ ptr'.gen = ptr.gen + 1
          /\ ptr'.secret = got[a] /\ named' = named \cup {ptr'} /\ lease' = FALSE
          /\ ptr' = [gen |-> copy[a].gen + 1, secret |-> got[a]]
      BY <2>1, <3>1, Landing
    <3> QED BY <1>11, <2>1, <3>2 DEF Publish, Cas, Goto, Grant
  <2>2. CASE NoCas(a) /\ Goto(a, "unsure") /\ UNCHANGED grants
    BY <1>11, <2>2 DEF Publish, NoCas, Goto, Grant
  <2> QED BY <1>11, <2>1, <2>2 DEF Publish, Goto, TypeOK, Actors
<1>12. ASSUME NEW a \in Callers, RereadPublished(a) PROVE Kept'
  BY <1>12 DEF RereadPublished, Goto, Grant
<1>13. ASSUME NEW a \in Callers, RereadConsumed(a) PROVE Kept'
  <2>1. \A p \in named : p.secret # got[a]
    <3>1. \A p \in named : p.gen <= copy[a].gen
      BY <1>13 DEF RereadConsumed, StillConsumed
    <3>2. \A p \in named : p.gen \in Nat
      OBVIOUS
    <3> QED BY <1>13, <3>1, <3>2 DEF RereadConsumed
  <2>2. got[a] \in stored
    BY <1>13, <2>1 DEF RereadConsumed
  <2> QED BY <1>13, <2>1, <2>2 DEF RereadConsumed, Goto
<1>14. ASSUME NEW a \in Callers, RereadSuperseded(a) PROVE Kept'
  BY <1>14 DEF RereadSuperseded, StillConsumed, Destroy, Finish, NoCas, Goto
<1>15. ASSUME NEW a \in Actors, Retire(a) PROVE Kept'
  BY <1>15 DEF Retire, Destroy, Finish, NoCas, Goto
<1>16. ASSUME NEW a \in Callers, Clear(a) PROVE Kept'
  <2>1. CASE Cas(a, After(copy[a], None), FALSE) /\ current' = {}
    <3>1. a \in Actors /\ None \in Cred \cup {None}
      BY DEF TypeOK, Actors
    <3>2. /\ copy[a] = ptr /\ ptr' \in Pointer /\ ptr'.gen = ptr.gen + 1
          /\ ptr'.secret = None /\ named' = named \cup {ptr'} /\ lease' = FALSE
          /\ ptr' = [gen |-> copy[a].gen + 1, secret |-> None]
      BY <2>1, <3>1, Landing
    <3> QED BY <1>16, <2>1, <3>2 DEF Clear, Cas, Finish, Goto
  <2>2. CASE NoCas(a)
    BY <1>16, <2>2 DEF Clear, NoCas, Finish, Goto
  <2> QED BY <1>16, <2>1, <2>2 DEF Clear, Goto, TypeOK, Actors
<1>17. ASSUME NEW a \in Logins, WriteLogin(a) PROVE Kept'
  <2>1. CASE got' = [got EXCEPT ![a] = issued'] /\ Goto(a, "written")
             /\ stored' = stored \cup {issued'}
    BY <1>17, <2>1 DEF WriteLogin, Issue, Goto
  <2>2. CASE UNCHANGED <<stored, got, pc>>
    BY <1>17, <2>2 DEF WriteLogin, Issue, Goto
  <2> QED BY <1>17, <2>1, <2>2 DEF WriteLogin
<1>18. ASSUME NEW a \in Logins, ReadForLogin(a) PROVE Kept'
  BY <1>18 DEF ReadForLogin, Take, Goto
<1>19. ASSUME NEW a \in Logins, CommitLogin(a) PROVE Kept'
  <2>1. CASE Cas(a, After(copy[a], got[a]), FALSE) /\ current' = {} /\ pc'[a] \in {"retire", "unsure"}
    <3>1. a \in Actors /\ got[a] \in Cred \cup {None}
      BY DEF TypeOK, Actors
    <3>2. /\ copy[a] = ptr /\ ptr' \in Pointer /\ ptr'.gen = ptr.gen + 1
          /\ ptr'.secret = got[a] /\ named' = named \cup {ptr'} /\ lease' = FALSE
          /\ ptr' = [gen |-> copy[a].gen + 1, secret |-> got[a]]
      BY <2>1, <3>1, Landing
    <3> QED BY <1>19, <2>1, <3>2 DEF CommitLogin, Cas, Goto
  <2>2. CASE NoCas(a) /\ pc'[a] \in {"unsure", "written"}
    BY <1>19, <2>2 DEF CommitLogin, NoCas, Goto
  <2> QED BY <1>19, <2>1, <2>2 DEF CommitLogin, Goto, TypeOK, Actors
<1>20. ASSUME NEW a \in Logins, EndLogin(a) PROVE Kept'
  BY <1>20 DEF EndLogin, Finish, NoCas, Goto
<1>21. ASSUME NEW a \in Logins, ExhaustLogin(a) PROVE Kept'
  BY <1>21 DEF ExhaustLogin, Destroy, Finish, NoCas, Goto
<1>22. ASSUME NEW a \in Actors, Abandon(a) PROVE Kept'
  BY <1>22 DEF Abandon, Finish, NoCas, Goto
<1>23. ASSUME NEW c \in Cred, Revoke(c) PROVE Kept'
  BY <1>23 DEF Revoke
<1>24. CASE ExpireLease
  BY <1>24 DEF ExpireLease
<1>25. CASE UNCHANGED vars
  BY <1>25 DEF vars
<1> QED BY <1>1, <1>2, <1>3, <1>4, <1>5, <1>6, <1>7, <1>8, <1>9, <1>10, <1>11, <1>12, <1>13, <1>14, <1>15, <1>16, <1>17, <1>18, <1>19, <1>20, <1>21, <1>22, <1>23, <1>24, <1>25 DEF Next, Call, Login

(* Who goes to destroy the old version knows that the row moved on.         *)
LEMMA SupersededStep ==
    ASSUME TypeOK, Superseded, Unpublished, Copies, History, [Next]_vars
    PROVE  Superseded'
<1> USE BrokerAssumption, PointerParts DEF Actors, Cred, None, row, upstream, Upstream, TypeOK, Superseded, Unpublished, Copies, History
<1>1. ASSUME NEW a \in Callers, ReadPointer(a) PROVE Superseded'
  BY <1>1 DEF ReadPointer, Take, Goto
<1>2. ASSUME NEW a \in Callers, ReadSecret(a) PROVE Superseded'
  <2>1. pc[a] = "read" /\ UNCHANGED <<row, stored, upstream, grants>>
    BY <1>2 DEF ReadSecret
  <2>2. CASE Goto(a, "held") /\ UNCHANGED <<current, copy, got>>
    BY <2>1, <2>2 DEF Goto
  <2>3. CASE Finish(a) /\ current' = current \ {a}
    BY <2>1, <2>3 DEF Finish, Goto
  <2> QED BY <1>2, <2>2, <2>3 DEF ReadSecret
<1>3. ASSUME NEW a \in Callers, Serve(a) PROVE Superseded'
  BY <1>3 DEF Serve, Finish, NoCas, Grant, Goto
<1>4. ASSUME NEW a \in Callers, Lease(a) PROVE Superseded'
  <2>1. pc[a] = "held" /\ ~lease /\ Cas(a, ptr, TRUE) /\ UNCHANGED <<stored, upstream, grants>>
    BY <1>4 DEF Lease
  <2>2. CASE current' = {a} /\ Goto(a, "leased") /\ UNCHANGED <<copy, got>>
    BY <2>1, <2>2 DEF Cas, Goto
  <2>3. CASE current' = {} /\ Finish(a)
    BY <2>1, <2>3 DEF Cas, Finish, Goto
  <2> QED BY <1>4, <2>2, <2>3 DEF Lease
<1>5. ASSUME NEW a \in Callers, Wait(a) PROVE Superseded'
  BY <1>5 DEF Wait, Finish, NoCas, Goto
<1>6. ASSUME NEW a \in Callers, Refresh(a) PROVE Superseded'
  BY <1>6 DEF Refresh, Issue, Goto
<1>7. ASSUME NEW a \in Callers, InvalidGrant(a) PROVE Superseded'
  BY <1>7 DEF InvalidGrant, Goto
<1>8. ASSUME NEW a \in Callers, NoRefresh(a) PROVE Superseded'
  BY <1>8 DEF NoRefresh, Goto
<1>9. ASSUME NEW a \in Callers, ReleaseLease(a) PROVE Superseded'
  <2>1. pc[a] = "release" /\ Finish(a) /\ UNCHANGED <<stored, upstream>>
    BY <1>9 DEF ReleaseLease
  <2>2. CASE Cas(a, ptr, FALSE) /\ current' = {}
    BY <2>1, <2>2 DEF Cas, Finish, Goto
  <2>3. CASE NoCas(a)
    BY <2>1, <2>3 DEF NoCas, Finish, Goto
  <2> QED BY <1>9, <2>2, <2>3 DEF ReleaseLease
<1>10. ASSUME NEW a \in Callers, WriteSecret(a) PROVE Superseded'
  <2>1. pc[a] = "rotated" /\ UNCHANGED <<row, current, upstream, copy, got, grants>>
    BY <1>10 DEF WriteSecret
  <2>2. CASE stored' = stored \cup {got[a]} /\ Goto(a, "staged")
    BY <2>1, <2>2 DEF Goto
  <2>3. CASE UNCHANGED stored /\ Goto(a, "release")
    BY <2>1, <2>3 DEF Goto
  <2> QED BY <1>10, <2>2, <2>3 DEF WriteSecret
<1>11. ASSUME NEW a \in Callers, Publish(a) PROVE Superseded'
  <2>1. CASE Cas(a, After(copy[a], got[a]), FALSE) /\ current' = {} /\ pc'[a] \in {"retire", "unsure"}
    <3>1. a \in Actors /\ got[a] \in Cred \cup {None}
      BY DEF TypeOK, Actors
    <3>2. /\ copy[a] = ptr /\ ptr' \in Pointer /\ ptr'.gen = ptr.gen + 1
          /\ ptr'.secret = got[a] /\ named' = named \cup {ptr'} /\ lease' = FALSE
          /\ ptr' = [gen |-> copy[a].gen + 1, secret |-> got[a]]
      BY <2>1, <3>1, Landing
    <3> QED BY <1>11, <2>1, <3>2 DEF Publish, Cas, Goto, Grant
  <2>2. CASE NoCas(a) /\ Goto(a, "unsure") /\ UNCHANGED grants
    BY <1>11, <2>2 DEF Publish, NoCas, Goto, Grant
  <2> QED BY <1>11, <2>1, <2>2 DEF Publish, Goto, TypeOK, Actors
<1>12. ASSUME NEW a \in Callers, RereadPublished(a) PROVE Superseded'
  BY <1>12 DEF RereadPublished, Goto, Grant
<1>13. ASSUME NEW a \in Callers, RereadConsumed(a) PROVE Superseded'
  BY <1>13 DEF RereadConsumed, StillConsumed, Goto
<1>14. ASSUME NEW a \in Callers, RereadSuperseded(a) PROVE Superseded'
  BY <1>14 DEF RereadSuperseded, StillConsumed, Destroy, Finish, NoCas, Goto
<1>15. ASSUME NEW a \in Actors, Retire(a) PROVE Superseded'
  BY <1>15 DEF Retire, Destroy, Finish, NoCas, Goto
<1>16. ASSUME NEW a \in Callers, Clear(a) PROVE Superseded'
  <2>1. CASE Cas(a, After(copy[a], None), FALSE) /\ current' = {}
    <3>1. a \in Actors /\ None \in Cred \cup {None}
      BY DEF TypeOK, Actors
    <3>2. /\ copy[a] = ptr /\ ptr' \in Pointer /\ ptr'.gen = ptr.gen + 1
          /\ ptr'.secret = None /\ named' = named \cup {ptr'} /\ lease' = FALSE
          /\ ptr' = [gen |-> copy[a].gen + 1, secret |-> None]
      BY <2>1, <3>1, Landing
    <3> QED BY <1>16, <2>1, <3>2 DEF Clear, Cas, Finish, Goto
  <2>2. CASE NoCas(a)
    BY <1>16, <2>2 DEF Clear, NoCas, Finish, Goto
  <2> QED BY <1>16, <2>1, <2>2 DEF Clear, Goto, TypeOK, Actors
<1>17. ASSUME NEW a \in Logins, WriteLogin(a) PROVE Superseded'
  BY <1>17 DEF WriteLogin, Issue, Goto
<1>18. ASSUME NEW a \in Logins, ReadForLogin(a) PROVE Superseded'
  BY <1>18 DEF ReadForLogin, Take, Goto
<1>19. ASSUME NEW a \in Logins, CommitLogin(a) PROVE Superseded'
  <2>1. CASE Cas(a, After(copy[a], got[a]), FALSE) /\ current' = {} /\ pc'[a] \in {"retire", "unsure"}
    <3>1. a \in Actors /\ got[a] \in Cred \cup {None}
      BY DEF TypeOK, Actors
    <3>2. /\ copy[a] = ptr /\ ptr' \in Pointer /\ ptr'.gen = ptr.gen + 1
          /\ ptr'.secret = got[a] /\ named' = named \cup {ptr'} /\ lease' = FALSE
          /\ ptr' = [gen |-> copy[a].gen + 1, secret |-> got[a]]
      BY <2>1, <3>1, Landing
    <3> QED BY <1>19, <2>1, <3>2 DEF CommitLogin, Cas, Goto
  <2>2. CASE NoCas(a) /\ pc'[a] \in {"unsure", "written"}
    BY <1>19, <2>2 DEF CommitLogin, NoCas, Goto
  <2> QED BY <1>19, <2>1, <2>2 DEF CommitLogin, Goto, TypeOK, Actors
<1>20. ASSUME NEW a \in Logins, EndLogin(a) PROVE Superseded'
  BY <1>20 DEF EndLogin, Finish, NoCas, Goto
<1>21. ASSUME NEW a \in Logins, ExhaustLogin(a) PROVE Superseded'
  BY <1>21 DEF ExhaustLogin, Destroy, Finish, NoCas, Goto
<1>22. ASSUME NEW a \in Actors, Abandon(a) PROVE Superseded'
  BY <1>22 DEF Abandon, Finish, NoCas, Goto
<1>23. ASSUME NEW c \in Cred, Revoke(c) PROVE Superseded'
  BY <1>23 DEF Revoke
<1>24. CASE ExpireLease
  BY <1>24 DEF ExpireLease
<1>25. CASE UNCHANGED vars
  BY <1>25 DEF vars
<1> QED BY <1>1, <1>2, <1>3, <1>4, <1>5, <1>6, <1>7, <1>8, <1>9, <1>10, <1>11, <1>12, <1>13, <1>14, <1>15, <1>16, <1>17, <1>18, <1>19, <1>20, <1>21, <1>22, <1>23, <1>24, <1>25 DEF Next, Call, Login

(* A refresh publishes the rotation of what it read, a login its own.       *)
LEMMA LineageStep ==
    ASSUME TypeOK, Lineage, Own, Places, Copies, [Next]_vars
    PROVE  Lineage'
<1> USE BrokerAssumption DEF Actors, Cred, None, row, upstream, Upstream, TypeOK, Lineage, Own, Places, CallerSteps, LoginSteps, Copies
<1>1. ASSUME NEW a \in Callers, ReadPointer(a) PROVE Lineage'
  BY <1>1 DEF ReadPointer, Take, Goto
<1>2. ASSUME NEW a \in Callers, ReadSecret(a) PROVE Lineage'
  <2>1. pc[a] = "read" /\ UNCHANGED <<row, stored, upstream, grants>>
    BY <1>2 DEF ReadSecret
  <2>2. CASE Goto(a, "held") /\ UNCHANGED <<current, copy, got>>
    BY <2>1, <2>2 DEF Goto
  <2>3. CASE Finish(a) /\ current' = current \ {a}
    BY <2>1, <2>3 DEF Finish, Goto
  <2> QED BY <1>2, <2>2, <2>3 DEF ReadSecret
<1>3. ASSUME NEW a \in Callers, Serve(a) PROVE Lineage'
  BY <1>3 DEF Serve, Finish, NoCas, Grant, Goto
<1>4. ASSUME NEW a \in Callers, Lease(a) PROVE Lineage'
  <2>1. pc[a] = "held" /\ ~lease /\ Cas(a, ptr, TRUE) /\ UNCHANGED <<stored, upstream, grants>>
    BY <1>4 DEF Lease
  <2>2. CASE current' = {a} /\ Goto(a, "leased") /\ UNCHANGED <<copy, got>>
    BY <2>1, <2>2 DEF Cas, Goto
  <2>3. CASE current' = {} /\ Finish(a)
    BY <2>1, <2>3 DEF Cas, Finish, Goto
  <2> QED BY <1>4, <2>2, <2>3 DEF Lease
<1>5. ASSUME NEW a \in Callers, Wait(a) PROVE Lineage'
  BY <1>5 DEF Wait, Finish, NoCas, Goto
<1>6. ASSUME NEW a \in Callers, Refresh(a) PROVE Lineage'
  <2>1. CASE Goto(a, "rotated") /\ got' = [got EXCEPT ![a] = issued']
    BY <1>6, <2>1 DEF Refresh, Issue, Goto
  <2>2. CASE Goto(a, "release") /\ UNCHANGED got
    BY <1>6, <2>2 DEF Refresh, Issue, Goto
  <2> QED BY <1>6, <2>1, <2>2 DEF Refresh
<1>7. ASSUME NEW a \in Callers, InvalidGrant(a) PROVE Lineage'
  BY <1>7 DEF InvalidGrant, Goto
<1>8. ASSUME NEW a \in Callers, NoRefresh(a) PROVE Lineage'
  BY <1>8 DEF NoRefresh, Goto
<1>9. ASSUME NEW a \in Callers, ReleaseLease(a) PROVE Lineage'
  <2>1. pc[a] = "release" /\ Finish(a) /\ UNCHANGED <<stored, upstream>>
    BY <1>9 DEF ReleaseLease
  <2>2. CASE Cas(a, ptr, FALSE) /\ current' = {}
    BY <2>1, <2>2 DEF Cas, Finish, Goto
  <2>3. CASE NoCas(a)
    BY <2>1, <2>3 DEF NoCas, Finish, Goto
  <2> QED BY <1>9, <2>2, <2>3 DEF ReleaseLease
<1>10. ASSUME NEW a \in Callers, WriteSecret(a) PROVE Lineage'
  <2>1. pc[a] = "rotated" /\ UNCHANGED <<row, current, upstream, copy, got, grants>>
    BY <1>10 DEF WriteSecret
  <2>2. CASE stored' = stored \cup {got[a]} /\ Goto(a, "staged")
    BY <2>1, <2>2 DEF Goto
  <2>3. CASE UNCHANGED stored /\ Goto(a, "release")
    BY <2>1, <2>3 DEF Goto
  <2> QED BY <1>10, <2>2, <2>3 DEF WriteSecret
<1>11. ASSUME NEW a \in Callers, Publish(a) PROVE Lineage'
  <2>1. CASE Cas(a, After(copy[a], got[a]), FALSE) /\ current' = {} /\ pc'[a] \in {"retire", "unsure"}
    <3>1. a \in Actors /\ got[a] \in Cred \cup {None}
      BY DEF TypeOK, Actors
    <3>2. /\ copy[a] = ptr /\ ptr' \in Pointer /\ ptr'.gen = ptr.gen + 1
          /\ ptr'.secret = got[a] /\ named' = named \cup {ptr'} /\ lease' = FALSE
          /\ ptr' = [gen |-> copy[a].gen + 1, secret |-> got[a]]
      BY <2>1, <3>1, Landing
    <3> QED BY <1>11, <2>1, <3>2 DEF Publish, Cas, Goto, Grant
  <2>2. CASE NoCas(a) /\ Goto(a, "unsure") /\ UNCHANGED grants
    BY <1>11, <2>2 DEF Publish, NoCas, Goto, Grant
  <2> QED BY <1>11, <2>1, <2>2 DEF Publish, Goto, TypeOK, Actors
<1>12. ASSUME NEW a \in Callers, RereadPublished(a) PROVE Lineage'
  BY <1>12 DEF RereadPublished, Goto, Grant
<1>13. ASSUME NEW a \in Callers, RereadConsumed(a) PROVE Lineage'
  BY <1>13 DEF RereadConsumed, StillConsumed, Goto
<1>14. ASSUME NEW a \in Callers, RereadSuperseded(a) PROVE Lineage'
  BY <1>14 DEF RereadSuperseded, StillConsumed, Destroy, Finish, NoCas, Goto
<1>15. ASSUME NEW a \in Actors, Retire(a) PROVE Lineage'
  BY <1>15 DEF Retire, Destroy, Finish, NoCas, Goto
<1>16. ASSUME NEW a \in Callers, Clear(a) PROVE Lineage'
  <2>1. CASE Cas(a, After(copy[a], None), FALSE) /\ current' = {}
    <3>1. a \in Actors /\ None \in Cred \cup {None}
      BY DEF TypeOK, Actors
    <3>2. /\ copy[a] = ptr /\ ptr' \in Pointer /\ ptr'.gen = ptr.gen + 1
          /\ ptr'.secret = None /\ named' = named \cup {ptr'} /\ lease' = FALSE
          /\ ptr' = [gen |-> copy[a].gen + 1, secret |-> None]
      BY <2>1, <3>1, Landing
    <3> QED BY <1>16, <2>1, <3>2 DEF Clear, Cas, Finish, Goto
  <2>2. CASE NoCas(a)
    BY <1>16, <2>2 DEF Clear, NoCas, Finish, Goto
  <2> QED BY <1>16, <2>1, <2>2 DEF Clear, Goto, TypeOK, Actors
<1>17. ASSUME NEW a \in Logins, WriteLogin(a) PROVE Lineage'
  <2>1. CASE got' = [got EXCEPT ![a] = issued'] /\ Goto(a, "written")
             /\ stored' = stored \cup {issued'}
    BY <1>17, <2>1 DEF WriteLogin, Issue, Goto
  <2>2. CASE UNCHANGED <<stored, got, pc>>
    BY <1>17, <2>2 DEF WriteLogin, Issue, Goto
  <2> QED BY <1>17, <2>1, <2>2 DEF WriteLogin
<1>18. ASSUME NEW a \in Logins, ReadForLogin(a) PROVE Lineage'
  BY <1>18 DEF ReadForLogin, Take, Goto
<1>19. ASSUME NEW a \in Logins, CommitLogin(a) PROVE Lineage'
  <2>1. CASE Cas(a, After(copy[a], got[a]), FALSE) /\ current' = {} /\ pc'[a] \in {"retire", "unsure"}
    <3>1. a \in Actors /\ got[a] \in Cred \cup {None}
      BY DEF TypeOK, Actors
    <3>2. /\ copy[a] = ptr /\ ptr' \in Pointer /\ ptr'.gen = ptr.gen + 1
          /\ ptr'.secret = got[a] /\ named' = named \cup {ptr'} /\ lease' = FALSE
          /\ ptr' = [gen |-> copy[a].gen + 1, secret |-> got[a]]
      BY <2>1, <3>1, Landing
    <3> QED BY <1>19, <2>1, <3>2 DEF CommitLogin, Cas, Goto
  <2>2. CASE NoCas(a) /\ pc'[a] \in {"unsure", "written"}
    BY <1>19, <2>2 DEF CommitLogin, NoCas, Goto
  <2> QED BY <1>19, <2>1, <2>2 DEF CommitLogin, Goto, TypeOK, Actors
<1>20. ASSUME NEW a \in Logins, EndLogin(a) PROVE Lineage'
  BY <1>20 DEF EndLogin, Finish, NoCas, Goto
<1>21. ASSUME NEW a \in Logins, ExhaustLogin(a) PROVE Lineage'
  BY <1>21 DEF ExhaustLogin, Destroy, Finish, NoCas, Goto
<1>22. ASSUME NEW a \in Actors, Abandon(a) PROVE Lineage'
  BY <1>22 DEF Abandon, Finish, NoCas, Goto
<1>23. ASSUME NEW c \in Cred, Revoke(c) PROVE Lineage'
  BY <1>23 DEF Revoke
<1>24. CASE ExpireLease
  BY <1>24 DEF ExpireLease
<1>25. CASE UNCHANGED vars
  BY <1>25 DEF vars
<1> QED BY <1>1, <1>2, <1>3, <1>4, <1>5, <1>6, <1>7, <1>8, <1>9, <1>10, <1>11, <1>12, <1>13, <1>14, <1>15, <1>16, <1>17, <1>18, <1>19, <1>20, <1>21, <1>22, <1>23, <1>24, <1>25 DEF Next, Call, Login

(* A token that the provider refused stays refused.                         *)
LEMMA RefusedStep ==
    ASSUME TypeOK, Refused, Copies, History, [Next]_vars
    PROVE  Refused'
<1> USE BrokerAssumption, PointerParts DEF Actors, Cred, None, row, upstream, Upstream, TypeOK, Refused, Copies, History
<1>1. ASSUME NEW a \in Callers, ReadPointer(a) PROVE Refused'
  BY <1>1 DEF ReadPointer, Take, Goto
<1>2. ASSUME NEW a \in Callers, ReadSecret(a) PROVE Refused'
  <2>1. pc[a] = "read" /\ UNCHANGED <<row, stored, upstream, grants>>
    BY <1>2 DEF ReadSecret
  <2>2. CASE Goto(a, "held") /\ UNCHANGED <<current, copy, got>>
    BY <2>1, <2>2 DEF Goto
  <2>3. CASE Finish(a) /\ current' = current \ {a}
    BY <2>1, <2>3 DEF Finish, Goto
  <2> QED BY <1>2, <2>2, <2>3 DEF ReadSecret
<1>3. ASSUME NEW a \in Callers, Serve(a) PROVE Refused'
  BY <1>3 DEF Serve, Finish, NoCas, Grant, Goto
<1>4. ASSUME NEW a \in Callers, Lease(a) PROVE Refused'
  <2>1. pc[a] = "held" /\ ~lease /\ Cas(a, ptr, TRUE) /\ UNCHANGED <<stored, upstream, grants>>
    BY <1>4 DEF Lease
  <2>2. CASE current' = {a} /\ Goto(a, "leased") /\ UNCHANGED <<copy, got>>
    BY <2>1, <2>2 DEF Cas, Goto
  <2>3. CASE current' = {} /\ Finish(a)
    BY <2>1, <2>3 DEF Cas, Finish, Goto
  <2> QED BY <1>4, <2>2, <2>3 DEF Lease
<1>5. ASSUME NEW a \in Callers, Wait(a) PROVE Refused'
  BY <1>5 DEF Wait, Finish, NoCas, Goto
<1>6. ASSUME NEW a \in Callers, Refresh(a) PROVE Refused'
  BY <1>6 DEF Refresh, Issue, Goto
<1>7. ASSUME NEW a \in Callers, InvalidGrant(a) PROVE Refused'
  BY <1>7 DEF InvalidGrant, Goto
<1>8. ASSUME NEW a \in Callers, NoRefresh(a) PROVE Refused'
  BY <1>8 DEF NoRefresh, Goto
<1>9. ASSUME NEW a \in Callers, ReleaseLease(a) PROVE Refused'
  <2>1. pc[a] = "release" /\ Finish(a) /\ UNCHANGED <<stored, upstream>>
    BY <1>9 DEF ReleaseLease
  <2>2. CASE Cas(a, ptr, FALSE) /\ current' = {}
    BY <2>1, <2>2 DEF Cas, Finish, Goto
  <2>3. CASE NoCas(a)
    BY <2>1, <2>3 DEF NoCas, Finish, Goto
  <2> QED BY <1>9, <2>2, <2>3 DEF ReleaseLease
<1>10. ASSUME NEW a \in Callers, WriteSecret(a) PROVE Refused'
  <2>1. pc[a] = "rotated" /\ UNCHANGED <<row, current, upstream, copy, got, grants>>
    BY <1>10 DEF WriteSecret
  <2>2. CASE stored' = stored \cup {got[a]} /\ Goto(a, "staged")
    BY <2>1, <2>2 DEF Goto
  <2>3. CASE UNCHANGED stored /\ Goto(a, "release")
    BY <2>1, <2>3 DEF Goto
  <2> QED BY <1>10, <2>2, <2>3 DEF WriteSecret
<1>11. ASSUME NEW a \in Callers, Publish(a) PROVE Refused'
  <2>1. CASE Cas(a, After(copy[a], got[a]), FALSE) /\ current' = {} /\ pc'[a] \in {"retire", "unsure"}
    <3>1. a \in Actors /\ got[a] \in Cred \cup {None}
      BY DEF TypeOK, Actors
    <3>2. /\ copy[a] = ptr /\ ptr' \in Pointer /\ ptr'.gen = ptr.gen + 1
          /\ ptr'.secret = got[a] /\ named' = named \cup {ptr'} /\ lease' = FALSE
          /\ ptr' = [gen |-> copy[a].gen + 1, secret |-> got[a]]
      BY <2>1, <3>1, Landing
    <3> QED BY <1>11, <2>1, <3>2 DEF Publish, Cas, Goto, Grant
  <2>2. CASE NoCas(a) /\ Goto(a, "unsure") /\ UNCHANGED grants
    BY <1>11, <2>2 DEF Publish, NoCas, Goto, Grant
  <2> QED BY <1>11, <2>1, <2>2 DEF Publish, Goto, TypeOK, Actors
<1>12. ASSUME NEW a \in Callers, RereadPublished(a) PROVE Refused'
  BY <1>12 DEF RereadPublished, Goto, Grant
<1>13. ASSUME NEW a \in Callers, RereadConsumed(a) PROVE Refused'
  BY <1>13 DEF RereadConsumed, StillConsumed, Goto
<1>14. ASSUME NEW a \in Callers, RereadSuperseded(a) PROVE Refused'
  BY <1>14 DEF RereadSuperseded, StillConsumed, Destroy, Finish, NoCas, Goto
<1>15. ASSUME NEW a \in Actors, Retire(a) PROVE Refused'
  BY <1>15 DEF Retire, Destroy, Finish, NoCas, Goto
<1>16. ASSUME NEW a \in Callers, Clear(a) PROVE Refused'
  <2>1. CASE Cas(a, After(copy[a], None), FALSE) /\ current' = {}
    <3>1. a \in Actors /\ None \in Cred \cup {None}
      BY DEF TypeOK, Actors
    <3>2. /\ copy[a] = ptr /\ ptr' \in Pointer /\ ptr'.gen = ptr.gen + 1
          /\ ptr'.secret = None /\ named' = named \cup {ptr'} /\ lease' = FALSE
          /\ ptr' = [gen |-> copy[a].gen + 1, secret |-> None]
      BY <2>1, <3>1, Landing
    <3> QED BY <1>16, <2>1, <3>2 DEF Clear, Cas, Finish, Goto
  <2>2. CASE NoCas(a)
    BY <1>16, <2>2 DEF Clear, NoCas, Finish, Goto
  <2> QED BY <1>16, <2>1, <2>2 DEF Clear, Goto, TypeOK, Actors
<1>17. ASSUME NEW a \in Logins, WriteLogin(a) PROVE Refused'
  BY <1>17 DEF WriteLogin, Issue, Goto
<1>18. ASSUME NEW a \in Logins, ReadForLogin(a) PROVE Refused'
  BY <1>18 DEF ReadForLogin, Take, Goto
<1>19. ASSUME NEW a \in Logins, CommitLogin(a) PROVE Refused'
  <2>1. CASE Cas(a, After(copy[a], got[a]), FALSE) /\ current' = {} /\ pc'[a] \in {"retire", "unsure"}
    <3>1. a \in Actors /\ got[a] \in Cred \cup {None}
      BY DEF TypeOK, Actors
    <3>2. /\ copy[a] = ptr /\ ptr' \in Pointer /\ ptr'.gen = ptr.gen + 1
          /\ ptr'.secret = got[a] /\ named' = named \cup {ptr'} /\ lease' = FALSE
          /\ ptr' = [gen |-> copy[a].gen + 1, secret |-> got[a]]
      BY <2>1, <3>1, Landing
    <3> QED BY <1>19, <2>1, <3>2 DEF CommitLogin, Cas, Goto
  <2>2. CASE NoCas(a) /\ pc'[a] \in {"unsure", "written"}
    BY <1>19, <2>2 DEF CommitLogin, NoCas, Goto
  <2> QED BY <1>19, <2>1, <2>2 DEF CommitLogin, Goto, TypeOK, Actors
<1>20. ASSUME NEW a \in Logins, EndLogin(a) PROVE Refused'
  BY <1>20 DEF EndLogin, Finish, NoCas, Goto
<1>21. ASSUME NEW a \in Logins, ExhaustLogin(a) PROVE Refused'
  BY <1>21 DEF ExhaustLogin, Destroy, Finish, NoCas, Goto
<1>22. ASSUME NEW a \in Actors, Abandon(a) PROVE Refused'
  BY <1>22 DEF Abandon, Finish, NoCas, Goto
<1>23. ASSUME NEW c \in Cred, Revoke(c) PROVE Refused'
  BY <1>23 DEF Revoke
<1>24. CASE ExpireLease
  BY <1>24 DEF ExpireLease
<1>25. CASE UNCHANGED vars
  BY <1>25 DEF vars
<1> QED BY <1>1, <1>2, <1>3, <1>4, <1>5, <1>6, <1>7, <1>8, <1>9, <1>10, <1>11, <1>12, <1>13, <1>14, <1>15, <1>16, <1>17, <1>18, <1>19, <1>20, <1>21, <1>22, <1>23, <1>24, <1>25 DEF Next, Call, Login

(* The lease of a caller that is upstream in time is given up by nobody else, *)
(* as long as the row's credential is the one it submitted.                 *)
LEMMA ExclusiveStep ==
    ASSUME TypeOK, Exclusive, Copies, History, Places, [Next]_vars
    PROVE  Exclusive'
<1> USE BrokerAssumption, PointerParts DEF Actors, Cred, None, row, upstream, Upstream, TypeOK, Exclusive, Copies, History, Places, CallerSteps, LoginSteps
<1>1. ASSUME NEW a \in Callers, ReadPointer(a) PROVE Exclusive'
  BY <1>1 DEF ReadPointer, Take, Goto
<1>2. ASSUME NEW a \in Callers, ReadSecret(a) PROVE Exclusive'
  <2>1. pc[a] = "read" /\ UNCHANGED <<row, stored, upstream, grants>>
    BY <1>2 DEF ReadSecret
  <2>2. CASE Goto(a, "held") /\ UNCHANGED <<current, copy, got>>
    BY <2>1, <2>2 DEF Goto
  <2>3. CASE Finish(a) /\ current' = current \ {a}
    BY <2>1, <2>3 DEF Finish, Goto
  <2> QED BY <1>2, <2>2, <2>3 DEF ReadSecret
<1>3. ASSUME NEW a \in Callers, Serve(a) PROVE Exclusive'
  BY <1>3 DEF Serve, Finish, NoCas, Grant, Goto
<1>4. ASSUME NEW a \in Callers, Lease(a) PROVE Exclusive'
  <2>1. pc[a] = "held" /\ ~lease /\ Cas(a, ptr, TRUE) /\ UNCHANGED <<stored, upstream, grants>>
    BY <1>4 DEF Lease
  <2>2. CASE current' = {a} /\ Goto(a, "leased") /\ UNCHANGED <<copy, got>>
    BY <2>1, <2>2 DEF Cas, Goto
  <2>3. CASE current' = {} /\ Finish(a)
    BY <2>1, <2>3 DEF Cas, Finish, Goto
  <2> QED BY <1>4, <2>2, <2>3 DEF Lease
<1>5. ASSUME NEW a \in Callers, Wait(a) PROVE Exclusive'
  BY <1>5 DEF Wait, Finish, NoCas, Goto
<1>6. ASSUME NEW a \in Callers, Refresh(a) PROVE Exclusive'
  BY <1>6 DEF Refresh, Issue, Goto
<1>7. ASSUME NEW a \in Callers, InvalidGrant(a) PROVE Exclusive'
  BY <1>7 DEF InvalidGrant, Goto
<1>8. ASSUME NEW a \in Callers, NoRefresh(a) PROVE Exclusive'
  BY <1>8 DEF NoRefresh, Goto
<1>9. ASSUME NEW a \in Callers, ReleaseLease(a) PROVE Exclusive'
  <2>1. pc[a] = "release" /\ Finish(a) /\ UNCHANGED <<stored, upstream>>
    BY <1>9 DEF ReleaseLease
  <2>2. CASE Cas(a, ptr, FALSE) /\ current' = {}
    BY <2>1, <2>2 DEF Cas, Finish, Goto
  <2>3. CASE NoCas(a)
    BY <2>1, <2>3 DEF NoCas, Finish, Goto
  <2> QED BY <1>9, <2>2, <2>3 DEF ReleaseLease
<1>10. ASSUME NEW a \in Callers, WriteSecret(a) PROVE Exclusive'
  <2>1. pc[a] = "rotated" /\ UNCHANGED <<row, current, upstream, copy, got, grants>>
    BY <1>10 DEF WriteSecret
  <2>2. CASE stored' = stored \cup {got[a]} /\ Goto(a, "staged")
    BY <2>1, <2>2 DEF Goto
  <2>3. CASE UNCHANGED stored /\ Goto(a, "release")
    BY <2>1, <2>3 DEF Goto
  <2> QED BY <1>10, <2>2, <2>3 DEF WriteSecret
<1>11. ASSUME NEW a \in Callers, Publish(a) PROVE Exclusive'
  <2>1. CASE Cas(a, After(copy[a], got[a]), FALSE) /\ current' = {} /\ pc'[a] \in {"retire", "unsure"}
    <3>1. a \in Actors /\ got[a] \in Cred \cup {None}
      BY DEF TypeOK, Actors
    <3>2. /\ copy[a] = ptr /\ ptr' \in Pointer /\ ptr'.gen = ptr.gen + 1
          /\ ptr'.secret = got[a] /\ named' = named \cup {ptr'} /\ lease' = FALSE
          /\ ptr' = [gen |-> copy[a].gen + 1, secret |-> got[a]]
      BY <2>1, <3>1, Landing
    <3> QED BY <1>11, <2>1, <3>2 DEF Publish, Cas, Goto, Grant
  <2>2. CASE NoCas(a) /\ Goto(a, "unsure") /\ UNCHANGED grants
    BY <1>11, <2>2 DEF Publish, NoCas, Goto, Grant
  <2> QED BY <1>11, <2>1, <2>2 DEF Publish, Goto, TypeOK, Actors
<1>12. ASSUME NEW a \in Callers, RereadPublished(a) PROVE Exclusive'
  BY <1>12 DEF RereadPublished, Goto, Grant
<1>13. ASSUME NEW a \in Callers, RereadConsumed(a) PROVE Exclusive'
  BY <1>13 DEF RereadConsumed, StillConsumed, Goto
<1>14. ASSUME NEW a \in Callers, RereadSuperseded(a) PROVE Exclusive'
  BY <1>14 DEF RereadSuperseded, StillConsumed, Destroy, Finish, NoCas, Goto
<1>15. ASSUME NEW a \in Actors, Retire(a) PROVE Exclusive'
  BY <1>15 DEF Retire, Destroy, Finish, NoCas, Goto
<1>16. ASSUME NEW a \in Callers, Clear(a) PROVE Exclusive'
  <2>1. CASE Cas(a, After(copy[a], None), FALSE) /\ current' = {}
    <3>1. a \in Actors /\ None \in Cred \cup {None}
      BY DEF TypeOK, Actors
    <3>2. /\ copy[a] = ptr /\ ptr' \in Pointer /\ ptr'.gen = ptr.gen + 1
          /\ ptr'.secret = None /\ named' = named \cup {ptr'} /\ lease' = FALSE
          /\ ptr' = [gen |-> copy[a].gen + 1, secret |-> None]
      BY <2>1, <3>1, Landing
    <3> QED BY <1>16, <2>1, <3>2 DEF Clear, Cas, Finish, Goto
  <2>2. CASE NoCas(a)
    BY <1>16, <2>2 DEF Clear, NoCas, Finish, Goto
  <2> QED BY <1>16, <2>1, <2>2 DEF Clear, Goto, TypeOK, Actors
<1>17. ASSUME NEW a \in Logins, WriteLogin(a) PROVE Exclusive'
  BY <1>17 DEF WriteLogin, Issue, Goto
<1>18. ASSUME NEW a \in Logins, ReadForLogin(a) PROVE Exclusive'
  BY <1>18 DEF ReadForLogin, Take, Goto
<1>19. ASSUME NEW a \in Logins, CommitLogin(a) PROVE Exclusive'
  <2>1. CASE Cas(a, After(copy[a], got[a]), FALSE) /\ current' = {} /\ pc'[a] \in {"retire", "unsure"}
    <3>1. a \in Actors /\ got[a] \in Cred \cup {None}
      BY DEF TypeOK, Actors
    <3>2. /\ copy[a] = ptr /\ ptr' \in Pointer /\ ptr'.gen = ptr.gen + 1
          /\ ptr'.secret = got[a] /\ named' = named \cup {ptr'} /\ lease' = FALSE
          /\ ptr' = [gen |-> copy[a].gen + 1, secret |-> got[a]]
      BY <2>1, <3>1, Landing
    <3> QED BY <1>19, <2>1, <3>2 DEF CommitLogin, Cas, Goto
  <2>2. CASE NoCas(a) /\ pc'[a] \in {"unsure", "written"}
    BY <1>19, <2>2 DEF CommitLogin, NoCas, Goto
  <2> QED BY <1>19, <2>1, <2>2 DEF CommitLogin, Goto, TypeOK, Actors
<1>20. ASSUME NEW a \in Logins, EndLogin(a) PROVE Exclusive'
  BY <1>20 DEF EndLogin, Finish, NoCas, Goto
<1>21. ASSUME NEW a \in Logins, ExhaustLogin(a) PROVE Exclusive'
  BY <1>21 DEF ExhaustLogin, Destroy, Finish, NoCas, Goto
<1>22. ASSUME NEW a \in Actors, Abandon(a) PROVE Exclusive'
  BY <1>22 DEF Abandon, Finish, NoCas, Goto
<1>23. ASSUME NEW c \in Cred, Revoke(c) PROVE Exclusive'
  BY <1>23 DEF Revoke
<1>24. CASE ExpireLease
  BY <1>24 DEF ExpireLease
<1>25. CASE UNCHANGED vars
  BY <1>25 DEF vars
<1> QED BY <1>1, <1>2, <1>3, <1>4, <1>5, <1>6, <1>7, <1>8, <1>9, <1>10, <1>11, <1>12, <1>13, <1>14, <1>15, <1>16, <1>17, <1>18, <1>19, <1>20, <1>21, <1>22, <1>23, <1>24, <1>25 DEF Next, Call, Login

(* No second caller gets a lease on a credential that is upstream already.  *)
LEMMA CoalesceStep ==
    ASSUME TypeOK, RefreshesCoalesce, Exclusive, Copies, History, Places, [Next]_vars
    PROVE  RefreshesCoalesce'
<1> USE BrokerAssumption, PointerParts DEF Actors, Cred, None, row, upstream, Upstream, TypeOK, RefreshesCoalesce, Exclusive, Copies, History, Places, LoginSteps, OneCredentialPerGeneration
<1>1. ASSUME NEW a \in Callers, ReadPointer(a) PROVE RefreshesCoalesce'
  BY <1>1 DEF ReadPointer, Take, Goto
<1>2. ASSUME NEW a \in Callers, ReadSecret(a) PROVE RefreshesCoalesce'
  <2>1. pc[a] = "read" /\ UNCHANGED <<row, stored, upstream, grants>>
    BY <1>2 DEF ReadSecret
  <2>2. CASE Goto(a, "held") /\ UNCHANGED <<current, copy, got>>
    BY <2>1, <2>2 DEF Goto
  <2>3. CASE Finish(a) /\ current' = current \ {a}
    BY <2>1, <2>3 DEF Finish, Goto
  <2> QED BY <1>2, <2>2, <2>3 DEF ReadSecret
<1>3. ASSUME NEW a \in Callers, Serve(a) PROVE RefreshesCoalesce'
  BY <1>3 DEF Serve, Finish, NoCas, Grant, Goto
<1>4. ASSUME NEW a \in Callers, Lease(a) PROVE RefreshesCoalesce'
  <2>1. pc[a] = "held" /\ ~lease /\ Cas(a, ptr, TRUE) /\ UNCHANGED <<stored, upstream, grants>>
    BY <1>4 DEF Lease
  <2>2. CASE current' = {a} /\ Goto(a, "leased") /\ UNCHANGED <<copy, got>>
    BY <2>1, <2>2 DEF Cas, Goto
  <2>3. CASE current' = {} /\ Finish(a)
    BY <2>1, <2>3 DEF Cas, Finish, Goto
  <2> QED BY <1>4, <2>2, <2>3 DEF Lease
<1>5. ASSUME NEW a \in Callers, Wait(a) PROVE RefreshesCoalesce'
  BY <1>5 DEF Wait, Finish, NoCas, Goto
<1>6. ASSUME NEW a \in Callers, Refresh(a) PROVE RefreshesCoalesce'
  BY <1>6 DEF Refresh, Issue, Goto
<1>7. ASSUME NEW a \in Callers, InvalidGrant(a) PROVE RefreshesCoalesce'
  BY <1>7 DEF InvalidGrant, Goto
<1>8. ASSUME NEW a \in Callers, NoRefresh(a) PROVE RefreshesCoalesce'
  BY <1>8 DEF NoRefresh, Goto
<1>9. ASSUME NEW a \in Callers, ReleaseLease(a) PROVE RefreshesCoalesce'
  <2>1. pc[a] = "release" /\ Finish(a) /\ UNCHANGED <<stored, upstream>>
    BY <1>9 DEF ReleaseLease
  <2>2. CASE Cas(a, ptr, FALSE) /\ current' = {}
    BY <2>1, <2>2 DEF Cas, Finish, Goto
  <2>3. CASE NoCas(a)
    BY <2>1, <2>3 DEF NoCas, Finish, Goto
  <2> QED BY <1>9, <2>2, <2>3 DEF ReleaseLease
<1>10. ASSUME NEW a \in Callers, WriteSecret(a) PROVE RefreshesCoalesce'
  <2>1. pc[a] = "rotated" /\ UNCHANGED <<row, current, upstream, copy, got, grants>>
    BY <1>10 DEF WriteSecret
  <2>2. CASE stored' = stored \cup {got[a]} /\ Goto(a, "staged")
    BY <2>1, <2>2 DEF Goto
  <2>3. CASE UNCHANGED stored /\ Goto(a, "release")
    BY <2>1, <2>3 DEF Goto
  <2> QED BY <1>10, <2>2, <2>3 DEF WriteSecret
<1>11. ASSUME NEW a \in Callers, Publish(a) PROVE RefreshesCoalesce'
  <2>1. CASE Cas(a, After(copy[a], got[a]), FALSE) /\ current' = {} /\ pc'[a] \in {"retire", "unsure"}
    <3>1. a \in Actors /\ got[a] \in Cred \cup {None}
      BY DEF TypeOK, Actors
    <3>2. /\ copy[a] = ptr /\ ptr' \in Pointer /\ ptr'.gen = ptr.gen + 1
          /\ ptr'.secret = got[a] /\ named' = named \cup {ptr'} /\ lease' = FALSE
          /\ ptr' = [gen |-> copy[a].gen + 1, secret |-> got[a]]
      BY <2>1, <3>1, Landing
    <3> QED BY <1>11, <2>1, <3>2 DEF Publish, Cas, Goto, Grant
  <2>2. CASE NoCas(a) /\ Goto(a, "unsure") /\ UNCHANGED grants
    BY <1>11, <2>2 DEF Publish, NoCas, Goto, Grant
  <2> QED BY <1>11, <2>1, <2>2 DEF Publish, Goto, TypeOK, Actors
<1>12. ASSUME NEW a \in Callers, RereadPublished(a) PROVE RefreshesCoalesce'
  BY <1>12 DEF RereadPublished, Goto, Grant
<1>13. ASSUME NEW a \in Callers, RereadConsumed(a) PROVE RefreshesCoalesce'
  BY <1>13 DEF RereadConsumed, StillConsumed, Goto
<1>14. ASSUME NEW a \in Callers, RereadSuperseded(a) PROVE RefreshesCoalesce'
  BY <1>14 DEF RereadSuperseded, StillConsumed, Destroy, Finish, NoCas, Goto
<1>15. ASSUME NEW a \in Actors, Retire(a) PROVE RefreshesCoalesce'
  BY <1>15 DEF Retire, Destroy, Finish, NoCas, Goto
<1>16. ASSUME NEW a \in Callers, Clear(a) PROVE RefreshesCoalesce'
  <2>1. CASE Cas(a, After(copy[a], None), FALSE) /\ current' = {}
    <3>1. a \in Actors /\ None \in Cred \cup {None}
      BY DEF TypeOK, Actors
    <3>2. /\ copy[a] = ptr /\ ptr' \in Pointer /\ ptr'.gen = ptr.gen + 1
          /\ ptr'.secret = None /\ named' = named \cup {ptr'} /\ lease' = FALSE
          /\ ptr' = [gen |-> copy[a].gen + 1, secret |-> None]
      BY <2>1, <3>1, Landing
    <3> QED BY <1>16, <2>1, <3>2 DEF Clear, Cas, Finish, Goto
  <2>2. CASE NoCas(a)
    BY <1>16, <2>2 DEF Clear, NoCas, Finish, Goto
  <2> QED BY <1>16, <2>1, <2>2 DEF Clear, Goto, TypeOK, Actors
<1>17. ASSUME NEW a \in Logins, WriteLogin(a) PROVE RefreshesCoalesce'
  BY <1>17 DEF WriteLogin, Issue, Goto
<1>18. ASSUME NEW a \in Logins, ReadForLogin(a) PROVE RefreshesCoalesce'
  BY <1>18 DEF ReadForLogin, Take, Goto
<1>19. ASSUME NEW a \in Logins, CommitLogin(a) PROVE RefreshesCoalesce'
  <2>1. \A b \in Callers : pc'[b] = pc[b] /\ copy'[b] = copy[b]
    BY <1>19 DEF CommitLogin, Goto
  <2> QED BY <2>1
<1>20. ASSUME NEW a \in Logins, EndLogin(a) PROVE RefreshesCoalesce'
  BY <1>20 DEF EndLogin, Finish, NoCas, Goto
<1>21. ASSUME NEW a \in Logins, ExhaustLogin(a) PROVE RefreshesCoalesce'
  BY <1>21 DEF ExhaustLogin, Destroy, Finish, NoCas, Goto
<1>22. ASSUME NEW a \in Actors, Abandon(a) PROVE RefreshesCoalesce'
  BY <1>22 DEF Abandon, Finish, NoCas, Goto
<1>23. ASSUME NEW c \in Cred, Revoke(c) PROVE RefreshesCoalesce'
  BY <1>23 DEF Revoke
<1>24. CASE ExpireLease
  BY <1>24 DEF ExpireLease
<1>25. CASE UNCHANGED vars
  BY <1>25 DEF vars
<1> QED BY <1>1, <1>2, <1>3, <1>4, <1>5, <1>6, <1>7, <1>8, <1>9, <1>10, <1>11, <1>12, <1>13, <1>14, <1>15, <1>16, <1>17, <1>18, <1>19, <1>20, <1>21, <1>22, <1>23, <1>24, <1>25 DEF Next, Call, Login

-----------------------------------------------------------------------------
(* A row that was never written satisfies the invariant.                    *)
LEMMA Initially == Init => IInv
<1> SUFFICES ASSUME Init PROVE IInv
  OBVIOUS
<1> USE BrokerAssumption DEF Init, Cred, None, Pointer
<1>1. TypeOK
  <2>1. [gen |-> 0, secret |-> None] \in Pointer
    OBVIOUS
  <2>2. copy \in [Actors -> Pointer] /\ got \in [Actors -> Cred \cup {None}]
    BY <2>1
  <2>3. pc \in [Actors -> CallerSteps \cup LoginSteps]
    BY DEF CallerSteps, LoginSteps
  <2>4. issued \in 0..MaxCred /\ parent \in [Cred -> Cred \cup {None}]
    OBVIOUS
  <2> QED BY <2>1, <2>2, <2>3, <2>4 DEF TypeOK
<1>2. Places
  BY DEF Places, Actors, CallerSteps, LoginSteps
<1>3. History /\ Copies /\ Refused
  BY DEF History, OneCredentialPerGeneration, Copies, Refused, Actors
<1>4. Own /\ Unpublished /\ Kept /\ Superseded /\ Lineage
  BY DEF Own, Unpublished, Kept, PointerNamesStored, Superseded, Lineage, Actors
<1>5. Exclusive /\ RefreshesCoalesce
  BY DEF Exclusive, RefreshesCoalesce, Actors
<1> QED BY <1>1, <1>2, <1>3, <1>4, <1>5 DEF IInv

(* The invariant holds in every reachable state.                            *)
THEOREM Inductive == Spec => []IInv
<1>1. IInv /\ [Next]_vars => IInv'
  BY TypeStep, HistoryStep, PlacesStep, CopiesStep, OwnStep, UnpublishedStep,
     KeptStep, SupersededStep, LineageStep, RefusedStep, ExclusiveStep,
     CoalesceStep DEF IInv
<1> QED BY <1>1, Initially, PTL DEF Spec

(* For any callers and logins, the row and what they hold have their types. *)
THEOREM TypeCorrect == Spec => []TypeOK
  BY Inductive, PTL DEF IInv

(* Whatever races refreshes and logins lose, and whatever answers they do   *)
(* not get, the version that the row names is never destroyed.              *)
THEOREM NamedIsStored == Spec => []PointerNamesStored
<1>1. IInv => PointerNamesStored
  BY DEF IInv, Kept
<1> QED BY <1>1, Inductive, PTL

(* Generations and credentials correspond, in the row and in all grants.    *)
THEOREM GenerationsIdentify == Spec => []OneCredentialPerGeneration
<1>1. IInv => OneCredentialPerGeneration
  BY DEF IInv, History
<1> QED BY <1>1, Inductive, PTL

(* A lease that has not run out keeps all other callers from submitting the *)
(* same credential, however often the row changes hands.                    *)
THEOREM Coalescing == Spec => []RefreshesCoalesce
<1>1. IInv => RefreshesCoalesce
  BY DEF IInv
<1> QED BY <1>1, Inductive, PTL

-----------------------------------------------------------------------------
(* The steps that change what the row names.                                *)
LEMMA Movers ==
    ASSUME TypeOK, [Next]_vars, ptr'.secret # ptr.secret
    PROVE  \/ \E a \in Callers : Publish(a) /\ Cas(a, After(copy[a], got[a]), FALSE)
           \/ \E l \in Logins : CommitLogin(l) /\ Cas(l, After(copy[l], got[l]), FALSE)
           \/ \E a \in Callers : Clear(a) /\ Cas(a, After(copy[a], None), FALSE)
<1> USE DEF row
<1>1. ASSUME NEW a \in Callers, Publish(a)
      PROVE  Cas(a, After(copy[a], got[a]), FALSE)
  BY <1>1 DEF Publish, NoCas
<1>2. ASSUME NEW l \in Logins, CommitLogin(l)
      PROVE  Cas(l, After(copy[l], got[l]), FALSE)
  BY <1>2 DEF CommitLogin, NoCas
<1>3. ASSUME NEW a \in Callers, Clear(a)
      PROVE  Cas(a, After(copy[a], None), FALSE)
  BY <1>3 DEF Clear, NoCas
<1>4. ASSUME NEW a \in Callers,
             \/ ReadPointer(a) \/ ReadSecret(a) \/ Serve(a) \/ Wait(a)
             \/ Refresh(a) \/ InvalidGrant(a) \/ NoRefresh(a) \/ WriteSecret(a)
             \/ RereadPublished(a) \/ RereadConsumed(a) \/ RereadSuperseded(a)
      PROVE  FALSE
  BY <1>4 DEF ReadPointer, ReadSecret, Serve, Wait, Refresh, InvalidGrant, NoRefresh,
     WriteSecret, RereadPublished, RereadConsumed, RereadSuperseded, Take, NoCas
<1>5. ASSUME NEW a \in Callers, Lease(a) \/ ReleaseLease(a)
      PROVE  FALSE
  BY <1>5 DEF Lease, ReleaseLease, Cas, NoCas
<1>6. ASSUME NEW l \in Logins,
             WriteLogin(l) \/ ReadForLogin(l) \/ EndLogin(l) \/ ExhaustLogin(l)
      PROVE  FALSE
  BY <1>6 DEF WriteLogin, ReadForLogin, EndLogin, ExhaustLogin, Take, NoCas
<1>7. ASSUME NEW a \in Actors, Retire(a) \/ Abandon(a)
      PROVE  FALSE
  BY <1>7 DEF Retire, Abandon, NoCas
<1>8. ~ExpireLease /\ ~UNCHANGED vars /\ ~(\E c \in Cred : Revoke(c))
  BY DEF ExpireLease, vars, Revoke
<1> QED BY <1>1, <1>2, <1>3, <1>4, <1>5, <1>6, <1>7, <1>8 DEF Next, Call, Login, Actors

(* No refresh overwrites what was published while it was under way: a       *)
(* credential gives way to its own rotation or to a login.                  *)
THEOREM RefreshesFollow == Spec => NoStaleOverwrite
<1>1. ASSUME IInv, [Next]_vars, ptr'.secret \notin {ptr.secret, None}
      PROVE  parent'[ptr'.secret] \in {None, ptr.secret}
  <2> USE <1>1 DEF IInv
  <2>1. ASSUME NEW a \in Callers, Publish(a), Cas(a, After(copy[a], got[a]), FALSE)
        PROVE  parent'[ptr'.secret] = ptr.secret
    <3>1. a \in Actors /\ got[a] \in Cred \cup {None}
      BY DEF TypeOK, Actors
    <3>2. ptr'.secret = got[a] /\ copy[a] = ptr
      BY <2>1, <3>1, Landing
    <3>3. parent[got[a]] = copy[a].secret /\ parent' = parent
      BY <2>1 DEF Lineage, Publish, upstream
    <3> QED BY <3>2, <3>3
  <2>2. ASSUME NEW l \in Logins, CommitLogin(l), Cas(l, After(copy[l], got[l]), FALSE)
        PROVE  parent'[ptr'.secret] = None
    <3>1. l \in Actors /\ got[l] \in Cred \cup {None}
      BY DEF TypeOK, Actors
    <3>2. ptr'.secret = got[l]
      BY <2>2, <3>1, Landing
    <3>3. parent[got[l]] = None /\ parent' = parent
      BY <2>2 DEF Lineage, CommitLogin, upstream
    <3> QED BY <3>2, <3>3
  <2>3. ASSUME NEW a \in Callers, Cas(a, After(copy[a], None), FALSE)
        PROVE  FALSE
    <3>1. a \in Actors /\ None \in Cred \cup {None}
      BY DEF Actors
    <3> QED BY <2>3, <3>1, Landing
  <2> QED BY <2>1, <2>2, <2>3, Movers
<1> QED BY <1>1, Inductive, PTL DEF NoStaleOverwrite, Spec

(* A late invalid_grant clears nothing but the credential it is about.      *)
THEOREM ClearsAreFenced == Spec => ClearsOnlyDead
<1>1. ASSUME IInv, [Next]_vars, ptr.secret # None, ptr'.secret = None
      PROVE  ptr.secret \notin live
  <2> USE <1>1 DEF IInv
  <2>1. ASSUME NEW a \in Actors, pc[a] \in {"staged", "ready"},
               Cas(a, After(copy[a], got[a]), FALSE)
        PROVE  FALSE
    <3>1. got[a] \in Cred \cup {None} /\ got[a] # None
      BY <2>1 DEF TypeOK, Own
    <3> QED BY <2>1, <3>1, Landing
  <2>2. ASSUME NEW a \in Callers, Clear(a), Cas(a, After(copy[a], None), FALSE)
        PROVE  ptr.secret \notin live
    <3>1. a \in Actors /\ None \in Cred \cup {None}
      BY DEF Actors
    <3>2. copy[a] = ptr
      BY <2>2, <3>1, Landing
    <3> QED BY <2>2, <3>2 DEF Refused, Clear
  <2> QED BY <2>1, <2>2, Movers DEF Publish, CommitLogin, Actors
<1> QED BY <1>1, Inductive, PTL DEF ClearsOnlyDead, Spec

-----------------------------------------------------------------------------
(* The broker implements the cell of CredentialCell.                        *)

LEMMA CellServes ==
    ASSUME NEW p \in named, p.secret # None, grants' = grants \cup {p},
           UNCHANGED <<ptr, named, stored, upstream>>
    PROVE  Cell!Next
<1>1. Cell!Serve(p)
  BY DEF Cell!Serve, upstream
<1> QED BY <1>1 DEF Cell!Next

LEMMA CellDestroys ==
    ASSUME TypeOK, NEW c \in Cred \cup {None}, c # ptr.secret, Destroy(c),
           UNCHANGED <<ptr, named, upstream, grants>>
    PROVE  Cell!Next \/ UNCHANGED Cell!vars
<1>1. CASE stored' = stored
  BY <1>1 DEF Cell!vars, upstream
<1>2. CASE stored' = stored \ {c} /\ c \in Cred
  <2>1. Cell!Destroy(c)
    BY <1>2 DEF Cell!Destroy, upstream
  <2> QED BY <1>2, <2>1 DEF Cell!Next
<1>3. CASE stored' = stored \ {c} /\ c \notin Cred
  <2>1. stored' = stored
    BY <1>3 DEF TypeOK
  <2> QED BY <1>1, <2>1
<1> QED BY <1>1, <1>2, <1>3 DEF Destroy

LEMMA CellIssues ==
    ASSUME TypeOK, NEW c \in live \cup {None}, Issue(c),
           \/ UNCHANGED stored
           \/ c = None /\ stored' = stored \cup {issued'},
           UNCHANGED <<ptr, named, grants>>
    PROVE  Cell!Next
<1> DEFINE new == issued + 1
<1>1. /\ new \in Cred \ (1..issued) /\ issued' = new
      /\ 1..issued' = (1..issued) \cup {new}
  BY BrokerAssumption DEF Issue, TypeOK, Cred
<1>2. parent' = [parent EXCEPT ![new] = c] /\ live' = (live \ {c}) \cup {new}
  BY DEF Issue
<1>3. stored' = stored \/ (c = None /\ stored' = stored \cup {new})
  BY <1>1
<1> HIDE DEF new
<1>4. Cell!Issue(c)
  BY <1>1, <1>2, <1>3 DEF Cell!Issue
<1>5. c \in Cred \cup {None}
  BY DEF TypeOK
<1> QED BY <1>4, <1>5 DEF Cell!Next

LEMMA CellPublishes ==
    ASSUME TypeOK, Copies, NEW a \in Actors,
           got[a] # None, got[a] \in stored, \A p \in named : p.secret # got[a],
           parent[got[a]] \in {None, copy[a].secret},
           Cas(a, After(copy[a], got[a]), FALSE),
           grants' \in {grants, grants \cup {ptr'}},
           UNCHANGED <<stored, upstream>>
    PROVE  Cell!Next
<1>1. got[a] \in Cred
  BY DEF TypeOK
<1>2. /\ copy[a] = ptr /\ named' = named \cup {ptr'}
      /\ ptr' = [gen |-> copy[a].gen + 1, secret |-> got[a]]
  BY <1>1, Landing
<1>3. Cell!Hold(got[a])
  BY <1>2 DEF Cell!Hold
<1>4. ~Cell!WasHeld(got[a]) /\ parent[got[a]] \in {None, ptr.secret}
  BY <1>2 DEF Cell!WasHeld
<1>5. Cell!Publish(got[a])
  BY <1>3, <1>4 DEF Cell!Publish, upstream
<1> QED BY <1>1, <1>5 DEF Cell!Next

(* Every step of the broker is a step of the cell, or none.                 *)
LEMMA CellSteps ==
    ASSUME IInv, [Next]_vars
    PROVE  Cell!Next \/ UNCHANGED Cell!vars
<1> USE DEF row, upstream
<1>1. /\ TypeOK /\ History /\ Copies /\ Own /\ Unpublished /\ Kept
      /\ Superseded /\ Lineage /\ Refused
  BY DEF IInv
<1>2. \A a \in Actors : /\ copy[a] \in named /\ copy[a].secret \in Cred \cup {None}
                        /\ got[a] \in Cred \cup {None}
                        /\ copy[a] = [gen |-> copy[a].gen, secret |-> copy[a].secret]
  BY <1>1, PointerIs, PointerParts DEF Copies, TypeOK
<1>3. Callers \subseteq Actors /\ Logins \subseteq Actors
  BY DEF Actors
<1>4. ASSUME UNCHANGED <<ptr, named, stored, live, parent, issued, grants>>
      PROVE  UNCHANGED Cell!vars
  BY <1>4 DEF Cell!vars
<1>5. ASSUME NEW a \in Callers,
             \/ ReadPointer(a) \/ ReadSecret(a) \/ Wait(a) \/ InvalidGrant(a)
             \/ NoRefresh(a) \/ RereadConsumed(a)
      PROVE  UNCHANGED Cell!vars
  BY <1>4, <1>5 DEF ReadPointer, ReadSecret, Wait, InvalidGrant, NoRefresh, RereadConsumed,
     Take, NoCas
<1>6. ASSUME NEW a \in Callers, Lease(a)
      PROVE  UNCHANGED Cell!vars
  BY <1>1, <1>4, <1>6 DEF Lease, Cas, History
<1>7. ASSUME NEW a \in Callers, Serve(a)
      PROVE  Cell!Next
  <2>1. copy[a].secret # None /\ grants' = grants \cup {copy[a]}
    BY <1>1, <1>2, <1>3, <1>7 DEF Serve, Copies, Grant
  <2> QED BY <1>2, <1>3, <1>7, <2>1, CellServes DEF Serve, NoCas
<1>8. ASSUME NEW a \in Callers, ReleaseLease(a)
      PROVE  Cell!Next \/ UNCHANGED Cell!vars
  <2>1. UNCHANGED <<ptr, named, stored, upstream>>
    BY <1>1, <1>8 DEF ReleaseLease, Cas, NoCas, History
  <2>2. CASE Grant(copy[a].gen, copy[a].secret)
    <3>1. copy[a].secret # None /\ grants' = grants \cup {copy[a]}
      BY <1>1, <1>2, <1>3, <1>8, <2>2 DEF ReleaseLease, Copies, Grant
    <3> QED BY <1>2, <1>3, <2>1, <3>1, CellServes
  <2>3. CASE UNCHANGED grants
    BY <1>4, <2>1, <2>3
  <2> QED BY <1>8, <2>2, <2>3 DEF ReleaseLease
<1>9. ASSUME NEW a \in Callers, Refresh(a)
      PROVE  Cell!Next
  BY <1>1, <1>9, CellIssues DEF Refresh
<1>10. ASSUME NEW a \in Callers, WriteSecret(a)
       PROVE  Cell!Next \/ UNCHANGED Cell!vars
  <2>1. CASE stored' = stored \cup {got[a]}
    <3>1. got[a] \in Cred /\ got[a] \in 1..issued /\ ~Cell!WasHeld(got[a])
      BY <1>1, <1>2, <1>3, <1>10, BrokerAssumption
         DEF WriteSecret, Own, Unpublished, Cell!WasHeld, Cred, None, TypeOK
    <3>2. Cell!Store(got[a])
      BY <1>10, <2>1, <3>1 DEF WriteSecret, Cell!Store
    <3> QED BY <3>1, <3>2 DEF Cell!Next
  <2>2. CASE UNCHANGED stored
    BY <1>4, <1>10, <2>2 DEF WriteSecret
  <2> QED BY <1>10, <2>1, <2>2 DEF WriteSecret
<1>11. ASSUME NEW a \in Callers, Publish(a)
       PROVE  Cell!Next \/ UNCHANGED Cell!vars
  <2>1. CASE NoCas(a) /\ UNCHANGED grants
    BY <1>4, <1>11, <2>1 DEF Publish, NoCas
  <2>2. CASE /\ Cas(a, After(copy[a], got[a]), FALSE)
             /\ Grant(copy[a].gen + 1, got[a]) \/ UNCHANGED grants
    <3>1. /\ got[a] # None /\ got[a] \in stored /\ \A p \in named : p.secret # got[a]
          /\ parent[got[a]] = copy[a].secret /\ UNCHANGED <<stored, upstream>>
      BY <1>1, <1>3, <1>11 DEF Publish, Own, Kept, Unpublished, Lineage
    <3>2. grants' \in {grants, grants \cup {ptr'}}
      BY <2>2 DEF Cas, After, Grant
    <3> QED BY <1>1, <1>3, <2>2, <3>1, <3>2, CellPublishes
  <2> QED BY <1>11, <2>1, <2>2 DEF Publish
<1>12. ASSUME NEW a \in Callers, RereadPublished(a)
       PROVE  Cell!Next
  <2>1. ptr \in named /\ ptr.secret # None /\ ptr = [gen |-> ptr.gen, secret |-> got[a]]
    BY <1>1, <1>3, <1>12, PointerIs DEF RereadPublished, History, Own, TypeOK
  <2> QED BY <1>12, <2>1, CellServes DEF RereadPublished, Grant
<1>13. ASSUME NEW a \in Callers, RereadSuperseded(a)
       PROVE  Cell!Next \/ UNCHANGED Cell!vars
  BY <1>1, <1>2, <1>3, <1>13, CellDestroys DEF RereadSuperseded, NoCas
<1>14. ASSUME NEW a \in Actors, Retire(a)
       PROVE  Cell!Next \/ UNCHANGED Cell!vars
  <2>1. Destroy(copy[a].secret) /\ UNCHANGED <<ptr, named, upstream, grants>>
    BY <1>14 DEF Retire, NoCas
  <2>2. copy[a].gen < ptr.gen /\ copy[a] \in named /\ ptr \in named
        /\ copy[a].gen \in Nat /\ ptr.gen \in Nat
    BY <1>1, <1>2, <1>14, PointerParts DEF Retire, Superseded, History, TypeOK
  <2>3. CASE copy[a].secret = None
    <3>1. None \notin stored
      BY <1>1, BrokerAssumption DEF TypeOK, Cred, None
    <3>2. stored' \in {stored, stored \ {None}}
      BY <2>1, <2>3 DEF Destroy
    <3>3. stored' = stored
      BY <3>1, <3>2
    <3> QED BY <1>4, <2>1, <3>3
  <2>4. CASE copy[a].secret # None
    <3>1. copy[a].secret # ptr.secret
      BY <1>1, <2>2, <2>4 DEF History, OneCredentialPerGeneration
    <3> QED BY <1>1, <1>2, <2>1, <3>1, CellDestroys
  <2> QED BY <2>3, <2>4
<1>15. ASSUME NEW a \in Callers, Clear(a)
       PROVE  Cell!Next \/ UNCHANGED Cell!vars
  <2>1. CASE NoCas(a)
    BY <1>4, <1>15, <2>1 DEF Clear, NoCas
  <2>2. CASE Cas(a, After(copy[a], None), FALSE)
    <3>1. /\ copy[a] = ptr /\ named' = named \cup {ptr'}
          /\ ptr' = [gen |-> copy[a].gen + 1, secret |-> None]
      BY <1>1, <1>3, <2>2, Landing
    <3>2. ptr.secret # None /\ ptr.secret \notin live
      BY <1>1, <1>15, <3>1 DEF Clear, Copies, Refused
    <3>3. Cell!Hold(None)
      BY <3>1 DEF Cell!Hold
    <3>4. Cell!Clear
      BY <1>15, <3>2, <3>3 DEF Clear, Cell!Clear
    <3> QED BY <3>4 DEF Cell!Next
  <2> QED BY <1>15, <2>1, <2>2 DEF Clear
<1>16. ASSUME NEW l \in Logins, WriteLogin(l)
       PROVE  Cell!Next
  BY <1>1, <1>16, CellIssues DEF WriteLogin
<1>17. ASSUME NEW l \in Logins, ReadForLogin(l) \/ EndLogin(l)
       PROVE  UNCHANGED Cell!vars
  BY <1>4, <1>17 DEF ReadForLogin, EndLogin, Take, NoCas
<1>18. ASSUME NEW l \in Logins, CommitLogin(l)
       PROVE  Cell!Next \/ UNCHANGED Cell!vars
  <2>1. CASE NoCas(l)
    BY <1>4, <1>18, <2>1 DEF CommitLogin, NoCas
  <2>2. CASE Cas(l, After(copy[l], got[l]), FALSE)
    <3>1. /\ got[l] # None /\ got[l] \in stored /\ \A p \in named : p.secret # got[l]
          /\ parent[got[l]] = None /\ UNCHANGED <<stored, upstream, grants>>
      BY <1>1, <1>3, <1>18 DEF CommitLogin, Own, Kept, Unpublished, Lineage
    <3> QED BY <1>1, <1>3, <2>2, <3>1, CellPublishes
  <2> QED BY <1>18, <2>1, <2>2 DEF CommitLogin
<1>19. ASSUME NEW l \in Logins, ExhaustLogin(l)
       PROVE  Cell!Next \/ UNCHANGED Cell!vars
  <2>1. got[l] # ptr.secret
    BY <1>1, <1>3, <1>19 DEF ExhaustLogin, Unpublished, History
  <2> QED BY <1>1, <1>2, <1>3, <1>19, <2>1, CellDestroys DEF ExhaustLogin, NoCas
<1>20. ASSUME NEW a \in Actors, Abandon(a)
       PROVE  UNCHANGED Cell!vars
  BY <1>4, <1>20 DEF Abandon, NoCas
<1>21. ASSUME NEW c \in Cred, Revoke(c)
       PROVE  Cell!Next
  <2>1. Cell!Revoke(c)
    BY <1>21 DEF Revoke, Cell!Revoke
  <2> QED BY <2>1 DEF Cell!Next
<1>22. CASE ExpireLease
  BY <1>4, <1>22 DEF ExpireLease
<1>23. CASE UNCHANGED vars
  BY <1>4, <1>23 DEF vars
<1> QED
  BY <1>5, <1>6, <1>7, <1>8, <1>9, <1>10, <1>11, <1>12, <1>13, <1>14, <1>15, <1>16, <1>17,
     <1>18, <1>19, <1>20, <1>21, <1>22, <1>23, <1>3 DEF Next, Call, Login

(* For any callers, logins and credentials the row, the store and what      *)
(* callers were given behave as one cell.                                   *)
THEOREM Implements == Spec => ImplementsCell
<1>1. Init => Cell!Init
  BY DEF Init, Cell!Init, Cell!Empty
<1>2. IInv /\ [Next]_vars => [Cell!Next]_(Cell!vars)
  BY CellSteps
<1> QED BY <1>1, <1>2, Inductive, PTL DEF Spec, ImplementsCell, Cell!Spec

(* The cell holds and the store keeps only what the provider has issued.    *)
LEMMA CellHoldsIssued == Cell!Spec => []Cell!OnlyIssued
<1> USE DEF Cell!OnlyIssued
<1>1. Cell!Init => Cell!OnlyIssued
  BY DEF Cell!Init, Cell!Empty
<1>2. ASSUME Cell!OnlyIssued, [Cell!Next]_(Cell!vars)
      PROVE  Cell!OnlyIssued'
  <2> USE <1>2
  <2>0. ASSUME NEW c, Cell!Hold(c), c \in (1..issued) \cup {None},
               UNCHANGED <<1..issued, stored>>
        PROVE  Cell!OnlyIssued'
    <3>1. named' = named \cup {ptr'} /\ ptr'.secret = c
      BY <2>0 DEF Cell!Hold
    <3>2. \A p \in named' : p.secret \in (1..issued) \cup {None}
      BY <2>0, <3>1
    <3> QED BY <2>0, <3>2
  <2>1. CASE Cell!Clear
    BY <2>0, <2>1 DEF Cell!Clear
  <2>2. ASSUME NEW c \in Cred, Cell!Store(c) \/ Cell!Destroy(c) \/ Cell!Revoke(c)
        PROVE  Cell!OnlyIssued'
    BY <2>2 DEF Cell!Store, Cell!Destroy, Cell!Revoke
  <2>3. ASSUME NEW c \in Cred, Cell!Publish(c)
        PROVE  Cell!OnlyIssued'
    BY <2>0, <2>3 DEF Cell!Publish
  <2>4. ASSUME NEW c \in Cred \cup {None}, Cell!Issue(c)
        PROVE  Cell!OnlyIssued'
    <3> DEFINE issuedNow == 1..issued
    <3>1. /\ \A p \in named : p.secret \in issuedNow \cup {None}
          /\ stored \subseteq issuedNow
      OBVIOUS
    <3>2. PICK d \in Cred : /\ (1..issued)' = (1..issued) \cup {d}
                            /\ stored' \in {stored, stored \cup {d}}
                            /\ named' = named
      BY <2>4 DEF Cell!Issue
    <3> QED BY <3>1, <3>2
  <2>5. ASSUME NEW p \in named, Cell!Serve(p)
        PROVE  Cell!OnlyIssued'
    BY <2>5 DEF Cell!Serve
  <2>6. CASE UNCHANGED Cell!vars
    BY <2>6 DEF Cell!vars
  <2> QED BY <2>1, <2>2, <2>3, <2>4, <2>5, <2>6 DEF Cell!Next
<1> QED BY <1>1, <1>2, PTL DEF Cell!Spec

(* What the cell has held it has held from then on; of that, nothing enters *)
(* it a second time and nothing enters the store.                           *)
LEMMA CellGoesOn ==
    ASSUME NEW c \in Cred, Cell!OnlyIssued, Cell!WasHeld(c), [Cell!Next]_(Cell!vars)
    PROVE  /\ Cell!WasHeld(c)'
           /\ ptr.secret # c => ptr'.secret # c
           /\ c \notin stored => c \notin stored'
<1> DEFINE Goal == /\ Cell!WasHeld(c)'
                   /\ ptr.secret # c => ptr'.secret # c
                   /\ c \notin stored => c \notin stored'
<1>1. c \in 1..issued /\ c # None
  BY BrokerAssumption DEF Cell!WasHeld, Cell!OnlyIssued, Cred, None
<1>2. PICK p \in named : p.secret = c
  BY DEF Cell!WasHeld
<1>3. CASE Cell!Clear
  BY <1>1, <1>2, <1>3 DEF Cell!Clear, Cell!Hold, Cell!WasHeld
<1>4. ASSUME NEW d \in Cred, Cell!Store(d) \/ Cell!Destroy(d) \/ Cell!Revoke(d)
      PROVE  Goal
  BY <1>4 DEF Cell!Store, Cell!Destroy, Cell!Revoke, Cell!WasHeld
<1>5. ASSUME NEW d \in Cred, Cell!Publish(d)
      PROVE  Goal
  BY <1>2, <1>5 DEF Cell!Publish, Cell!Hold, Cell!WasHeld
<1>6. ASSUME NEW d \in Cred \cup {None}, Cell!Issue(d)
      PROVE  Goal
  BY <1>1, <1>2, <1>6 DEF Cell!Issue, Cell!WasHeld
<1>7. ASSUME NEW q \in named, Cell!Serve(q)
      PROVE  Goal
  BY <1>2, <1>7 DEF Cell!Serve, Cell!WasHeld
<1>8. CASE UNCHANGED Cell!vars
  BY <1>2, <1>8 DEF Cell!vars, Cell!WasHeld
<1> QED BY <1>3, <1>4, <1>5, <1>6, <1>7, <1>8 DEF Cell!Next

(* A credential that a refresh, a login or a clear has put out of the row   *)
(* is never named again, whatever a caller that was cut off still holds.    *)
THEOREM ReplacedStaysOut == Spec => Cell!ReplacedForGood
<1>1. ASSUME NEW c \in Cred
      PROVE  Cell!Spec => [](Cell!WasHeld(c) /\ ptr.secret # c => [](ptr.secret # c))
  <2>1. /\ Cell!OnlyIssued /\ Cell!WasHeld(c) /\ ptr.secret # c
        /\ [Cell!Next]_(Cell!vars)
        => (Cell!WasHeld(c) /\ ptr.secret # c)'
    BY CellGoesOn
  <2> QED BY <2>1, CellHoldsIssued, PTL DEF Cell!Spec
<1> QED BY <1>1, Implements DEF ImplementsCell, Cell!ReplacedForGood

(* A version that was destroyed after the row had named it stays destroyed: *)
(* no write that comes late brings a spent credential back into the store.  *)
THEOREM DestroyedStaysSo == Spec => Cell!DestroyedForGood
<1>1. ASSUME NEW c \in Cred
      PROVE  Cell!Spec => [](Cell!WasHeld(c) /\ c \notin stored => [](c \notin stored))
  <2>1. /\ Cell!OnlyIssued /\ Cell!WasHeld(c) /\ c \notin stored
        /\ [Cell!Next]_(Cell!vars)
        => (Cell!WasHeld(c) /\ c \notin stored)'
    BY CellGoesOn
  <2> QED BY <2>1, CellHoldsIssued, PTL DEF Cell!Spec
<1> QED BY <1>1, Implements DEF ImplementsCell, Cell!DestroyedForGood
=============================================================================
