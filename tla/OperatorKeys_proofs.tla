------------------------- MODULE OperatorKeys_proofs -------------------------
(***************************************************************************)
(* Proofs about OperatorKeys: the type invariant; that the store never     *)
(* loses its last operator key in an orderly history; that a claim has one *)
(* holder, which is on its way to release it; that a deleted key has its   *)
(* record, and that in an orderly history a revoked key stays revoked.     *)
(***************************************************************************)
EXTENDS OperatorKeys, TLAPS

Revoking(s) == pc[s] \in {"begin"} \cup Claiming

\* A claim is in the document, and its key is not counted.
ClaimsHeld ==
    \A s \in Servers : pc[s] \in Claiming =>
        target[s] \in revoking \ lapsed /\ target[s] \notin ids

\* A server revokes keys of the kind it read, spent ones included.
TargetsKnown ==
    /\ keys[BootId] # "tenant"
    /\ \A s \in Servers :
           /\ Revoking(s) => keys[target[s]] \in {"operator", "deleted"}
           /\ pc[s] \in TenantRevoking =>
                 target[s] # BootId /\ keys[target[s]] \in {"tenant", "deleted"}
           /\ pc[s] = "abort" => keys[target[s]] = "operator"
           /\ pc[s] \in {"bootAdd", "register"} => keys[target[s]] = "operator"
           /\ pc[s] \in {"down", "ready"} \cup Starting => target[s] = BootId

\* A key under revocation is not being created any more.
TargetsSettled ==
    \A s, t \in Servers : Revoking(s) => ~CreatingKey(t, target[s])

\* What a reconcile has read is still true while its document is current.
ReadersSound ==
    \A s \in Servers :
        /\ \A k \in scan[s] : keys[k] \in {"operator", "deleted"}
        /\ pc[s] \in {"down", "scan"} => todo[s] = {} /\ found[s] = {} /\ ~fresh[s]
        /\ todo[s] \subseteq scan[s]
        /\ todo[s] \cap live[s] = {}
        /\ found[s] \cap live[s] = {}
        /\ found[s] \subseteq scan[s]
        /\ fresh[s] => /\ Claimed \subseteq live[s]
                       /\ live[s] \subseteq revoking
                       /\ found[s] \subseteq OperatorKeys

\* Some operator key is under no revocation at all.
SpareKey ==
    OperatorKeys # {} => \E k \in OperatorKeys : k \notin Claimed

\* Nobody serves, or finishes a bootstrap, without an operator key.
KeyBehindServing ==
    \A s \in Servers :
        Serving(s) \/ pc[s] \in {"bootAdd", "bootAudit", "bootFlag"}
            => OperatorKeys # {}

IInv ==
    /\ TypeOK
    /\ NoGhostOperator
    /\ ClaimsHeld
    /\ OneRevocationPerKey
    /\ TargetsKnown
    /\ TargetsSettled
    /\ ReadersSound
    /\ SpareKey
    /\ KeyBehindServing

\* IInv is what holds of an orderly history.
OInv == TypeOK /\ (orderly => IInv)

-----------------------------------------------------------------------------
\* The types hold in every store the servers may find at their first start.
LEMMA InitTypeOK == Init => TypeOK
  BY BootIdAssumption DEF Init, TypeOK, Roles, Phases

\* No handler, start step or lapse of a claim leaves a type.
LEMMA NextTypeOK == TypeOK /\ [Next]_vars => TypeOK'
<1> SUFFICES ASSUME TypeOK, [Next]_vars PROVE TypeOK'
  OBVIOUS
<1> USE BootIdAssumption DEF TypeOK, Roles, Phases, Starting, Claiming,
      TenantRevoking, Goto, Idle, ForgetScan, SetOperators, AddOperator,
      Record, Remove, docVars, scanVars
<1>1. ASSUME NEW s \in Servers, Start(s) PROVE TypeOK'
  BY <1>1 DEF Start
<1>2. ASSUME NEW s \in Servers, ScanKeys(s) PROVE TypeOK'
  BY <1>2 DEF ScanKeys, OperatorKeys
<1>3. ASSUME NEW s \in Servers, ReadSet(s) PROVE TypeOK'
  BY <1>3 DEF ReadSet
<1>4. ASSUME NEW s \in Servers, NEW k \in Ids, LookupKey(s, k) PROVE TypeOK'
  BY <1>4 DEF LookupKey
<1>5. ASSUME NEW s \in Servers, LookupsDone(s) PROVE TypeOK'
  BY <1>5 DEF LookupsDone
<1>6. ASSUME NEW s \in Servers, WriteSet(s) PROVE TypeOK'
  <2>1. CASE fresh[s]
    <3>1. found[s] \subseteq Ids /\ live[s] \subseteq Ids
      OBVIOUS
    <3>2. /\ ids' = found[s] /\ revoking' = live[s] /\ lapsed' = lapsed \cap live[s]
          /\ fresh' = [t \in Servers |-> FALSE]
          /\ UNCHANGED <<keys, flagged, log, target, orderly>>
      BY <1>6, <2>1 DEF WriteSet
    <3>3. pc' \in [Servers -> Phases] /\ scan' \in [Servers -> SUBSET Ids]
      BY <1>6, <2>1 DEF WriteSet
    <3>4. /\ todo' \in [Servers -> SUBSET Ids] /\ found' \in [Servers -> SUBSET Ids]
          /\ live' \in [Servers -> SUBSET Ids]
      BY <1>6, <2>1 DEF WriteSet
    <3> QED
      BY <3>1, <3>2, <3>3, <3>4
  <2>2. CASE ~fresh[s]
    BY <1>6, <2>2 DEF WriteSet
  <2> QED
    BY <2>1, <2>2
<1>7. ASSUME NEW s \in Servers, BootScan(s) PROVE TypeOK'
  BY <1>7 DEF BootScan
<1>8. ASSUME NEW s \in Servers, InsertBootKey(s) PROVE TypeOK'
  BY <1>8 DEF InsertBootKey
<1>9. ASSUME NEW s \in Servers, BootAdd(s) PROVE TypeOK'
  BY <1>9 DEF BootAdd
<1>10. ASSUME NEW s \in Servers, BootAudit(s) PROVE TypeOK'
  BY <1>10 DEF BootAudit
<1>11. ASSUME NEW s \in Servers, BootFlag(s) PROVE TypeOK'
  BY <1>11 DEF BootFlag
<1>12. ASSUME NEW s \in Servers, NEW k \in Ids, NEW role \in Roles,
             CreateKey(s, k, role) PROVE TypeOK'
  BY <1>12 DEF CreateKey
<1>13. ASSUME NEW s \in Servers, NEW k \in Ids, RevokeRequest(s, k) PROVE TypeOK'
  BY <1>13 DEF RevokeRequest
<1>14. ASSUME NEW s \in Servers, RegisterKey(s) PROVE TypeOK'
  BY <1>14 DEF RegisterKey
<1>15. ASSUME NEW s \in Servers, BeginRevoke(s) PROVE TypeOK'
  <2>1. CASE RevokeInProgress(target[s]) \/ LastOperator(target[s])
    BY <1>15, <2>1 DEF BeginRevoke
  <2>2. CASE ~(RevokeInProgress(target[s]) \/ LastOperator(target[s]))
    <3>1. /\ ids' = ids \ {target[s]} /\ revoking' = revoking \cup {target[s]}
          /\ lapsed' = lapsed \ {target[s]} /\ fresh' = [t \in Servers |-> FALSE]
          /\ UNCHANGED <<keys, flagged, log, target, scanVars, orderly>>
      BY <1>15, <2>2 DEF BeginRevoke
    <3>2. pc' \in [Servers -> Phases]
      BY <1>15, <2>2 DEF BeginRevoke
    <3> QED
      BY <3>1, <3>2
  <2> QED
    BY <2>1, <2>2
<1>16. ASSUME NEW s \in Servers, AuditRevoke(s) PROVE TypeOK'
  BY <1>16 DEF AuditRevoke
<1>17. ASSUME NEW s \in Servers, AuditRevokeFails(s) PROVE TypeOK'
  BY <1>17 DEF AuditRevokeFails
<1>18. ASSUME NEW s \in Servers, DeleteKey(s) PROVE TypeOK'
  BY <1>18 DEF DeleteKey
<1>19. ASSUME NEW s \in Servers, DeleteFails(s) PROVE TypeOK'
  BY <1>19 DEF DeleteFails
<1>20. ASSUME NEW s \in Servers, ProbeKey(s) PROVE TypeOK'
  BY <1>20 DEF ProbeKey
<1>21. ASSUME NEW s \in Servers, AbortRevoke(s) PROVE TypeOK'
  BY <1>21 DEF AbortRevoke
<1>22. ASSUME NEW s \in Servers, FinishRevoke(s) PROVE TypeOK'
  BY <1>22 DEF FinishRevoke
<1>23. ASSUME NEW s \in Servers, DropRequest(s) PROVE TypeOK'
  BY <1>23 DEF DropRequest
<1>24. ASSUME NEW s \in Servers, Crash(s) PROVE TypeOK'
  BY <1>24 DEF Crash
<1>25. ASSUME NEW k \in Ids, ClaimLapses(k) PROVE TypeOK'
  BY <1>25 DEF ClaimLapses
<1>26. CASE UNCHANGED vars
  BY <1>26 DEF vars
<1> HIDE DEF TypeOK, Roles, Phases, Starting, Claiming, TenantRevoking
<1> QED
  BY <1>1, <1>2, <1>3, <1>4, <1>5, <1>6, <1>7, <1>8, <1>9, <1>10, <1>11, <1>12, <1>13,
     <1>14, <1>15, <1>16, <1>17, <1>18, <1>19, <1>20, <1>21, <1>22, <1>23, <1>24,
     <1>25, <1>26 DEF Next, Startup, Arrival, Handle

\* Type correctness: no handler leaves a variable outside its type.
THEOREM TypeCorrect == Spec => []TypeOK
  BY InitTypeOK, NextTypeOK, PTL DEF Spec



-----------------------------------------------------------------------------
(* The operator guard.  beginRevoke only claims k when ids holds another   *)
(* id; that id is a stored key (NoGhostOperator) without a claim           *)
(* (ClaimsHeld), and only the holder of a claim deletes an operator key,   *)
(* so some key is always left over (SpareKey).  The rest of IInv says that *)
(* reconcileOperators and the writers of the set never break these two.    *)

\* IInv holds in every store the servers may find at their first start.
LEMMA InitIInv == Init => IInv
<1> SUFFICES ASSUME Init PROVE IInv
  OBVIOUS
<1>1. TypeOK
  BY InitTypeOK
<1>2. \A s \in Servers : pc[s] = "down" /\ target[s] = BootId
  BY DEF Init
<1>3. Claimed = {}
  BY <1>2 DEF Claimed, Claiming
<1>4. NoGhostOperator /\ ReadersSound /\ SpareKey
  BY <1>3 DEF Init, NoGhostOperator, ReadersSound, SpareKey
<1>5. ClaimsHeld /\ OneRevocationPerKey /\ TargetsSettled /\ KeyBehindServing
  BY <1>2 DEF ClaimsHeld, OneRevocationPerKey, TargetsSettled,
     KeyBehindServing, Revoking, Serving, Claiming, TenantRevoking, InRequest
<1>6. TargetsKnown
  BY <1>2 DEF Init, TargetsKnown, Revoking, Claiming, TenantRevoking
<1> QED
  BY <1>1, <1>4, <1>5, <1>6 DEF IInv

\* A step of an orderly history keeps IInv: no claim lapses under its holder
\* and no revocation of a key that is still being adopted arrives.
LEMMA NextIInv ==
  ASSUME orderly, orderly', IInv, [Next]_vars
  PROVE  IInv'
<1>0. TypeOK'
  BY NextTypeOK DEF IInv
<1> USE <1>0, BootIdAssumption
      DEF IInv, TypeOK, Roles, Phases, Starting, Claiming, InRequest,
          TenantRevoking, Goto, Idle, ForgetScan, SetOperators, AddOperator,
          Record, Remove, docVars, scanVars, OperatorKeys, Claimed, CreatingKey,
          BeingCreated,
          Serving, Revoking, RevokeInProgress, LastOperator, Survived,
          MustBootstrap, NoGhostOperator,
          ClaimsHeld, OneRevocationPerKey, TargetsKnown, TargetsSettled,
          ReadersSound, SpareKey, KeyBehindServing
<1>1. ASSUME NEW s \in Servers, Start(s) PROVE IInv'
  BY <1>1 DEF Start
<1>2. ASSUME NEW s \in Servers, ScanKeys(s) PROVE IInv'
  <2>1. NoGhostOperator'
    BY <1>2 DEF ScanKeys
  <2>2. ClaimsHeld' /\ OneRevocationPerKey'
    BY <1>2 DEF ScanKeys
  <2>3. TargetsKnown'
    BY <1>2 DEF ScanKeys
  <2>4. TargetsSettled'
    BY <1>2 DEF ScanKeys
  <2>5. ReadersSound'
    <3>1. \A k \in scan'[s] : keys[k] = "operator"
      BY <1>2 DEF ScanKeys
    <3>2. UNCHANGED <<keys, ids, revoking, lapsed, fresh, target, todo, found, live>>
      BY <1>2 DEF ScanKeys
    <3>3. todo[s] = {} /\ found[s] = {} /\ ~fresh[s]
      BY <1>2 DEF ScanKeys
    <3> QED
      BY <1>2, <3>1, <3>2, <3>3 DEF ScanKeys
  <2>6. SpareKey'
    BY <1>2 DEF ScanKeys
  <2>7. KeyBehindServing'
    BY <1>2 DEF ScanKeys
  <2> QED
    BY <2>1, <2>2, <2>3, <2>4, <2>5, <2>6, <2>7
<1>3. ASSUME NEW s \in Servers, ReadSet(s) PROVE IInv'
  BY <1>3 DEF ReadSet
<1>4. ASSUME NEW s \in Servers, NEW k \in Ids, LookupKey(s, k) PROVE IInv'
  BY <1>4 DEF LookupKey
<1>5. ASSUME NEW s \in Servers, LookupsDone(s) PROVE IInv'
  BY <1>5 DEF LookupsDone
<1>6. ASSUME NEW s \in Servers, WriteSet(s) PROVE IInv'
  <2>1. NoGhostOperator'
    BY <1>6 DEF WriteSet
  <2>2. ClaimsHeld' /\ OneRevocationPerKey'
    BY <1>6 DEF WriteSet
  <2>3. TargetsKnown'
    BY <1>6 DEF WriteSet
  <2>4. TargetsSettled'
    BY <1>6 DEF WriteSet
  <2>5. ReadersSound'
    BY <1>6 DEF WriteSet
  <2>6. SpareKey'
    BY <1>6 DEF WriteSet
  <2>7. KeyBehindServing'
    BY <1>6 DEF WriteSet
  <2> QED
    BY <2>1, <2>2, <2>3, <2>4, <2>5, <2>6, <2>7
<1>7. ASSUME NEW s \in Servers, BootScan(s) PROVE IInv'
  <2>1. NoGhostOperator'
    BY <1>7 DEF BootScan
  <2>2. ClaimsHeld' /\ OneRevocationPerKey'
    BY <1>7 DEF BootScan
  <2>3. TargetsKnown'
    BY <1>7 DEF BootScan
  <2>4. TargetsSettled'
    BY <1>7 DEF BootScan
  <2>5. ReadersSound'
    BY <1>7 DEF BootScan
  <2>6. SpareKey'
    BY <1>7 DEF BootScan
  <2>7. KeyBehindServing'
    BY <1>7 DEF BootScan
  <2> QED
    BY <2>1, <2>2, <2>3, <2>4, <2>5, <2>6, <2>7
<1>8. ASSUME NEW s \in Servers, InsertBootKey(s) PROVE IInv'
  <2>1. NoGhostOperator'
    BY <1>8 DEF InsertBootKey
  <2>2. ClaimsHeld' /\ OneRevocationPerKey'
    BY <1>8 DEF InsertBootKey
  <2>3. TargetsKnown'
    <3>1. CASE keys[BootId] = "operator"
      BY <1>8, <3>1 DEF InsertBootKey
    <3>2. CASE keys[BootId] # "operator"
      BY <1>8, <3>2 DEF InsertBootKey
    <3> QED
      BY <3>1, <3>2
  <2>4. TargetsSettled'
    BY <1>8 DEF InsertBootKey
  <2>5. ReadersSound'
    BY <1>8 DEF InsertBootKey
  <2>6. SpareKey'
    BY <1>8 DEF InsertBootKey
  <2>7. KeyBehindServing'
    BY <1>8 DEF InsertBootKey
  <2> QED
    BY <2>1, <2>2, <2>3, <2>4, <2>5, <2>6, <2>7
<1>9. ASSUME NEW s \in Servers, BootAdd(s) PROVE IInv'
  BY <1>9 DEF BootAdd
<1>10. ASSUME NEW s \in Servers, BootAudit(s) PROVE IInv'
  BY <1>10 DEF BootAudit
<1>11. ASSUME NEW s \in Servers, BootFlag(s) PROVE IInv'
  BY <1>11 DEF BootFlag
<1>12. ASSUME NEW s \in Servers, NEW k \in Ids, NEW role \in Roles,
             CreateKey(s, k, role) PROVE IInv'
  <2>1. NoGhostOperator'
    BY <1>12 DEF CreateKey
  <2>2. ClaimsHeld' /\ OneRevocationPerKey'
    BY <1>12 DEF CreateKey
  <2>3. TargetsKnown'
    BY <1>12 DEF CreateKey
  <2>4. TargetsSettled'
    BY <1>12 DEF CreateKey
  <2>5. ReadersSound'
    BY <1>12 DEF CreateKey
  <2>6. SpareKey'
    BY <1>12 DEF CreateKey
  <2>7. KeyBehindServing'
    BY <1>12 DEF CreateKey
  <2> QED
    BY <2>1, <2>2, <2>3, <2>4, <2>5, <2>6, <2>7
<1>13. ASSUME NEW s \in Servers, NEW k \in Ids, RevokeRequest(s, k) PROVE IInv'
  <2>0. \A t \in Servers : ~CreatingKey(t, k)
    BY <1>13 DEF RevokeRequest
  <2>1. NoGhostOperator'
    BY <1>13, <2>0 DEF RevokeRequest
  <2>2. ClaimsHeld' /\ OneRevocationPerKey'
    BY <1>13, <2>0 DEF RevokeRequest
  <2>3. TargetsKnown'
    BY <1>13, <2>0 DEF RevokeRequest
  <2>4. TargetsSettled'
    BY <1>13, <2>0 DEF RevokeRequest
  <2>5. ReadersSound'
    BY <1>13, <2>0 DEF RevokeRequest
  <2>6. SpareKey'
    BY <1>13, <2>0 DEF RevokeRequest
  <2>7. KeyBehindServing'
    BY <1>13, <2>0 DEF RevokeRequest
  <2> QED
    BY <2>1, <2>2, <2>3, <2>4, <2>5, <2>6, <2>7
<1>14. ASSUME NEW s \in Servers, RegisterKey(s) PROVE IInv'
  BY <1>14 DEF RegisterKey
<1>15. ASSUME NEW s \in Servers, BeginRevoke(s) PROVE IInv'
  <2>1. NoGhostOperator'
    BY <1>15 DEF BeginRevoke
  <2>2. ClaimsHeld' /\ OneRevocationPerKey'
    BY <1>15 DEF BeginRevoke
  <2>3. TargetsKnown'
    BY <1>15 DEF BeginRevoke
  <2>4. TargetsSettled'
    BY <1>15 DEF BeginRevoke
  <2>5. ReadersSound'
    BY <1>15 DEF BeginRevoke
  <2>6. SpareKey'
    BY <1>15 DEF BeginRevoke
  <2>7. KeyBehindServing'
    BY <1>15 DEF BeginRevoke
  <2> QED
    BY <2>1, <2>2, <2>3, <2>4, <2>5, <2>6, <2>7
<1>16. ASSUME NEW s \in Servers, AuditRevoke(s) PROVE IInv'
  BY <1>16 DEF AuditRevoke
<1>17. ASSUME NEW s \in Servers, AuditRevokeFails(s) PROVE IInv'
  BY <1>17 DEF AuditRevokeFails
<1>18. ASSUME NEW s \in Servers, DeleteKey(s) PROVE IInv'
  <2>1. NoGhostOperator'
    BY <1>18 DEF DeleteKey
  <2>2. ClaimsHeld' /\ OneRevocationPerKey'
    BY <1>18 DEF DeleteKey
  <2>3. TargetsKnown'
    BY <1>18 DEF DeleteKey
  <2>4. TargetsSettled'
    BY <1>18 DEF DeleteKey
  <2>5. ReadersSound'
    BY <1>18 DEF DeleteKey
  <2>6. SpareKey'
    <3>1. ASSUME OperatorKeys' # {} PROVE OperatorKeys # {}
      BY <1>18, <3>1 DEF DeleteKey
    <3>2. ASSUME NEW k \in Ids, keys[k] = "operator", k \notin Claimed
          PROVE  keys'[k] = "operator" /\ k \notin Claimed'
      BY <1>18, <3>2 DEF DeleteKey
    <3> QED
      BY <3>1, <3>2
  <2>7. KeyBehindServing'
    BY <1>18 DEF DeleteKey
  <2> QED
    BY <2>1, <2>2, <2>3, <2>4, <2>5, <2>6, <2>7
<1>19. ASSUME NEW s \in Servers, DeleteFails(s) PROVE IInv'
  <2>1. NoGhostOperator'
    BY <1>19 DEF DeleteFails
  <2>2. ClaimsHeld' /\ OneRevocationPerKey'
    BY <1>19 DEF DeleteFails
  <2>3. TargetsKnown'
    BY <1>19 DEF DeleteFails
  <2>4. TargetsSettled'
    BY <1>19 DEF DeleteFails
  <2>5. ReadersSound'
    BY <1>19, SMTT(30) DEF DeleteFails
  <2>6. SpareKey'
    <3>1. ASSUME OperatorKeys' # {} PROVE OperatorKeys # {}
      BY <1>19, <3>1 DEF DeleteFails
    <3>2. ASSUME NEW k \in Ids, keys[k] = "operator", k \notin Claimed
          PROVE  keys'[k] = "operator" /\ k \notin Claimed'
      BY <1>19, <3>2 DEF DeleteFails
    <3> QED
      BY <3>1, <3>2
  <2>7. KeyBehindServing'
    BY <1>19 DEF DeleteFails
  <2> QED
    BY <2>1, <2>2, <2>3, <2>4, <2>5, <2>6, <2>7
<1>20. ASSUME NEW s \in Servers, ProbeKey(s) PROVE IInv'
  BY <1>20 DEF ProbeKey
<1>21. ASSUME NEW s \in Servers, AbortRevoke(s) PROVE IInv'
  BY <1>21 DEF AbortRevoke
<1>22. ASSUME NEW s \in Servers, FinishRevoke(s) PROVE IInv'
  BY <1>22 DEF FinishRevoke
<1>23. ASSUME NEW s \in Servers, DropRequest(s) PROVE IInv'
  BY <1>23 DEF DropRequest
<1>24. ASSUME NEW s \in Servers, Crash(s) PROVE IInv'
  BY <1>24 DEF Crash
<1>25. ASSUME NEW k \in Ids, ClaimLapses(k) PROVE IInv'
  <2>0. k \notin Claimed
    BY <1>25 DEF ClaimLapses
  <2>1. NoGhostOperator'
    BY <1>25, <2>0 DEF ClaimLapses
  <2>2. ClaimsHeld' /\ OneRevocationPerKey'
    BY <1>25, <2>0 DEF ClaimLapses
  <2>3. TargetsKnown'
    BY <1>25, <2>0 DEF ClaimLapses
  <2>4. TargetsSettled'
    BY <1>25, <2>0 DEF ClaimLapses
  <2>5. ReadersSound'
    BY <1>25, <2>0 DEF ClaimLapses
  <2>6. SpareKey'
    BY <1>25, <2>0 DEF ClaimLapses
  <2>7. KeyBehindServing'
    BY <1>25, <2>0 DEF ClaimLapses
  <2> QED
    BY <2>1, <2>2, <2>3, <2>4, <2>5, <2>6, <2>7
<1>26. CASE UNCHANGED vars
  BY <1>26 DEF vars
<1> QED
  <2> HIDE <1>0 DEF IInv, TypeOK, Roles, Phases, Starting, Claiming, InRequest
  <2> QED
    BY <1>1, <1>2, <1>3, <1>4, <1>5, <1>6, <1>7, <1>8, <1>9,
       <1>10, <1>11, <1>12, <1>13, <1>14, <1>15, <1>16, <1>17, <1>18,
       <1>19, <1>20, <1>21, <1>22, <1>23, <1>24, <1>25, <1>26
       DEF Next, Startup, Arrival, Handle

\* A history that is orderly after a step was orderly before it.
LEMMA OrderlyBefore ==
  ASSUME TypeOK, [Next]_vars, orderly'
  PROVE  orderly
<1>1. ASSUME NEW s \in Servers, Startup(s) PROVE UNCHANGED orderly
  BY <1>1 DEF Startup, Start, ScanKeys, ReadSet, LookupKey, LookupsDone, WriteSet,
     BootScan, InsertBootKey, BootAdd, BootAudit, BootFlag
<1>2. ASSUME NEW s \in Servers, Arrival(s) PROVE orderly
  BY <1>2 DEF Arrival, CreateKey, RevokeRequest
<1>3. ASSUME NEW s \in Servers, Handle(s) \/ DropRequest(s) \/ Crash(s)
      PROVE  UNCHANGED orderly
  BY <1>3 DEF Handle, RegisterKey, BeginRevoke, AuditRevoke, AuditRevokeFails,
     DeleteKey, DeleteFails, ProbeKey, AbortRevoke, FinishRevoke, DropRequest, Crash
<1>4. ASSUME NEW k \in Ids, ClaimLapses(k) PROVE orderly
  BY <1>4 DEF ClaimLapses
<1>5. CASE UNCHANGED vars
  BY <1>5 DEF vars
<1> QED
  BY <1>1, <1>2, <1>3, <1>4, <1>5 DEF Next

\* OInv is inductive for every number of servers and keys.
LEMMA SpecOInv == Spec => []OInv
<1>1. Init => OInv
  BY InitTypeOK, InitIInv DEF OInv
<1>2. OInv /\ [Next]_vars => OInv'
  BY NextTypeOK, NextIInv, OrderlyBefore DEF OInv
<1> QED
  BY <1>1, <1>2, PTL DEF Spec

\* The guard of handleRevokeAPIKey for every number of servers and keys.
THEOREM LastOperatorSurvives == Spec => []OperatorSurvives
<1>1. OInv => OperatorSurvives
  BY DEF OInv, IInv, KeyBehindServing, OperatorSurvives
<1> QED
  BY SpecOInv, <1>1, PTL

\* The operator set never counts an id without a stored operator key.
THEOREM SetCountsStoredKeys == Spec => []NoGhostOperator
<1>1. OInv => NoGhostOperator
  BY DEF OInv, IInv, NoGhostOperator
<1> QED
  BY SpecOInv, <1>1, PTL

-----------------------------------------------------------------------------
(* The claim and its holder.  Only beginRevoke makes a server a holder, of *)
(* a key that nobody has claimed; from there every call of the handler     *)
(* brings the holder closer to abortRevoke or finishRevoke.                *)

\* A server takes a claim in beginRevoke and keeps to it.
LEMMA ClaimTaken ==
  ASSUME TypeOK, [Next]_vars, NEW s \in Servers, pc'[s] \in Claiming
  PROVE  /\ target'[s] = target[s]
         /\ pc[s] \notin Claiming => ~RevokeInProgress(target[s])
<1> DEFINE Kept == /\ target'[s] = target[s]
                   /\ pc[s] \notin Claiming => ~RevokeInProgress(target[s])
<1> USE DEF TypeOK, Claiming, Goto, Idle
<1>1. ASSUME NEW t \in Servers, Start(t) \/ ScanKeys(t) \/ ReadSet(t)
                                \/ LookupsDone(t) \/ WriteSet(t)
      PROVE  Kept
  BY <1>1 DEF Start, ScanKeys, ReadSet, LookupsDone, WriteSet
<1>2. ASSUME NEW t \in Servers, BootScan(t) \/ InsertBootKey(t) \/ BootAdd(t)
                                \/ BootAudit(t) \/ BootFlag(t)
      PROVE  Kept
  BY <1>2 DEF BootScan, InsertBootKey, BootAdd, BootAudit, BootFlag
<1>3. ASSUME NEW t \in Servers, Arrival(t) PROVE Kept
  BY <1>3 DEF Arrival, CreateKey, RevokeRequest
<1>4. ASSUME NEW t \in Servers, BeginRevoke(t) PROVE Kept
  BY <1>4 DEF BeginRevoke
<1>5. ASSUME NEW t \in Servers, RegisterKey(t) \/ AuditRevoke(t) \/ AuditRevokeFails(t)
                                \/ DeleteKey(t) \/ DeleteFails(t)
      PROVE  Kept
  BY <1>5 DEF RegisterKey, AuditRevoke, AuditRevokeFails, DeleteKey, DeleteFails
<1>6. ASSUME NEW t \in Servers, ProbeKey(t) \/ AbortRevoke(t) \/ FinishRevoke(t)
                                \/ DropRequest(t) \/ Crash(t)
      PROVE  Kept
  BY <1>6 DEF ProbeKey, AbortRevoke, FinishRevoke, DropRequest, Crash
<1>7. CASE UNCHANGED <<pc, target>>
  BY <1>7
<1>8. ASSUME NEW t \in Servers, NEW k \in Ids, LookupKey(t, k)
      PROVE  UNCHANGED <<pc, target>>
  BY <1>8 DEF LookupKey
<1>9. ASSUME NEW k \in Ids, ClaimLapses(k) PROVE UNCHANGED <<pc, target>>
  BY <1>9 DEF ClaimLapses
<1>10. CASE UNCHANGED vars
  BY <1>7, <1>10 DEF vars
<1> QED
  BY <1>1, <1>2, <1>3, <1>4, <1>5, <1>6, <1>7, <1>8, <1>9, <1>10
     DEF Next, Startup, Handle

\* Every call of a revocation brings its claim closer to the release.
LEMMA HandlerReleases ==
  ASSUME TypeOK, NEW s \in Servers, pc[s] \in Claiming, Handle(s)
  PROVE  IF pc'[s] \in Claiming
         THEN ClaimSteps(pc'[s]) < ClaimSteps(pc[s])
         ELSE target[s] \notin revoking'
<1> USE DEF TypeOK, Claiming, Goto, Idle, ClaimSteps
<1>1. CASE AuditRevoke(s) \/ AuditRevokeFails(s)
  BY <1>1 DEF AuditRevoke, AuditRevokeFails
<1>2. CASE DeleteKey(s) \/ DeleteFails(s)
  BY <1>2 DEF DeleteKey, DeleteFails
<1>3. CASE ProbeKey(s)
  BY <1>3 DEF ProbeKey
<1>4. CASE AbortRevoke(s) \/ FinishRevoke(s)
  BY <1>4 DEF AbortRevoke, FinishRevoke, AddOperator, SetOperators
<1>5. CASE RegisterKey(s) \/ BeginRevoke(s)
  BY <1>5 DEF RegisterKey, BeginRevoke
<1> QED
  BY <1>1, <1>2, <1>3, <1>4, <1>5 DEF Handle

\* A claim moves towards its release with every call of its handler and is
\* taken over by nobody, also when requests outlive their claims
\* (handleRevokeAPIKey, beginRevoke, abortRevoke, finishRevoke).
THEOREM ClaimsAreReleased == Spec => ClaimsReleased
<1> DEFINE Step ==
      /\ \A s \in Servers : pc[s] \in Claiming =>
             /\ pc'[s] \in Claiming => target'[s] = target[s]
             /\ Handle(s) => IF pc'[s] \in Claiming
                             THEN ClaimSteps(pc'[s]) < ClaimSteps(pc[s])
                             ELSE target[s] \notin revoking'
      /\ \A k \in (revoking \ lapsed) \ Claimed : k \notin Claimed'
<1>1. TypeOK /\ [Next]_vars => TypeOK' /\ [Step]_vars
  <2> SUFFICES ASSUME TypeOK, [Next]_vars PROVE TypeOK' /\ Step
    OBVIOUS
  <2>1. \A s \in Servers : pc[s] \in Claiming =>
            (pc'[s] \in Claiming => target'[s] = target[s])
    BY ClaimTaken
  <2>2. ASSUME NEW k \in (revoking \ lapsed) \ Claimed, k \in Claimed' PROVE FALSE
    <3>1. PICK t \in Servers : pc'[t] \in Claiming /\ target'[t] = k
      BY <2>2 DEF Claimed
    <3>2. target[t] = k /\ (pc[t] \notin Claiming => ~RevokeInProgress(k))
      BY <3>1, ClaimTaken
    <3> QED
      BY <2>2, <3>2 DEF Claimed, RevokeInProgress
  <2> QED
    BY <2>1, <2>2, NextTypeOK, HandlerReleases
<1> QED
  BY InitTypeOK, <1>1, PTL DEF Spec, ClaimsReleased

\* In an orderly history two revocations of one key never both pass
\* beginRevoke; in every history the one that does is on its way to release
\* the claim.
THEOREM ClaimsExclude == Spec => ClaimsExclusive
<1>1. OInv => OneRevocationPerKey
  BY DEF OInv, IInv, OneRevocationPerKey
<1> QED
  BY SpecOInv, <1>1, ClaimsAreReleased, PTL DEF ClaimsExclusive

-----------------------------------------------------------------------------
(* Audit before delete, in every history: a server that may delete a key   *)
(* has written the record itself.                                          *)

DeleteIsRecorded ==
    \A s \in Servers :
        pc[s] \in {"delete", "deleteTenant"} => <<"revoke", target[s]>> \in log

RInv == TypeOK /\ RevokeRecorded /\ DeleteIsRecorded

\* A deleted key has its apikey.revoke record, for every interleaving.
THEOREM DeletesAreRecorded == Spec => []RevokeRecorded
<1>1. Init => RInv
  <2> SUFFICES ASSUME Init PROVE RInv
    OBVIOUS
  <2>1. RevokeRecorded /\ DeleteIsRecorded
    BY DEF Init, RevokeRecorded, DeleteIsRecorded, Roles
  <2> QED
    BY <2>1, InitTypeOK DEF RInv
<1>2. RInv /\ [Next]_vars => RInv'
  <2> SUFFICES ASSUME RInv, [Next]_vars PROVE RInv'
    OBVIOUS
  <2>0. TypeOK'
    BY NextTypeOK DEF RInv
  <2> USE <2>0, BootIdAssumption
        DEF RInv, TypeOK, RevokeRecorded, DeleteIsRecorded, Roles, Goto, Idle,
            SetOperators, AddOperator, Record, Remove, docVars, scanVars
  <2>1. ASSUME NEW s \in Servers, Startup(s) PROVE RInv'
    BY <2>1 DEF Startup, Start, ScanKeys, ReadSet, LookupKey, LookupsDone,
       WriteSet, BootScan, InsertBootKey, BootAdd, BootAudit, BootFlag, ForgetScan,
       MustBootstrap
  <2>2. ASSUME NEW s \in Servers, Arrival(s) PROVE RInv'
    BY <2>2 DEF Arrival, CreateKey, RevokeRequest
  <2>3. ASSUME NEW s \in Servers, DeleteKey(s) PROVE RInv'
    BY <2>3 DEF DeleteKey
  <2>4. ASSUME NEW s \in Servers, DeleteFails(s) PROVE RInv'
    BY <2>4 DEF DeleteFails
  <2>5. ASSUME NEW s \in Servers, AuditRevoke(s) PROVE RInv'
    BY <2>5 DEF AuditRevoke
  <2>6. ASSUME NEW s \in Servers,
               \/ RegisterKey(s) \/ BeginRevoke(s) \/ AuditRevokeFails(s)
               \/ ProbeKey(s) \/ AbortRevoke(s) \/ FinishRevoke(s)
        PROVE RInv'
    BY <2>6 DEF RegisterKey, BeginRevoke, AuditRevokeFails, ProbeKey,
       AbortRevoke, FinishRevoke
  <2>7. ASSUME NEW s \in Servers, DropRequest(s) \/ Crash(s) PROVE RInv'
    BY <2>7 DEF DropRequest, Crash, ForgetScan
  <2>8. ASSUME NEW k \in Ids, ClaimLapses(k) PROVE RInv'
    BY <2>8 DEF ClaimLapses
  <2>9. CASE UNCHANGED vars
    BY <2>9 DEF vars
  <2> QED
    BY <2>1, <2>2, <2>3, <2>4, <2>5, <2>6, <2>7, <2>8, <2>9 DEF Next, Handle
<1>3. RInv => RevokeRecorded
  BY DEF RInv
<1> QED
  BY <1>1, <1>2, <1>3, PTL DEF Spec

-----------------------------------------------------------------------------
(* The bootstrap key.  Its flag follows its record, and a server that is   *)
(* about to insert it found no operator key, so the key was never revoked: *)
(* a revocation of it would have left another operator key (SpareKey), or  *)
(* has arrived since and the history is not orderly (TargetsSettled).      *)

\* auditBootstrap writes the record before the flag.
BInv == FlagMeansRecorded /\ \A s \in Servers :
            pc[s] = "bootFlag" => <<"create", BootId>> \in log

\* A revoked bootstrap key leaves an operator key, and nobody re-inserts it.
RevokedNotAdopted ==
    /\ keys[BootId] = "deleted" => OperatorKeys # {}
    /\ \A s \in Servers : pc[s] = "insert" => keys[BootId] # "deleted"

\* An operator key is deleted by the holder of a claim, so one is left.
LEMMA OperatorKeysStay ==
  ASSUME IInv, [Next]_vars, OperatorKeys # {}
  PROVE  OperatorKeys' # {}
<1>1. PICK k \in OperatorKeys : k \notin Claimed
  BY DEF IInv, SpareKey
<1>2. k \in Ids /\ keys[k] = "operator"
  BY <1>1 DEF OperatorKeys
<1>3. ASSUME NEW s \in Servers, DeleteKey(s) \/ DeleteFails(s) PROVE keys'[k] = keys[k]
  <2>1. target[s] # k
    BY <1>1, <1>2, <1>3 DEF DeleteKey, DeleteFails, Claimed, Claiming, IInv,
       TargetsKnown, TenantRevoking
  <2> QED
    BY <1>2, <1>3, <2>1 DEF DeleteKey, DeleteFails, Remove, IInv, TypeOK
<1>4. ASSUME NEW s \in Servers, InsertBootKey(s) PROVE keys'[k] = keys[k]
  BY <1>2, <1>4 DEF InsertBootKey, IInv, TypeOK
<1>5. ASSUME NEW s \in Servers, Arrival(s) PROVE keys'[k] = keys[k]
  BY <1>2, <1>5 DEF Arrival, CreateKey, RevokeRequest, IInv, TypeOK
<1>6. ASSUME ~ \E s \in Servers :
                  DeleteKey(s) \/ DeleteFails(s) \/ InsertBootKey(s) \/ Arrival(s)
      PROVE  UNCHANGED keys
  BY <1>6 DEF Next, Startup, Handle, Start, ScanKeys, ReadSet, LookupKey, LookupsDone,
     WriteSet, BootScan, BootAdd, BootAudit, BootFlag, RegisterKey, BeginRevoke,
     AuditRevoke, AuditRevokeFails, ProbeKey, AbortRevoke, FinishRevoke, DropRequest,
     Crash, ClaimLapses, vars
<1> QED
  BY <1>2, <1>3, <1>4, <1>5, <1>6 DEF OperatorKeys

\* Only bootstrapKey's scan decides to insert, only auditBootstrap to flag.
LEMMA BootPhases ==
  ASSUME TypeOK, [Next]_vars, NEW s \in Servers, pc'[s] # pc[s]
  PROVE  /\ pc'[s] = "insert" => BootScan(s) /\ MustBootstrap
         /\ pc'[s] = "bootFlag" => BootAudit(s)
<1> DEFINE Entered == /\ pc'[s] = "insert" => BootScan(s) /\ MustBootstrap
                      /\ pc'[s] = "bootFlag" => BootAudit(s)
<1> USE DEF TypeOK, Goto, Idle
<1>1. ASSUME NEW t \in Servers, Start(t) \/ ScanKeys(t) \/ ReadSet(t)
                                \/ LookupsDone(t) \/ WriteSet(t)
      PROVE  Entered
  BY <1>1 DEF Start, ScanKeys, ReadSet, LookupsDone, WriteSet
<1>2. ASSUME NEW t \in Servers, BootScan(t) PROVE Entered
  <2>1. t = s
    BY <1>2 DEF BootScan
  <2>2. pc'[s] # "bootFlag"
    BY <1>2, <2>1 DEF BootScan
  <2>3. pc'[s] = "insert" => MustBootstrap
    BY <1>2, <2>1 DEF BootScan
  <2> QED
    BY <1>2, <2>1, <2>2, <2>3
<1>3. ASSUME NEW t \in Servers, BootAudit(t) PROVE Entered
  BY <1>3 DEF BootAudit
<1>4. ASSUME NEW t \in Servers,
             InsertBootKey(t) \/ BootAdd(t) \/ BootFlag(t) \/ Arrival(t)
      PROVE  Entered
  BY <1>4 DEF InsertBootKey, BootAdd, BootFlag, Arrival, CreateKey, RevokeRequest
<1>5. ASSUME NEW t \in Servers, Handle(t) \/ DropRequest(t) \/ Crash(t) PROVE Entered
  BY <1>5 DEF Handle, RegisterKey, BeginRevoke, AuditRevoke, AuditRevokeFails,
     DeleteKey, DeleteFails, ProbeKey, AbortRevoke, FinishRevoke, DropRequest, Crash
<1>6. ASSUME ~ \E t \in Servers :
                  \/ Start(t) \/ ScanKeys(t) \/ ReadSet(t) \/ LookupsDone(t) \/ WriteSet(t)
                  \/ BootScan(t) \/ BootAudit(t) \/ InsertBootKey(t) \/ BootAdd(t)
                  \/ BootFlag(t) \/ Arrival(t) \/ Handle(t) \/ DropRequest(t) \/ Crash(t)
      PROVE  UNCHANGED pc
  BY <1>6 DEF Next, Startup, LookupKey, ClaimLapses, vars
<1> QED
  BY <1>1, <1>2, <1>3, <1>4, <1>5, <1>6

\* In an orderly history no step re-inserts a revoked bootstrap key or
\* revives any other.
LEMMA NextRevoked ==
  ASSUME IInv, RevokedNotAdopted, [Next]_vars
  PROVE  /\ RevokedNotAdopted'
         /\ \A k \in Ids : keys[k] = "deleted" => keys'[k] = "deleted"
<1> USE BootIdAssumption
<1>1. \A s \in Servers : pc[s] = "insert" => keys[BootId] \in {"unused", "operator"}
  BY DEF IInv, TypeOK, TargetsKnown, RevokedNotAdopted, Roles
<1>2. ASSUME NEW k \in Ids, keys[k] = "deleted" PROVE keys'[k] = "deleted"
  <2>1. ASSUME NEW s \in Servers, InsertBootKey(s) PROVE keys'[k] = "deleted"
    BY <1>1, <1>2, <2>1 DEF InsertBootKey, IInv, TypeOK
  <2>2. ASSUME NEW s \in Servers, DeleteKey(s) \/ DeleteFails(s) \/ Arrival(s)
        PROVE  keys'[k] = "deleted"
    BY <1>2, <2>2 DEF DeleteKey, DeleteFails, Arrival, Remove, CreateKey, RevokeRequest,
       Roles, IInv, TypeOK
  <2>3. ASSUME ~ \E s \in Servers :
                    DeleteKey(s) \/ DeleteFails(s) \/ InsertBootKey(s) \/ Arrival(s)
        PROVE  UNCHANGED keys
    BY <2>3 DEF Next, Startup, Handle, Start, ScanKeys, ReadSet, LookupKey, LookupsDone,
       WriteSet, BootScan, BootAdd, BootAudit, BootFlag, RegisterKey, BeginRevoke,
       AuditRevoke, AuditRevokeFails, ProbeKey, AbortRevoke, FinishRevoke, DropRequest,
       Crash, ClaimLapses, vars
  <2> QED
    BY <1>2, <2>1, <2>2, <2>3
<1>3. ASSUME keys'[BootId] = "deleted", keys[BootId] # "deleted"
      PROVE  \E s \in Servers : /\ DeleteKey(s) \/ DeleteFails(s)
                                /\ target[s] = BootId /\ keys[BootId] \in Roles
  <2>1. ASSUME NEW s \in Servers, InsertBootKey(s) \/ Arrival(s)
        PROVE  keys'[BootId] = keys[BootId] \/ keys'[BootId] = "operator"
    BY <2>1 DEF InsertBootKey, Arrival, CreateKey, RevokeRequest, IInv, TypeOK
  <2>2. ASSUME ~ \E s \in Servers :
                    DeleteKey(s) \/ DeleteFails(s) \/ InsertBootKey(s) \/ Arrival(s)
        PROVE  UNCHANGED keys
    BY <2>2 DEF Next, Startup, Handle, Start, ScanKeys, ReadSet, LookupKey, LookupsDone,
       WriteSet, BootScan, BootAdd, BootAudit, BootFlag, RegisterKey, BeginRevoke,
       AuditRevoke, AuditRevokeFails, ProbeKey, AbortRevoke, FinishRevoke, DropRequest,
       Crash, ClaimLapses, vars
  <2>3. PICK s \in Servers : DeleteKey(s) \/ DeleteFails(s)
    BY <1>3, <2>1, <2>2
  <2>4. keys' = keys \/ keys' = [keys EXCEPT ![target[s]] =
                                    IF @ \in Roles THEN "deleted" ELSE @]
    BY <2>3 DEF DeleteKey, DeleteFails, Remove
  <2> QED
    BY <1>3, <2>3, <2>4 DEF IInv, TypeOK
<1>4. keys'[BootId] = "deleted" => OperatorKeys' # {}
  <2>1. CASE keys[BootId] = "deleted"
    BY <2>1, OperatorKeysStay DEF RevokedNotAdopted
  <2>2. CASE keys[BootId] # "deleted" /\ keys'[BootId] = "deleted"
    <3>1. keys[BootId] = "operator"
      BY <1>3, <2>2 DEF IInv, TargetsKnown, Roles
    <3> QED
      BY <3>1, OperatorKeysStay DEF OperatorKeys
  <2> QED
    BY <2>1, <2>2
<1>5. ASSUME NEW s \in Servers, pc'[s] = "insert" PROVE keys'[BootId] # "deleted"
  <2>1. CASE pc[s] = "insert"
    <3>1. keys[BootId] # "deleted"
      BY <2>1 DEF RevokedNotAdopted
    <3>2. CreatingKey(s, BootId)
      BY <2>1 DEF CreatingKey, IInv, TargetsKnown, Starting
    <3>3. ASSUME NEW t \in Servers, DeleteKey(t) \/ DeleteFails(t) PROVE target[t] # BootId
      BY <3>2, <3>3 DEF DeleteKey, DeleteFails, IInv, TargetsSettled, TargetsKnown,
         Revoking, Claiming, TenantRevoking
    <3> QED
      BY <1>3, <3>1, <3>3
  <2>2. CASE pc[s] # "insert"
    <3>1. BootScan(s) /\ MustBootstrap
      BY <1>5, <2>2, BootPhases DEF IInv
    <3> QED
      BY <3>1 DEF BootScan, MustBootstrap, RevokedNotAdopted
  <2> QED
    BY <2>1, <2>2
<1> QED
  BY <1>2, <1>4, <1>5 DEF RevokedNotAdopted

\* In every history no step revives a revoked key but the bootstrap key.
LEMMA OthersStayRevoked ==
  ASSUME TypeOK, [Next]_vars, NEW k \in Ids, keys[k] = "deleted", k # BootId
  PROVE  keys'[k] = "deleted"
<1>1. ASSUME NEW s \in Servers, InsertBootKey(s) PROVE keys'[k] = "deleted"
  BY <1>1, BootIdAssumption DEF InsertBootKey, TypeOK
<1>2. ASSUME NEW s \in Servers, DeleteKey(s) \/ DeleteFails(s) \/ Arrival(s)
      PROVE  keys'[k] = "deleted"
  BY <1>2 DEF DeleteKey, DeleteFails, Arrival, Remove, CreateKey, RevokeRequest,
     Roles, TypeOK
<1>3. ASSUME ~ \E s \in Servers :
                  DeleteKey(s) \/ DeleteFails(s) \/ InsertBootKey(s) \/ Arrival(s)
      PROVE  UNCHANGED keys
  BY <1>3 DEF Next, Startup, Handle, Start, ScanKeys, ReadSet, LookupKey, LookupsDone,
     WriteSet, BootScan, BootAdd, BootAudit, BootFlag, RegisterKey, BeginRevoke,
     AuditRevoke, AuditRevokeFails, ProbeKey, AbortRevoke, FinishRevoke, DropRequest,
     Crash, ClaimLapses, vars
<1> QED
  BY <1>1, <1>2, <1>3

\* The flag of the bootstrap key implies its record, and a key that was
\* revoked is never adopted or created again, in an orderly history the
\* bootstrap key included (bootstrapKey and auditBootstrap).
THEOREM BootKeyIsAccounted == Spec => BootKeyAccounted
<1> DEFINE ORevoked == orderly => RevokedNotAdopted
           Stays == \A k \in Ids : keys[k] = "deleted" /\ (orderly \/ k # BootId)
                                        => keys'[k] = "deleted"
<1>1. Init => BInv /\ RevokedNotAdopted
  BY BootIdAssumption DEF Init, BInv, FlagMeansRecorded, RevokedNotAdopted, Roles
<1>2. TypeOK /\ BInv /\ [Next]_vars => BInv'
  <2> SUFFICES ASSUME TypeOK, BInv, [Next]_vars PROVE BInv'
    OBVIOUS
  <2>1. log \subseteq log'
    BY DEF Next, Startup, Arrival, Handle, Start, ScanKeys, ReadSet, LookupKey,
       LookupsDone, WriteSet, BootScan, InsertBootKey, BootAdd, BootAudit, BootFlag,
       CreateKey, RevokeRequest, RegisterKey, BeginRevoke, AuditRevoke,
       AuditRevokeFails, DeleteKey, DeleteFails, ProbeKey, AbortRevoke, FinishRevoke,
       DropRequest, Crash, ClaimLapses, vars, Record
  <2>2. ASSUME NEW s \in Servers, pc'[s] = "bootFlag", pc[s] # "bootFlag"
        PROVE  BootAudit(s)
    BY <2>2, BootPhases
  <2>3. ASSUME NEW s \in Servers, BootAudit(s) PROVE <<"create", BootId>> \in log'
    BY <2>3 DEF BootAudit, Record
  <2>4. ASSUME flagged' # flagged, flagged'
        PROVE  \E s \in Servers : BootFlag(s)
    BY <2>4 DEF Next, Startup, Arrival, Handle, Start, ScanKeys, ReadSet, LookupKey,
       LookupsDone, WriteSet, BootScan, InsertBootKey, BootAdd, BootAudit, BootFlag,
       CreateKey, RevokeRequest, RegisterKey, BeginRevoke, AuditRevoke,
       AuditRevokeFails, DeleteKey, DeleteFails, ProbeKey, AbortRevoke, FinishRevoke,
       DropRequest, Crash, ClaimLapses, vars
  <2> QED
    BY <2>1, <2>2, <2>3, <2>4 DEF BInv, FlagMeansRecorded, BootFlag, TypeOK
<1>3. OInv /\ ORevoked /\ [Next]_vars => ORevoked' /\ [Stays]_keys
  <2> SUFFICES ASSUME OInv, ORevoked, [Next]_vars PROVE ORevoked' /\ Stays
    OBVIOUS
  <2>1. orderly' => orderly
    BY OrderlyBefore DEF OInv
  <2>2. ASSUME orderly
        PROVE  /\ RevokedNotAdopted'
               /\ \A k \in Ids : keys[k] = "deleted" => keys'[k] = "deleted"
    BY <2>2, NextRevoked DEF OInv
  <2>3. \A k \in Ids : keys[k] = "deleted" /\ k # BootId => keys'[k] = "deleted"
    BY OthersStayRevoked DEF OInv
  <2> QED
    BY <2>1, <2>2, <2>3
<1>4. OInv => TypeOK
  BY DEF OInv
<1>5. BInv => FlagMeansRecorded
  BY DEF BInv
<1> QED
  BY SpecOInv, <1>1, <1>2, <1>3, <1>4, <1>5, PTL
     DEF Spec, BootKeyAccounted, RevokedStaysRevoked
=============================================================================
