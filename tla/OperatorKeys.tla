---------------------------- MODULE OperatorKeys ----------------------------
(***************************************************************************)
(* API keys of a MnemoCA server and the operator set, the store document   *)
(* that counts the live operator keys (internal/api/auth.go and the key    *)
(* handlers of internal/api/handlers.go).                                  *)
(*                                                                         *)
(* Several servers share one store.  A server starts by reconciling the    *)
(* operator set and bootstrapping an operator key, then handles requests   *)
(* that create and revoke keys.  Every call to the store or to the audit   *)
(* log is one step, so servers interleave between any two calls.  A server *)
(* of the model handles one request at a time: a process with several      *)
(* requests in flight is several servers, and a request whose context is   *)
(* cancelled is the action DropRequest.                                    *)
(*                                                                         *)
(* store.Update is atomic for a function of the document alone (bolt       *)
(* serialises writers, mongo retries a compare-and-swap), so addOperator,  *)
(* beginRevoke and finishRevoke are single steps.  reconcileOperators also *)
(* reads the keys inside its function, so its read, its look-ups and its   *)
(* compare-and-swap are separate steps, and fresh[s] says whether the      *)
(* document is still the one s has read.                                   *)
(***************************************************************************)
EXTENDS Naturals, FiniteSets

CONSTANTS
    Servers,
    Ids,                    \* ids of API keys
    BootId                  \* the id of the bootstrap key (supplied or minted)

ASSUME BootIdAssumption == BootId \in Ids

VARIABLES
    keys,      \* the apikeys bucket: "unused", a role, or "deleted" for a spent id
    flagged,   \* the Audited field of the bootstrap key
    ids,       \* operatorSet.IDs
    revoking,  \* the ids in operatorSet.Revoking
    lapsed,    \* the claims in Revoking that are older than revokeClaimTTL
    log,       \* the durable records of revocations and of the bootstrap key
    pc,        \* where each server is
    target,    \* the key a server is creating or revoking
    scan,      \* reconcileOperators: the operator keys it scanned
    todo,      \* reconcileOperators: the ids it has still to look up
    found,     \* reconcileOperators: the ids it looked up and found
    live,      \* reconcileOperators: the claims it read and keeps
    fresh,     \* the operator set is still the document the server read
    orderly    \* no claim has lapsed while its revocation was running, and no
               \* revocation of the bootstrap key has arrived while a server
               \* was still adopting it

docVars  == <<ids, revoking, lapsed, fresh>>
scanVars == <<scan, todo, found, live>>
vars == <<keys, flagged, log, docVars, pc, target, scanVars, orderly>>

-----------------------------------------------------------------------------
Roles == {"operator", "tenant"}

Starting   == {"scan", "read", "lookup", "write", "bootScan", "insert",
               "bootAdd", "bootAudit", "bootFlag"}
\* a server in Claiming holds a claim that beginRevoke gave it
Claiming   == {"audit", "delete", "probe", "abort", "finish"}
TenantRevoking == {"auditTenant", "deleteTenant"}
Phases     == {"down", "ready", "register", "begin"}
                \cup Starting \cup Claiming \cup TenantRevoking
InRequest  == {"register", "begin"} \cup Claiming \cup TenantRevoking

OperatorKeys == {k \in Ids : keys[k] = "operator"}
Claimed == {target[s] : s \in {t \in Servers : pc[t] \in Claiming}}

\* s may still write k to the store or to the operator set as a new key
CreatingKey(s, k) ==
    /\ pc[s] \in {"insert", "bootAdd", "register"}
    /\ target[s] = k

BeingCreated(k) == \E s \in Servers : CreatingKey(s, k)

Goto(s, phase) == pc' = [pc EXCEPT ![s] = phase]

\* s is done with its request or its start, and its locals are gone
Idle(s) == Goto(s, "ready") /\ target' = [target EXCEPT ![s] = BootId]
ForgetScan(s) ==
    /\ scan' = [scan EXCEPT ![s] = {}]
    /\ todo' = [todo EXCEPT ![s] = {}]
    /\ found' = [found EXCEPT ![s] = {}]
    /\ live' = [live EXCEPT ![s] = {}]

\* Definitions whose comment begins "Variant" are faulty forms of the one
\* that follows them; no action uses them.

\* A write of the operator set: it bumps the version every reader compares.
SetOperators(newIds, newRevoking) ==
    /\ ids' = newIds
    /\ revoking' = newRevoking
    /\ lapsed' = lapsed \cap newRevoking
    /\ fresh' = [s \in Servers |-> FALSE]

Record(action, k) == log' = log \cup {<<action, k>>}

\* s.addOperator, also abortRevoke: count k and drop its claim.
AddOperator(k) == SetOperators(ids \cup {k}, revoking \ {k})

-----------------------------------------------------------------------------
\* A store from before the operator set existed, or an empty one.
Init ==
    /\ keys \in [Ids -> {"unused"} \cup Roles]
    /\ keys[BootId] # "tenant"
    /\ flagged \in BOOLEAN
    /\ flagged => keys[BootId] = "operator"
    /\ ids = {} /\ revoking = {} /\ lapsed = {}
    /\ log = IF flagged THEN {<<"create", BootId>>} ELSE {}
    /\ pc = [s \in Servers |-> "down"]
    /\ target = [s \in Servers |-> BootId]
    /\ scan = [s \in Servers |-> {}]
    /\ todo = [s \in Servers |-> {}]
    /\ found = [s \in Servers |-> {}]
    /\ live = [s \in Servers |-> {}]
    /\ fresh = [s \in Servers |-> FALSE]
    /\ orderly = TRUE

-----------------------------------------------------------------------------
(* Startup: reconcileOperators.                                            *)

Start(s) ==
    /\ pc[s] = "down"
    /\ Goto(s, "scan")
    /\ UNCHANGED <<keys, flagged, log, docVars, target, scanVars, orderly>>

\* the ForEach over the keys
ScanKeys(s) ==
    /\ pc[s] = "scan"
    /\ scan' = [scan EXCEPT ![s] = OperatorKeys]
    /\ Goto(s, "read")
    /\ UNCHANGED <<keys, flagged, log, docVars, target, todo, found, live, orderly>>

\* the Update reads the document: expired claims are dropped, live ones kept
ReadSet(s) ==
    /\ pc[s] = "read"
    /\ fresh' = [fresh EXCEPT ![s] = TRUE]
    /\ live' = [live EXCEPT ![s] = revoking \ lapsed]
    /\ todo' = [todo EXCEPT ![s] = scan[s] \ (revoking \ lapsed)]
    /\ found' = [found EXCEPT ![s] = {}]
    /\ Goto(s, "lookup")
    /\ UNCHANGED <<keys, flagged, log, ids, revoking, lapsed, target, scan, orderly>>

\* the Get that re-checks one scanned id inside the Update
LookupKey(s, k) ==
    /\ pc[s] = "lookup"
    /\ k \in todo[s]
    /\ todo' = [todo EXCEPT ![s] = @ \ {k}]
    /\ found' = [found EXCEPT ![s] =
                    IF keys[k] \in Roles THEN @ \cup {k} ELSE @]
    /\ UNCHANGED <<keys, flagged, log, docVars, pc, target, scan, live, orderly>>

LookupsDone(s) ==
    /\ pc[s] = "lookup"
    /\ todo[s] = {}
    /\ Goto(s, "write")
    /\ UNCHANGED <<keys, flagged, log, docVars, target, scanVars, orderly>>

\* the compare-and-swap: it commits if nobody wrote the document since the
\* read, otherwise the Update starts over with the same scan
WriteSet(s) ==
    /\ pc[s] = "write"
    /\ IF fresh[s]
       THEN /\ SetOperators(found[s], live[s])
            /\ Goto(s, "bootScan")
            /\ ForgetScan(s)
       ELSE /\ Goto(s, "read")
            /\ UNCHANGED <<docVars, scanVars>>
    /\ UNCHANGED <<keys, flagged, log, target, orderly>>

-----------------------------------------------------------------------------
(* Startup: bootstrapKey.                                                  *)

\* Variant: adopt the supplied key whenever it is not stored.
MustBootstrapUnlessStored == keys[BootId] \notin Roles

\* no operator key is left, or none was ever there
MustBootstrap == OperatorKeys = {}

\* the second ForEach: with an operator key in the store nothing is created,
\* and a bootstrap key that was never audited is audited now
BootScan(s) ==
    /\ pc[s] = "bootScan"
    /\ \/ MustBootstrap /\ Goto(s, "insert")
       \/ /\ ~MustBootstrap
          /\ keys[BootId] = "operator" /\ ~flagged
          /\ Goto(s, "bootAudit")
       \/ /\ ~MustBootstrap
          /\ ~(keys[BootId] = "operator" /\ ~flagged)
          /\ Goto(s, "ready")
    /\ UNCHANGED <<keys, flagged, log, docVars, target, scanVars, orderly>>

\* insertKey, a PutIfAbsent under the one bootstrap id
InsertBootKey(s) ==
    /\ pc[s] = "insert"
    /\ IF keys[BootId] = "operator"
       THEN /\ Goto(s, "ready")
            /\ UNCHANGED <<keys, flagged>>
       ELSE /\ keys' = [keys EXCEPT ![BootId] = "operator"]
            /\ flagged' = FALSE
            /\ Goto(s, "bootAdd")
    /\ UNCHANGED <<log, docVars, target, scanVars, orderly>>

BootAdd(s) ==
    /\ pc[s] = "bootAdd"
    /\ AddOperator(BootId)
    /\ Goto(s, "bootAudit")
    /\ UNCHANGED <<keys, flagged, log, target, scanVars, orderly>>

\* auditBootstrap: the record, then the flag; an error fails the start
BootAudit(s) ==
    /\ pc[s] = "bootAudit"
    /\ Record("create", BootId)
    /\ Goto(s, "bootFlag")
    /\ UNCHANGED <<keys, flagged, docVars, target, scanVars, orderly>>

BootFlag(s) ==
    /\ pc[s] = "bootFlag"
    /\ flagged' = (flagged \/ keys[BootId] = "operator")
    /\ Goto(s, "ready")
    /\ UNCHANGED <<keys, log, docVars, target, scanVars, orderly>>

-----------------------------------------------------------------------------
(* handleCreateAPIKey.                                                     *)

\* an operator key authenticates the request; createKey stores the new key.
\* The audit record and the answer that follow tell no property apart.
CreateKey(s, k, role) ==
    /\ pc[s] = "ready"
    /\ OperatorKeys # {}
    /\ k # BootId /\ keys[k] = "unused"
    /\ keys' = [keys EXCEPT ![k] = role]
    /\ IF role = "operator"
       THEN Goto(s, "register") /\ target' = [target EXCEPT ![s] = k]
       ELSE UNCHANGED <<pc, target>>
    /\ UNCHANGED <<flagged, log, docVars, scanVars, orderly>>

RegisterKey(s) ==
    /\ pc[s] = "register"
    /\ AddOperator(target[s])
    /\ Idle(s)
    /\ UNCHANGED <<keys, flagged, log, scanVars, orderly>>

-----------------------------------------------------------------------------
(* handleRevokeAPIKey.                                                     *)

\* An operator key authenticates the request; the Get of the key to revoke.
\* Nobody knows a random id before its creation is answered; the bootstrap id
\* is fixed, or known from the file it is adopted from.
RevokeRequest(s, k) ==
    /\ pc[s] = "ready"
    /\ OperatorKeys # {}
    /\ keys[k] \in Roles
    /\ BeingCreated(k) => k = BootId
    /\ orderly' = (orderly /\ ~BeingCreated(k))
    /\ target' = [target EXCEPT ![s] = k]
    /\ Goto(s, IF keys[k] = "operator" THEN "begin" ELSE "auditTenant")
    /\ UNCHANGED <<keys, flagged, log, docVars, scanVars>>

\* Variant: the claim of another revocation is overwritten.
ClaimIgnored(k) == FALSE

RevokeInProgress(k) == k \in revoking \ lapsed

\* Variant: refuse only when the set is empty already.
NoOperatorCounted(k) == ids = {}

LastOperator(k) == ids \subseteq {k}

\* beginRevoke: claim the key, or refuse with 409
BeginRevoke(s) ==
    /\ pc[s] = "begin"
    /\ IF RevokeInProgress(target[s]) \/ LastOperator(target[s])
       THEN /\ Idle(s)
            /\ UNCHANGED docVars
       ELSE /\ ids' = ids \ {target[s]}
            /\ revoking' = revoking \cup {target[s]}
            /\ lapsed' = lapsed \ {target[s]}
            /\ fresh' = [t \in Servers |-> FALSE]
            /\ Goto(s, "audit")
            /\ UNCHANGED target
    /\ UNCHANGED <<keys, flagged, log, scanVars, orderly>>

AuditRevoke(s) ==
    /\ \/ pc[s] = "audit" /\ Goto(s, "delete")
       \/ pc[s] = "auditTenant" /\ Goto(s, "deleteTenant")
    /\ Record("revoke", target[s])
    /\ UNCHANGED <<keys, flagged, docVars, target, scanVars, orderly>>

\* Variant: audit on a best-effort basis.
AuditRevokeFailsOpen(s) ==
    /\ pc[s] = "audit"
    /\ Goto(s, "delete")
    /\ UNCHANGED <<keys, flagged, log, docVars, target, scanVars, orderly>>

\* fail(err, false)
AuditRevokeFails(s) ==
    /\ pc[s] = "audit"
    /\ Goto(s, "probe")
    /\ UNCHANGED <<keys, flagged, log, docVars, target, scanVars, orderly>>

Remove(k) == keys' = [keys EXCEPT ![k] = IF @ \in Roles THEN "deleted" ELSE @]

DeleteKey(s) ==
    /\ \/ pc[s] = "delete" /\ Goto(s, "finish") /\ UNCHANGED target
       \/ pc[s] = "deleteTenant" /\ Idle(s)
    /\ Remove(target[s])
    /\ UNCHANGED <<flagged, log, docVars, scanVars, orderly>>

\* fail(err, true): the delete may have committed or not; the
\* apikey.revoke.failed record is best effort and left out
DeleteFails(s) ==
    /\ \/ pc[s] = "delete" /\ Goto(s, "probe") /\ UNCHANGED target
       \/ pc[s] = "deleteTenant" /\ Idle(s)
    /\ Remove(target[s]) \/ UNCHANGED keys
    /\ UNCHANGED <<flagged, log, docVars, scanVars, orderly>>

\* Variant: a failed delete has deleted nothing.
AssumeSurvived(k) == TRUE

Survived(k) == keys[k] \in Roles

\* the Get of the fail path: restore the count only if the key survived
ProbeKey(s) ==
    /\ pc[s] = "probe"
    /\ Goto(s, IF Survived(target[s]) THEN "abort" ELSE "finish")
    /\ UNCHANGED <<keys, flagged, log, docVars, target, scanVars, orderly>>

AbortRevoke(s) ==
    /\ pc[s] = "abort"
    /\ AddOperator(target[s])
    /\ Idle(s)
    /\ UNCHANGED <<keys, flagged, log, scanVars, orderly>>

FinishRevoke(s) ==
    /\ pc[s] = "finish"
    /\ SetOperators(ids \ {target[s]}, revoking \ {target[s]})
    /\ Idle(s)
    /\ UNCHANGED <<keys, flagged, log, scanVars, orderly>>

-----------------------------------------------------------------------------
(* The environment: cancelled requests, crashes and time.                  *)

\* a store or audit error, or a cancelled context, ends the request here
DropRequest(s) ==
    /\ pc[s] \in InRequest
    /\ Idle(s)
    /\ UNCHANGED <<keys, flagged, log, docVars, scanVars, orderly>>

\* a crash, or an error that fails the start
Crash(s) ==
    /\ pc[s] # "down"
    /\ Goto(s, "down")
    /\ target' = [target EXCEPT ![s] = BootId]
    /\ ForgetScan(s)
    /\ fresh' = [fresh EXCEPT ![s] = FALSE]
    /\ UNCHANGED <<keys, flagged, log, ids, revoking, lapsed, orderly>>

\* Variant: a claim without a time to live.
ClaimNeverLapses(k) == FALSE /\ UNCHANGED vars

\* revokeClaimTTL has passed since the claim on k was taken
ClaimLapses(k) ==
    /\ k \in revoking \ lapsed
    /\ lapsed' = lapsed \cup {k}
    /\ orderly' = (orderly /\ k \notin Claimed)
    /\ UNCHANGED <<keys, flagged, log, ids, revoking, fresh, pc, target, scanVars>>

-----------------------------------------------------------------------------
Startup(s) ==
    \/ Start(s) \/ ScanKeys(s) \/ ReadSet(s) \/ (\E k \in Ids : LookupKey(s, k))
    \/ LookupsDone(s) \/ WriteSet(s)
    \/ BootScan(s) \/ InsertBootKey(s) \/ BootAdd(s) \/ BootAudit(s) \/ BootFlag(s)

Arrival(s) ==
    \E k \in Ids : \/ \E role \in Roles : CreateKey(s, k, role)
                   \/ RevokeRequest(s, k)

Handle(s) ==
    \/ RegisterKey(s) \/ BeginRevoke(s) \/ AuditRevoke(s) \/ AuditRevokeFails(s)
    \/ DeleteKey(s) \/ DeleteFails(s) \/ ProbeKey(s)
    \/ AbortRevoke(s) \/ FinishRevoke(s)

Next ==
    \/ \E s \in Servers : Startup(s) \/ Arrival(s) \/ Handle(s)
                          \/ DropRequest(s) \/ Crash(s)
    \/ \E k \in Ids : ClaimLapses(k)

Spec == Init /\ [][Next]_vars

(* A goroutine that serves a request runs, and time passes.  Nothing else  *)
(* is fair: nobody has to send a request or restart a server.              *)
Fairness ==
    /\ \A s \in Servers : WF_vars(Handle(s))
    /\ \A k \in Ids : WF_vars(ClaimLapses(k))

LiveSpec == Spec /\ Fairness

-----------------------------------------------------------------------------
TypeOK ==
    /\ keys \in [Ids -> {"unused", "deleted"} \cup Roles]
    /\ flagged \in BOOLEAN
    /\ ids \subseteq Ids
    /\ revoking \subseteq Ids
    /\ lapsed \subseteq revoking
    /\ log \subseteq {"create", "revoke"} \X Ids
    /\ pc \in [Servers -> Phases]
    /\ target \in [Servers -> Ids]
    /\ scan \in [Servers -> SUBSET Ids]
    /\ todo \in [Servers -> SUBSET Ids]
    /\ found \in [Servers -> SUBSET Ids]
    /\ live \in [Servers -> SUBSET Ids]
    /\ fresh \in [Servers -> BOOLEAN]
    /\ orderly \in BOOLEAN

Serving(s) == pc[s] \in {"ready"} \cup InRequest

(* The guard of handleRevokeAPIKey: once a server answers requests, the    *)
(* store never loses its last operator key, whatever revocations,          *)
(* creations, restarts and crashes overlap, in an orderly history.         *)
OperatorSurvives ==
    orderly /\ (\E s \in Servers : Serving(s)) => OperatorKeys # {}

(* beginRevoke counts on operatorSet.IDs: every id it counts is a stored   *)
(* operator key, also after a delete that committed but returned an error, *)
(* in an orderly history.                                                  *)
NoGhostOperator == orderly => ids \subseteq OperatorKeys

(* The claim in Revoking excludes: no two revocations of one key run past  *)
(* beginRevoke at the same time, in an orderly history.                    *)
OneRevocationPerKey ==
    orderly => \A s, t \in Servers :
        /\ pc[s] \in Claiming
        /\ pc[t] \in Claiming
        /\ target[s] = target[t]
        => s = t

\* What a revocation past beginRevoke has left to do at most.
ClaimSteps(phase) ==
    CASE phase = "audit"               -> 4
      [] phase = "delete"              -> 3
      [] phase = "probe"               -> 2
      [] phase \in {"abort", "finish"} -> 1

(* A revocation keeps to the claim it took, each step of its handler       *)
(* brings it closer to the release of the claim, and a claim that it       *)
(* leaves behind is taken over by nobody.                                  *)
ClaimsReleased ==
    [][/\ \A s \in Servers : pc[s] \in Claiming =>
              /\ pc'[s] \in Claiming => target'[s] = target[s]
              /\ Handle(s) => IF pc'[s] \in Claiming
                              THEN ClaimSteps(pc'[s]) < ClaimSteps(pc[s])
                              ELSE target[s] \notin revoking'
       /\ \A k \in (revoking \ lapsed) \ Claimed : k \notin Claimed']_vars

(* A claim has one holder, which is on its way to release it.              *)
ClaimsExclusive == []OneRevocationPerKey /\ ClaimsReleased

(* handleRevokeAPIKey audits before it deletes: a key that is gone has a   *)
(* durable apikey.revoke record, whichever call failed on the way.         *)
RevokeRecorded ==
    \A k \in Ids : keys[k] = "deleted" => <<"revoke", k>> \in log

(* auditBootstrap flags the key after the record is durable, so a crash in *)
(* between repeats the record and never loses it.                          *)
FlagMeansRecorded == flagged => <<"create", BootId>> \in log

(* A revoked key stays revoked.  bootstrapKey creates its key only in a    *)
(* store without operator keys, so in an orderly history the bootstrap key *)
(* is no exception.  In the others it is: a start that had found no        *)
(* operator key before another created the bootstrap key, and before a     *)
(* request revoked it, adopts it again.                                    *)
RevokedStaysRevoked ==
    [][\A k \in Ids : keys[k] = "deleted" /\ (orderly \/ k # BootId)
                        => keys'[k] = "deleted"]_keys

(* revokeClaimTTL bounds how long a crashed revocation blocks its key: a   *)
(* live claim is released by its revocation or lapses.                     *)
ClaimsEnd ==
    \A k \in Ids : k \in revoking \ lapsed ~> k \notin revoking \ lapsed

(* The Audited flag of the bootstrap key implies its record, and a revoked *)
(* key stays revoked, the bootstrap key in an orderly history.             *)
BootKeyAccounted == []FlagMeansRecorded /\ RevokedStaysRevoked
=============================================================================
