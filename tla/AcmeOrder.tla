----------------------------- MODULE AcmeOrder ------------------------------
(***************************************************************************)
(* One ACME order, its authorizations and its certificate                  *)
(* (internal/acme/order.go and challenge.go).                              *)
(*                                                                         *)
(* A challenge request validates and then writes the challenge, the        *)
(* authorization and, recomputed from all authorizations, the order; a     *)
(* finalize request issues and then writes the certificate and the order.  *)
(* Every write is a blind Put of the document the request has read, and    *)
(* requests run concurrently, so any step of one falls between any two     *)
(* steps of another.  Orders share nothing, so one is enough.              *)
(***************************************************************************)
EXTENDS Naturals, FiniteSets

CONSTANTS
    N,            \* the identifiers of the order, 1..N, each with one authorization
    Types,        \* the challenge types offered for each
    Validators,   \* challenge requests, each run any number of times
    Finalizers,   \* finalize requests, each run once
    NoCert,       \* the order has no certificate
    NoJob         \* no challenge request is running

ASSUME NAssumption == N \in Nat \ {0}
ASSUME RequestsAreDisjoint == Validators \cap Finalizers = {}
ASSUME NoCertAssumption == NoCert \notin Finalizers

VARIABLES
    chal,         \* status of each challenge document
    authz,        \* status of each authorization document
    order,        \* the order document: status and certificate
    proven,       \* the identifiers some check has found to be controlled
    issued,       \* the certificates issued, named by their finalize request
    stored,       \* the certificate documents
    pc,           \* where each request is
    job,          \* what a challenge request carries from step to step
    seen          \* what has happened so far: "overlap" (of two requests),
                  \* "failure" (of a request between two steps)

docVars == <<chal, authz, order, proven, issued, stored>>
vars == <<docVars, pc, job, seen>>

Idents == 1..N
Challenges == Idents \X Types
Requests == Validators \cup Finalizers
Goto(r, phase) == pc' = [pc EXCEPT ![r] = phase]
Idle(r) == pc[r] \in {"idle", "done"}
Begin(r) ==
    /\ pc[r] = "idle"
    /\ seen' = IF \A q \in Requests : Idle(q) THEN seen ELSE seen \cup {"overlap"}

\* handleNewOrder writes challenges, authorizations and order; nobody knows
\* their ids before it answers, so it is one step, and the first
Init ==
    /\ chal = [c \in Challenges |-> "pending"]
    /\ authz = [a \in Idents |-> "pending"]
    /\ order = [status |-> "pending", cert |-> NoCert]
    /\ proven = {} /\ issued = {} /\ stored = {}
    /\ pc = [r \in Requests |-> "idle"]
    /\ job = [v \in Validators |-> NoJob]
    /\ seen = {}

-----------------------------------------------------------------------------
(* handleChallenge                                                         *)

\* what is written next, and how far updateOrderStatus has read
Set(v, field, value) == job' = [job EXCEPT ![v] = [@ EXCEPT ![field] = value]]
Answer(v) == Goto(v, "idle") /\ job' = [job EXCEPT ![v] = NoJob]

\* only a pending challenge is validated; the order's status does not matter
StartChallenge(v) ==
    /\ Begin(v)
    /\ \E c \in Challenges :
            /\ chal[c] = "pending"
            /\ job' = [job EXCEPT ![v] = [on |-> c, found |-> "pending", at |-> 1]]
    /\ Goto(v, "check")
    /\ UNCHANGED docVars

\* checkHTTP01 or checkDNS01
CheckSucceeds(v) ==
    /\ pc[v] = "check"
    /\ proven' = proven \cup {job[v].on[1]}
    /\ Set(v, "found", "valid")
    /\ Goto(v, "putChallenge")
    /\ UNCHANGED <<chal, authz, order, issued, stored, seen>>

CheckFails(v) ==
    /\ pc[v] = "check"
    /\ Set(v, "found", "invalid")
    /\ Goto(v, "putChallenge")
    /\ UNCHANGED <<docVars, seen>>

PutChallenge(v) ==
    /\ pc[v] = "putChallenge"
    /\ chal' = [chal EXCEPT ![job[v].on] = job[v].found]
    /\ Goto(v, "putAuthz")
    /\ UNCHANGED <<authz, order, proven, issued, stored, job, seen>>

\* Variant: the order is not recomputed.
PutAuthzOnly(v) ==
    /\ pc[v] = "putAuthz"
    /\ authz' = [authz EXCEPT ![job[v].on[1]] = job[v].found]
    /\ Answer(v)
    /\ UNCHANGED <<chal, order, proven, issued, stored, seen>>

PutAuthz(v) ==
    /\ pc[v] = "putAuthz"
    /\ authz' = [authz EXCEPT ![job[v].on[1]] = job[v].found]
    /\ Set(v, "found", "ready")
    /\ Goto(v, "readOrder")
    /\ UNCHANGED <<chal, order, proven, issued, stored, seen>>

\* Variant: the order is recomputed whatever its status.
ReadAnyOrder(v) ==
    /\ pc[v] = "readOrder"
    /\ Goto(v, "readAuthz") /\ UNCHANGED job
    /\ UNCHANGED <<docVars, seen>>

\* updateOrderStatus: an order that is not pending is left alone
ReadOrder(v) ==
    /\ pc[v] = "readOrder"
    /\ IF order.status = "pending"
       THEN Goto(v, "readAuthz") /\ UNCHANGED job
       ELSE Answer(v)
    /\ UNCHANGED <<docVars, seen>>

\* Variant: an authorization that is still pending counts as valid.
NextFoundLenient(v) == IF authz[job[v].at] = "invalid" THEN "invalid" ELSE job[v].found

\* what the order becomes after one more authorization is read: invalid with
\* the first that is, ready only if all are valid
NextFound(v) ==
    CASE authz[job[v].at] = "invalid" -> "invalid"
      [] authz[job[v].at] = "valid"   -> job[v].found
      [] OTHER                        -> "pending"

MoreToRead(v) == job[v].at < N

\* the authorizations in turn, until one is invalid or all are read
ReadAuthz(v) ==
    /\ pc[v] = "readAuthz"
    /\ \/ /\ NextFound(v) # "invalid" /\ MoreToRead(v)
          /\ job' = [job EXCEPT ![v].found = NextFound(v), ![v].at = @ + 1]
          /\ UNCHANGED pc
       \/ /\ NextFound(v) = "invalid" \/ (job[v].at = N /\ NextFound(v) = "ready")
          /\ Set(v, "found", NextFound(v))
          /\ Goto(v, "putOrder")
       \/ /\ job[v].at = N /\ NextFound(v) = "pending"
          /\ Answer(v)
    /\ UNCHANGED <<docVars, seen>>

\* the whole document as it was read, pending and without a certificate, with
\* the new status
PutOrder(v) ==
    /\ pc[v] = "putOrder"
    /\ order' = [status |-> job[v].found, cert |-> NoCert]
    /\ Answer(v)
    /\ UNCHANGED <<chal, authz, proven, issued, stored, seen>>

-----------------------------------------------------------------------------
(* handleFinalize                                                          *)

\* Variant: a valid order is finalized again.
StartFinalizeAgain(f) ==
    /\ Begin(f)
    /\ order.status \in {"ready", "valid"}
    /\ Goto(f, "issue")
    /\ UNCHANGED <<docVars, job>>

\* the order is read once, and must be ready; its Expires is not looked at
StartFinalize(f) ==
    /\ Begin(f)
    /\ order.status = "ready"
    /\ Goto(f, "issue")
    /\ UNCHANGED <<docVars, job>>

\* the CSR is for the order's identifiers, and Manager.Issue succeeds
IssueCert(f) ==
    /\ pc[f] = "issue"
    /\ issued' = issued \cup {f}
    /\ Goto(f, "putCert")
    /\ UNCHANGED <<chal, authz, order, proven, stored, job, seen>>

\* the CSR does not match, or Manager.Issue refuses
IssueRefused(f) ==
    /\ pc[f] = "issue"
    /\ Goto(f, "done")
    /\ UNCHANGED <<docVars, job, seen>>

PutCert(f) ==
    /\ pc[f] = "putCert"
    /\ stored' = stored \cup {f}
    /\ Goto(f, "putValid")
    /\ UNCHANGED <<chal, authz, order, proven, issued, job, seen>>

\* Variant: the order is written without its certificate.
FinishOrderBare(f) ==
    /\ pc[f] = "putValid"
    /\ order' = [order EXCEPT !.status = "valid"]
    /\ Goto(f, "done")
    /\ UNCHANGED <<chal, authz, proven, issued, stored, job, seen>>

\* the order as it was read, now valid and with the certificate
FinishOrder(f) ==
    /\ pc[f] = "putValid"
    /\ order' = [status |-> "valid", cert |-> f]
    /\ Goto(f, "done")
    /\ UNCHANGED <<chal, authz, proven, issued, stored, job, seen>>

-----------------------------------------------------------------------------
\* a store error, a cancelled context or a crash ends the request
Fail(r) ==
    /\ ~Idle(r)
    /\ IF r \in Validators THEN Answer(r) ELSE Goto(r, "done") /\ UNCHANGED job
    /\ seen' = seen \cup {"failure"}
    /\ UNCHANGED docVars

Next ==
    \/ \E v \in Validators :
            \/ StartChallenge(v) \/ CheckSucceeds(v) \/ CheckFails(v)
            \/ PutChallenge(v) \/ PutAuthz(v)
            \/ ReadOrder(v) \/ ReadAuthz(v) \/ PutOrder(v)
    \/ \E f \in Finalizers :
            \/ StartFinalize(f) \/ IssueCert(f) \/ IssueRefused(f)
            \/ PutCert(f) \/ FinishOrder(f)
    \/ \E r \in Requests : Fail(r)

Spec == Init /\ [][Next]_vars

-----------------------------------------------------------------------------
Statuses == {"pending", "valid", "invalid"}

TypeOK ==
    /\ chal \in [Challenges -> Statuses]
    /\ authz \in [Idents -> Statuses]
    /\ order \in [status : Statuses \cup {"ready"}, cert : Finalizers \cup {NoCert}]
    /\ proven \subseteq Idents
    /\ issued \subseteq Finalizers /\ stored \subseteq issued
    /\ seen \subseteq {"overlap", "failure"}
    /\ pc \in [Requests -> {"idle", "check", "putChallenge", "putAuthz", "readOrder",
                            "readAuthz", "putOrder", "issue", "putCert", "putValid", "done"}]
    /\ job \in [Validators -> [on : Challenges, found : Statuses \cup {"ready"}, at : Idents]
                            \cup {NoJob}]

(* No certificate without proof: whatever the requests overwrite, one is   *)
(* issued only after every identifier of the order was validated.          *)
IssuedOnlyIfProven == issued # {} => proven = Idents

(* A valid order names a certificate that was issued and can be fetched.   *)
ValidHasCert == order.status = "valid" => order.cert \in stored

(* challenge.go:106 recomputes "a pending order": an order that was        *)
(* finalized is not made ready, and open to be finalized, once more.       *)
ValidNotReadyAgain ==
    [][order.status = "valid" => order'.status # "ready"]_order

(* types.go:15 takes the statuses from RFC 8555 section 7.1.6: valid and   *)
(* invalid are final.  They are when requests do not overlap, whatever     *)
(* fails.                                                                  *)
SettledStaysAlone ==
    [][order.status \in {"valid", "invalid"} /\ "overlap" \notin seen
        => order' = order]_order

(* One order yields one certificate when requests neither overlap nor fail *)
(* part-way.                                                               *)
OneCertificate == seen = {} => Cardinality(issued) <= 1

(* challenge.go:75: validation "persists the resulting challenge,          *)
(* authorization, and order state": however requests overlap, when none is *)
(* running, none has failed and every identifier has a valid challenge,    *)
(* the order has left pending.                                             *)
ValidatedLeavesPending ==
    /\ "failure" \notin seen
    /\ \A r \in Requests : Idle(r)
    /\ \A a \in Idents : \E t \in Types : chal[<<a, t>>] = "valid"
    => order.status # "pending"

(* The documents of an order fit together in every state.                  *)
DocumentsFit == TypeOK /\ ValidHasCert
=============================================================================
