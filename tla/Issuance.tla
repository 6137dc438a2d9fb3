------------------------------ MODULE Issuance ------------------------------
(***************************************************************************)
(* Issuance, revocation and CRLs of one tenant (internal/ca/issue.go).     *)
(*                                                                         *)
(* The calls of the Manager run concurrently and share the certificate     *)
(* documents, the CRL counter and the audit log.  A call is a sequence of  *)
(* store and log operations, each atomic, and may fail or crash at any of  *)
(* them; an operation that returns an error may still have happened.  What *)
(* a call decides before its first write (profile, key algorithm,          *)
(* validity, the chains asked for) is its choice of targets.               *)
(***************************************************************************)
EXTENDS Naturals, FiniteSets, Sequences

CONSTANTS
    Issuers,      \* calls of Issue
    Revokers,     \* calls of Revoke
    Builders,     \* what calls BuildCRL, each one call after another
    MaxCRLs       \* bound on the CRL numbers that are drawn

ASSUME MaxCRLsAssumption == MaxCRLs \in Nat
ASSUME CallsAreDisjoint ==
    Issuers \cap Revokers = {} /\ Issuers \cap Builders = {} /\ Revokers \cap Builders = {}

VARIABLES
    certs,        \* the certificate documents: "none", "valid" or "revoked"
    issueRecs,    \* the serials with a cert.issue record
    revokeRecs,   \* the serials with a cert.revoke record
    pc,           \* where each call is
    targets,      \* Issue: the chains still to issue from
    out,          \* Issue: the serials issued and recorded so far
    pending,      \* Issue: the serials it must revoke, having failed
    stuck,        \* Issue: the serials it could not revoke, named in its error
    unanswered,   \* the certificate documents whose write returned an error
                  \* and happened
    succeeded,    \* <<call, serial>> of every revocation that returned no error
    target,       \* the serial a revocation in progress is about
    crlNumber,    \* the CRL counter
    draft,        \* BuildCRL: chain, entries and number of the CRL in the making,
                  \* and the numbers of the CRLs returned before it began
    crls          \* the CRLs that were returned

issueVars == <<targets, out, pending, stuck, unanswered, succeeded>>
crlVars == <<crlNumber, draft, crls>>
vars == <<certs, issueRecs, revokeRecs, pc, target, issueVars, crlVars>>

Chains == {"primary", "pair"}
Serials == Issuers \X Chains     \* a request draws one random serial per chain
OfChain(c) == {s \in Serials : s[2] = c}
Goto(a, phase) == pc' = [pc EXCEPT ![a] = phase]
Running(a) == pc[a] \notin {"idle", "done", "failed", "crashed"}

NoSerial == <<>>
NoDraft == [chain |-> "primary", listed |-> {}, num |-> 0, after |-> {}]

Init ==
    /\ certs = [s \in Serials |-> "none"]
    /\ issueRecs = {} /\ revokeRecs = {}
    /\ pc = [a \in Issuers \cup Revokers \cup Builders |-> "idle"]
    /\ targets = [i \in Issuers |-> <<>>]
    /\ out = [i \in Issuers |-> {}]
    /\ pending = [i \in Issuers |-> {}]
    /\ stuck = [i \in Issuers |-> {}]
    /\ unanswered = {} /\ succeeded = {}
    /\ target = [a \in Issuers \cup Revokers |-> NoSerial]
    /\ crlNumber = 0
    /\ draft = [b \in Builders |-> NoDraft]
    /\ crls = {}

-----------------------------------------------------------------------------
(* Issue                                                                   *)

Serial(i) == <<i, Head(targets[i])>>

StartIssue(i) ==
    /\ pc[i] = "idle"
    /\ \E ts \in {<<"primary">>, <<"pair">>, <<"primary", "pair">>} :
            targets' = [targets EXCEPT ![i] = ts]
    /\ Goto(i, "put")
    /\ UNCHANGED <<certs, issueRecs, revokeRecs, target, out, pending, stuck, unanswered, succeeded, crlVars>>

PutCert(i) ==
    /\ pc[i] = "put"
    /\ certs' = [certs EXCEPT ![Serial(i)] = "valid"]
    /\ Goto(i, "record")
    /\ UNCHANGED <<issueRecs, revokeRecs, target, issueVars, crlVars>>

\* Issue gives up: what it issued, and what it must answer for, is revoked
Abandon(i, serials) ==
    /\ pending' = [pending EXCEPT ![i] = serials]
    /\ Goto(i, IF serials = {} THEN "failed" ELSE "abandon")

\* the key does not open, the signature fails, or the write of the document
\* returns an error: the serial of this chain is not among those revoked
PutFails(i) ==
    /\ pc[i] = "put"
    /\ \/ UNCHANGED <<certs, unanswered>>
       \/ /\ certs' = [certs EXCEPT ![Serial(i)] = "valid"]
          /\ unanswered' = unanswered \cup {Serial(i)}
    /\ Abandon(i, out[i])
    /\ UNCHANGED <<issueRecs, revokeRecs, target, targets, out, stuck, succeeded, crlVars>>

\* Variant: the audit record is best effort.
RecordIssueBestEffort(i) ==
    /\ pc[i] = "record"
    /\ \/ issueRecs' = issueRecs \cup {Serial(i)}
       \/ UNCHANGED issueRecs
    /\ out' = [out EXCEPT ![i] = @ \cup {Serial(i)}]
    /\ targets' = [targets EXCEPT ![i] = Tail(@)]
    /\ Goto(i, IF Len(targets[i]) = 1 THEN "done" ELSE "put")
    /\ UNCHANGED <<certs, revokeRecs, target, pending, stuck, unanswered, succeeded, crlVars>>

\* the write-ahead record of this chain's certificate; after the last, Issue
\* returns the certificates in `out`
RecordIssue(i) ==
    /\ pc[i] = "record"
    /\ issueRecs' = issueRecs \cup {Serial(i)}
    /\ out' = [out EXCEPT ![i] = @ \cup {Serial(i)}]
    /\ targets' = [targets EXCEPT ![i] = Tail(@)]
    /\ Goto(i, IF Len(targets[i]) = 1 THEN "done" ELSE "put")
    /\ UNCHANGED <<certs, revokeRecs, target, pending, stuck, unanswered, succeeded, crlVars>>

\* Variant: the serial whose record failed is forgotten.
RecordIssueFailsForgetful(i) ==
    /\ pc[i] = "record"
    /\ Abandon(i, out[i])
    /\ UNCHANGED <<certs, issueRecs, revokeRecs, target, targets, out, stuck, unanswered, succeeded, crlVars>>

\* a persistedError names the serial, which is revoked with the others
RecordIssueFails(i) ==
    /\ pc[i] = "record"
    /\ issueRecs' \in {issueRecs, issueRecs \cup {Serial(i)}}
    /\ Abandon(i, out[i] \cup {Serial(i)})
    /\ UNCHANGED <<certs, revokeRecs, target, targets, out, stuck, unanswered, succeeded, crlVars>>

\* abandonIssued: one revocation after another, then the error with its outcome
RevokeNext(i) ==
    /\ pc[i] = "abandon"
    /\ \E s \in pending[i] : target' = [target EXCEPT ![i] = s]
    /\ Goto(i, "revoke")
    /\ UNCHANGED <<certs, issueRecs, revokeRecs, issueVars, crlVars>>

ReportFailure(i) ==
    /\ pc[i] = "abandon"
    /\ pending[i] = {}
    /\ Goto(i, "failed")
    /\ UNCHANGED <<certs, issueRecs, revokeRecs, target, issueVars, crlVars>>

-----------------------------------------------------------------------------
(* Revoke, called by a request of its own and by abandonIssued             *)

StartRevoke(r) ==
    /\ pc[r] = "idle"
    /\ \E s \in Serials : target' = [target EXCEPT ![r] = s]
    /\ Goto(r, "revoke")
    /\ UNCHANGED <<certs, issueRecs, revokeRecs, issueVars, crlVars>>

\* Revoke returns; abandonIssued notes a serial whose revocation failed
Return(a, ok) ==
    /\ succeeded' = IF ok THEN succeeded \cup {<<a, target[a]>>} ELSE succeeded
    /\ IF a \in Revokers
       THEN Goto(a, IF ok THEN "done" ELSE "failed") /\ UNCHANGED <<pending, stuck>>
       ELSE /\ pending' = [pending EXCEPT ![a] = @ \ {target[a]}]
            /\ stuck' = IF ok THEN stuck ELSE [stuck EXCEPT ![a] = @ \cup {target[a]}]
            /\ Goto(a, "abandon")

\* Variant: a certificate that is revoked already is revoked again.
MarkRevokedAgain(a) ==
    /\ pc[a] = "revoke"
    /\ certs[target[a]] # "none"
    /\ certs' = [certs EXCEPT ![target[a]] = "revoked"]
    /\ Goto(a, "revokeRecord")
    /\ UNCHANGED <<issueRecs, revokeRecs, target, issueVars, crlVars>>

\* the read-modify-write of the document refuses what is revoked already
MarkRevoked(a) ==
    /\ pc[a] = "revoke"
    /\ certs[target[a]] = "valid"
    /\ certs' = [certs EXCEPT ![target[a]] = "revoked"]
    /\ Goto(a, "revokeRecord")
    /\ UNCHANGED <<issueRecs, revokeRecs, target, issueVars, crlVars>>

\* the serial is unknown or revoked already, the store fails, or time is up
RevokeFails(a) ==
    /\ pc[a] = "revoke"
    /\ \/ UNCHANGED certs
       \/ /\ certs[target[a]] = "valid"
          /\ certs' = [certs EXCEPT ![target[a]] = "revoked"]
    /\ Return(a, FALSE)
    /\ UNCHANGED <<issueRecs, revokeRecs, target, targets, out, unanswered, crlVars>>

RecordRevoke(a) ==
    /\ pc[a] = "revokeRecord"
    /\ revokeRecs' = revokeRecs \cup {target[a]}
    /\ Return(a, TRUE)
    /\ UNCHANGED <<certs, issueRecs, target, targets, out, unanswered, crlVars>>

\* the certificate stays revoked, and no later call can add the record
RecordRevokeFails(a) ==
    /\ pc[a] = "revokeRecord"
    /\ revokeRecs' \in {revokeRecs, revokeRecs \cup {target[a]}}
    /\ Return(a, FALSE)
    /\ UNCHANGED <<certs, issueRecs, target, targets, out, unanswered, crlVars>>

-----------------------------------------------------------------------------
(* BuildCRL                                                                *)

Rest(b) == Goto(b, "idle") /\ draft' = [draft EXCEPT ![b] = NoDraft]

Numbers == {l.num : l \in crls}
Revoked(c) == {s \in OfChain(c) : certs[s] = "revoked"}

\* the bound of the model: a build begins only if it can still draw a number
NumberLeft == crlNumber + Cardinality({b \in Builders : pc[b] = "number"}) < MaxCRLs

ScanRevoked(b) ==
    /\ pc[b] = "idle" /\ NumberLeft
    /\ \E c \in Chains :
            draft' = [draft EXCEPT ![b] =
                [chain |-> c, listed |-> Revoked(c), num |-> 0, after |-> Numbers]]
    /\ Goto(b, "number")
    /\ UNCHANGED <<certs, issueRecs, revokeRecs, target, issueVars, crlNumber, crls>>

\* Variant: the counter is read and not advanced.
NumberOfLast(b) ==
    /\ pc[b] = "number"
    /\ draft' = [draft EXCEPT ![b].num = crlNumber + 1]
    /\ Goto(b, "publish")
    /\ UNCHANGED <<certs, issueRecs, revokeRecs, target, issueVars, crlNumber, crls>>

\* NextSeq, one counter for both chains
NextNumber(b) ==
    /\ pc[b] = "number"
    /\ crlNumber' = crlNumber + 1
    /\ draft' = [draft EXCEPT ![b].num = crlNumber + 1]
    /\ Goto(b, "publish")
    /\ UNCHANGED <<certs, issueRecs, revokeRecs, target, issueVars, crls>>

\* the crl.publish record, and the CRL is returned
Publish(b) ==
    /\ pc[b] = "publish"
    /\ crls' = crls \cup {draft[b]}
    /\ Rest(b)
    /\ UNCHANGED <<certs, issueRecs, revokeRecs, target, issueVars, crlNumber>>

\* an error or a crash: the number may be drawn, and no CRL is returned
BuildFails(b) ==
    /\ pc[b] \in {"number", "publish"}
    /\ Rest(b)
    /\ UNCHANGED <<certs, issueRecs, revokeRecs, target, issueVars, crlNumber, crls>>

-----------------------------------------------------------------------------
Crash(a) ==
    /\ Running(a)
    /\ Goto(a, "crashed")
    /\ UNCHANGED <<certs, issueRecs, revokeRecs, target, issueVars, crlVars>>

Next ==
    \/ \E i \in Issuers : StartIssue(i) \/ PutCert(i) \/ PutFails(i) \/ RecordIssue(i)
                          \/ RecordIssueFails(i) \/ RevokeNext(i) \/ ReportFailure(i)
    \/ \E r \in Revokers : StartRevoke(r)
    \/ \E a \in Issuers \cup Revokers : MarkRevoked(a) \/ RevokeFails(a)
                                        \/ RecordRevoke(a) \/ RecordRevokeFails(a)
    \/ \E b \in Builders : ScanRevoked(b) \/ NextNumber(b) \/ Publish(b) \/ BuildFails(b)
    \/ \E a \in Issuers \cup Revokers : Crash(a)

Spec == Init /\ [][Next]_vars

-----------------------------------------------------------------------------
TypeOK ==
    /\ certs \in [Serials -> {"none", "valid", "revoked"}]
    /\ issueRecs \subseteq Serials /\ revokeRecs \subseteq Serials
    /\ pc \in [Issuers \cup Revokers \cup Builders ->
                {"idle", "put", "record", "abandon", "revoke", "revokeRecord",
                 "number", "publish", "done", "failed", "crashed"}]
    /\ targets \in [Issuers -> {<<>>, <<"primary">>, <<"pair">>, <<"primary", "pair">>}]
    /\ \A i \in Issuers : pc[i] \in {"put", "record"} => targets[i] # <<>>
    /\ out \in [Issuers -> SUBSET Serials]
    /\ pending \in [Issuers -> SUBSET Serials]
    /\ stuck \in [Issuers -> SUBSET Serials]
    /\ unanswered \subseteq Serials
    /\ succeeded \subseteq (Issuers \cup Revokers) \X Serials
    /\ target \in [Issuers \cup Revokers -> Serials \cup {NoSerial}]
    /\ crlNumber \in Nat
    /\ draft \in [Builders -> [chain : Chains, listed : SUBSET Serials, num : Nat,
                               after : SUBSET Nat]]
    /\ crls \subseteq [chain : Chains, listed : SUBSET Serials, num : Nat \ {0},
                      after : SUBSET Nat]

(* issue.go:36: "The certificate is not returned until its audit record is *)
(* durable": every certificate a finished Issue returns has its record and *)
(* its document, and only a call of Revoke can have revoked it.            *)
ReturnedIsRecorded ==
    \A i \in Issuers : pc[i] = "done" =>
        /\ out[i] \subseteq issueRecs
        /\ \A s \in out[i] : certs[s] = "valid" \/ \E r \in Revokers : target[r] = s

(* issue.go:133: a request that fails part-way leaves no valid certificate *)
(* that its error does not name as left issued, unless the write of its    *)
(* document was the call that failed, and happened.                        *)
FailedIssueAccounted ==
    \A i \in Issuers : pc[i] = "failed" =>
        \A c \in Chains : certs[<<i, c>>] = "valid" =>
            <<i, c>> \in stuck[i] \cup unanswered

\* a revocation of s that has not succeeded: it still has to write its record,
\* has crashed, or has returned an error
WithoutRecord(a, s) ==
    \/ target[a] = s /\ pc[a] \in {"revokeRecord", "crashed"}
    \/ target[a] = s /\ pc[a] = "failed" /\ a \in Revokers
    \/ a \in Issuers /\ s \in stuck[a]

(* Of all calls that revoke one certificate, abandonIssued's included, at  *)
(* most one succeeds, and then the certificate is revoked and its record   *)
(* stored.  A certificate that is revoked without a record is the doing of *)
(* a call that has not been told it succeeded.                             *)
OneRevocationAnswered ==
    /\ \A p, q \in succeeded : p[2] = q[2] => p = q
    /\ \A p \in succeeded : certs[p[2]] = "revoked" /\ p[2] \in revokeRecs
    /\ \A s \in Serials : certs[s] = "revoked" /\ s \notin revokeRecs
            => \E a \in Issuers \cup Revokers : WithoutRecord(a, s)

(* issue.go:331: a CRL covers "all revoked certificates": one that is      *)
(* built after another was returned has a higher number and keeps each of  *)
(* its entries.  Of two builds that overlap the one with the higher number *)
(* may list less.                                                          *)
CRLsGrow ==
    \A a, b \in crls : a.chain = b.chain /\ a.num \in b.after
        => a.num < b.num /\ a.listed \subseteq b.listed

(* What a CRL lists is revoked, for good, and on the chain that signs it.  *)
ListedIsRevoked ==
    \A l \in crls : \A s \in l.listed : certs[s] = "revoked" /\ s[2] = l.chain

(* Whatever BuildCRL returned is well-formed, true, and in order.          *)
CRLsSound == TypeOK /\ ListedIsRevoked /\ CRLsGrow
=============================================================================
