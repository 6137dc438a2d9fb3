----------------------------- MODULE AcmeAccess -----------------------------
(***************************************************************************)
(* Who may do what on a tenant's ACME endpoints: nonces, request           *)
(* signatures, accounts, external account bindings, and the certificates   *)
(* of an account (internal/acme/nonce.go, jws.go, account.go, handler.go   *)
(* and the certificate handlers of order.go).                              *)
(*                                                                         *)
(* A request is a POST on its way through the wrapper post, verifyRequest  *)
(* and a handler; the same signed message may arrive more than once, on    *)
(* any replica, and every call to the store or the audit log is one step.  *)
(* A certificate is ordered in one step here; AcmeOrder has the details.   *)
(* The tenant also issues and revokes certificates on other ways (REST,    *)
(* CLI); ACME knows these by their serial only.                            *)
(* Tenants share no bucket, so one is enough.                              *)
(***************************************************************************)
EXTENDS Naturals, FiniteSets, FiniteSetsExt

CONSTANTS
    Requests,    \* requests in flight
    Nonces,      \* the nonces some message uses; the others change nothing
    Jwks,        \* public keys as clients encode them
    KeyOf,       \* the key a JWK decodes to, if any; one key has several encodings
    Kty,         \* the type of each key
    MaxAccounts, \* account ids are 1..MaxAccounts
    Serials,     \* certificates
    EabKeys,     \* external account binding keys
    Grants,      \* the bindings clients hold: <<EAB key, JWK it was MAC'd for>>
    None

ASSUME KeyOfAssumption == DOMAIN KeyOf = Jwks
ASSUME MaxAccountsAssumption == MaxAccounts \in Nat
ASSUME GrantsAssumption == Grants \subseteq EabKeys \X Jwks
ASSUME NamesAssumption ==
    /\ Jwks \cap (1..MaxAccounts) = {} /\ None \notin 1..MaxAccounts
    /\ None \notin [account : (1..MaxAccounts) \cup {None}, revoked : BOOLEAN]

VARIABLES
    requireEAB, \* the server's option --acme-eab
    nonces,    \* the nonce documents, and what became of them
    accounts,  \* the account documents
    eabKeys,   \* the EAB key documents
    certs,     \* the certificates of the tenant: revoked or not, and the account
               \* that ordered it, None if there is no ACME document
    log,       \* the audit records of ACME requests: <<action, object, actor>>
    pc, job,   \* where each request is and what it carries
    handled,   \* how often a message with this nonce reached its handler
    used,      \* what was served and revoked: the operation, the serial, for whom
               \* (account or JWK), and the key that signed the request
    seen       \* "twins": two new-account requests for one key overlapped
               \* "failure": a request that revoked a certificate did not end well

docVars == <<requireEAB, nonces, accounts, eabKeys, certs, log>>
vars == <<docVars, pc, job, handled, used, seen>>

Ids == 1..MaxAccounts
Keys == {KeyOf[j] : j \in Jwks} \ {None}
Algs == {"ES256", "RS256", "EdDSA"}
Operations == {"new-account", "account", "finalize", "cert", "revoke-cert"}

Goto(r, phase) == pc' = [pc EXCEPT ![r] = phase]
Carry(r, field, value) == job' = [job EXCEPT ![r] = [@ EXCEPT ![field] = value]]
Answer(r) == Goto(r, "idle") /\ job' = [job EXCEPT ![r] = None]
Log(action, object, actor) == log' = log \cup {<<action, object, actor>>}

Init ==
    /\ requireEAB \in BOOLEAN
    /\ nonces = [n \in Nonces |-> "unissued"]
    /\ accounts = [a \in Ids |-> None]
    /\ eabKeys = {} /\ log = {} /\ used = {} /\ seen = {}
    /\ certs = [s \in Serials |-> None]
    /\ pc = [r \in Requests |-> "idle"]
    /\ job = [r \in Requests |-> None]
    /\ handled = [n \in Nonces |-> 0]

-----------------------------------------------------------------------------
(* Keys, signatures and bindings.                                          *)

\* EC P-256, RSA and Ed25519 keys; any other type or curve, or a member of the
\* wrong size, is no key
ParseJWK(jwk) == KeyOf[jwk]

\* what is hashed is the text of the members, not the key they decode to
Thumbprint(jwk) == jwk

\* the algorithm fits the type of the key, which made the signature
SignatureVerifies(alg, key, signer) ==
    /\ alg = CASE Kty[key] = "EC" -> "ES256" [] Kty[key] = "RSA" -> "RS256" [] OTHER -> "EdDSA"
    /\ signer = key

\* a binding is for this account key, and its MAC is by a stored EAB key
VerifyEAB(kid, grant, jwk) ==
    /\ Thumbprint(grant[2]) = Thumbprint(jwk)
    /\ kid \in eabKeys /\ grant[1] = kid

\* the accounts with this thumbprint, and the one the scan ends with: the
\* last in key order
Matching(jwk) == {a \in Ids : accounts[a] # None /\ Thumbprint(accounts[a].jwk) = Thumbprint(jwk)}

\* Variant: the scan never finds one.
AccountNotFound(jwk) == None

AccountByThumbprint(jwk) == IF Matching(jwk) = {} THEN None ELSE Max(Matching(jwk))

-----------------------------------------------------------------------------
(* The wrapper of every POST.                                              *)

\* a fresh nonce; one that no message will use changes nothing
IssueNonce ==
    \/ \E n \in Nonces :
            nonces[n] = "unissued" /\ nonces' = [nonces EXCEPT ![n] = "stored"]
    \/ UNCHANGED nonces

\* HEAD and GET new-nonce
NewNonce ==
    /\ IssueNonce
    /\ UNCHANGED <<requireEAB, accounts, eabKeys, certs, log, pc, job, handled, used, seen>>

\* a message arrives, for the first time or again: the answer carries a fresh
\* nonce before anything is checked.  The model chooses what is in the message
\* where the code first looks at it
Post(r) ==
    /\ pc[r] = "idle"
    /\ IssueNonce
    /\ Goto(r, "take")
    /\ UNCHANGED <<requireEAB, accounts, eabKeys, certs, log, job, handled, used, seen>>

\* Variant: the nonce is read and left in the store.
TakeNonceReading(r) ==
    /\ pc[r] = "take"
    /\ \E n \in Nonces :
        /\ nonces[n] \in {"stored", "taken"}
        /\ nonces' = [nonces EXCEPT ![n] = "taken"]
        /\ job' = [job EXCEPT ![r] = n]
    /\ Goto(r, "verify")
    /\ UNCHANGED <<requireEAB, accounts, eabKeys, certs, log, handled, used, seen>>

\* consumeNonce: one atomic Take, and only then a look at Expires, which may
\* have passed.  The nonce is gone even if the rest of the request is refused
TakeNonce(r) ==
    /\ pc[r] = "take"
    /\ \E n \in Nonces :
        \/ /\ nonces[n] = "stored"
           /\ nonces' = [nonces EXCEPT ![n] = "taken"]
           /\ job' = [job EXCEPT ![r] = n]
           /\ Goto(r, "verify")
        \/ /\ nonces[n] = "stored"
           /\ nonces' = [nonces EXCEPT ![n] = "expired"]
           /\ Answer(r)
        \/ /\ nonces[n] \in {"taken", "expired"}
           /\ UNCHANGED nonces
           /\ Answer(r)
    /\ UNCHANGED <<requireEAB, accounts, eabKeys, certs, log, handled, used, seen>>

\* a bare JWK names the key on new-account and revoke-cert only (allowJWK),
\* kid one of the tenant's accounts; new-account insists on a JWK
Names(op, who) ==
    IF who \in Jwks
    THEN op \in {"new-account", "revoke-cert"}
    ELSE op # "new-account" /\ accounts[who] # None

\* the JWK of the header, or of the account that kid names (accountByKID)
JwkOf(who) == IF who \in Jwks THEN who ELSE accounts[who].jwk

\* the message is signed by the key it names, and its handler starts
Authenticate(r) ==
    /\ pc[r] = "verify"
    /\ \E op \in Operations, who \in Jwks \cup Ids, alg \in Algs, signer \in Keys :
        /\ Names(op, who)
        /\ ParseJWK(JwkOf(who)) # None
        /\ SignatureVerifies(alg, ParseJWK(JwkOf(who)), signer)
        /\ job' = [job EXCEPT ![r] =
                [account |-> IF who \in Ids THEN who ELSE None,
                 jwk |-> JwkOf(who), key |-> signer, serial |-> None,
                 eab |-> IF who \in Ids THEN accounts[who].eab ELSE None]]
        /\ Goto(r, op)
    /\ handled' = [handled EXCEPT ![job[r]] = @ + 1]
    /\ UNCHANGED <<docVars, used, seen>>

-----------------------------------------------------------------------------
(* Accounts.                                                               *)

\* two requests for one thumbprint are between their scan and their answer
Twin(r) == \E q \in Requests \ {r} :
    pc[q] \in {"put-account", "log-account"} /\ Thumbprint(job[q].jwk) = Thumbprint(job[r].jwk)

\* an existing account is the answer, whatever binding the message carries;
\* else the binding is checked, if there is one or one is required
ScanAccounts(r) ==
    /\ pc[r] = "new-account"
    /\ \/ /\ AccountByThumbprint(job[r].jwk) # None
          /\ Answer(r)
          /\ UNCHANGED seen
       \/ /\ AccountByThumbprint(job[r].jwk) = None
          /\ \/ \E kid \in EabKeys, grant \in Grants :
                    VerifyEAB(kid, grant, job[r].jwk) /\ Carry(r, "eab", kid)
             \/ ~requireEAB /\ UNCHANGED job
          /\ Goto(r, "put-account")
          /\ seen' = IF Twin(r) THEN seen \cup {"twins"} ELSE seen
    /\ UNCHANGED <<docVars, handled, used>>

\* the document a request writes: the account it registers, or has read
AccountOf(r) == [jwk |-> job[r].jwk, eab |-> job[r].eab]

\* Variant: the id of the account need not be new.
PutAccountAnywhere(r) ==
    /\ pc[r] = "put-account"
    /\ \E a \in Ids :
            /\ accounts' = [accounts EXCEPT ![a] = AccountOf(r)]
            /\ Carry(r, "account", a)
    /\ Goto(r, "log-account")
    /\ UNCHANGED <<requireEAB, nonces, eabKeys, certs, log, handled, used, seen>>

\* a random id, unused
PutAccount(r) ==
    /\ pc[r] = "put-account"
    /\ \E a \in Ids :
            /\ accounts[a] = None
            /\ accounts' = [accounts EXCEPT ![a] = AccountOf(r)]
            /\ Carry(r, "account", a)
    /\ Goto(r, "log-account")
    /\ UNCHANGED <<requireEAB, nonces, eabKeys, certs, log, handled, used, seen>>

LogAccount(r) ==
    /\ pc[r] = "log-account"
    /\ Log("acme.account.new", job[r].account, job[r].account)
    /\ Answer(r)
    /\ UNCHANGED <<requireEAB, nonces, accounts, eabKeys, certs, handled, used, seen>>

\* handleAccount: the account as it was read, with another contact, is put
\* back as a whole
UpdateAccount(r) ==
    /\ pc[r] = "account"
    /\ accounts' = [accounts EXCEPT ![job[r].account] = AccountOf(r)]
    /\ Answer(r)
    /\ UNCHANGED <<requireEAB, nonces, eabKeys, certs, log, handled, used, seen>>

\* the operator's command
CreateEABKey(e) ==
    /\ e \notin eabKeys
    /\ eabKeys' = eabKeys \cup {e}
    /\ UNCHANGED <<requireEAB, nonces, accounts, certs, log, pc, job, handled, used, seen>>

-----------------------------------------------------------------------------
(* Certificates.                                                           *)

\* an order of the account is finalized
Finalize(r) ==
    /\ pc[r] = "finalize"
    /\ \E s \in Serials :
            /\ certs[s] = None
            /\ certs' = [certs EXCEPT ![s] = [account |-> job[r].account, revoked |-> FALSE]]
    /\ Answer(r)
    /\ UNCHANGED <<requireEAB, nonces, accounts, eabKeys, log, handled, used, seen>>

\* the tenant issues a certificate that no ACME document names, ...
IssueElsewhere(s) ==
    /\ certs[s] = None
    /\ certs' = [certs EXCEPT ![s] = [account |-> None, revoked |-> FALSE]]
    /\ UNCHANGED <<requireEAB, nonces, accounts, eabKeys, log, pc, job, handled, used, seen>>

\* ... or revokes one without ACME
RevokeElsewhere(s) ==
    /\ certs[s] # None
    /\ ~certs[s].revoked
    /\ certs' = [certs EXCEPT ![s].revoked = TRUE]
    /\ UNCHANGED <<requireEAB, nonces, accounts, eabKeys, log, pc, job, handled, used, seen>>

\* an ACME document with this serial is the account's
Owns(r, s) ==
    /\ job[r].account # None /\ certs[s] # None
    /\ certs[s].account = job[r].account

\* for whom a request is made, as the audit record names it
Actor(r) == IF job[r].account # None THEN job[r].account ELSE Thumbprint(job[r].jwk)

Use(r, op, s) ==
    used' = used \cup {[op |-> op, serial |-> s, who |-> Actor(r), key |-> job[r].key]}

FetchCert(r) ==
    /\ pc[r] = "cert"
    /\ \E s \in Serials : Owns(r, s) /\ Use(r, "serve", s)
    /\ Answer(r)
    /\ UNCHANGED <<docVars, handled, seen>>

\* Variant: any account may revoke.
MayRevokeAny(r, s, k) == job[r].account # None \/ job[r].key = k

\* the account that ordered it, or the key of the certificate in the request
MayRevoke(r, s, k) ==
    IF job[r].account # None THEN Owns(r, s) ELSE job[r].key = k

\* the certificate in the request is only parsed: its serial and its key are
\* not compared with those of a certificate the tenant has issued
CheckRevoke(r) ==
    /\ pc[r] = "revoke-cert"
    /\ \E s \in Serials, k \in Keys : MayRevoke(r, s, k) /\ Carry(r, "serial", s)
    /\ Goto(r, "mark")
    /\ UNCHANGED <<docVars, handled, used, seen>>

\* Manager.Revoke: the document of that serial first, refused if there is none
\* or it is revoked
MarkRevoked(r) ==
    /\ pc[r] = "mark"
    /\ LET s == job[r].serial IN
        IF certs[s] = None \/ certs[s].revoked
        THEN Answer(r) /\ UNCHANGED <<certs, used>>
        ELSE /\ certs' = [certs EXCEPT ![s].revoked = TRUE]
             /\ Use(r, "revoke", s)
             /\ Goto(r, "log-revoke") /\ UNCHANGED job
    /\ UNCHANGED <<requireEAB, nonces, accounts, eabKeys, log, handled, seen>>

\* the certificate is revoked, and a record of that is missing
Revoked(r) == pc[r] \in {"log-revoke", "log-acme"}

\* then its record, with the actor it was given
LogRevoke(r) ==
    /\ pc[r] = "log-revoke"
    /\ Log("cert.revoke", job[r].serial, Actor(r))
    /\ Goto(r, "log-acme")
    /\ UNCHANGED <<requireEAB, nonces, accounts, eabKeys, certs, job, handled, used, seen>>

\* Variant: the actor is the owner of the certificate.
LogAcmeRevokeAsOwner(r) ==
    /\ pc[r] = "log-acme"
    /\ Log("acme.cert.revoke", job[r].serial, certs[job[r].serial].account)
    /\ Answer(r)
    /\ UNCHANGED <<requireEAB, nonces, accounts, eabKeys, certs, handled, used, seen>>

\* then the record of the ACME server
LogAcmeRevoke(r) ==
    /\ pc[r] = "log-acme"
    /\ Log("acme.cert.revoke", job[r].serial, Actor(r))
    /\ Answer(r)
    /\ UNCHANGED <<requireEAB, nonces, accounts, eabKeys, certs, handled, used, seen>>

-----------------------------------------------------------------------------
\* an answer with an error before anything was stored: a malformed message, a
\* wrong URL, key, signature or payload, someone else's object
Refuse(r) ==
    /\ pc[r] \in {"take", "verify"} \cup Operations
    /\ Answer(r)
    /\ UNCHANGED <<docVars, handled, used, seen>>

\* an error of the store or of the log, a cancelled context or a crash
Fail(r) ==
    /\ pc[r] \notin {"idle", "take", "verify"} \cup Operations
    /\ Answer(r)
    /\ seen' = IF Revoked(r) THEN seen \cup {"failure"} ELSE seen
    /\ UNCHANGED <<docVars, handled, used>>

Next ==
    \/ NewNonce
    \/ \E e \in EabKeys : CreateEABKey(e)
    \/ \E s \in Serials : IssueElsewhere(s) \/ RevokeElsewhere(s)
    \/ \E r \in Requests :
            \/ Post(r) \/ TakeNonce(r) \/ Authenticate(r)
            \/ ScanAccounts(r) \/ PutAccount(r) \/ LogAccount(r) \/ UpdateAccount(r)
            \/ Finalize(r) \/ FetchCert(r)
            \/ CheckRevoke(r) \/ MarkRevoked(r) \/ LogRevoke(r) \/ LogAcmeRevoke(r)
            \/ Refuse(r) \/ Fail(r)

Spec == Init /\ [][Next]_vars

-----------------------------------------------------------------------------
Phases == {"idle", "take", "verify", "put-account", "log-account", "mark",
           "log-revoke", "log-acme"} \cup Operations

Actors == Ids \cup Jwks

TypeOK ==
    /\ requireEAB \in BOOLEAN
    /\ nonces \in [Nonces -> {"unissued", "stored", "taken", "expired"}]
    /\ accounts \in [Ids -> [jwk : Jwks, eab : EabKeys \cup {None}] \cup {None}]
    /\ eabKeys \subseteq EabKeys
    /\ certs \in [Serials -> [account : Ids \cup {None}, revoked : BOOLEAN] \cup {None}]
    /\ log \subseteq ({"acme.account.new"} \X Ids \X Ids)
            \cup ({"cert.revoke", "acme.cert.revoke"} \X Serials \X Actors)
    /\ pc \in [Requests -> Phases]
    /\ \A r \in Requests :
            CASE pc[r] \in {"idle", "take"} -> job[r] = None
              [] pc[r] = "verify" -> job[r] \in Nonces
              [] OTHER -> job[r] \in
                    [account : Ids \cup {None}, jwk : Jwks, key : Keys,
                     eab : EabKeys \cup {None}, serial : Serials \cup {None}]
    /\ handled \in [Nonces -> Nat]
    /\ used \subseteq [op : {"serve", "revoke"}, serial : Serials, who : Actors, key : Keys]
    /\ seen \subseteq {"twins", "failure"}

(* nonce.go:38: the atomic Take makes each nonce "single-use even across   *)
(* replicas".  However often a signed message arrives, at most one copy    *)
(* reaches its handler, and none if its nonce had expired.                 *)
HandledOnce ==
    \A n \in Nonces : handled[n] <= IF nonces[n] = "taken" THEN 1 ELSE 0

(* Where bindings are required every account has one, and whichever has    *)
(* one got it for its own key from a holder of a stored EAB key.           *)
AccountsGranted ==
    \A a \in Ids : accounts[a] # None =>
        \/ accounts[a].eab = None /\ ~requireEAB
        \/ accounts[a].eab \in eabKeys /\ <<accounts[a].eab, accounts[a].jwk>> \in Grants

(* A client that lost its account URL and asks for it by key is told the   *)
(* account that owns every certificate the key has ordered, unless two     *)
(* new-account requests for the key overlapped; failures do not matter.    *)
LookupOwnsCerts ==
    "twins" \notin seen =>
        \A s \in Serials : certs[s] # None /\ certs[s].account # None =>
            AccountByThumbprint(accounts[certs[s].account].jwk) = certs[s].account

(* No request replaces an account by another, or changes its key or        *)
(* binding: the ids of certificates and orders keep their meaning.         *)
AccountsKept == [][\A a \in Ids : accounts[a] # None => accounts'[a] = accounts[a]]_accounts

(* A certificate is served to, and revoked for, an account only if that    *)
(* account ordered it, and the request was signed by the key the account   *)
(* still has; a bare key revokes by its own signature and is served        *)
(* nothing (order.go:197 and :241).  What relates a bare key to the        *)
(* certificate it revokes is in the request alone, so nothing is claimed   *)
(* about it.                                                               *)
UsedByHolder ==
    \A u \in used :
        IF u.who \in Ids
        THEN certs[u.serial].account = u.who /\ u.key = ParseJWK(accounts[u.who].jwk)
        ELSE u.op = "revoke" /\ u.key = ParseJWK(u.who)

Revocations(s) == {u \in used : u.op = "revoke" /\ u.serial = s}

(* However many ACME requests and others revoke a certificate, one request *)
(* at most does it, the ACME record names who it was done for, and without *)
(* failures both records are there once the request has ended.             *)
RevocationRecorded ==
    \A s \in Serials :
        /\ \A u, v \in Revocations(s) : u = v
        /\ \A actor \in Actors : <<"acme.cert.revoke", s, actor>> \in log =>
                \E u \in Revocations(s) : u.who = actor
        /\ /\ "failure" \notin seen
           /\ \A r \in Requests : ~Revoked(r)
           => \A u \in Revocations(s) :
                /\ certs[s].revoked
                /\ <<"cert.revoke", s, u.who>> \in log
                /\ <<"acme.cert.revoke", s, u.who>> \in log

(* Accounts are created by right and stay what they are (account.go:81).   *)
AccountsSound == [](TypeOK /\ AccountsGranted) /\ AccountsKept
=============================================================================
