------------------------- MODULE AcmeAccess_proofs --------------------------
(***************************************************************************)
(* Theorems about AcmeAccess, for any keys and any number of nonces,       *)
(* requests, accounts and certificates: what a replayed message can do,    *)
(* what an account is and stays, and who is served and who may revoke.     *)
(***************************************************************************)
EXTENDS AcmeAccess, TLAPS

Jobs == [account : Ids \cup {None}, jwk : Jwks, key : Keys,
         eab : EabKeys \cup {None}, serial : Serials \cup {None}]
Accounts == [jwk : Jwks, eab : EabKeys \cup {None}]
Certs == [account : Ids \cup {None}, revoked : BOOLEAN]
Uses == [op : {"serve", "revoke"}, serial : Serials, who : Actors, key : Keys]

\* TypeOK in parts: the documents, and what a request carries in each phase.
DocsTyped ==
    /\ requireEAB \in BOOLEAN
    /\ nonces \in [Nonces -> {"unissued", "stored", "taken", "expired"}]
    /\ accounts \in [Ids -> Accounts \cup {None}]
    /\ eabKeys \subseteq EabKeys
    /\ certs \in [Serials -> Certs \cup {None}]
    /\ handled \in [Nonces -> Nat]
    /\ used \subseteq Uses
    /\ seen \subseteq {"twins", "failure"}

LogTyped ==
    log \subseteq ({"acme.account.new"} \X Ids \X Ids)
            \cup ({"cert.revoke", "acme.cert.revoke"} \X Serials \X Actors)

Busy(r) == pc[r] \notin {"idle", "take", "verify"}

JobsTyped ==
    /\ pc \in [Requests -> Phases]
    /\ DOMAIN job = Requests
    /\ \A r \in Requests :
            /\ pc[r] \in {"idle", "take"} => job[r] = None
            /\ pc[r] = "verify" => job[r] \in Nonces
            /\ Busy(r) => job[r] \in Jobs
            /\ pc[r] = "log-account" => job[r].account \in Ids

\* A nonce is taken by one message, which is then verified or handled.
TakenOnce ==
    \A n \in Nonces :
        /\ handled[n] <= 1
        /\ nonces[n] # "taken" => handled[n] = 0
        /\ \A r \in Requests : pc[r] = "verify" /\ job[r] = n =>
                /\ nonces[n] = "taken" /\ handled[n] = 0
                /\ \A q \in Requests : pc[q] = "verify" /\ job[q] = n => q = r

\* A verified request is signed by the key it carries, and speaks for an
\* account as that is stored.
Registering(r) == pc[r] \in {"new-account", "put-account", "log-account"}

Speaks(r) ==
    Busy(r) =>
        /\ job[r].key = KeyOf[job[r].jwk]
        /\ pc[r] \in {"account", "finalize", "cert"} => job[r].account # None
        /\ ~Registering(r) /\ job[r].account # None =>
                accounts[job[r].account] # None /\ accounts[job[r].account] = AccountOf(r)

\* A new-account request carries no binding before it is checked, and
\* afterwards one that it may use.
Granted(jwk, eab) ==
    \/ eab = None /\ ~requireEAB
    \/ eab \in eabKeys /\ <<eab, jwk>> \in Grants

Registers(r) ==
    /\ pc[r] = "new-account" => job[r].eab = None
    /\ pc[r] = "put-account" => Granted(job[r].jwk, job[r].eab)

\* As long as no two new-account requests for a key have overlapped, one is
\* between its scan and its answer, it has found no account, and every key
\* has one account at most.
OneAccountEach ==
    "twins" \notin seen =>
        /\ \A a, b \in Ids : accounts[a] # None /\ accounts[b] # None
                             /\ accounts[a].jwk = accounts[b].jwk => a = b
        /\ \A r \in Requests : pc[r] = "put-account" =>
                \A a \in Ids : accounts[a] # None => accounts[a].jwk # job[r].jwk
        /\ \A q, r \in Requests : /\ pc[q] \in {"put-account", "log-account"}
                                  /\ pc[r] \in {"put-account", "log-account"}
                                  /\ job[q].jwk = job[r].jwk
                                  => q = r

\* A certificate belongs to an account there is, if to any, was used only when
\* it was there, and is revoked by one request at most.
CertsOwned ==
    /\ \A s \in Serials : certs[s] # None /\ certs[s].account # None =>
            accounts[certs[s].account] # None
    /\ \A u \in used :
            /\ certs[u.serial] # None
            /\ u.who \in Ids => accounts[u.who] # None
            /\ u.op = "revoke" => certs[u.serial].revoked
    /\ \A u, v \in used :
            u.op = "revoke" /\ v.op = "revoke" /\ u.serial = v.serial => u = v

\* An account that revokes owns the certificate, the revocation is noted while
\* its records are written, and the first is there before the second.
Revoking(r) == pc[r] = "mark" \/ Revoked(r)

Mine(r) == [op |-> "revoke", serial |-> job[r].serial, who |-> Actor(r), key |-> job[r].key]

Entitled(r) ==
    /\ Revoking(r) =>
            /\ job[r].serial \in Serials
            /\ job[r].account # None => Owns(r, job[r].serial)
    /\ Revoked(r) => Mine(r) \in used
    /\ pc[r] = "log-acme" => <<"cert.revoke", job[r].serial, Actor(r)>> \in log

\* Without failures, a revocation has both records, or its request is about to
\* write them.
BothRecords(s, actor) ==
    /\ <<"cert.revoke", s, actor>> \in log
    /\ <<"acme.cert.revoke", s, actor>> \in log

RevocationFollowed ==
    "failure" \notin seen =>
        \A u \in used : u.op = "revoke" =>
            \/ \E r \in Requests : Revoked(r) /\ Mine(r) = u
            \/ BothRecords(u.serial, u.who)

LoggedByRight ==
    \A s \in Serials, actor \in Actors : <<"acme.cert.revoke", s, actor>> \in log =>
        \E u \in used : u.op = "revoke" /\ u.serial = s /\ u.who = actor

IInv ==
    /\ DocsTyped
    /\ LogTyped
    /\ JobsTyped
    /\ TakenOnce
    /\ \A r \in Requests : Speaks(r)
    /\ \A r \in Requests : Registers(r)
    /\ AccountsGranted
    /\ OneAccountEach
    /\ CertsOwned
    /\ UsedByHolder
    /\ \A r \in Requests : Entitled(r)
    /\ RevocationFollowed
    /\ LoggedByRight

-----------------------------------------------------------------------------
LEMMA NoCertIsNone == None \notin Certs /\ None \notin Ids /\ Ids \subseteq Nat
  BY NamesAssumption, MaxAccountsAssumption DEF Certs, Ids

\* A lookup by key ends with the one account of the key.
LEMMA LookupFinds ==
    ASSUME DocsTyped, OneAccountEach, "twins" \notin seen,
           NEW a \in Ids, accounts[a] # None
    PROVE  AccountByThumbprint(accounts[a].jwk) = a
<1>1. Matching(accounts[a].jwk) = {a}
  BY DEF Matching, Thumbprint, OneAccountEach
<1>2. Max({a}) = a
  BY DEF Max
<1> QED
  BY <1>1, <1>2 DEF AccountByThumbprint

\* Steps that neither revoke nor end the recording of a revocation.
LEMMA StillFollowed ==
    ASSUME RevocationFollowed, seen \subseteq seen', log \subseteq log', DocsTyped,
           \A u \in used' : u.op = "revoke" => u \in used,
           \A q \in Requests : Revoked(q) => Revoked(q)' /\ Mine(q)' = Mine(q)
    PROVE  RevocationFollowed'
  BY DEF RevocationFollowed, BothRecords

LEMMA InitIInv == Init => IInv
<1> SUFFICES ASSUME Init PROVE IInv
  OBVIOUS
<1> USE KeyOfAssumption, MaxAccountsAssumption, GrantsAssumption, NamesAssumption DEF Init
<1>1. DocsTyped /\ LogTyped /\ JobsTyped
  BY DEF DocsTyped, LogTyped, JobsTyped, Phases, Busy
<1>2. TakenOnce
  BY DEF TakenOnce
<1>3. \A r \in Requests : Speaks(r) /\ Registers(r) /\ Entitled(r)
  BY DEF Speaks, Registers, Entitled, Busy, Revoking, Revoked
<1>4. AccountsGranted /\ OneAccountEach
  BY DEF AccountsGranted, OneAccountEach
<1>5. CertsOwned /\ UsedByHolder
  BY DEF CertsOwned, UsedByHolder
<1>6. RevocationFollowed /\ LoggedByRight
  BY DEF RevocationFollowed, LoggedByRight
<1> QED
  BY <1>1, <1>2, <1>3, <1>4, <1>5, <1>6 DEF IInv

LEMMA NextIInv == IInv /\ [Next]_vars => IInv'
<1> SUFFICES ASSUME IInv, [Next]_vars PROVE IInv'
  OBVIOUS
<1> USE KeyOfAssumption, MaxAccountsAssumption, GrantsAssumption, NamesAssumption DEF IInv
<1>1. ASSUME NewNonce PROVE IInv'
  <2>1. DocsTyped'
    <3>1. nonces' \in [Nonces -> {"unissued", "stored", "taken", "expired"}]
      BY <1>1 DEF NewNonce, IssueNonce, DocsTyped
    <3> QED
      BY <1>1, <3>1 DEF NewNonce, DocsTyped
  <2>2. LogTyped'
    BY <1>1 DEF NewNonce, LogTyped
  <2>3. JobsTyped'
    BY <1>1 DEF NewNonce, JobsTyped, Busy
  <2>4. TakenOnce'
    BY <1>1 DEF NewNonce, IssueNonce, DocsTyped, TakenOnce
  <2>5. ASSUME NEW q \in Requests PROVE Speaks(q)'
    BY <1>1 DEF NewNonce, Speaks, Busy, Registering, AccountOf
  <2>6. ASSUME NEW q \in Requests PROVE Registers(q)'
    BY <1>1 DEF NewNonce, Registers, Granted
  <2>7. AccountsGranted'
    BY <1>1 DEF NewNonce, AccountsGranted
  <2>8. OneAccountEach'
    BY <1>1 DEF NewNonce, OneAccountEach
  <2>9. CertsOwned'
    BY <1>1 DEF NewNonce, CertsOwned
  <2>10. UsedByHolder'
    BY <1>1 DEF NewNonce, UsedByHolder
  <2>11. ASSUME NEW q \in Requests PROVE Entitled(q)'
    BY <1>1 DEF NewNonce, Entitled, Revoking, Revoked, Mine, Owns, Actor
  <2>12. RevocationFollowed'
    BY <1>1 DEF NewNonce, RevocationFollowed, BothRecords, Revoked, Mine, Actor
  <2>13. LoggedByRight'
    BY <1>1 DEF NewNonce, LoggedByRight
  <2> QED
    BY <2>1, <2>2, <2>3, <2>4, <2>5, <2>6, <2>7, <2>8, <2>9, <2>10, <2>11, <2>12, <2>13
<1>2. ASSUME NEW s \in Serials, IssueElsewhere(s) PROVE IInv'
  <2>0. /\ certs[s] = None /\ certs'[s] = [account |-> None, revoked |-> FALSE]
        /\ certs'[s] \in Certs /\ certs'[s].account = None
        /\ \A t \in Serials : certs[t] # None => certs'[t] = certs[t]
        /\ \A t \in Serials \ {s} : certs'[t] = certs[t]
        /\ UNCHANGED <<requireEAB, nonces, accounts, eabKeys, log, pc, job, handled, used, seen>>
    BY <1>2 DEF IssueElsewhere, DocsTyped, Certs
  <2>1. DocsTyped'
    <3>1. certs' \in [Serials -> Certs \cup {None}]
      BY <1>2, <2>0 DEF IssueElsewhere, DocsTyped
    <3> QED
      BY <2>0, <3>1 DEF DocsTyped
  <2>2. LogTyped' /\ JobsTyped' /\ TakenOnce'
    BY <2>0 DEF LogTyped, JobsTyped, Busy, TakenOnce
  <2>3. \A q \in Requests : Speaks(q)' /\ Registers(q)'
    BY <2>0 DEF Speaks, Busy, Registering, AccountOf, Registers, Granted
  <2>4. AccountsGranted' /\ OneAccountEach'
    BY <2>0 DEF AccountsGranted, OneAccountEach
  <2>5. CertsOwned'
    BY <2>0, NoCertIsNone DEF CertsOwned, DocsTyped, Uses
  <2>6. UsedByHolder'
    BY <2>0 DEF UsedByHolder, CertsOwned, DocsTyped, Uses
  <2>7. ASSUME NEW q \in Requests PROVE Entitled(q)'
    BY <2>0, NoCertIsNone DEF Entitled, Revoking, Revoked, Mine, Owns, Actor
  <2>8. RevocationFollowed'
    BY <2>0 DEF RevocationFollowed, BothRecords, Revoked, Mine, Actor
  <2>9. LoggedByRight'
    BY <2>0 DEF LoggedByRight
  <2> QED
    BY <2>1, <2>2, <2>3, <2>4, <2>5, <2>6, <2>7, <2>8, <2>9
<1>20. ASSUME NEW s \in Serials, RevokeElsewhere(s) PROVE IInv'
  <2>0. /\ certs[s] # None /\ certs'[s] = [certs[s] EXCEPT !.revoked = TRUE]
        /\ certs'[s] \in Certs /\ certs'[s] # None
        /\ certs'[s].account = certs[s].account /\ certs'[s].revoked
        /\ \A t \in Serials \ {s} : certs'[t] = certs[t]
        /\ UNCHANGED <<requireEAB, nonces, accounts, eabKeys, log, pc, job, handled, used, seen>>
    BY <1>20, NoCertIsNone DEF RevokeElsewhere, DocsTyped, Certs
  <2>1. DocsTyped'
    <3>1. certs' \in [Serials -> Certs \cup {None}]
      BY <1>20, <2>0 DEF RevokeElsewhere, DocsTyped
    <3> QED
      BY <2>0, <3>1 DEF DocsTyped
  <2>2. LogTyped' /\ JobsTyped' /\ TakenOnce'
    BY <2>0 DEF LogTyped, JobsTyped, Busy, TakenOnce
  <2>3. \A q \in Requests : Speaks(q)' /\ Registers(q)'
    BY <2>0 DEF Speaks, Busy, Registering, AccountOf, Registers, Granted
  <2>4. AccountsGranted' /\ OneAccountEach'
    BY <2>0 DEF AccountsGranted, OneAccountEach
  <2>5. CertsOwned'
    BY <2>0 DEF CertsOwned, DocsTyped, Uses
  <2>6. UsedByHolder'
    <3>1. \A u \in used : u.serial \in Serials /\ certs'[u.serial].account = certs[u.serial].account
      BY <2>0 DEF DocsTyped, Uses
    <3> QED
      BY <2>0, <3>1 DEF UsedByHolder, ParseJWK
  <2>7. ASSUME NEW q \in Requests PROVE Entitled(q)'
    BY <2>0 DEF Entitled, Revoking, Revoked, Mine, Owns, Actor
  <2>8. RevocationFollowed'
    BY <2>0 DEF RevocationFollowed, BothRecords, Revoked, Mine, Actor
  <2>9. LoggedByRight'
    BY <2>0 DEF LoggedByRight
  <2> QED
    BY <2>1, <2>2, <2>3, <2>4, <2>5, <2>6, <2>7, <2>8, <2>9
<1>3. ASSUME NEW e \in EabKeys, CreateEABKey(e) PROVE IInv'
  <2>1. DocsTyped'
    BY <1>3 DEF CreateEABKey, DocsTyped
  <2>2. LogTyped'
    BY <1>3 DEF CreateEABKey, LogTyped
  <2>3. JobsTyped'
    BY <1>3 DEF CreateEABKey, JobsTyped, Busy
  <2>4. TakenOnce'
    BY <1>3 DEF CreateEABKey, TakenOnce
  <2>5. ASSUME NEW q \in Requests PROVE Speaks(q)'
    BY <1>3 DEF CreateEABKey, Speaks, Busy, Registering, AccountOf
  <2>6. ASSUME NEW q \in Requests PROVE Registers(q)'
    BY <1>3 DEF CreateEABKey, Registers, Granted
  <2>7. AccountsGranted'
    BY <1>3 DEF CreateEABKey, AccountsGranted
  <2>8. OneAccountEach'
    BY <1>3 DEF CreateEABKey, OneAccountEach
  <2>9. CertsOwned'
    BY <1>3 DEF CreateEABKey, CertsOwned
  <2>10. UsedByHolder'
    BY <1>3 DEF CreateEABKey, UsedByHolder
  <2>11. ASSUME NEW q \in Requests PROVE Entitled(q)'
    BY <1>3 DEF CreateEABKey, Entitled, Revoking, Revoked, Mine, Owns, Actor
  <2>12. RevocationFollowed'
    BY <1>3 DEF CreateEABKey, RevocationFollowed, BothRecords, Revoked, Mine, Actor
  <2>13. LoggedByRight'
    BY <1>3 DEF CreateEABKey, LoggedByRight
  <2> QED
    BY <2>1, <2>2, <2>3, <2>4, <2>5, <2>6, <2>7, <2>8, <2>9, <2>10, <2>11, <2>12, <2>13
<1>4. ASSUME NEW r \in Requests, Post(r) PROVE IInv'
  <2>1. DocsTyped'
    <3>1. nonces' \in [Nonces -> {"unissued", "stored", "taken", "expired"}]
      BY <1>4 DEF Post, IssueNonce, DocsTyped
    <3> QED
      BY <1>4, <3>1 DEF Post, DocsTyped
  <2>2. LogTyped'
    BY <1>4 DEF Post, LogTyped
  <2>3. JobsTyped'
    BY <1>4 DEF Post, Goto, JobsTyped, Phases, Busy
  <2>4. TakenOnce'
    BY <1>4 DEF Post, IssueNonce, Goto, DocsTyped, TakenOnce
  <2>5. ASSUME NEW q \in Requests PROVE Speaks(q)'
    BY <1>4 DEF Post, Goto, Speaks, Busy, Registering, AccountOf
  <2>6. ASSUME NEW q \in Requests PROVE Registers(q)'
    BY <1>4 DEF Post, Goto, Registers, Granted
  <2>7. AccountsGranted'
    BY <1>4 DEF Post, AccountsGranted
  <2>8. OneAccountEach'
    BY <1>4 DEF Post, Goto, OneAccountEach
  <2>9. CertsOwned'
    BY <1>4 DEF Post, CertsOwned
  <2>10. UsedByHolder'
    BY <1>4 DEF Post, UsedByHolder
  <2>11. ASSUME NEW q \in Requests PROVE Entitled(q)'
    BY <1>4 DEF Post, Goto, Entitled, Revoking, Revoked, Mine, Owns, Actor
  <2>12. RevocationFollowed'
    BY <1>4 DEF Post, Goto, JobsTyped, RevocationFollowed, BothRecords, Revoked, Mine,
       Actor
  <2>13. LoggedByRight'
    BY <1>4 DEF Post, LoggedByRight
  <2> QED
    BY <2>1, <2>2, <2>3, <2>4, <2>5, <2>6, <2>7, <2>8, <2>9, <2>10, <2>11, <2>12, <2>13
<1>5. ASSUME NEW r \in Requests, TakeNonce(r) PROVE IInv'
  <2>1. DocsTyped'
    <3>1. nonces' \in [Nonces -> {"unissued", "stored", "taken", "expired"}]
      BY <1>5 DEF TakeNonce, DocsTyped
    <3> QED
      BY <1>5 DEF TakeNonce, DocsTyped
  <2>2. LogTyped'
    BY <1>5 DEF TakeNonce, LogTyped
  <2>3. JobsTyped'
    BY <1>5 DEF TakeNonce, Goto, Answer, JobsTyped, Phases, Busy
  <2>4. TakenOnce'
    BY <1>5 DEF TakeNonce, Goto, Answer, DocsTyped, JobsTyped, TakenOnce
  <2>5. ASSUME NEW q \in Requests PROVE Speaks(q)'
    BY <1>5 DEF TakeNonce, Goto, Answer, JobsTyped, Speaks, Busy, Registering,
       AccountOf
  <2>6. ASSUME NEW q \in Requests PROVE Registers(q)'
    BY <1>5 DEF TakeNonce, Goto, Answer, JobsTyped, Registers, Granted
  <2>7. AccountsGranted'
    BY <1>5 DEF TakeNonce, AccountsGranted
  <2>8. OneAccountEach'
    BY <1>5 DEF TakeNonce, Goto, Answer, JobsTyped, OneAccountEach
  <2>9. CertsOwned'
    BY <1>5 DEF TakeNonce, CertsOwned
  <2>10. UsedByHolder'
    BY <1>5 DEF TakeNonce, UsedByHolder
  <2>11. ASSUME NEW q \in Requests PROVE Entitled(q)'
    BY <1>5 DEF TakeNonce, Goto, Answer, JobsTyped, Entitled, Revoking, Revoked, Mine,
       Owns, Actor
  <2>12. RevocationFollowed'
    <3>1. \A q \in Requests : Revoked(q) => Revoked(q)' /\ Mine(q)' = Mine(q)
      BY <1>5 DEF TakeNonce, Goto, Answer, JobsTyped, Revoked, Mine, Actor
    <3> QED
      BY <1>5, <3>1, StillFollowed DEF TakeNonce
  <2>13. LoggedByRight'
    BY <1>5 DEF TakeNonce, LoggedByRight
  <2> QED
    BY <2>1, <2>2, <2>3, <2>4, <2>5, <2>6, <2>7, <2>8, <2>9, <2>10, <2>11, <2>12, <2>13
<1>6. ASSUME NEW r \in Requests, Authenticate(r) PROVE IInv'
  <2>a. PICK op \in Operations, who \in Jwks \cup Ids :
            /\ Names(op, who) /\ KeyOf[JwkOf(who)] # None
            /\ job' = [job EXCEPT ![r] =
                [account |-> IF who \in Ids THEN who ELSE None,
                 jwk |-> JwkOf(who), key |-> KeyOf[JwkOf(who)], serial |-> None,
                 eab |-> IF who \in Ids THEN accounts[who].eab ELSE None]]
            /\ pc' = [pc EXCEPT ![r] = op]
    BY <1>6 DEF Authenticate, SignatureVerifies, ParseJWK, Goto
  <2>b. /\ pc[r] = "verify" /\ job[r] \in Nonces
        /\ handled' = [handled EXCEPT ![job[r]] = handled[job[r]] + 1]
        /\ UNCHANGED <<requireEAB, nonces, accounts, eabKeys, certs, log, used, seen>>
    BY <1>6 DEF Authenticate, JobsTyped, docVars
  <2>c. who \in Ids =>
            /\ who \notin Jwks /\ op # "new-account" /\ accounts[who] # None
            /\ accounts[who] \in Accounts /\ JwkOf(who) = accounts[who].jwk
    BY <2>a DEF Names, Ids, DocsTyped, JwkOf
  <2>d. who \in Ids =>
            /\ accounts[who] = [jwk |-> accounts[who].jwk, eab |-> accounts[who].eab]
            /\ accounts[who].jwk \in Jwks /\ accounts[who].eab \in EabKeys \cup {None}
    BY <2>c DEF Accounts
  <2>e. who \notin Ids => who \in Jwks /\ JwkOf(who) = who /\ op \in {"new-account", "revoke-cert"}
    BY <2>a DEF Names, JwkOf
  <2>f. JwkOf(who) \in Jwks /\ KeyOf[JwkOf(who)] \in Keys
    BY <2>a, <2>c, <2>d, <2>e DEF Keys
  <2>g. /\ job'[r].jwk = JwkOf(who) /\ job'[r].key = KeyOf[JwkOf(who)]
        /\ job'[r].account = IF who \in Ids THEN who ELSE None
        /\ job'[r].eab = IF who \in Ids THEN accounts[who].eab ELSE None
        /\ job'[r] \in Jobs /\ DOMAIN job' = Requests
    BY <2>a, <2>d, <2>f DEF Jobs, JobsTyped
  <2>0. /\ pc'[r] = op /\ op \in Operations
        /\ \A q \in Requests \ {r} : pc'[q] = pc[q] /\ job'[q] = job[q]
    BY <2>a DEF JobsTyped
  <2>1. DocsTyped'
    BY <2>b DEF DocsTyped
  <2>2. LogTyped'
    BY <2>b DEF LogTyped
  <2>3. JobsTyped'
    <3>1. pc' \in [Requests -> Phases]
      BY <2>a DEF JobsTyped, Phases
    <3> QED
      BY <2>g, <2>0, <3>1 DEF JobsTyped, Busy, Operations
  <2>4. TakenOnce'
    BY <2>b, <2>0 DEF TakenOnce, Operations
  <2>5. ASSUME NEW q \in Requests PROVE Speaks(q)'
    <3>1. CASE q # r
      BY <2>b, <2>0, <3>1 DEF Speaks, Busy, Registering, AccountOf
    <3>2. CASE q = r
      BY NoCertIsNone, <2>b, <2>c, <2>d, <2>e, <2>g, <2>0, <3>2 DEF Speaks, AccountOf
    <3> QED
      BY <3>1, <3>2
  <2>6. ASSUME NEW q \in Requests PROVE Registers(q)'
    BY <2>b, <2>c, <2>g, <2>0 DEF Registers, Granted, Operations
  <2>7. AccountsGranted'
    BY <2>b DEF AccountsGranted
  <2>8. OneAccountEach'
    BY <2>b, <2>0 DEF OneAccountEach, Operations
  <2>9. CertsOwned'
    BY <2>b DEF CertsOwned
  <2>10. UsedByHolder'
    BY <2>b DEF UsedByHolder
  <2>11. ASSUME NEW q \in Requests PROVE Entitled(q)'
    BY <2>b, <2>0 DEF Entitled, Revoking, Revoked, Mine, Owns, Actor, Operations
  <2>12. RevocationFollowed'
    <3>1. \A q \in Requests : Revoked(q) => Revoked(q)' /\ Mine(q)' = Mine(q)
      BY <2>b, <2>0 DEF Revoked, Mine, Actor
    <3> QED
      BY <2>b, <2>0, <3>1, StillFollowed
  <2>13. LoggedByRight'
    BY <2>b DEF LoggedByRight
  <2> QED
    BY <2>1, <2>2, <2>3, <2>4, <2>5, <2>6, <2>7, <2>8, <2>9, <2>10, <2>11, <2>12, <2>13
<1>7. ASSUME NEW r \in Requests, ScanAccounts(r) PROVE IInv'
  <2>a. /\ pc[r] = "new-account" /\ job[r] \in Jobs /\ job[r].eab = None
        /\ UNCHANGED <<requireEAB, nonces, accounts, eabKeys, certs, log, handled, used>>
    BY <1>7 DEF ScanAccounts, docVars, JobsTyped, Busy, Registers
  <2>b. \/ /\ pc' = [pc EXCEPT ![r] = "idle"] /\ job' = [job EXCEPT ![r] = None] /\ seen' = seen
        \/ /\ AccountByThumbprint(job[r].jwk) = None
           /\ \/ job' = job /\ Granted(job[r].jwk, job[r].eab)
              \/ \E e \in EabKeys : /\ job' = [job EXCEPT ![r] = [job[r] EXCEPT !.eab = e]]
                                    /\ Granted(job[r].jwk, e)
           /\ pc' = [pc EXCEPT ![r] = "put-account"]
           /\ seen' = IF Twin(r) THEN seen \cup {"twins"} ELSE seen
    <3>1. ASSUME NEW kid \in EabKeys, NEW grant \in Grants, VerifyEAB(kid, grant, job[r].jwk)
          PROVE  Granted(job[r].jwk, kid)
      BY <3>1 DEF VerifyEAB, Thumbprint, Granted
    <3> QED
      BY <1>7, <2>a, <3>1 DEF ScanAccounts, Answer, Goto, Carry, Granted
  <2>c. \A e \in EabKeys \cup {None} :
            /\ [job[r] EXCEPT !.eab = e] \in Jobs
            /\ [job[r] EXCEPT !.eab = e].jwk = job[r].jwk /\ [job[r] EXCEPT !.eab = e].key = job[r].key
            /\ [job[r] EXCEPT !.eab = e].eab = e
    BY <2>a DEF Jobs
  <2>d. /\ DOMAIN job' = Requests
        /\ \A q \in Requests \ {r} : pc'[q] = pc[q] /\ job'[q] = job[q]
        /\ \/ pc'[r] = "idle" /\ job'[r] = None /\ seen' = seen
           \/ /\ AccountByThumbprint(job[r].jwk) = None
              /\ job'[r] \in Jobs /\ job'[r].jwk = job[r].jwk /\ job'[r].key = job[r].key
              /\ Granted(job[r].jwk, job'[r].eab)
              /\ pc'[r] = "put-account"
              /\ seen' = IF Twin(r) THEN seen \cup {"twins"} ELSE seen
    <3>1. DOMAIN job' = Requests /\ \A q \in Requests \ {r} : pc'[q] = pc[q] /\ job'[q] = job[q]
      BY <2>b DEF JobsTyped
    <3>2. CASE pc' = [pc EXCEPT ![r] = "idle"]
      BY <2>b, <3>2 DEF JobsTyped
    <3>3. CASE pc' = [pc EXCEPT ![r] = "put-account"]
      <4>1. pc'[r] = "put-account" /\ pc'[r] # "idle"
        BY <3>3 DEF JobsTyped
      <4>2. ASSUME job' = job, Granted(job[r].jwk, job[r].eab)
            PROVE  /\ job'[r] \in Jobs /\ job'[r].jwk = job[r].jwk /\ job'[r].key = job[r].key
                   /\ Granted(job[r].jwk, job'[r].eab)
        BY <2>a, <4>2
      <4>3. ASSUME NEW e \in EabKeys, job' = [job EXCEPT ![r] = [job[r] EXCEPT !.eab = e]],
                   Granted(job[r].jwk, e)
            PROVE  /\ job'[r] \in Jobs /\ job'[r].jwk = job[r].jwk /\ job'[r].key = job[r].key
                   /\ Granted(job[r].jwk, job'[r].eab)
        <5>1. job'[r] = [job[r] EXCEPT !.eab = e]
          BY <4>3 DEF JobsTyped
        <5>2. e \in EabKeys \cup {None}
          OBVIOUS
        <5> QED
          BY <2>c, <4>3, <5>1, <5>2, ZenonT(60) DEF Granted
      <4> QED
        BY <2>b, <4>2, <4>3 DEF JobsTyped
    <3> QED
      BY <2>b, <3>2, <3>3
  <2>0. /\ seen \subseteq seen' /\ seen' \subseteq seen \cup {"twins"}
    BY <2>d
  <2>1. DocsTyped'
    BY <2>a, <2>0 DEF DocsTyped
  <2>2. LogTyped'
    BY <2>a DEF LogTyped
  <2>3. JobsTyped'
    <3>1. pc' \in [Requests -> Phases]
      BY <2>b DEF JobsTyped, Phases
    <3> QED
      BY <2>d, <3>1 DEF JobsTyped, Busy
  <2>4. TakenOnce'
    BY <2>a, <2>d DEF TakenOnce
  <2>5. ASSUME NEW q \in Requests PROVE Speaks(q)'
    <3>1. CASE q # r
      BY <2>a, <2>d, <3>1 DEF Speaks, Busy, Registering, AccountOf
    <3>2. CASE q = r
      <4>1. job[r].key = KeyOf[job[r].jwk]
        BY <2>a DEF Speaks, Busy
      <4> QED
        BY <2>d, <3>2, <4>1 DEF Speaks, Busy, Registering
    <3> QED
      BY <3>1, <3>2
  <2>6. ASSUME NEW q \in Requests PROVE Registers(q)'
    BY <2>a, <2>d DEF Registers, Granted
  <2>7. AccountsGranted'
    BY <2>a DEF AccountsGranted
  <2>8. OneAccountEach'
    <3> SUFFICES ASSUME "twins" \notin seen'
                 PROVE  OneAccountEach'
      BY DEF OneAccountEach
    <3>1. "twins" \notin seen
      BY <2>0
    <3>2. CASE pc'[r] = "idle"
      BY <2>a, <2>d, <3>2 DEF OneAccountEach
    <3>3. CASE pc'[r] = "put-account"
      <4>1. \A a \in Ids : accounts[a] # None => accounts[a].jwk # job[r].jwk
        BY <2>d, <3>3, LookupFinds, NoCertIsNone
      <4>2. \A q \in Requests \ {r} :
                pc[q] \in {"put-account", "log-account"} => job[q].jwk # job[r].jwk
        BY <2>d, <3>3 DEF Twin
      <4> QED
        BY <2>a, <2>d, <4>1, <4>2 DEF OneAccountEach
    <3> QED
      BY <2>d, <3>2, <3>3
  <2>9. CertsOwned'
    BY <2>a DEF CertsOwned
  <2>10. UsedByHolder'
    BY <2>a DEF UsedByHolder
  <2>11. ASSUME NEW q \in Requests PROVE Entitled(q)'
    BY <2>a, <2>d DEF Entitled, Revoking, Revoked, Mine, Owns, Actor
  <2>12. RevocationFollowed'
    <3>1. \A q \in Requests : Revoked(q) => Revoked(q)' /\ Mine(q)' = Mine(q)
      BY <2>a, <2>d DEF Revoked, Mine, Actor
    <3> QED
      BY <2>a, <2>d, <3>1, StillFollowed
  <2>13. LoggedByRight'
    BY <2>a DEF LoggedByRight
  <2> QED
    BY <2>1, <2>2, <2>3, <2>4, <2>5, <2>6, <2>7, <2>8, <2>9, <2>10, <2>11, <2>12, <2>13
<1>8. ASSUME NEW r \in Requests, PutAccount(r) PROVE IInv'
  <2>1. DocsTyped'
    <3>1. AccountOf(r) \in Accounts
      BY <1>8 DEF PutAccount, AccountOf, Accounts, JobsTyped, Busy, Jobs
    <3>2. accounts' \in [Ids -> Accounts \cup {None}]
      BY <1>8, <3>1 DEF PutAccount, DocsTyped
    <3> QED
      BY <1>8, <3>2 DEF PutAccount, DocsTyped
  <2>2. LogTyped'
    BY <1>8 DEF PutAccount, LogTyped
  <2>3. JobsTyped'
    BY <1>8 DEF PutAccount, Goto, Carry, JobsTyped, Jobs, Phases, Busy
  <2>4. TakenOnce'
    BY <1>8 DEF PutAccount, Goto, Carry, TakenOnce
  <2>5. ASSUME NEW q \in Requests PROVE Speaks(q)'
    BY <1>8 DEF PutAccount, Goto, Carry, JobsTyped, Speaks, Busy, Registering,
       AccountOf
  <2>6. ASSUME NEW q \in Requests PROVE Registers(q)'
    BY <1>8 DEF PutAccount, Goto, Carry, Registers, Granted
  <2>7. AccountsGranted'
    BY <1>8 DEF PutAccount, AccountsGranted, Registers, Granted, AccountOf
  <2>8. OneAccountEach'
    BY <1>8 DEF PutAccount, Goto, Carry, JobsTyped, OneAccountEach, AccountOf
  <2>9. CertsOwned'
    BY <1>8 DEF PutAccount, CertsOwned
  <2>10. UsedByHolder'
    BY <1>8 DEF PutAccount, DocsTyped, JobsTyped, UsedByHolder, CertsOwned, ParseJWK,
       Certs, Accounts
  <2>11. ASSUME NEW q \in Requests PROVE Entitled(q)'
    BY <1>8 DEF PutAccount, Goto, Carry, Entitled, Revoking, Revoked, Mine, Owns, Actor
  <2>12. RevocationFollowed'
    <3>1. \A q \in Requests : Revoked(q) => Revoked(q)' /\ Mine(q)' = Mine(q)
      BY <1>8 DEF PutAccount, Goto, Carry, Revoked, Mine, Actor
    <3> QED
      BY <1>8, <3>1, StillFollowed DEF PutAccount
  <2>13. LoggedByRight'
    BY <1>8 DEF PutAccount, LoggedByRight
  <2> QED
    BY <2>1, <2>2, <2>3, <2>4, <2>5, <2>6, <2>7, <2>8, <2>9, <2>10, <2>11, <2>12, <2>13
<1>9. ASSUME NEW r \in Requests, LogAccount(r) PROVE IInv'
  <2>1. DocsTyped'
    BY <1>9 DEF LogAccount, DocsTyped
  <2>2. LogTyped'
    BY <1>9 DEF LogAccount, Log, JobsTyped, LogTyped
  <2>3. JobsTyped'
    BY <1>9 DEF LogAccount, Answer, Goto, JobsTyped, Phases, Busy
  <2>4. TakenOnce'
    BY <1>9 DEF LogAccount, Answer, Goto, TakenOnce
  <2>5. ASSUME NEW q \in Requests PROVE Speaks(q)'
    BY <1>9 DEF LogAccount, Answer, Goto, JobsTyped, Speaks, Busy, Registering,
       AccountOf
  <2>6. ASSUME NEW q \in Requests PROVE Registers(q)'
    BY <1>9 DEF LogAccount, Answer, Goto, JobsTyped, Registers, Granted
  <2>7. AccountsGranted'
    BY <1>9 DEF LogAccount, AccountsGranted, AccountOf
  <2>8. OneAccountEach'
    BY <1>9 DEF LogAccount, Answer, Goto, JobsTyped, OneAccountEach, Accounts
  <2>9. CertsOwned'
    BY <1>9 DEF LogAccount, CertsOwned, Busy
  <2>10. UsedByHolder'
    BY <1>9 DEF LogAccount, UsedByHolder
  <2>11. ASSUME NEW q \in Requests PROVE Entitled(q)'
    BY <1>9 DEF LogAccount, Answer, Goto, Log, Entitled, Revoking, Revoked, Mine, Owns,
       Actor
  <2>12. RevocationFollowed'
    BY <1>9 DEF LogAccount, Answer, Goto, Log, JobsTyped, RevocationFollowed,
       BothRecords, Revoked, Mine, Actor
  <2>13. LoggedByRight'
    BY <1>9 DEF LogAccount, Log, DocsTyped, LoggedByRight
  <2> QED
    BY <2>1, <2>2, <2>3, <2>4, <2>5, <2>6, <2>7, <2>8, <2>9, <2>10, <2>11, <2>12, <2>13
<1>10. ASSUME NEW r \in Requests, UpdateAccount(r) PROVE IInv'
  <2>0. accounts' = accounts
    <3>1. job[r].account \in Ids /\ accounts[job[r].account] = AccountOf(r)
      BY <1>10 DEF UpdateAccount, Speaks, JobsTyped, Jobs, Busy, Registering
    <3> QED
      BY <1>10, <3>1 DEF UpdateAccount, DocsTyped
  <2>1. DocsTyped'
    BY <1>10, <2>0 DEF UpdateAccount, Goto, DocsTyped, Accounts, Certs
  <2>2. LogTyped'
    BY <1>10 DEF UpdateAccount, LogTyped, Busy
  <2>3. JobsTyped'
    BY <1>10 DEF UpdateAccount, Answer, Goto, JobsTyped, Phases, Busy
  <2>4. TakenOnce'
    BY <1>10 DEF UpdateAccount, Answer, Goto, TakenOnce
  <2>5. ASSUME NEW q \in Requests PROVE Speaks(q)'
    BY <1>10 DEF UpdateAccount, Answer, Goto, JobsTyped, Speaks, Busy, Registering,
       AccountOf
  <2>6. ASSUME NEW q \in Requests PROVE Registers(q)'
    BY <1>10 DEF UpdateAccount, Answer, Goto, JobsTyped, Registers, Granted
  <2>7. AccountsGranted'
    BY <1>10, <2>0 DEF UpdateAccount, AccountsGranted, AccountOf
  <2>8. OneAccountEach'
    BY <1>10, <2>0 DEF UpdateAccount, Answer, Goto, OneAccountEach, Accounts
  <2>9. CertsOwned'
    BY <1>10, <2>0 DEF UpdateAccount, CertsOwned, Busy
  <2>10. UsedByHolder'
    BY <1>10, <2>0 DEF UpdateAccount, UsedByHolder
  <2>11. ASSUME NEW q \in Requests PROVE Entitled(q)'
    BY <1>10 DEF UpdateAccount, Answer, Goto, Entitled, Revoking, Revoked, Mine, Owns,
       Actor
  <2>12. RevocationFollowed'
    BY <1>10 DEF UpdateAccount, Answer, Goto, JobsTyped, RevocationFollowed,
       BothRecords, Revoked, Mine, Actor
  <2>13. LoggedByRight'
    BY <1>10 DEF UpdateAccount, DocsTyped, LoggedByRight
  <2> QED
    BY <2>1, <2>2, <2>3, <2>4, <2>5, <2>6, <2>7, <2>8, <2>9, <2>10, <2>11, <2>12, <2>13
<1>11. ASSUME NEW r \in Requests, Finalize(r) PROVE IInv'
  <2>a. PICK s \in Serials :
            /\ certs[s] = None
            /\ certs' = [certs EXCEPT ![s] = [account |-> job[r].account, revoked |-> FALSE]]
    BY <1>11 DEF Finalize
  <2>b. /\ job[r] \in Jobs /\ job[r].account \in Ids /\ accounts[job[r].account] # None
        /\ pc[r] = "finalize"
    BY <1>11 DEF Finalize, JobsTyped, Busy, Jobs, Speaks, Registering
  <2>0. /\ certs'[s] = [account |-> job[r].account, revoked |-> FALSE]
        /\ certs'[s] \in Certs /\ certs'[s].account = job[r].account
        /\ certs'[s].revoked = FALSE
        /\ \A t \in Serials \ {s} : certs'[t] = certs[t]
        /\ \A t \in Serials : certs[t] # None => t # s /\ certs'[t] = certs[t]
        /\ pc[r] = "finalize" /\ pc' = [pc EXCEPT ![r] = "idle"] /\ job' = [job EXCEPT ![r] = None]
        /\ \A q \in Requests \ {r} : pc'[q] = pc[q] /\ job'[q] = job[q]
    BY <1>11, <2>a, <2>b DEF Finalize, Answer, Goto, DocsTyped, Certs, JobsTyped
  <2>1. DocsTyped'
    <3>1. certs' \in [Serials -> Certs \cup {None}]
      BY <2>a, <2>0 DEF DocsTyped
    <3> QED
      BY <1>11, <3>1 DEF Finalize, DocsTyped
  <2>2. LogTyped'
    BY <1>11 DEF Finalize, LogTyped, Busy
  <2>3. JobsTyped'
    BY <2>0 DEF JobsTyped, Phases, Busy
  <2>4. TakenOnce'
    BY <1>11, <2>0 DEF Finalize, Answer, TakenOnce
  <2>5. ASSUME NEW q \in Requests PROVE Speaks(q)'
    BY <1>11, <2>0 DEF Finalize, JobsTyped, Speaks, Busy, Registering, AccountOf
  <2>6. ASSUME NEW q \in Requests PROVE Registers(q)'
    BY <1>11, <2>0 DEF Finalize, JobsTyped, Registers, Granted
  <2>7. AccountsGranted'
    BY <1>11 DEF Finalize, AccountsGranted, AccountOf
  <2>8. OneAccountEach'
    BY <1>11, <2>0 DEF Finalize, OneAccountEach, Accounts
  <2>9. CertsOwned'
    BY <1>11, <2>a, <2>b, <2>0 DEF Finalize, CertsOwned, DocsTyped, Uses
  <2>10. UsedByHolder'
    BY <1>11, <2>0 DEF Finalize, UsedByHolder, CertsOwned, DocsTyped, Uses
  <2>11. ASSUME NEW q \in Requests PROVE Entitled(q)'
    BY <1>11, <2>0 DEF Finalize, Entitled, Revoking, Revoked, Mine, Owns, Actor
  <2>12. RevocationFollowed'
    <3>1. \A q \in Requests : Revoked(q) => Revoked(q)' /\ Mine(q)' = Mine(q)
      BY <2>0 DEF Revoked, Mine, Actor
    <3> QED
      BY <1>11, <3>1, StillFollowed DEF Finalize
  <2>13. LoggedByRight'
    BY <1>11 DEF Finalize, LoggedByRight
  <2> QED
    BY <2>1, <2>2, <2>3, <2>4, <2>5, <2>6, <2>7, <2>8, <2>9, <2>10, <2>11, <2>12, <2>13
<1>12. ASSUME NEW r \in Requests, FetchCert(r) PROVE IInv'
  <2>a. PICK s \in Serials :
            /\ Owns(r, s)
            /\ used' = used \cup {[op |-> "serve", serial |-> s, who |-> Actor(r), key |-> job[r].key]}
    BY <1>12 DEF FetchCert, Use
  <2>0. /\ job[r] \in Jobs /\ job[r].key = KeyOf[job[r].jwk] /\ job[r].key \in Keys
        /\ certs[s] # None /\ certs[s].account = job[r].account
        /\ Actor(r) = job[r].account /\ Actor(r) \in Ids
        /\ accounts[job[r].account] # None /\ accounts[job[r].account] = AccountOf(r)
        /\ pc[r] = "cert" /\ pc' = [pc EXCEPT ![r] = "idle"] /\ job' = [job EXCEPT ![r] = None]
        /\ UNCHANGED <<requireEAB, nonces, accounts, eabKeys, certs, log, handled, seen>>
    BY <1>12, <2>a DEF FetchCert, Answer, Goto, Owns, Actor, JobsTyped, Busy, Jobs,
       Speaks, Registering, docVars
  <2>1. DocsTyped'
    BY <2>a, <2>0 DEF DocsTyped, Uses, Actors
  <2>2. LogTyped'
    BY <2>0 DEF LogTyped, Busy
  <2>3. JobsTyped'
    BY <1>12 DEF FetchCert, Answer, Goto, JobsTyped, Phases, Busy
  <2>4. TakenOnce'
    BY <1>12, <2>0 DEF FetchCert, Answer, Goto, TakenOnce
  <2>5. ASSUME NEW q \in Requests PROVE Speaks(q)'
    BY <1>12, <2>0 DEF FetchCert, Answer, Goto, JobsTyped, Speaks, Busy, Registering,
       AccountOf
  <2>6. ASSUME NEW q \in Requests PROVE Registers(q)'
    BY <1>12, <2>0 DEF FetchCert, Answer, Goto, JobsTyped, Registers, Granted
  <2>7. AccountsGranted'
    BY <2>0 DEF AccountsGranted, AccountOf
  <2>8. OneAccountEach'
    BY <1>12, <2>0 DEF FetchCert, Answer, Goto, OneAccountEach, Accounts
  <2>9. CertsOwned'
    BY <2>a, <2>0 DEF CertsOwned
  <2>10. UsedByHolder'
    <3>1. job[r].key = ParseJWK(accounts[certs[s].account].jwk)
      BY <2>0 DEF ParseJWK, AccountOf
    <3> QED
      BY <2>a, <2>0, <3>1 DEF UsedByHolder
  <2>11. ASSUME NEW q \in Requests PROVE Entitled(q)'
    BY <2>a, <2>0 DEF Entitled, Revoking, Revoked, Mine, Owns, Actor
  <2>12. RevocationFollowed'
    <3>1. \A q \in Requests : Revoked(q) => Revoked(q)' /\ Mine(q)' = Mine(q)
      BY <2>0 DEF Revoked, Mine, Actor
    <3> QED
      BY <2>a, <2>0, <3>1, StillFollowed
  <2>13. LoggedByRight'
    BY <2>a, <2>0 DEF LoggedByRight
  <2> QED
    BY <2>1, <2>2, <2>3, <2>4, <2>5, <2>6, <2>7, <2>8, <2>9, <2>10, <2>11, <2>12, <2>13
<1>13. ASSUME NEW r \in Requests, CheckRevoke(r) PROVE IInv'
  <2>1. DocsTyped'
    BY <1>13 DEF CheckRevoke, docVars, DocsTyped
  <2>2. LogTyped'
    BY <1>13 DEF CheckRevoke, docVars, LogTyped, Busy
  <2>3. JobsTyped'
    BY <1>13 DEF CheckRevoke, Carry, Goto, JobsTyped, Jobs, Phases, Busy
  <2>4. TakenOnce'
    BY <1>13 DEF CheckRevoke, Carry, Goto, docVars, TakenOnce
  <2>5. ASSUME NEW q \in Requests PROVE Speaks(q)'
    BY <1>13 DEF CheckRevoke, Carry, Goto, docVars, JobsTyped, Speaks, Busy,
       Registering, AccountOf
  <2>6. ASSUME NEW q \in Requests PROVE Registers(q)'
    BY <1>13 DEF CheckRevoke, Carry, Goto, docVars, JobsTyped, Registers, Granted
  <2>7. AccountsGranted'
    BY <1>13 DEF CheckRevoke, docVars, AccountsGranted, AccountOf
  <2>8. OneAccountEach'
    BY <1>13 DEF CheckRevoke, Carry, Goto, docVars, OneAccountEach, Accounts
  <2>9. CertsOwned'
    BY <1>13 DEF CheckRevoke, docVars, CertsOwned, Busy
  <2>10. UsedByHolder'
    BY <1>13 DEF CheckRevoke, docVars, UsedByHolder
  <2>11. ASSUME NEW q \in Requests PROVE Entitled(q)'
    BY <1>13 DEF CheckRevoke, Carry, Goto, docVars, JobsTyped, Entitled, Revoking,
       Revoked, Mine, MayRevoke, Owns, Actor, Busy, Jobs
  <2>12. RevocationFollowed'
    <3>1. \A q \in Requests : Revoked(q) => Revoked(q)' /\ Mine(q)' = Mine(q)
      BY <1>13 DEF CheckRevoke, Goto, Carry, Revoked, Mine, Actor
    <3> QED
      BY <1>13, <3>1, StillFollowed DEF CheckRevoke, docVars
  <2>13. LoggedByRight'
    BY <1>13 DEF CheckRevoke, docVars, DocsTyped, LoggedByRight
  <2> QED
    BY <2>1, <2>2, <2>3, <2>4, <2>5, <2>6, <2>7, <2>8, <2>9, <2>10, <2>11, <2>12, <2>13
<1>14. ASSUME NEW r \in Requests, MarkRevoked(r) PROVE IInv'
  <2> DEFINE s == job[r].serial
             u == [op |-> "revoke", serial |-> s, who |-> Actor(r), key |-> job[r].key]
  <2>a. /\ pc[r] = "mark" /\ job[r] \in Jobs /\ s \in Serials
        /\ job[r].key \in Keys /\ job[r].key = KeyOf[job[r].jwk] /\ Actor(r) \in Actors
        /\ UNCHANGED <<requireEAB, nonces, accounts, eabKeys, log, handled, seen>>
    BY <1>14 DEF MarkRevoked, JobsTyped, Busy, Jobs, Entitled, Revoking, Speaks, Actor,
       Actors, Thumbprint
  <2>b. \/ /\ certs' = certs /\ used' = used
           /\ pc' = [pc EXCEPT ![r] = "idle"] /\ job' = [job EXCEPT ![r] = None]
        \/ /\ certs[s] # None /\ ~certs[s].revoked
           /\ certs' = [certs EXCEPT ![s] = [certs[s] EXCEPT !.revoked = TRUE]]
           /\ used' = used \cup {u}
           /\ pc' = [pc EXCEPT ![r] = "log-revoke"] /\ job' = job
    BY <1>14, <2>a DEF MarkRevoked, Answer, Goto, Use
  <2>c. certs[s] # None =>
            /\ [certs[s] EXCEPT !.revoked = TRUE] \in Certs
            /\ [certs[s] EXCEPT !.revoked = TRUE].account = certs[s].account
            /\ [certs[s] EXCEPT !.revoked = TRUE].revoked
    BY <2>a DEF DocsTyped, Certs
  <2>d. /\ certs' \in [Serials -> Certs \cup {None}]
        /\ \A t \in Serials : certs[t] # None <=> certs'[t] # None
        /\ \A t \in Serials : certs[t] # None =>
                /\ certs'[t].account = certs[t].account
                /\ certs[t].revoked => certs'[t].revoked
        /\ u \in used' \ used => certs[s] # None /\ ~certs[s].revoked /\ certs'[s].revoked
    <3>1. CASE certs' = certs /\ used' = used
      BY <3>1 DEF DocsTyped
    <3>2. CASE /\ certs[s] # None /\ ~certs[s].revoked
               /\ certs' = [certs EXCEPT ![s] = [certs[s] EXCEPT !.revoked = TRUE]]
      <4>1. certs' \in [Serials -> Certs \cup {None}]
        BY <2>c, <3>2 DEF DocsTyped
      <4>2. certs'[s] = [certs[s] EXCEPT !.revoked = TRUE]
        BY <2>a, <3>2 DEF DocsTyped
      <4>3. \A t \in Serials \ {s} : certs'[t] = certs[t]
        BY <3>2
      <4> QED
        BY <2>a, <2>c, <3>2, <4>1, <4>2, <4>3, NoCertIsNone
    <3> QED
      BY <2>b, <3>1, <3>2
  <2>e. /\ pc' \in [Requests -> Phases] /\ DOMAIN job' = Requests
        /\ \A q \in Requests \ {r} : pc'[q] = pc[q] /\ job'[q] = job[q]
        /\ \/ pc'[r] = "idle" /\ job'[r] = None /\ used' = used
           \/ pc'[r] = "log-revoke" /\ job'[r] = job[r] /\ used' = used \cup {u}
    BY <2>b DEF JobsTyped, Phases
  <2>g. /\ u \in Uses /\ u.op = "revoke" /\ u.serial = s /\ u.who = Actor(r)
        /\ u.key = job[r].key /\ u = Mine(r)
    BY <2>a DEF Uses, Mine
  <2>h. job[r].account # None =>
            /\ certs[s] # None /\ certs[s].account = job[r].account
            /\ accounts[job[r].account] # None /\ accounts[job[r].account] = AccountOf(r)
    BY <2>a DEF Entitled, Revoking, Owns, Speaks, Busy, Registering
  <2>i. /\ Actor(r) \in Ids => Actor(r) = job[r].account /\ job[r].account # None
        /\ Actor(r) \notin Ids => Actor(r) = job[r].jwk
    BY <2>a, NoCertIsNone DEF Actor, Thumbprint, Jobs, Ids
  <2> HIDE DEF s, u
  <2>1. DocsTyped'
    BY <2>a, <2>d, <2>e, <2>g DEF DocsTyped
  <2>2. LogTyped'
    BY <2>a DEF LogTyped
  <2>3. JobsTyped'
    BY <2>a, <2>e DEF JobsTyped, Busy
  <2>4. TakenOnce'
    BY <2>a, <2>e DEF TakenOnce
  <2>5. ASSUME NEW q \in Requests PROVE Speaks(q)'
    BY <2>a, <2>e DEF Speaks, Busy, Registering, AccountOf
  <2>6. ASSUME NEW q \in Requests PROVE Registers(q)'
    BY <2>a, <2>e DEF Registers, Granted
  <2>7. AccountsGranted'
    BY <2>a DEF AccountsGranted
  <2>8. OneAccountEach'
    BY <2>a, <2>e DEF OneAccountEach
  <2>9. CertsOwned'
    <3>1. \A t \in Serials : certs'[t] # None /\ certs'[t].account # None =>
            accounts[certs'[t].account] # None
      BY <2>d DEF CertsOwned
    <3>2. ASSUME NEW v \in used
          PROVE  /\ certs'[v.serial] # None
                 /\ v.who \in Ids => accounts[v.who] # None
                 /\ v.op = "revoke" => certs'[v.serial].revoked
      BY <2>d DEF CertsOwned, DocsTyped, Uses
    <3>3. CASE used' = used
      BY <2>a, <3>1, <3>2, <3>3 DEF CertsOwned
    <3>4. CASE used' = used \cup {u} /\ u \notin used
      <4>1. certs[s] # None /\ ~certs[s].revoked /\ certs'[s].revoked /\ certs'[s] # None
        BY <2>a, <2>d, <3>4
      <4>2. Actor(r) \in Ids => accounts[Actor(r)] # None
        BY <2>h, <2>i
      <4>3. \A v \in used : v.op = "revoke" => v.serial # s
        BY <4>1 DEF CertsOwned
      <4> QED
        BY <2>a, <2>g, <3>1, <3>2, <3>4, <4>1, <4>2, <4>3 DEF CertsOwned
    <3> QED
      BY <2>e, <3>3, <3>4
  <2>10. UsedByHolder'
    <3>1. ASSUME NEW v \in used
          PROVE  certs'[v.serial].account = certs[v.serial].account
      BY <2>d DEF CertsOwned, DocsTyped, Uses
    <3>2. certs[s] # None => certs'[s].account = certs[s].account
      BY <2>a, <2>d
    <3>3. IF u.who \in Ids
          THEN certs'[u.serial].account = u.who /\ u.key = ParseJWK(accounts[u.who].jwk)
          ELSE u.op = "revoke" /\ u.key = ParseJWK(u.who)
      BY <2>a, <2>g, <2>h, <2>i, <3>2 DEF ParseJWK, AccountOf
    <3> QED
      BY <2>a, <2>e, <3>1, <3>3 DEF UsedByHolder, ParseJWK
  <2>11. ASSUME NEW q \in Requests PROVE Entitled(q)'
    <3>1. CASE q # r
      <4>1. pc'[q] = pc[q] /\ job'[q] = job[q] /\ used \subseteq used' /\ log' = log
        BY <2>a, <2>e, <3>1
      <4>2. Owns(q, job[q].serial) /\ job[q].serial \in Serials => Owns(q, job[q].serial)'
        BY <2>d, <4>1 DEF Owns
      <4>3. Revoking(q)' = Revoking(q) /\ Revoked(q)' = Revoked(q)
            /\ Actor(q)' = Actor(q) /\ Mine(q)' = Mine(q)
        BY <4>1 DEF Revoking, Revoked, Actor, Mine
      <4> QED
        BY <4>1, <4>2, <4>3 DEF Entitled
    <3>2. CASE q = r /\ pc'[r] = "idle"
      BY <3>2 DEF Entitled, Revoking, Revoked
    <3>3. CASE q = r /\ pc'[r] = "log-revoke"
      <4>1. job'[r] = job[r] /\ u \in used'
        BY <2>e, <3>3
      <4>2. Mine(r)' = u /\ job'[r].serial = s
        BY <2>g, <4>1 DEF Mine, Actor, s
      <4>3. job'[r].account # None =>
                /\ certs'[s] # None
                /\ certs'[s].account = job'[r].account
        BY <2>a, <2>d, <2>h, <4>1
      <4>4. Revoked(r)' => Mine(r)' \in used'
        BY <4>1, <4>2
      <4> QED
        BY <2>a, <3>3, <4>1, <4>2, <4>3, <4>4 DEF Entitled, Owns
    <3> QED
      BY <2>e, <3>1, <3>2, <3>3
  <2>12. RevocationFollowed'
    <3>1. CASE pc'[r] = "idle"
      <4>1. \A q \in Requests : Revoked(q) => Revoked(q)' /\ Mine(q)' = Mine(q)
        BY <2>a, <2>e DEF Revoked, Mine, Actor
      <4>2. used' = used
        BY <2>e, <3>1
      <4> QED
        BY <2>a, <4>1, <4>2, StillFollowed
    <3>2. CASE pc'[r] = "log-revoke"
      <4> SUFFICES ASSUME "failure" \notin seen', NEW v \in used', v.op = "revoke"
                   PROVE  \/ \E q \in Requests : Revoked(q)' /\ Mine(q)' = v
                          \/ BothRecords(v.serial, v.who)'
        BY DEF RevocationFollowed
      <4>1. CASE v = u
        BY <2>e, <2>g, <3>2, <4>1 DEF Revoked, Mine, Actor
      <4>2. CASE v \in used
        <5>1. "failure" \notin seen /\ log' = log
          BY <2>a
        <5>2. CASE BothRecords(v.serial, v.who)
          BY <5>1, <5>2 DEF BothRecords
        <5>3. ASSUME NEW q \in Requests, Revoked(q), Mine(q) = v
              PROVE  Revoked(q)' /\ Mine(q)' = v
          BY <2>a, <2>e, <5>3 DEF Revoked, Mine, Actor
        <5> QED
          BY <4>2, <5>1, <5>2, <5>3 DEF RevocationFollowed
      <4> QED
        BY <2>e, <4>1, <4>2
    <3> QED
      BY <2>e, <3>1, <3>2
  <2>13. LoggedByRight'
    BY <2>a, <2>e DEF LoggedByRight
  <2> QED
    BY <2>1, <2>2, <2>3, <2>4, <2>5, <2>6, <2>7, <2>8, <2>9, <2>10, <2>11, <2>12, <2>13
<1>15. ASSUME NEW r \in Requests, LogRevoke(r) PROVE IInv'
  <2>0. /\ pc[r] = "log-revoke" /\ job[r] \in Jobs /\ job[r].serial \in Serials
        /\ Actor(r) \in Actors
        /\ pc' = [pc EXCEPT ![r] = "log-acme"] /\ job' = job
        /\ log' = log \cup {<<"cert.revoke", job[r].serial, Actor(r)>>}
        /\ UNCHANGED <<requireEAB, nonces, accounts, eabKeys, certs, handled, used, seen>>
    BY <1>15 DEF LogRevoke, Log, Goto, JobsTyped, Busy, Jobs, Entitled, Revoking,
       Revoked, Actor, Actors, Thumbprint
  <2>1. DocsTyped'
    BY <1>15 DEF LogRevoke, Goto, DocsTyped
  <2>2. LogTyped'
    BY <2>0 DEF LogTyped
  <2>3. JobsTyped'
    BY <1>15 DEF LogRevoke, Goto, JobsTyped, Phases, Busy
  <2>4. TakenOnce'
    BY <1>15 DEF LogRevoke, Log, Goto, TakenOnce
  <2>5. ASSUME NEW q \in Requests PROVE Speaks(q)'
    BY <1>15 DEF LogRevoke, Goto, JobsTyped, Speaks, Busy, Registering, AccountOf
  <2>6. ASSUME NEW q \in Requests PROVE Registers(q)'
    BY <1>15 DEF LogRevoke, Goto, JobsTyped, Registers, Granted
  <2>7. AccountsGranted'
    BY <1>15 DEF LogRevoke, AccountsGranted, AccountOf
  <2>8. OneAccountEach'
    BY <1>15 DEF LogRevoke, Goto, OneAccountEach, Accounts
  <2>9. CertsOwned'
    BY <1>15 DEF LogRevoke, CertsOwned, Busy
  <2>10. UsedByHolder'
    BY <1>15 DEF LogRevoke, UsedByHolder
  <2>11. ASSUME NEW q \in Requests PROVE Entitled(q)'
    BY <1>15 DEF LogRevoke, Log, Goto, Entitled, Revoking, Revoked, Mine, Owns, Actor
  <2>12. RevocationFollowed'
    <3>1. \A q \in Requests : Revoked(q) => Revoked(q)' /\ Mine(q)' = Mine(q)
      BY <2>0 DEF JobsTyped, Revoked, Mine, Actor
    <3> QED
      BY <2>0, <3>1, StillFollowed
  <2>13. LoggedByRight'
    BY <2>0 DEF LoggedByRight
  <2> QED
    BY <2>1, <2>2, <2>3, <2>4, <2>5, <2>6, <2>7, <2>8, <2>9, <2>10, <2>11, <2>12, <2>13
<1>16. ASSUME NEW r \in Requests, LogAcmeRevoke(r) PROVE IInv'
  <2>a. /\ pc[r] = "log-acme" /\ job[r] \in Jobs /\ job[r].serial \in Serials
        /\ Mine(r) \in used /\ Actor(r) \in Actors
        /\ <<"cert.revoke", job[r].serial, Actor(r)>> \in log
    BY <1>16 DEF LogAcmeRevoke, JobsTyped, Busy, Jobs, Entitled, Revoking, Revoked,
       Actor, Actors, Thumbprint
  <2>0. /\ pc' = [pc EXCEPT ![r] = "idle"] /\ job' = [job EXCEPT ![r] = None]
        /\ log' = log \cup {<<"acme.cert.revoke", job[r].serial, Actor(r)>>}
        /\ UNCHANGED <<requireEAB, nonces, accounts, eabKeys, certs, handled, used, seen>>
    BY <1>16 DEF LogAcmeRevoke, Log, Answer, Goto
  <2>1. DocsTyped'
    BY <1>16 DEF LogAcmeRevoke, Goto, DocsTyped
  <2>2. LogTyped'
    BY <2>0, <2>a DEF LogTyped
  <2>3. JobsTyped'
    BY <1>16 DEF LogAcmeRevoke, Answer, Goto, JobsTyped, Phases, Busy
  <2>4. TakenOnce'
    BY <1>16 DEF LogAcmeRevoke, Answer, Goto, TakenOnce
  <2>5. ASSUME NEW q \in Requests PROVE Speaks(q)'
    BY <1>16 DEF LogAcmeRevoke, Answer, Goto, JobsTyped, Speaks, Busy, Registering,
       AccountOf
  <2>6. ASSUME NEW q \in Requests PROVE Registers(q)'
    BY <1>16 DEF LogAcmeRevoke, Answer, Goto, JobsTyped, Registers, Granted
  <2>7. AccountsGranted'
    BY <1>16 DEF LogAcmeRevoke, AccountsGranted, AccountOf
  <2>8. OneAccountEach'
    BY <1>16 DEF LogAcmeRevoke, Answer, Goto, OneAccountEach, Accounts
  <2>9. CertsOwned'
    BY <1>16 DEF LogAcmeRevoke, CertsOwned, Busy
  <2>10. UsedByHolder'
    BY <1>16 DEF LogAcmeRevoke, UsedByHolder
  <2>11. ASSUME NEW q \in Requests PROVE Entitled(q)'
    BY <1>16 DEF LogAcmeRevoke, Log, Answer, Goto, JobsTyped, Entitled, Revoking,
       Revoked, Mine, Owns, Actor
  <2>12. RevocationFollowed'
    <3> SUFFICES ASSUME "failure" \notin seen, NEW u \in used, u.op = "revoke"
                 PROVE  \/ \E q \in Requests : Revoked(q)' /\ Mine(q)' = u
                        \/ BothRecords(u.serial, u.who)'
      BY <2>0 DEF RevocationFollowed
    <3>1. CASE BothRecords(u.serial, u.who)
      BY <2>0, <3>1 DEF BothRecords
    <3>2. ASSUME NEW q \in Requests, q # r, Revoked(q), Mine(q) = u
          PROVE  Revoked(q)' /\ Mine(q)' = u
      BY <2>0, <3>2 DEF Revoked, Mine, Actor
    <3>3. CASE Mine(r) = u
      <4>1. u.serial = job[r].serial /\ u.who = Actor(r)
        BY <3>3 DEF Mine
      <4> QED
        BY <2>a, <2>0, <4>1 DEF BothRecords
    <3> QED
      BY <3>1, <3>2, <3>3 DEF RevocationFollowed
  <2>13. LoggedByRight'
    <3>1. Mine(r).op = "revoke" /\ Mine(r).serial = job[r].serial /\ Mine(r).who = Actor(r)
      BY DEF Mine
    <3> QED
      BY <2>a, <2>0, <3>1 DEF LoggedByRight
  <2> QED
    BY <2>1, <2>2, <2>3, <2>4, <2>5, <2>6, <2>7, <2>8, <2>9, <2>10, <2>11, <2>12, <2>13
<1>17. ASSUME NEW r \in Requests, Refuse(r) PROVE IInv'
  <2>1. DocsTyped'
    BY <1>17 DEF Refuse, docVars, DocsTyped
  <2>2. LogTyped'
    BY <1>17 DEF Refuse, docVars, LogTyped, Busy
  <2>3. JobsTyped'
    BY <1>17 DEF Refuse, Answer, Goto, JobsTyped, Phases, Busy
  <2>4. TakenOnce'
    BY <1>17 DEF Refuse, Answer, Goto, Operations, docVars, JobsTyped, TakenOnce
  <2>5. ASSUME NEW q \in Requests PROVE Speaks(q)'
    BY <1>17 DEF Refuse, Answer, Goto, docVars, JobsTyped, Speaks, Busy, Registering,
       AccountOf
  <2>6. ASSUME NEW q \in Requests PROVE Registers(q)'
    BY <1>17 DEF Refuse, Answer, Goto, docVars, JobsTyped, Registers, Granted
  <2>7. AccountsGranted'
    BY <1>17 DEF Refuse, docVars, AccountsGranted, AccountOf
  <2>8. OneAccountEach'
    BY <1>17 DEF Refuse, Answer, Goto, Operations, docVars, OneAccountEach, Accounts
  <2>9. CertsOwned'
    BY <1>17 DEF Refuse, docVars, CertsOwned, Busy
  <2>10. UsedByHolder'
    BY <1>17 DEF Refuse, docVars, UsedByHolder
  <2>11. ASSUME NEW q \in Requests PROVE Entitled(q)'
    BY <1>17 DEF Refuse, Answer, Goto, Operations, docVars, Entitled, Revoking,
       Revoked, Mine, Owns, Actor
  <2>12. RevocationFollowed'
    BY <1>17 DEF Refuse, Answer, Goto, Operations, docVars, JobsTyped,
       RevocationFollowed, BothRecords, Revoked, Mine, Actor
  <2>13. LoggedByRight'
    BY <1>17 DEF Refuse, docVars, DocsTyped, LoggedByRight
  <2> QED
    BY <2>1, <2>2, <2>3, <2>4, <2>5, <2>6, <2>7, <2>8, <2>9, <2>10, <2>11, <2>12, <2>13
<1>18. ASSUME NEW r \in Requests, Fail(r) PROVE IInv'
  <2>1. DocsTyped'
    BY <1>18 DEF Fail, docVars, DocsTyped
  <2>2. LogTyped'
    BY <1>18 DEF Fail, docVars, LogTyped, Busy
  <2>3. JobsTyped'
    BY <1>18 DEF Fail, Answer, Goto, JobsTyped, Phases, Busy
  <2>4. TakenOnce'
    BY <1>18 DEF Fail, Answer, Goto, Operations, docVars, TakenOnce
  <2>5. ASSUME NEW q \in Requests PROVE Speaks(q)'
    BY <1>18 DEF Fail, Answer, Goto, docVars, JobsTyped, Speaks, Busy, Registering,
       AccountOf
  <2>6. ASSUME NEW q \in Requests PROVE Registers(q)'
    BY <1>18 DEF Fail, Answer, Goto, docVars, JobsTyped, Registers, Granted
  <2>7. AccountsGranted'
    BY <1>18 DEF Fail, docVars, AccountsGranted, AccountOf
  <2>8. OneAccountEach'
    BY <1>18 DEF Fail, Answer, Goto, docVars, JobsTyped, OneAccountEach, Accounts
  <2>9. CertsOwned'
    BY <1>18 DEF Fail, docVars, CertsOwned, Busy
  <2>10. UsedByHolder'
    BY <1>18 DEF Fail, docVars, UsedByHolder
  <2>11. ASSUME NEW q \in Requests PROVE Entitled(q)'
    BY <1>18 DEF Fail, Answer, Goto, docVars, JobsTyped, Entitled, Revoking, Revoked,
       Mine, Owns, Actor
  <2>12. RevocationFollowed'
    <3>1. Revoked(r) => "failure" \in seen'
      BY <1>18 DEF Fail
    <3>2. "failure" \notin seen' => \A q \in Requests : Revoked(q) => Revoked(q)' /\ Mine(q)' = Mine(q)
      BY <1>18, <3>1 DEF Fail, Answer, Goto, Revoked, Mine, Actor
    <3>3. "failure" \notin seen' => "failure" \notin seen
      BY <1>18 DEF Fail
    <3> QED
      BY <1>18, <3>2, <3>3 DEF Fail, docVars, RevocationFollowed, BothRecords
  <2>13. LoggedByRight'
    BY <1>18 DEF Fail, docVars, DocsTyped, LoggedByRight
  <2> QED
    BY <2>1, <2>2, <2>3, <2>4, <2>5, <2>6, <2>7, <2>8, <2>9, <2>10, <2>11, <2>12, <2>13
<1>19. CASE UNCHANGED vars
  <2> USE <1>19 DEF vars, docVars
  <2>1. DocsTyped' /\ LogTyped' /\ JobsTyped' /\ TakenOnce'
    BY DEF DocsTyped, LogTyped, JobsTyped, Busy, TakenOnce
  <2>2. \A q \in Requests : Speaks(q)' /\ Registers(q)' /\ Entitled(q)'
    BY DEF Speaks, Busy, Registering, AccountOf, Registers, Granted, Entitled,
       Revoking, Revoked, Mine, Owns, Actor
  <2>3. AccountsGranted' /\ OneAccountEach'
    BY DEF AccountsGranted, OneAccountEach
  <2>4. CertsOwned' /\ UsedByHolder' /\ LoggedByRight'
    BY DEF CertsOwned, UsedByHolder, LoggedByRight
  <2>5. RevocationFollowed'
    BY DEF RevocationFollowed, BothRecords, Revoked, Mine, Actor
  <2> QED
    BY <2>1, <2>2, <2>3, <2>4, <2>5
<1> QED
  BY <1>1, <1>2, <1>3, <1>4, <1>5, <1>6, <1>7, <1>8, <1>9, <1>10, <1>11, <1>12, <1>13,
     <1>14, <1>15, <1>16, <1>17, <1>18, <1>19, <1>20 DEF Next


LEMMA Inductive == Spec => []IInv
<1>1. Init => IInv
  BY InitIInv
<1>2. IInv /\ [Next]_vars => IInv'
  BY NextIInv
<1> QED
  BY <1>1, <1>2, PTL DEF Spec

LEMMA IInvTypes == IInv => TypeOK
<1> SUFFICES ASSUME IInv PROVE TypeOK
  OBVIOUS
<1>1. ASSUME NEW r \in Requests
      PROVE  CASE pc[r] \in {"idle", "take"} -> job[r] = None
               [] pc[r] = "verify" -> job[r] \in Nonces
               [] OTHER -> job[r] \in Jobs
  BY DEF IInv, JobsTyped, Busy
<1> QED
  BY <1>1 DEF IInv, TypeOK, DocsTyped, LogTyped, JobsTyped, Accounts, Certs, Jobs, Uses

(* However often a signed message arrives, on any replica, at most one     *)
(* copy of it reaches its handler, and none if its nonce had expired.      *)
THEOREM MessagesHandledOnce == Spec => []HandledOnce
<1>1. IInv => HandledOnce
  BY DEF IInv, TakenOnce, HandledOnce
<1> QED
  BY <1>1, Inductive, PTL

(* An account is created only with a binding it may use, or without one    *)
(* where none is required, and no request changes its key or its binding.  *)
THEOREM AccountsAreSound == Spec => AccountsSound
<1>1. IInv => TypeOK /\ AccountsGranted
  BY IInvTypes DEF IInv
<1>2. IInv /\ [Next]_vars
        => [\A a \in Ids : accounts[a] # None => accounts'[a] = accounts[a]]_accounts
  <2> SUFFICES ASSUME IInv, Next, NEW a \in Ids, accounts[a] # None
               PROVE  accounts'[a] = accounts[a]
    BY DEF vars, docVars
  <2>1. ASSUME NEW r \in Requests, PutAccount(r) PROVE accounts'[a] = accounts[a]
    BY <2>1 DEF PutAccount
  <2>2. ASSUME NEW r \in Requests, UpdateAccount(r) PROVE accounts'[a] = accounts[a]
    BY <2>2 DEF UpdateAccount, IInv, Speaks, Busy, Registering
  <2> QED
    BY <2>1, <2>2 DEF Next, NewNonce, IssueElsewhere, RevokeElsewhere, CreateEABKey,
       Post, TakeNonce, Authenticate, ScanAccounts, LogAccount, Finalize, FetchCert,
       CheckRevoke, MarkRevoked, LogRevoke, LogAcmeRevoke, Refuse, Fail, docVars
<1> QED
  BY <1>1, <1>2, Inductive, PTL DEF Spec, AccountsSound, AccountsKept

(* A client that asks for its account by key is told the one that owns     *)
(* every certificate the key has ordered, unless two new-account requests  *)
(* for the key overlapped.                                                 *)
THEOREM LookupIsRight == Spec => []LookupOwnsCerts
<1>1. IInv => LookupOwnsCerts
  <2> SUFFICES ASSUME IInv, "twins" \notin seen, NEW s \in Serials, certs[s] # None,
                      certs[s].account # None
               PROVE  AccountByThumbprint(accounts[certs[s].account].jwk) = certs[s].account
    BY DEF LookupOwnsCerts
  <2>1. certs[s].account \in Ids /\ accounts[certs[s].account] # None
    BY DEF IInv, DocsTyped, Certs, CertsOwned
  <2> QED
    BY <2>1, LookupFinds DEF IInv
<1> QED
  BY <1>1, Inductive, PTL

(* A certificate is served to, and revoked for, an account only if that    *)
(* account ordered it, by requests with the signature of its key; a bare   *)
(* key is served nothing, and revokes by its own signature.                *)
THEOREM CertificatesUsedByHolder == Spec => []UsedByHolder
<1>1. IInv => UsedByHolder
  BY DEF IInv
<1> QED
  BY <1>1, Inductive, PTL

(* One request at most revokes a certificate, the ACME record names who it *)
(* was done for, and without failures both records are written.            *)
THEOREM RevocationsRecorded == Spec => []RevocationRecorded
<1>1. IInv => RevocationRecorded
  <2> SUFFICES ASSUME IInv, NEW s \in Serials PROVE RevocationRecorded!(s)
    BY DEF RevocationRecorded
  <2>1. \A u, v \in Revocations(s) : u = v
    BY DEF IInv, CertsOwned, Revocations
  <2>2. ASSUME NEW actor \in Actors, <<"acme.cert.revoke", s, actor>> \in log
        PROVE  \E u \in Revocations(s) : u.who = actor
    BY <2>2 DEF IInv, LoggedByRight, Revocations
  <2>3. ASSUME "failure" \notin seen, \A r \in Requests : ~Revoked(r), NEW u \in Revocations(s)
        PROVE  /\ certs[s].revoked
               /\ <<"cert.revoke", s, u.who>> \in log
               /\ <<"acme.cert.revoke", s, u.who>> \in log
    BY <2>3 DEF IInv, CertsOwned, RevocationFollowed, BothRecords, Revocations
  <2> QED
    BY <2>1, <2>2, <2>3
<1> QED
  BY <1>1, Inductive, PTL
=============================================================================
