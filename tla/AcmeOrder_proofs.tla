-------------------------- MODULE AcmeOrder_proofs --------------------------
(***************************************************************************)
(* Theorems about AcmeOrder, for every number of identifiers, challenge    *)
(* types and requests: no certificate without proof, documents that fit,   *)
(* and what holds when requests do not overlap or do not fail.             *)
(***************************************************************************)
EXTENDS AcmeOrder, FiniteSetTheorems, TLAPS

Jobs == [on : Challenges, found : Statuses \cup {"ready"}, at : Idents]

PhasesFit ==
    /\ \A v \in Validators : pc[v] \in {"idle", "check", "putChallenge", "putAuthz",
                                        "readOrder", "readAuthz", "putOrder"}
    /\ \A f \in Finalizers : pc[f] \in {"idle", "issue", "putCert", "putValid", "done"}

\* What a challenge request carries fits its phase.
JobFits(v) ==
    /\ pc[v] # "idle" => job[v] \in Jobs
    /\ pc[v] \in {"putChallenge", "putAuthz"} => job[v].found \in {"valid", "invalid"}
    /\ pc[v] \in {"check", "putChallenge", "putAuthz", "readOrder"} => job[v].at = 1
    /\ pc[v] = "readOrder" => job[v].found = "ready"
    /\ pc[v] = "readAuthz" => job[v].found \in {"ready", "pending"}
    /\ pc[v] = "putOrder" => job[v].found \in {"ready", "invalid"}

\* What it found valid is proven: its own identifier, then those whose
\* authorizations it has read, in the end all of them.
JobProven(v) ==
    /\ pc[v] \in {"putChallenge", "putAuthz"} /\ job[v].found = "valid" => job[v].on[1] \in proven
    /\ pc[v] = "readAuthz" /\ job[v].found = "ready" => \A a \in Idents : a < job[v].at => a \in proven
    /\ pc[v] = "putOrder" /\ job[v].found = "ready" => proven = Idents

Issuing(f) == pc[f] \in {"issue", "putCert", "putValid"}

\* So are an authorization and an order that say so.
DocsProven ==
    /\ \A a \in Idents : authz[a] = "valid" => a \in proven
    /\ order.status \in {"ready", "valid"} => proven = Idents
    /\ \A f \in Finalizers : Issuing(f) => proven = Idents

\* A finalize request has issued, and then stored, what it is to write.
CertsFit ==
    /\ \A f \in Finalizers : pc[f] = "putCert" => f \in issued
    /\ \A f \in Finalizers : pc[f] = "putValid" => f \in stored

\* As long as no requests overlap, one runs, and the order is as it read it.
Alone ==
    "overlap" \notin seen =>
        /\ \A q, r \in Requests : ~Idle(q) /\ ~Idle(r) => q = r
        /\ \A v \in Validators : pc[v] \in {"readAuthz", "putOrder"} => order.status = "pending"
        /\ \A f \in Finalizers : Issuing(f) => order.status = "ready"

\* If none failed either, a certificate is in the order, or its request is
\* still on the way to put it there.
Single ==
    seen = {} =>
        /\ \A f \in issued : order.status = "valid" \/ pc[f] \in {"putCert", "putValid"}
        /\ \A f, g \in issued : f = g

\* Without failures, a valid challenge has settled its authorization, or its
\* request is about to.
Followed ==
    "failure" \notin seen =>
        \A c \in Challenges : chal[c] = "valid" =>
            \/ authz[c[1]] # "pending"
            \/ \E v \in Validators : pc[v] = "putAuthz" /\ job[v].on[1] = c[1]

\* Once all authorizations are settled, a request is at work that has read none
\* of them while it was pending, and it will change the order.
Watching(v) ==
    \/ pc[v] \in {"readOrder", "putOrder"}
    \/ pc[v] = "readAuthz" /\ job[v].found = "ready"

Watched ==
    "failure" \notin seen /\ order.status = "pending" /\ (\A a \in Idents : authz[a] # "pending")
        => \E v \in Validators : Watching(v)

IInv ==
    /\ TypeOK
    /\ PhasesFit
    /\ \A v \in Validators : JobFits(v)
    /\ \A v \in Validators : JobProven(v)
    /\ DocsProven
    /\ IssuedOnlyIfProven
    /\ CertsFit
    /\ ValidHasCert
    /\ Alone
    /\ Single
    /\ Followed
    /\ Watched

-----------------------------------------------------------------------------
LEMMA InitIInv == Init => IInv
<1> SUFFICES ASSUME Init PROVE IInv
  OBVIOUS
<1> USE NAssumption, RequestsAreDisjoint, NoCertAssumption DEF Init
<1>1. TypeOK /\ PhasesFit
  BY DEF TypeOK, PhasesFit, Requests, Statuses
<1>2. \A v \in Validators : JobFits(v) /\ JobProven(v)
  BY DEF JobFits, JobProven, Requests
<1>3. DocsProven /\ IssuedOnlyIfProven /\ CertsFit /\ ValidHasCert
  BY DEF DocsProven, IssuedOnlyIfProven, CertsFit, ValidHasCert, Issuing, Requests
<1>4. Alone /\ Single
  BY DEF Alone, Single, Idle, Issuing, Requests
<1>5. Followed
  BY DEF Followed
<1>6. Watched
  BY DEF Watched, Idents
<1> QED
  BY <1>1, <1>2, <1>3, <1>4, <1>5, <1>6 DEF IInv

LEMMA NextIInv == IInv /\ [Next]_vars => IInv'
<1> SUFFICES ASSUME IInv, [Next]_vars PROVE IInv'
  OBVIOUS
<1> USE NAssumption, RequestsAreDisjoint, NoCertAssumption DEF IInv, Goto
<1>1. ASSUME NEW v \in Validators, StartChallenge(v) PROVE IInv'
  <2>a. PICK c \in Challenges : job' = [job EXCEPT ![v] = [on |-> c, found |-> "pending", at |-> 1]]
    BY <1>1 DEF StartChallenge
  <2>0. 1 \in Idents /\ job'[v] \in Jobs /\ job' \in [Validators -> Jobs \cup {NoJob}]
    BY <2>a DEF Idents, TypeOK, Jobs, Statuses
  <2>1. TypeOK'
    BY <1>1, <2>0 DEF StartChallenge, Begin, docVars, TypeOK, Jobs
  <2>2. PhasesFit'
    BY <1>1 DEF StartChallenge, PhasesFit
  <2>3. ASSUME NEW w \in Validators PROVE JobFits(w)'
    BY <1>1, <2>0 DEF StartChallenge, Begin, JobFits
  <2>4. ASSUME NEW w \in Validators PROVE JobProven(w)'
    BY <1>1 DEF StartChallenge, docVars, JobProven
  <2>5. DocsProven'
    BY <1>1 DEF StartChallenge, docVars, DocsProven, Issuing
  <2>6. IssuedOnlyIfProven'
    BY <1>1 DEF StartChallenge, docVars, IssuedOnlyIfProven
  <2>7. CertsFit'
    BY <1>1 DEF StartChallenge, docVars, CertsFit
  <2>8. ValidHasCert'
    BY <1>1 DEF StartChallenge, docVars, ValidHasCert
  <2>9. Alone'
    BY <1>1 DEF StartChallenge, Begin, docVars, Alone, Idle, Issuing
  <2>10. Single'
    BY <1>1 DEF StartChallenge, Begin, docVars, Single
  <2>11. Followed'
    BY <1>1 DEF StartChallenge, Begin, docVars, Followed
  <2>12. Watched'
    BY <1>1 DEF StartChallenge, Begin, docVars, Watched, Watching
  <2> QED
    BY <2>1, <2>2, <2>3, <2>4, <2>5, <2>6, <2>7, <2>8, <2>9, <2>10, <2>11, <2>12
<1>2. ASSUME NEW v \in Validators, CheckSucceeds(v) PROVE IInv'
  <2>a. job[v] \in Jobs /\ job[v].on \in Idents \X Types /\ job[v].at \in Idents /\ job[v].at = 1
    BY <1>2 DEF CheckSucceeds, JobFits, Jobs, Challenges
  <2>b. job' = [job EXCEPT ![v] = [job[v] EXCEPT !.found = "valid"]]
    BY <1>2 DEF CheckSucceeds, Set
  <2>c. /\ job'[v] \in Jobs /\ job'[v].found = "valid"
        /\ job'[v].on = job[v].on /\ job'[v].at = 1
        /\ \A w \in Validators \ {v} : job'[w] = job[w]
    BY <2>a, <2>b DEF Jobs, TypeOK, Statuses
  <2>d. job[v].on[1] \in Idents
    BY <2>a
  <2>0. /\ job'[v] \in Jobs /\ job'[v].found = "valid"
        /\ job'[v].on = job[v].on /\ job'[v].at = 1 /\ job[v].on[1] \in Idents
        /\ \A w \in Validators \ {v} : job'[w] = job[w]
        /\ pc[v] = "check" /\ pc' = [pc EXCEPT ![v] = "putChallenge"]
    BY <1>2, <2>c, <2>d DEF CheckSucceeds
  <2>1. TypeOK'
    BY <1>2, <2>0, <2>b DEF CheckSucceeds, TypeOK, Jobs
  <2>2. PhasesFit'
    BY <2>0 DEF PhasesFit
  <2>3. ASSUME NEW w \in Validators PROVE JobFits(w)'
    BY <2>0 DEF JobFits
  <2>4. ASSUME NEW w \in Validators PROVE JobProven(w)'
    BY <1>2, <2>0 DEF CheckSucceeds, JobProven
  <2>5. DocsProven'
    <3>1. proven \subseteq proven' /\ proven' \subseteq Idents
      BY <1>2, <2>0 DEF CheckSucceeds, TypeOK
    <3>2. \A f \in Finalizers : Issuing(f)' => Issuing(f)
      BY <1>2 DEF CheckSucceeds, Issuing
    <3> QED
      BY <1>2, <3>1, <3>2 DEF CheckSucceeds, DocsProven
  <2>6. IssuedOnlyIfProven'
    BY <1>2, <2>0 DEF CheckSucceeds, IssuedOnlyIfProven
  <2>7. CertsFit'
    BY <1>2 DEF CheckSucceeds, CertsFit
  <2>8. ValidHasCert'
    BY <1>2 DEF CheckSucceeds, ValidHasCert
  <2>9. Alone'
    BY <1>2 DEF CheckSucceeds, Alone, Idle, Issuing
  <2>10. Single'
    BY <1>2 DEF CheckSucceeds, Single
  <2>11. Followed'
    BY <1>2, <2>0 DEF CheckSucceeds, Followed
  <2>12. Watched'
    BY <1>2, <2>0 DEF CheckSucceeds, Watched, Watching
  <2> QED
    BY <2>1, <2>2, <2>3, <2>4, <2>5, <2>6, <2>7, <2>8, <2>9, <2>10, <2>11, <2>12
<1>3. ASSUME NEW v \in Validators, CheckFails(v) PROVE IInv'
  <2>a. job[v] \in Jobs /\ job[v].on \in Idents \X Types /\ job[v].at \in Idents /\ job[v].at = 1
    BY <1>3 DEF CheckFails, JobFits, Jobs, Challenges
  <2>b. job' = [job EXCEPT ![v] = [job[v] EXCEPT !.found = "invalid"]]
    BY <1>3 DEF CheckFails, Set
  <2>c. /\ job'[v] \in Jobs /\ job'[v].found = "invalid"
        /\ job'[v].on = job[v].on /\ job'[v].at = 1
        /\ \A w \in Validators \ {v} : job'[w] = job[w]
    BY <2>a, <2>b DEF Jobs, TypeOK, Statuses
  <2>d. job[v].on[1] \in Idents
    BY <2>a
  <2>0. /\ job'[v] \in Jobs /\ job'[v].found = "invalid"
        /\ job'[v].on = job[v].on /\ job'[v].at = 1 /\ job[v].on[1] \in Idents
        /\ \A w \in Validators \ {v} : job'[w] = job[w]
        /\ pc[v] = "check" /\ pc' = [pc EXCEPT ![v] = "putChallenge"]
    BY <1>3, <2>c, <2>d DEF CheckFails
  <2>1. TypeOK'
    BY <1>3, <2>0, <2>b DEF CheckFails, docVars, TypeOK, Jobs
  <2>2. PhasesFit'
    BY <2>0 DEF PhasesFit
  <2>3. ASSUME NEW w \in Validators PROVE JobFits(w)'
    BY <2>0 DEF JobFits
  <2>4. ASSUME NEW w \in Validators PROVE JobProven(w)'
    BY <1>3, <2>0 DEF CheckFails, docVars, JobProven
  <2>5. DocsProven'
    BY <1>3 DEF CheckFails, docVars, DocsProven, Issuing
  <2>6. IssuedOnlyIfProven'
    BY <1>3 DEF CheckFails, docVars, IssuedOnlyIfProven
  <2>7. CertsFit'
    BY <1>3 DEF CheckFails, docVars, CertsFit
  <2>8. ValidHasCert'
    BY <1>3 DEF CheckFails, docVars, ValidHasCert
  <2>9. Alone'
    BY <1>3 DEF CheckFails, docVars, Alone, Idle, Issuing
  <2>10. Single'
    BY <1>3 DEF CheckFails, docVars, Single
  <2>11. Followed'
    BY <1>3, <2>0 DEF CheckFails, docVars, Followed
  <2>12. Watched'
    BY <1>3, <2>0 DEF CheckFails, docVars, Watched, Watching
  <2> QED
    BY <2>1, <2>2, <2>3, <2>4, <2>5, <2>6, <2>7, <2>8, <2>9, <2>10, <2>11, <2>12
<1>4. ASSUME NEW v \in Validators, PutChallenge(v) PROVE IInv'
  <2>1. TypeOK'
    BY <1>4 DEF PutChallenge, TypeOK, JobFits, Jobs
  <2>2. PhasesFit'
    BY <1>4 DEF PutChallenge, PhasesFit
  <2>3. ASSUME NEW w \in Validators PROVE JobFits(w)'
    BY <1>4 DEF PutChallenge, JobFits
  <2>4. ASSUME NEW w \in Validators PROVE JobProven(w)'
    BY <1>4 DEF PutChallenge, JobProven
  <2>5. DocsProven'
    BY <1>4 DEF PutChallenge, DocsProven, Issuing
  <2>6. IssuedOnlyIfProven'
    BY <1>4 DEF PutChallenge, IssuedOnlyIfProven
  <2>7. CertsFit'
    BY <1>4 DEF PutChallenge, CertsFit
  <2>8. ValidHasCert'
    BY <1>4 DEF PutChallenge, ValidHasCert
  <2>9. Alone'
    BY <1>4 DEF PutChallenge, Alone, Idle, Issuing
  <2>10. Single'
    BY <1>4 DEF PutChallenge, Single
  <2>11. Followed'
    BY <1>4 DEF PutChallenge, TypeOK, Followed, Requests
  <2>12. Watched'
    BY <1>4 DEF PutChallenge, Watched, Watching
  <2> QED
    BY <2>1, <2>2, <2>3, <2>4, <2>5, <2>6, <2>7, <2>8, <2>9, <2>10, <2>11, <2>12
<1>5. ASSUME NEW v \in Validators, PutAuthz(v) PROVE IInv'
  <2>1. TypeOK'
    BY <1>5 DEF PutAuthz, Set, TypeOK, JobFits, Jobs, Requests, Challenges
  <2>2. PhasesFit'
    BY <1>5 DEF PutAuthz, PhasesFit
  <2>3. ASSUME NEW w \in Validators PROVE JobFits(w)'
    BY <1>5 DEF PutAuthz, Set, TypeOK, JobFits, Jobs, Requests
  <2>4. ASSUME NEW w \in Validators PROVE JobProven(w)'
    BY <1>5 DEF PutAuthz, Set, JobProven
  <2>5. DocsProven'
    BY <1>5 DEF PutAuthz, DocsProven, JobProven, Issuing
  <2>6. IssuedOnlyIfProven'
    BY <1>5 DEF PutAuthz, IssuedOnlyIfProven
  <2>7. CertsFit'
    BY <1>5 DEF PutAuthz, CertsFit
  <2>8. ValidHasCert'
    BY <1>5 DEF PutAuthz, ValidHasCert
  <2>9. Alone'
    BY <1>5 DEF PutAuthz, Alone, Idle, Issuing
  <2>10. Single'
    BY <1>5 DEF PutAuthz, Single
  <2>11. Followed'
    BY <1>5 DEF PutAuthz, Set, TypeOK, Followed, JobFits, Challenges
  <2>12. Watched'
    BY <1>5 DEF PutAuthz, TypeOK, Watched, Watching, Requests
  <2> QED
    BY <2>1, <2>2, <2>3, <2>4, <2>5, <2>6, <2>7, <2>8, <2>9, <2>10, <2>11, <2>12
<1>6. ASSUME NEW v \in Validators, ReadOrder(v) PROVE IInv'
  <2>1. TypeOK'
    BY <1>6 DEF ReadOrder, Answer, docVars, TypeOK
  <2>2. PhasesFit'
    BY <1>6 DEF ReadOrder, Answer, TypeOK, PhasesFit, Requests
  <2>3. ASSUME NEW w \in Validators PROVE JobFits(w)'
    BY <1>6 DEF ReadOrder, Answer, TypeOK, JobFits, Requests
  <2>4. ASSUME NEW w \in Validators PROVE JobProven(w)'
    BY <1>6 DEF ReadOrder, Answer, docVars, TypeOK, JobProven, JobFits, Requests,
       Idents
  <2>5. DocsProven'
    BY <1>6 DEF ReadOrder, Answer, docVars, TypeOK, DocsProven, Issuing, Requests
  <2>6. IssuedOnlyIfProven'
    BY <1>6 DEF ReadOrder, docVars, IssuedOnlyIfProven
  <2>7. CertsFit'
    BY <1>6 DEF ReadOrder, Answer, docVars, TypeOK, CertsFit, Requests
  <2>8. ValidHasCert'
    BY <1>6 DEF ReadOrder, docVars, ValidHasCert
  <2>9. Alone'
    BY <1>6 DEF ReadOrder, Answer, docVars, TypeOK, Alone, Idle, Issuing, Requests
  <2>10. Single'
    BY <1>6 DEF ReadOrder, Answer, docVars, TypeOK, Single, Requests
  <2>11. Followed'
    BY <1>6 DEF ReadOrder, Answer, docVars, TypeOK, Followed, Requests
  <2>12. Watched'
    BY <1>6 DEF ReadOrder, docVars, TypeOK, Watched, Watching, JobFits
  <2> QED
    BY <2>1, <2>2, <2>3, <2>4, <2>5, <2>6, <2>7, <2>8, <2>9, <2>10, <2>11, <2>12
<1>7. ASSUME NEW v \in Validators, ReadAuthz(v) PROVE IInv'
  <2>a. job[v] \in Jobs /\ job[v].at \in Idents /\ pc[v] = "readAuthz"
    BY <1>7 DEF ReadAuthz, JobFits, Jobs
  <2>b. authz[job[v].at] \in Statuses /\ job[v].found \in {"ready", "pending"}
    BY <2>a DEF JobFits, TypeOK
  <2>c. /\ NextFound(v) = "invalid" <=> authz[job[v].at] = "invalid"
        /\ NextFound(v) = "ready" => authz[job[v].at] = "valid" /\ job[v].found = "ready"
        /\ job[v].found = "ready" /\ authz[job[v].at] = "valid" => NextFound(v) = "ready"
        /\ NextFound(v) \in {"invalid", "ready", "pending"}
    BY <2>b DEF NextFound
  <2>d. /\ job[v].at # N => job[v].at + 1 \in Idents
        /\ \A a \in Idents : a < job[v].at + 1 => a < job[v].at \/ a = job[v].at
        /\ job[v].at = N => \A a \in Idents : a < N \/ a = N
    BY <2>a DEF Idents
  <2>e. \/ /\ job[v].at # N /\ NextFound(v) # "invalid" /\ pc' = pc
           /\ job' = [job EXCEPT ![v] = [job[v] EXCEPT !.found = NextFound(v), !.at = job[v].at + 1]]
        \/ /\ NextFound(v) = "invalid" \/ (job[v].at = N /\ NextFound(v) = "ready")
           /\ pc' = [pc EXCEPT ![v] = "putOrder"]
           /\ job' = [job EXCEPT ![v] = [job[v] EXCEPT !.found = NextFound(v)]]
        \/ /\ job[v].at = N /\ NextFound(v) = "pending"
           /\ pc' = [pc EXCEPT ![v] = "idle"] /\ job' = [job EXCEPT ![v] = NoJob]
    <3>1. \/ /\ NextFound(v) # "invalid" /\ MoreToRead(v)
             /\ job' = [job EXCEPT ![v].found = NextFound(v), ![v].at = @ + 1]
             /\ UNCHANGED pc
          \/ /\ NextFound(v) = "invalid" \/ (job[v].at = N /\ NextFound(v) = "ready")
             /\ Set(v, "found", NextFound(v))
             /\ Goto(v, "putOrder")
          \/ /\ job[v].at = N /\ NextFound(v) = "pending"
             /\ Answer(v)
      BY <1>7 DEF ReadAuthz
    <3>2. [job EXCEPT ![v].found = NextFound(v), ![v].at = @ + 1]
            = [job EXCEPT ![v] = [job[v] EXCEPT !.found = NextFound(v), !.at = job[v].at + 1]]
      OBVIOUS
    <3>3. MoreToRead(v) => job[v].at # N
      BY DEF MoreToRead
    <3>4. Set(v, "found", NextFound(v))
            => job' = [job EXCEPT ![v] = [job[v] EXCEPT !.found = NextFound(v)]]
      BY DEF Set
    <3> QED
      BY <3>1, <3>3, <3>4 DEF Answer
  <2>f. /\ \A w \in Validators \ {v} : job'[w] = job[w]
        /\ \A r \in Requests \ {v} : pc'[r] = pc[r]
        /\ \/ /\ job[v].at # N /\ NextFound(v) # "invalid" /\ pc'[v] = "readAuthz"
              /\ job'[v] \in Jobs /\ job'[v].found = NextFound(v) /\ job'[v].at = job[v].at + 1
           \/ /\ NextFound(v) = "invalid" \/ (job[v].at = N /\ NextFound(v) = "ready")
              /\ pc'[v] = "putOrder" /\ job'[v] \in Jobs /\ job'[v].found = NextFound(v)
           \/ /\ job[v].at = N /\ NextFound(v) = "pending"
              /\ pc'[v] = "idle" /\ job'[v] = NoJob
    <3>1. [job[v] EXCEPT !.found = NextFound(v)] \in Jobs
      BY <2>a, <2>c DEF Jobs, Statuses
    <3>2. job[v].at # N => [job[v] EXCEPT !.found = NextFound(v), !.at = job[v].at + 1] \in Jobs
      BY <2>a, <2>c, <2>d DEF Jobs, Statuses
    <3>3. v \in Requests /\ v \in DOMAIN job /\ v \in DOMAIN pc
      BY DEF TypeOK, Requests
    <3>4. [job[v] EXCEPT !.found = NextFound(v)].found = NextFound(v)
      OBVIOUS
    <3>5. /\ [job[v] EXCEPT !.found = NextFound(v), !.at = job[v].at + 1].found = NextFound(v)
          /\ [job[v] EXCEPT !.found = NextFound(v), !.at = job[v].at + 1].at = job[v].at + 1
      OBVIOUS
    <3>6. /\ \A w \in Validators \ {v} : job'[w] = job[w]
          /\ \A q \in Requests \ {v} : pc'[q] = pc[q]
      BY <2>e DEF TypeOK
    <3> QED
      BY <2>a, <2>e, <3>1, <3>2, <3>3, <3>4, <3>5, <3>6
  <2>0. UNCHANGED <<docVars, seen>>
    BY <1>7 DEF ReadAuthz
  <2>1. TypeOK'
    <3>1. job' \in [Validators -> Jobs \cup {NoJob}]
      BY <2>e, <2>f DEF TypeOK, Jobs
    <3>2. pc' \in [Requests -> {"idle", "check", "putChallenge", "putAuthz", "readOrder", "readAuthz", "putOrder", "issue", "putCert", "putValid", "done"}]
      BY <2>e DEF TypeOK
    <3> QED
      BY <2>0, <3>1, <3>2 DEF TypeOK, docVars, Jobs
  <2>2. PhasesFit'
    BY <2>f DEF PhasesFit, Requests
  <2>3. ASSUME NEW w \in Validators PROVE JobFits(w)'
    BY <2>c, <2>f DEF JobFits, Requests
  <2>4. ASSUME NEW w \in Validators PROVE JobProven(w)'
    <3>1. CASE w # v
      BY <2>0, <2>f, <3>1 DEF JobProven, docVars, Requests
    <3>2. CASE w = v
      <4>1. NextFound(v) = "ready" => \A a \in Idents : a < job[v].at + 1 => a \in proven
        BY <2>a, <2>c, <2>d DEF JobProven, DocsProven
      <4>2. NextFound(v) = "ready" /\ job[v].at = N => proven = Idents
        <5>1. ASSUME NextFound(v) = "ready", job[v].at = N, NEW a \in Idents PROVE a \in proven
          BY <4>1, <5>1 DEF Idents
        <5> QED
          BY <5>1 DEF TypeOK
      <4> QED
        BY <2>0, <2>f, <3>2, <4>1, <4>2 DEF JobProven, docVars
    <3> QED
      BY <3>1, <3>2
  <2>5. DocsProven'
    BY <2>0, <2>f DEF docVars, DocsProven, Issuing, Requests
  <2>6. IssuedOnlyIfProven'
    BY <2>0 DEF docVars, IssuedOnlyIfProven
  <2>7. CertsFit'
    BY <2>0, <2>f DEF docVars, CertsFit, Requests
  <2>8. ValidHasCert'
    BY <2>0 DEF docVars, ValidHasCert
  <2>9. Alone'
    BY <2>0, <2>a, <2>f DEF docVars, Alone, Idle, Issuing, Requests
  <2>10. Single'
    BY <2>0, <2>f DEF docVars, Single, Requests, TypeOK
  <2>11. Followed'
    BY <2>0, <2>a, <2>f DEF docVars, Followed, Requests
  <2>12. Watched'
    <3> SUFFICES ASSUME "failure" \notin seen, order.status = "pending",
                        \A a \in Idents : authz[a] # "pending"
                 PROVE  \E w \in Validators : Watching(w)'
      BY <2>0 DEF Watched, docVars
    <3>1. PICK w \in Validators : Watching(w)
      BY DEF Watched
    <3>2. CASE w # v
      BY <2>f, <3>1, <3>2 DEF Watching, Requests
    <3>3. CASE w = v
      <4>1. NextFound(v) \in {"invalid", "ready"}
        BY <2>a, <2>b, <2>c, <3>1, <3>3 DEF Watching, Statuses
      <4>2. Watching(v)'
        BY <2>f, <4>1 DEF Watching
      <4> QED
        BY <4>2
    <3> QED
      BY <3>2, <3>3
  <2> QED
    BY <2>1, <2>2, <2>3, <2>4, <2>5, <2>6, <2>7, <2>8, <2>9, <2>10, <2>11, <2>12
<1>8. ASSUME NEW v \in Validators, PutOrder(v) PROVE IInv'
  <2>1. TypeOK'
    BY <1>8 DEF PutOrder, Answer, TypeOK, JobFits, Jobs
  <2>2. PhasesFit'
    BY <1>8 DEF PutOrder, Answer, PhasesFit
  <2>3. ASSUME NEW w \in Validators PROVE JobFits(w)'
    BY <1>8 DEF PutOrder, Answer, TypeOK, JobFits, Requests
  <2>4. ASSUME NEW w \in Validators PROVE JobProven(w)'
    BY <1>8 DEF PutOrder, Answer, TypeOK, JobProven, Requests
  <2>5. DocsProven'
    BY <1>8 DEF PutOrder, Answer, DocsProven, JobProven, JobFits, Issuing
  <2>6. IssuedOnlyIfProven'
    BY <1>8 DEF PutOrder, IssuedOnlyIfProven
  <2>7. CertsFit'
    BY <1>8 DEF PutOrder, Answer, CertsFit
  <2>8. ValidHasCert'
    BY <1>8 DEF PutOrder, ValidHasCert, JobFits
  <2>9. Alone'
    BY <1>8 DEF PutOrder, Answer, TypeOK, Alone, Idle, Issuing, Requests
  <2>10. Single'
    BY <1>8 DEF PutOrder, Answer, Single, Alone
  <2>11. Followed'
    BY <1>8 DEF PutOrder, Answer, Followed
  <2>12. Watched'
    BY <1>8 DEF PutOrder, Watched, JobFits
  <2> QED
    BY <2>1, <2>2, <2>3, <2>4, <2>5, <2>6, <2>7, <2>8, <2>9, <2>10, <2>11, <2>12
<1>9. ASSUME NEW f \in Finalizers, StartFinalize(f) PROVE IInv'
  <2>1. TypeOK'
    BY <1>9 DEF StartFinalize, Begin, docVars, TypeOK
  <2>2. PhasesFit'
    BY <1>9 DEF StartFinalize, PhasesFit
  <2>3. ASSUME NEW w \in Validators PROVE JobFits(w)'
    BY <1>9 DEF StartFinalize, JobFits
  <2>4. ASSUME NEW w \in Validators PROVE JobProven(w)'
    BY <1>9 DEF StartFinalize, docVars, JobProven
  <2>5. DocsProven'
    BY <1>9 DEF StartFinalize, docVars, DocsProven
  <2>6. IssuedOnlyIfProven'
    BY <1>9 DEF StartFinalize, docVars, IssuedOnlyIfProven
  <2>7. CertsFit'
    BY <1>9 DEF StartFinalize, docVars, CertsFit
  <2>8. ValidHasCert'
    BY <1>9 DEF StartFinalize, docVars, ValidHasCert
  <2>9. Alone'
    BY <1>9 DEF StartFinalize, Begin, docVars, Alone, Idle
  <2>10. Single'
    BY <1>9 DEF StartFinalize, Begin, docVars, Single
  <2>11. Followed'
    BY <1>9 DEF StartFinalize, Begin, docVars, Followed
  <2>12. Watched'
    BY <1>9 DEF StartFinalize, docVars, Watched
  <2> QED
    BY <2>1, <2>2, <2>3, <2>4, <2>5, <2>6, <2>7, <2>8, <2>9, <2>10, <2>11, <2>12
<1>10. ASSUME NEW f \in Finalizers, IssueCert(f) PROVE IInv'
  <2>1. TypeOK'
    BY <1>10 DEF IssueCert, TypeOK, Requests
  <2>2. PhasesFit'
    BY <1>10 DEF IssueCert, PhasesFit
  <2>3. ASSUME NEW w \in Validators PROVE JobFits(w)'
    BY <1>10 DEF IssueCert, JobFits
  <2>4. ASSUME NEW w \in Validators PROVE JobProven(w)'
    BY <1>10 DEF IssueCert, JobProven
  <2>5. DocsProven'
    BY <1>10 DEF IssueCert, DocsProven, Issuing
  <2>6. IssuedOnlyIfProven'
    BY <1>10 DEF IssueCert, IssuedOnlyIfProven, DocsProven, Issuing
  <2>7. CertsFit'
    BY <1>10 DEF IssueCert, CertsFit
  <2>8. ValidHasCert'
    BY <1>10 DEF IssueCert, ValidHasCert
  <2>9. Alone'
    BY <1>10 DEF IssueCert, Alone, Idle, Issuing
  <2>10. Single'
    BY <1>10 DEF IssueCert, TypeOK, Single, Alone, Idle, Issuing, Requests
  <2>11. Followed'
    BY <1>10 DEF IssueCert, Followed
  <2>12. Watched'
    BY <1>10 DEF IssueCert, Watched, Watching
  <2> QED
    BY <2>1, <2>2, <2>3, <2>4, <2>5, <2>6, <2>7, <2>8, <2>9, <2>10, <2>11, <2>12
<1>11. ASSUME NEW f \in Finalizers, IssueRefused(f) PROVE IInv'
  <2>1. TypeOK'
    BY <1>11 DEF IssueRefused, docVars, TypeOK
  <2>2. PhasesFit'
    BY <1>11 DEF IssueRefused, PhasesFit
  <2>3. ASSUME NEW w \in Validators PROVE JobFits(w)'
    BY <1>11 DEF IssueRefused, JobFits
  <2>4. ASSUME NEW w \in Validators PROVE JobProven(w)'
    BY <1>11 DEF IssueRefused, docVars, JobProven
  <2>5. DocsProven'
    BY <1>11 DEF IssueRefused, docVars, DocsProven, Issuing
  <2>6. IssuedOnlyIfProven'
    BY <1>11 DEF IssueRefused, docVars, IssuedOnlyIfProven
  <2>7. CertsFit'
    BY <1>11 DEF IssueRefused, docVars, CertsFit
  <2>8. ValidHasCert'
    BY <1>11 DEF IssueRefused, docVars, ValidHasCert
  <2>9. Alone'
    BY <1>11 DEF IssueRefused, docVars, Alone, Idle, Issuing
  <2>10. Single'
    BY <1>11 DEF IssueRefused, docVars, Single
  <2>11. Followed'
    BY <1>11 DEF IssueRefused, docVars, Followed
  <2>12. Watched'
    BY <1>11 DEF IssueRefused, docVars, Watched, Watching
  <2> QED
    BY <2>1, <2>2, <2>3, <2>4, <2>5, <2>6, <2>7, <2>8, <2>9, <2>10, <2>11, <2>12
<1>12. ASSUME NEW f \in Finalizers, PutCert(f) PROVE IInv'
  <2>1. TypeOK'
    BY <1>12 DEF PutCert, TypeOK, CertsFit, Requests
  <2>2. PhasesFit'
    BY <1>12 DEF PutCert, PhasesFit
  <2>3. ASSUME NEW w \in Validators PROVE JobFits(w)'
    BY <1>12 DEF PutCert, JobFits
  <2>4. ASSUME NEW w \in Validators PROVE JobProven(w)'
    BY <1>12 DEF PutCert, JobProven
  <2>5. DocsProven'
    BY <1>12 DEF PutCert, DocsProven, Issuing
  <2>6. IssuedOnlyIfProven'
    BY <1>12 DEF PutCert, IssuedOnlyIfProven
  <2>7. CertsFit'
    BY <1>12 DEF PutCert, CertsFit
  <2>8. ValidHasCert'
    BY <1>12 DEF PutCert, ValidHasCert
  <2>9. Alone'
    BY <1>12 DEF PutCert, Alone, Idle, Issuing
  <2>10. Single'
    BY <1>12 DEF PutCert, Single
  <2>11. Followed'
    BY <1>12 DEF PutCert, Followed
  <2>12. Watched'
    BY <1>12 DEF PutCert, Watched, Watching
  <2> QED
    BY <2>1, <2>2, <2>3, <2>4, <2>5, <2>6, <2>7, <2>8, <2>9, <2>10, <2>11, <2>12
<1>13. ASSUME NEW f \in Finalizers, FinishOrder(f) PROVE IInv'
  <2>1. TypeOK'
    BY <1>13 DEF FinishOrder, TypeOK, Statuses
  <2>2. PhasesFit'
    BY <1>13 DEF FinishOrder, PhasesFit
  <2>3. ASSUME NEW w \in Validators PROVE JobFits(w)'
    BY <1>13 DEF FinishOrder, JobFits
  <2>4. ASSUME NEW w \in Validators PROVE JobProven(w)'
    BY <1>13 DEF FinishOrder, JobProven
  <2>5. DocsProven'
    BY <1>13 DEF FinishOrder, DocsProven, Issuing
  <2>6. IssuedOnlyIfProven'
    BY <1>13 DEF FinishOrder, IssuedOnlyIfProven
  <2>7. CertsFit'
    BY <1>13 DEF FinishOrder, CertsFit
  <2>8. ValidHasCert'
    BY <1>13 DEF FinishOrder, ValidHasCert, CertsFit
  <2>9. Alone'
    BY <1>13 DEF FinishOrder, TypeOK, Alone, Idle, Issuing, Requests
  <2>10. Single'
    BY <1>13 DEF FinishOrder, Single
  <2>11. Followed'
    BY <1>13 DEF FinishOrder, Followed
  <2>12. Watched'
    BY <1>13 DEF FinishOrder, Watched
  <2> QED
    BY <2>1, <2>2, <2>3, <2>4, <2>5, <2>6, <2>7, <2>8, <2>9, <2>10, <2>11, <2>12
<1>14. ASSUME NEW r \in Requests, Fail(r) PROVE IInv'
  <2>1. TypeOK'
    BY <1>14 DEF Fail, Answer, docVars, TypeOK
  <2>2. PhasesFit'
    BY <1>14 DEF Fail, Answer, TypeOK, PhasesFit, Requests
  <2>3. ASSUME NEW w \in Validators PROVE JobFits(w)'
    BY <1>14 DEF Fail, Answer, TypeOK, JobFits, Requests
  <2>4. ASSUME NEW w \in Validators PROVE JobProven(w)'
    BY <1>14 DEF Fail, Answer, docVars, TypeOK, JobProven, Requests
  <2>5. DocsProven'
    BY <1>14 DEF Fail, Answer, docVars, TypeOK, DocsProven, Issuing, Requests
  <2>6. IssuedOnlyIfProven'
    BY <1>14 DEF Fail, docVars, IssuedOnlyIfProven
  <2>7. CertsFit'
    BY <1>14 DEF Fail, Answer, docVars, TypeOK, CertsFit, Requests
  <2>8. ValidHasCert'
    BY <1>14 DEF Fail, docVars, ValidHasCert
  <2>9. Alone'
    BY <1>14 DEF Fail, Answer, Idle, TypeOK, Alone, Issuing, Requests
  <2>10. Single'
    BY <1>14 DEF Fail, Single
  <2>11. Followed'
    BY <1>14 DEF Fail, Followed
  <2>12. Watched'
    BY <1>14 DEF Fail, Watched
  <2> QED
    BY <2>1, <2>2, <2>3, <2>4, <2>5, <2>6, <2>7, <2>8, <2>9, <2>10, <2>11, <2>12
<1>15. CASE UNCHANGED vars
  BY <1>15 DEF vars, docVars, TypeOK, PhasesFit, JobFits, JobProven, DocsProven,
     IssuedOnlyIfProven, CertsFit, ValidHasCert, Alone, Single, Followed, Watched,
     Watching, Issuing, Idle
<1> QED
  BY <1>1, <1>2, <1>3, <1>4, <1>5, <1>6, <1>7, <1>8, <1>9, <1>10, <1>11, <1>12, <1>13,
     <1>14, <1>15 DEF Next


LEMMA Inductive == Spec => []IInv
<1>1. Init => IInv
  BY InitIInv
<1>2. IInv /\ [Next]_vars => IInv'
  BY NextIInv
<1> QED
  BY <1>1, <1>2, PTL DEF Spec

(* A certificate of the order is issued only after every identifier of it  *)
(* has been found to be controlled, however challenge and finalize         *)
(* requests overlap, overwrite each other's documents and fail.            *)
THEOREM NoCertificateWithoutProof == Spec => []IssuedOnlyIfProven
<1>1. IInv => IssuedOnlyIfProven
  BY DEF IInv
<1> QED
  BY <1>1, Inductive, PTL

(* The documents keep their types, and a valid order names a certificate   *)
(* document that has been stored.                                          *)
THEOREM OrderDocumentsFit == Spec => []DocumentsFit
<1>1. IInv => DocumentsFit
  BY DEF IInv, DocumentsFit
<1> QED
  BY <1>1, Inductive, PTL

(* As long as no two requests overlap and none has failed part-way, the    *)
(* order yields at most one certificate.                                   *)
THEOREM OneCertificateAlone == Spec => []OneCertificate
<1>1. IInv => OneCertificate
  <2> SUFFICES ASSUME IInv, seen = {}
               PROVE  Cardinality(issued) <= 1
    BY DEF OneCertificate
  <2>1. CASE issued = {}
    BY <2>1, FS_EmptySet
  <2>2. CASE issued # {}
    <3>1. PICK f \in issued : TRUE
      BY <2>2
    <3>2. issued = {f}
      BY DEF IInv, Single
    <3> QED
      BY <3>2, FS_Singleton
  <2> QED
    BY <2>1, <2>2
<1> QED
  BY <1>1, Inductive, PTL

(* However requests overlap: once none is running, none has failed and     *)
(* every identifier has a valid challenge, the order has left pending.     *)
THEOREM ValidatedOrderMoves == Spec => []ValidatedLeavesPending
<1>1. IInv => ValidatedLeavesPending
  <2> SUFFICES ASSUME IInv, "failure" \notin seen, \A r \in Requests : Idle(r),
                      \A a \in Idents : \E t \in Types : chal[<<a, t>>] = "valid"
               PROVE  order.status # "pending"
    BY DEF ValidatedLeavesPending
  <2>1. \A v \in Validators : pc[v] \in {"idle", "done"}
    BY DEF Requests, Idle
  <2>2. ASSUME NEW a \in Idents PROVE authz[a] # "pending"
    <3>1. PICK t \in Types : chal[<<a, t>>] = "valid"
      OBVIOUS
    <3>2. <<a, t>> \in Challenges /\ <<a, t>>[1] = a
      BY DEF Challenges
    <3> QED
      BY <2>1, <3>1, <3>2 DEF IInv, Followed
  <2> QED
    BY <2>1, <2>2 DEF IInv, Watched, Watching
<1> QED
  BY <1>1, Inductive, PTL

(* Whatever fails, an order that is valid or invalid is not written again  *)
(* as long as no two requests have overlapped.                             *)
THEOREM SettledOrderStays == Spec => SettledStaysAlone
<1>1. IInv /\ [Next]_vars
        => [order.status \in {"valid", "invalid"} /\ "overlap" \notin seen => order' = order]_order
  <2> SUFFICES ASSUME IInv, Next, order.status \in {"valid", "invalid"}, "overlap" \notin seen
               PROVE  order' = order
    BY DEF vars, docVars
  <2>1. ASSUME NEW v \in Validators, PutOrder(v) PROVE FALSE
    BY <2>1 DEF PutOrder, IInv, Alone
  <2>2. ASSUME NEW f \in Finalizers, FinishOrder(f) PROVE FALSE
    BY <2>2 DEF FinishOrder, IInv, Alone, Issuing
  <2> QED
    BY <2>1, <2>2 DEF Next, StartChallenge, CheckSucceeds, CheckFails, PutChallenge,
       PutAuthz, ReadOrder, ReadAuthz, StartFinalize, IssueCert, IssueRefused, PutCert,
       Fail, docVars
<1> QED
  BY <1>1, Inductive, PTL DEF Spec, SettledStaysAlone
=============================================================================
