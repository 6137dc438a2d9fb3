--------------------------- MODULE Issuance_proofs ---------------------------
(***************************************************************************)
(* Theorems about Issuance, for every number of concurrent calls: what     *)
(* Issue returns is recorded, what it leaves behind is named, one          *)
(* revocation of a certificate succeeds, and CRLs are true and grow.       *)
(***************************************************************************)
EXTENDS Issuance, TLAPS

Plans == {<<>>, <<"primary">>, <<"pair">>, <<"primary", "pair">>}
Own(i) == {<<i, c>> : c \in Chains}
Abandoning == {"abandon", "revoke", "revokeRecord", "failed", "crashed"}

\* The phases of each kind of call.
PhasesFit ==
    /\ \A i \in Issuers : pc[i] \in {"idle", "put", "record", "done"} \cup Abandoning
    /\ \A r \in Revokers :
            pc[r] \in {"idle", "revoke", "revokeRecord", "done", "failed", "crashed"}
    /\ \A b \in Builders : pc[b] \in {"idle", "number", "publish"}

\* A call of Issue works on its own serials: those in `out` are stored and
\* recorded, the others, but the one being issued, do not exist yet.
IssuedInOrder(i) ==
    /\ out[i] \subseteq Own(i) \cap issueRecs
    /\ pending[i] \subseteq Own(i)
    /\ \A s \in out[i] : certs[s] # "none"
    /\ pc[i] = "idle" => out[i] = {}
    /\ pc[i] \in {"idle", "put"} => \A s \in Own(i) \ out[i] : certs[s] = "none"
    /\ pc[i] = "record" => certs[Serial(i)] # "none"
    /\ pc[i] \in {"put", "record"} =>
            /\ Serial(i) \notin out[i]
            /\ \A s \in Own(i) \ out[i] : s # Serial(i) => certs[s] = "none"
            /\ Tail(targets[i]) # <<>> => <<i, "pair">> \notin out[i]

\* Who revokes has a serial to revoke, and abandonIssued one it issued.
TargetsFit ==
    /\ \A r \in Revokers : IF pc[r] = "idle" THEN target[r] = NoSerial ELSE target[r] \in Serials
    /\ \A i \in Issuers : pc[i] \in {"revoke", "revokeRecord"} => target[i] \in pending[i]

\* A certificate is revoked by a request for it or by the call that issued it
\* and gave up.
RevokedByCall ==
    \A s \in Serials : certs[s] = "revoked" =>
        \/ \E r \in Revokers : target[r] = s
        \/ \E i \in Issuers : s \in Own(i) /\ pc[i] \in Abandoning

\* While abandonIssued runs, what is still valid is to be revoked, noted, or
\* the document whose failed write happened.
Accounted(i) ==
    pc[i] \in {"abandon", "revoke", "revokeRecord", "failed"} =>
        /\ \A s \in Own(i) : certs[s] = "valid" => s \in pending[i] \cup stuck[i] \cup unanswered
        /\ pc[i] = "failed" => pending[i] = {}

\* The call has changed the document of its target, and has it to record.
Marked(a) == pc[a] = "revokeRecord"

MarkedOnce ==
    /\ \A a \in Issuers \cup Revokers : Marked(a) => certs[target[a]] = "revoked"
    /\ \A a, b \in Issuers \cup Revokers :
            Marked(a) /\ Marked(b) /\ target[a] = target[b] => a = b

\* So are the entries of the CRL in the making.
DraftsSound ==
    \A b \in Builders :
        /\ \A s \in draft[b].listed : certs[s] = "revoked" /\ s[2] = draft[b].chain
        /\ pc[b] = "publish" => draft[b].num # 0

DraftType == [chain : Chains, listed : SUBSET Serials, num : Nat, after : SUBSET Nat]
CRLType == [chain : Chains, listed : SUBSET Serials, num : Nat \ {0}, after : SUBSET Nat]

IInv ==
    /\ TypeOK
    /\ PhasesFit
    /\ \A i \in Issuers : IssuedInOrder(i)
    /\ TargetsFit
    /\ RevokedByCall
    /\ \A i \in Issuers : Accounted(i)
    /\ MarkedOnce
    /\ DraftsSound
    /\ ListedIsRevoked

\* A revocation that succeeded leaves none of its certificate to be recorded.
SInv ==
    /\ OneRevocationAnswered
    /\ \A p \in succeeded : \A a \in Issuers \cup Revokers :
            Marked(a) => target[a] # p[2]

\* No two CRLs share a number, and the CRLs that were returned before a build
\* began have lower numbers and no entry that it lacks.
DraftsNewer ==
    /\ \A l \in crls : l.num <= crlNumber /\ l.after \subseteq Numbers
    /\ \A b \in Builders : draft[b].after \subseteq Numbers
    /\ \A b \in Builders : pc[b] \in {"number", "publish"} =>
            \A l \in crls : l.num \in draft[b].after /\ l.chain = draft[b].chain
                => l.listed \subseteq draft[b].listed
    /\ \A b \in Builders : pc[b] = "publish" =>
            /\ draft[b].num <= crlNumber
            /\ draft[b].num \notin Numbers
            /\ \A n \in draft[b].after : n < draft[b].num
            /\ \A c \in Builders : pc[c] = "publish" /\ draft[c].num = draft[b].num => b = c

GInv == DraftsNewer /\ CRLsGrow

-----------------------------------------------------------------------------
\* The chains of a request, one after another.
LEMMA PlanSteps ==
  ASSUME NEW ts \in Plans, ts # <<>>
  PROVE  /\ Head(ts) \in Chains
         /\ Tail(ts) \in Plans
         /\ Len(ts) = 1 <=> Tail(ts) = <<>>
         /\ Tail(ts) # <<>> => Head(ts) = "primary" /\ Head(Tail(ts)) = "pair" /\ Tail(Tail(ts)) = <<>>
<1>1. CASE ts = <<"primary">>
  BY <1>1 DEF Plans, Chains
<1>2. CASE ts = <<"pair">>
  BY <1>2 DEF Plans, Chains
<1>3. CASE ts = <<"primary", "pair">>
  BY <1>3 DEF Plans, Chains
<1> QED
  BY <1>1, <1>2, <1>3 DEF Plans

\* What the end of a revocation changes, for a request and for abandonIssued.
Returned(a, ok) ==
    /\ pc' = [pc EXCEPT ![a] = IF a \in Revokers THEN IF ok THEN "done" ELSE "failed"
                                                 ELSE "abandon"]
    /\ pending' \in [Issuers -> SUBSET Serials] /\ stuck' \in [Issuers -> SUBSET Serials]
    /\ \A i \in Issuers :
            /\ pending'[i] = IF i = a THEN pending[i] \ {target[i]} ELSE pending[i]
            /\ stuck'[i] = IF i = a /\ ~ok THEN stuck[i] \cup {target[i]} ELSE stuck[i]
    /\ succeeded' = IF ok THEN succeeded \cup {<<a, target[a]>>} ELSE succeeded

LEMMA ReturnSteps ==
  ASSUME IInv, NEW a \in Issuers \cup Revokers, NEW ok \in BOOLEAN,
         pc[a] \in {"revoke", "revokeRecord"}, Return(a, ok)
  PROVE  Returned(a, ok)
<1> USE CallsAreDisjoint DEF IInv, TypeOK, Return, Returned, Goto
<1>1. CASE a \in Revokers
  BY <1>1
<1>2. CASE a \in Issuers
  <2>1. a \notin Revokers
    BY <1>2
  <2>2. target[a] \in Serials
    BY DEF TargetsFit
  <2>3. /\ pending' = [pending EXCEPT ![a] = @ \ {target[a]}]
        /\ stuck' = IF ok THEN stuck ELSE [stuck EXCEPT ![a] = @ \cup {target[a]}]
        /\ pc' = [pc EXCEPT ![a] = "abandon"]
    BY <2>1
  <2>4. /\ pending' \in [Issuers -> SUBSET Serials]
        /\ \A i \in Issuers : pending'[i] = IF i = a THEN pending[i] \ {target[i]} ELSE pending[i]
    BY <2>3
  <2>5. /\ stuck' \in [Issuers -> SUBSET Serials]
        /\ \A i \in Issuers : stuck'[i] = IF i = a /\ ~ok THEN stuck[i] \cup {target[i]} ELSE stuck[i]
    BY <2>2, <2>3
  <2> QED
    BY <2>3, <2>5
<1> QED
  BY <1>2

\* The serials are shared out among the calls.
LEMMA SerialsOwned ==
  /\ \A i \in Issuers : Own(i) \subseteq Serials
  /\ \A s \in Serials : \E i \in Issuers : s \in Own(i)
  /\ \A i, j \in Issuers : \A s \in Own(i) : s \in Own(j) => i = j
  /\ NoSerial \notin Serials
BY DEF Own, Serials, NoSerial

\* A call whose own state stays, or that gives up, keeps its order as long as
\* no document of it appears or disappears.
LEMMA OrderKept ==
  ASSUME NEW i \in Issuers, IssuedInOrder(i),
         pc'[i] = pc[i] \/ pc'[i] \in Abandoning,
         targets'[i] = targets[i], out'[i] = out[i], pending'[i] \subseteq pending[i],
         issueRecs \subseteq issueRecs',
         \A s \in Own(i) : certs'[s] = "none" <=> certs[s] = "none",
         pc[i] \in {"put", "record"} => Serial(i) \in Own(i)
  PROVE  IssuedInOrder(i)'
BY DEF IssuedInOrder, Abandoning, Serial

LEMMA SerialFits ==
  ASSUME IInv, NEW i \in Issuers, pc[i] \in {"put", "record"}
  PROVE  Serial(i) \in Own(i)
<1>1. targets[i] \in Plans /\ targets[i] # <<>>
  BY DEF IInv, TypeOK, Plans
<1> QED
  BY <1>1, PlanSteps DEF Serial, Own

LEMMA InitIInv == Init => IInv
  BY DEF Init, IInv, TypeOK, PhasesFit, IssuedInOrder, TargetsFit, RevokedByCall,
     Accounted, MarkedOnce, DraftsSound, ListedIsRevoked, Marked, NoDraft, Chains, Own,
     Serials

LEMMA NextIInv == IInv /\ [Next]_vars => IInv'
<1> SUFFICES ASSUME IInv, [Next]_vars PROVE IInv'
  OBVIOUS
<1> USE CallsAreDisjoint DEF IInv, Goto, issueVars, crlVars
<1>1. ASSUME NEW i \in Issuers, StartIssue(i) PROVE IInv'
  <2>1. TypeOK'
    <3>1. PICK ts \in {<<"primary">>, <<"pair">>, <<"primary", "pair">>} :
              targets' = [targets EXCEPT ![i] = ts]
      BY <1>1 DEF StartIssue
    <3>2. ts \in Plans /\ ts # <<>>
      BY DEF Plans
    <3>3. targets' \in [Issuers -> Plans] /\ targets'[i] # <<>>
      BY <3>1, <3>2 DEF TypeOK, Plans
    <3>4. \A j \in Issuers : pc'[j] \in {"put", "record"} => targets'[j] # <<>>
      BY <1>1, <3>3 DEF StartIssue, TypeOK
    <3> QED
      BY <1>1, <3>3 DEF StartIssue, TypeOK
  <2>2. PhasesFit'
    BY <1>1 DEF StartIssue, PhasesFit
  <2>3. TargetsFit'
    BY <1>1 DEF StartIssue, TargetsFit
  <2>4. ASSUME NEW j \in Issuers PROVE IssuedInOrder(j)'
    BY <1>1 DEF StartIssue, TypeOK, PhasesFit, IssuedInOrder, Serials, Serial
  <2>5. RevokedByCall'
    BY <1>1 DEF StartIssue, RevokedByCall, Abandoning
  <2>6. ASSUME NEW j \in Issuers PROVE Accounted(j)'
    BY <1>1 DEF StartIssue, Accounted
  <2>7. MarkedOnce'
    BY <1>1 DEF StartIssue, MarkedOnce, Marked
  <2>8. DraftsSound'
    BY <1>1 DEF StartIssue, DraftsSound
  <2>9. ListedIsRevoked'
    BY <1>1 DEF StartIssue, ListedIsRevoked
  <2> QED
    BY <2>1, <2>2, <2>3, <2>4, <2>5, <2>6, <2>7, <2>8, <2>9
<1>2. ASSUME NEW i \in Issuers, PutCert(i) PROVE IInv'
  <2>0. /\ Serial(i) \in Own(i) /\ Serial(i) \in Serials
        /\ Tail(targets[i]) \in Plans
        /\ Len(targets[i]) = 1 <=> Tail(targets[i]) = <<>>
        /\ Tail(targets[i]) # <<>> => /\ Serial(i) = <<i, "primary">>
                                      /\ Head(Tail(targets[i])) = "pair"
                                      /\ Tail(Tail(targets[i])) = <<>>
        /\ certs[Serial(i)] = "none"
    <3>1. targets[i] \in Plans /\ targets[i] # <<>>
      BY <1>2 DEF TypeOK, Plans, PutCert
    <3> QED
      BY <1>2, <3>1, PlanSteps, SerialFits, SerialsOwned DEF PutCert, Serial,
         IssuedInOrder
  <2>1. TypeOK'
    BY <1>2 DEF PutCert, TypeOK
  <2>2. PhasesFit'
    BY <1>2 DEF PutCert, PhasesFit
  <2>3. TargetsFit'
    BY <1>2 DEF PutCert, TargetsFit
  <2>4. ASSUME NEW j \in Issuers PROVE IssuedInOrder(j)'
    <3>1. CASE j = i
      <4>1. Serial(i)' = Serial(i)
        BY <1>2 DEF PutCert, Serial
      <4>2. pc'[i] = "record" /\ certs'[Serial(i)] = "valid"
            /\ \A s \in Own(i) : s # Serial(i) => certs'[s] = certs[s]
        BY <1>2, <2>0 DEF PutCert, TypeOK
      <4> QED
        BY <1>2, <3>1, <4>1, <4>2 DEF PutCert, IssuedInOrder
    <3>2. CASE j # i
      <4>1. \A s \in Own(j) : s # Serial(i)
        BY <2>0, <3>2, SerialsOwned
      <4>2. \A s \in Own(j) : certs'[s] = certs[s]
        BY <1>2, <4>1 DEF PutCert
      <4>3. pc'[j] = pc[j] /\ targets'[j] = targets[j] /\ out'[j] = out[j] /\ pending'[j] = pending[j]
        BY <1>2, <3>2 DEF PutCert
      <4>4. issueRecs \subseteq issueRecs'
        BY <1>2 DEF PutCert
      <4>5. pc[j] \in {"put", "record"} => Serial(j) \in Own(j)
        BY SerialFits
      <4> QED
        BY <4>2, <4>3, <4>4, <4>5, OrderKept
    <3> QED
      BY <3>1, <3>2
  <2>5. RevokedByCall'
    BY <1>2 DEF PutCert, RevokedByCall, Own, Abandoning
  <2>6. ASSUME NEW j \in Issuers PROVE Accounted(j)'
    BY <1>2, <2>0 DEF PutCert, Accounted, Own
  <2>7. MarkedOnce'
    BY <1>2, <2>0 DEF PutCert, MarkedOnce, Marked
  <2>8. DraftsSound'
    BY <1>2, <2>0 DEF PutCert, DraftsSound
  <2>9. ListedIsRevoked'
    BY <1>2, <2>0 DEF PutCert, ListedIsRevoked
  <2> QED
    BY <2>1, <2>2, <2>3, <2>4, <2>5, <2>6, <2>7, <2>8, <2>9
<1>3. ASSUME NEW i \in Issuers, PutFails(i) PROVE IInv'
  <2>0. /\ Serial(i) \in Own(i) /\ Serial(i) \in Serials
        /\ Tail(targets[i]) \in Plans
        /\ Len(targets[i]) = 1 <=> Tail(targets[i]) = <<>>
        /\ Tail(targets[i]) # <<>> => /\ Serial(i) = <<i, "primary">>
                                      /\ Head(Tail(targets[i])) = "pair"
                                      /\ Tail(Tail(targets[i])) = <<>>
        /\ certs[Serial(i)] = "none"
    <3>1. targets[i] \in Plans /\ targets[i] # <<>>
      BY <1>3 DEF TypeOK, Plans, PutFails
    <3> QED
      BY <1>3, <3>1, PlanSteps, SerialFits, SerialsOwned DEF PutFails, Serial,
         IssuedInOrder
  <2>1. TypeOK'
    BY <1>3, <2>0 DEF PutFails, Abandon, TypeOK, PhasesFit, TargetsFit
  <2>2. PhasesFit'
    BY <1>3 DEF PutFails, Abandon, PhasesFit, Abandoning
  <2>3. TargetsFit'
    BY <1>3 DEF PutFails, Abandon, TargetsFit
  <2>4. ASSUME NEW j \in Issuers PROVE IssuedInOrder(j)'
    <3>1. CASE j = i
      <4>1. pc'[i] \in {"failed", "abandon"}
        BY <1>3 DEF PutFails, Abandon, TypeOK
      <4>2. pending'[i] = out[i]
        BY <1>3 DEF PutFails, Abandon, TypeOK
      <4>3. pending'[i] \subseteq Own(i)
        BY <4>2 DEF IssuedInOrder
      <4>4. \A s \in out[i] : certs'[s] # "none"
        BY <1>3, <2>0, SerialsOwned DEF PutFails, TypeOK, IssuedInOrder
      <4> QED
        BY <1>3, <3>1, <4>1, <4>3, <4>4 DEF PutFails, IssuedInOrder
    <3>2. CASE j # i
      <4>1. \A s \in Own(j) : s # Serial(i)
        BY <2>0, <3>2, SerialsOwned
      <4>2. \A s \in Own(j) : certs'[s] = certs[s]
        BY <1>3, <4>1, SerialsOwned DEF PutFails, TypeOK
      <4>3. pc'[j] = pc[j] /\ targets'[j] = targets[j] /\ out'[j] = out[j] /\ pending'[j] = pending[j]
        BY <1>3, <3>2 DEF PutFails, Abandon
      <4>4. issueRecs \subseteq issueRecs'
        BY <1>3 DEF PutFails
      <4>5. pc[j] \in {"put", "record"} => Serial(j) \in Own(j)
        BY SerialFits
      <4> QED
        BY <4>2, <4>3, <4>4, <4>5, OrderKept
    <3> QED
      BY <3>1, <3>2
  <2>5. RevokedByCall'
    BY <1>3 DEF PutFails, Abandon, TypeOK, RevokedByCall, Abandoning
  <2>6. ASSUME NEW j \in Issuers PROVE Accounted(j)'
    <3>1. CASE j = i
      <4>1. /\ pending'[i] = out[i]
            /\ pc'[i] = "failed" => pending'[i] = {}
        BY <1>3 DEF PutFails, Abandon, TypeOK
      <4>2. \A s \in Own(i) \ pending'[i] : certs'[s] = "valid" => s \in unanswered'
        <5>1. /\ \A s \in Own(i) : s # Serial(i) => certs'[s] = certs[s]
              /\ certs'[Serial(i)] = "valid" => Serial(i) \in unanswered'
          BY <1>3, <2>0, SerialsOwned DEF PutFails, TypeOK
        <5> QED
          BY <1>3, <4>1, <5>1 DEF PutFails, IssuedInOrder
      <4> QED
        BY <3>1, <4>1, <4>2 DEF Accounted
    <3>2. CASE j # i
      <4>1. \A s \in Own(j) : s # Serial(i)
        BY <2>0, <3>2, SerialsOwned
      <4>2. \A s \in Own(j) : certs'[s] = certs[s]
        BY <1>3, <4>1, SerialsOwned DEF PutFails, TypeOK
      <4> QED
        BY <1>3, <3>2, <4>2 DEF PutFails, Abandon, Accounted
    <3> QED
      BY <3>1, <3>2
  <2>7. MarkedOnce'
    <3>1. \A a \in Issuers \cup Revokers :
              Marked(a)' => Marked(a) /\ target'[a] = target[a] /\ target[a] \in Serials
      BY <1>3 DEF PutFails, Abandon, TypeOK, Marked, TargetsFit
    <3>2. \A s \in Serials : certs[s] = "revoked" => certs'[s] = "revoked"
      BY <1>3, <2>0 DEF PutFails, TypeOK
    <3>3. revokeRecs' = revokeRecs /\ \A r \in Revokers : pc'[r] = pc[r]
      BY <1>3 DEF PutFails, Abandon
    <3> QED
      BY <3>1, <3>2, <3>3 DEF MarkedOnce, Marked
  <2>8. DraftsSound'
    BY <1>3, <2>0 DEF PutFails, Abandon, TypeOK, DraftsSound
  <2>9. ListedIsRevoked'
    BY <1>3, <2>0 DEF PutFails, TypeOK, ListedIsRevoked
  <2> QED
    BY <2>1, <2>2, <2>3, <2>4, <2>5, <2>6, <2>7, <2>8, <2>9
<1>4. ASSUME NEW i \in Issuers, RecordIssue(i) PROVE IInv'
  <2>0. /\ Serial(i) \in Own(i) /\ Serial(i) \in Serials
        /\ Tail(targets[i]) \in Plans
        /\ Len(targets[i]) = 1 <=> Tail(targets[i]) = <<>>
        /\ Tail(targets[i]) # <<>> => /\ Serial(i) = <<i, "primary">>
                                      /\ Head(Tail(targets[i])) = "pair"
                                      /\ Tail(Tail(targets[i])) = <<>>
    <3>1. targets[i] \in Plans /\ targets[i] # <<>>
      BY <1>4 DEF TypeOK, Plans, RecordIssue
    <3> QED
      BY <1>4, <3>1, PlanSteps, SerialFits, SerialsOwned DEF RecordIssue, Serial
  <2>1. TypeOK'
    BY <1>4, <2>0 DEF RecordIssue, TypeOK, Plans
  <2>2. PhasesFit'
    BY <1>4 DEF RecordIssue, PhasesFit
  <2>3. TargetsFit'
    BY <1>4 DEF RecordIssue, TargetsFit
  <2>4. ASSUME NEW j \in Issuers PROVE IssuedInOrder(j)'
    <3>1. CASE j = i
      <4>1. /\ out'[i] = out[i] \cup {Serial(i)} /\ targets'[i] = Tail(targets[i])
            /\ pc'[i] = IF Tail(targets[i]) = <<>> THEN "done" ELSE "put"
            /\ certs' = certs /\ issueRecs' = issueRecs \cup {Serial(i)} /\ pending' = pending
            /\ pc[i] = "record"
        BY <1>4, <2>0 DEF RecordIssue, TypeOK
      <4>2. Tail(targets[i]) # <<>> =>
                Serial(i)' = <<i, "pair">> /\ Serial(i) # <<i, "pair">> /\ Tail(targets'[i]) = <<>>
        BY <2>0, <4>1 DEF Serial
      <4> QED
        BY <3>1, <4>1, <4>2 DEF IssuedInOrder
    <3>2. CASE j # i
      <4>1. \A s \in Own(j) : s # Serial(i)
        BY <2>0, <3>2, SerialsOwned
      <4>2. \A s \in Own(j) : certs'[s] = certs[s]
        BY <1>4 DEF RecordIssue
      <4>3. pc'[j] = pc[j] /\ targets'[j] = targets[j] /\ out'[j] = out[j] /\ pending'[j] = pending[j]
        BY <1>4, <3>2 DEF RecordIssue
      <4>4. issueRecs \subseteq issueRecs'
        BY <1>4 DEF RecordIssue
      <4>5. pc[j] \in {"put", "record"} => Serial(j) \in Own(j)
        BY SerialFits
      <4> QED
        BY <4>2, <4>3, <4>4, <4>5, OrderKept
    <3> QED
      BY <3>1, <3>2
  <2>5. RevokedByCall'
    BY <1>4 DEF RecordIssue, RevokedByCall, Own, Abandoning
  <2>6. ASSUME NEW j \in Issuers PROVE Accounted(j)'
    BY <1>4 DEF RecordIssue, Accounted
  <2>7. MarkedOnce'
    BY <1>4 DEF RecordIssue, MarkedOnce, Marked
  <2>8. DraftsSound'
    BY <1>4 DEF RecordIssue, DraftsSound
  <2>9. ListedIsRevoked'
    BY <1>4 DEF RecordIssue, ListedIsRevoked
  <2> QED
    BY <2>1, <2>2, <2>3, <2>4, <2>5, <2>6, <2>7, <2>8, <2>9
<1>5. ASSUME NEW i \in Issuers, RecordIssueFails(i) PROVE IInv'
  <2>0. /\ Serial(i) \in Own(i) /\ Serial(i) \in Serials
        /\ Tail(targets[i]) \in Plans
        /\ Len(targets[i]) = 1 <=> Tail(targets[i]) = <<>>
        /\ Tail(targets[i]) # <<>> => /\ Serial(i) = <<i, "primary">>
                                      /\ Head(Tail(targets[i])) = "pair"
                                      /\ Tail(Tail(targets[i])) = <<>>
    <3>1. targets[i] \in Plans /\ targets[i] # <<>>
      BY <1>5 DEF TypeOK, Plans, RecordIssueFails
    <3> QED
      BY <1>5, <3>1, PlanSteps, SerialFits, SerialsOwned DEF RecordIssueFails, Serial
  <2>1. TypeOK'
    BY <1>5, <2>0 DEF RecordIssueFails, Abandon, TypeOK
  <2>2. PhasesFit'
    BY <1>5 DEF RecordIssueFails, Abandon, PhasesFit, Abandoning
  <2>3. TargetsFit'
    BY <1>5 DEF RecordIssueFails, Abandon, TargetsFit
  <2>4. ASSUME NEW j \in Issuers PROVE IssuedInOrder(j)'
    <3>1. CASE j = i
      <4>1. pc'[i] \in {"failed", "abandon"}
        BY <1>5 DEF RecordIssueFails, Abandon, TypeOK
      <4>2. pending'[i] = out[i] \cup {Serial(i)}
        BY <1>5 DEF RecordIssueFails, Abandon, TypeOK
      <4>3. pending'[i] \subseteq Own(i)
        BY <2>0, <4>2 DEF IssuedInOrder
      <4>4. \A s \in out[i] : certs'[s] # "none"
        BY <1>5 DEF RecordIssueFails, IssuedInOrder
      <4> QED
        BY <1>5, <3>1, <4>1, <4>3 DEF RecordIssueFails, IssuedInOrder
    <3>2. CASE j # i
      <4>1. \A s \in Own(j) : s # Serial(i)
        BY <2>0, <3>2, SerialsOwned
      <4>2. \A s \in Own(j) : certs'[s] = certs[s]
        BY <1>5 DEF RecordIssueFails
      <4>3. pc'[j] = pc[j] /\ targets'[j] = targets[j] /\ out'[j] = out[j] /\ pending'[j] = pending[j]
        BY <1>5, <3>2 DEF RecordIssueFails, Abandon
      <4>4. issueRecs \subseteq issueRecs'
        BY <1>5 DEF RecordIssueFails
      <4>5. pc[j] \in {"put", "record"} => Serial(j) \in Own(j)
        BY SerialFits
      <4> QED
        BY <4>2, <4>3, <4>4, <4>5, OrderKept
    <3> QED
      BY <3>1, <3>2
  <2>5. RevokedByCall'
    BY <1>5 DEF RecordIssueFails, Abandon, RevokedByCall, Abandoning
  <2>6. ASSUME NEW j \in Issuers PROVE Accounted(j)'
    <3>1. CASE j = i
      <4>1. /\ pending'[i] = out[i] \cup {Serial(i)}
            /\ pc'[i] = "failed" => pending'[i] = {}
        BY <1>5 DEF RecordIssueFails, Abandon, TypeOK
      <4>2. \A s \in Own(i) \ pending'[i] : certs'[s] = "valid" => s \in unanswered'
        BY <1>5, <4>1 DEF RecordIssueFails, IssuedInOrder
      <4> QED
        BY <3>1, <4>1, <4>2 DEF Accounted
    <3>2. CASE j # i
      <4>1. \A s \in Own(j) : s # Serial(i)
        BY <2>0, <3>2, SerialsOwned
      <4>2. \A s \in Own(j) : certs'[s] = certs[s]
        BY <1>5 DEF RecordIssueFails
      <4> QED
        BY <1>5, <3>2 DEF RecordIssueFails, Abandon, Accounted
    <3> QED
      BY <3>1, <3>2
  <2>7. MarkedOnce'
    BY <1>5 DEF RecordIssueFails, Abandon, MarkedOnce, Marked
  <2>8. DraftsSound'
    BY <1>5 DEF RecordIssueFails, Abandon, DraftsSound
  <2>9. ListedIsRevoked'
    BY <1>5 DEF RecordIssueFails, ListedIsRevoked
  <2> QED
    BY <2>1, <2>2, <2>3, <2>4, <2>5, <2>6, <2>7, <2>8, <2>9
<1>6. ASSUME NEW i \in Issuers, RevokeNext(i) PROVE IInv'
  <2>1. TypeOK'
    BY <1>6 DEF RevokeNext, TypeOK
  <2>2. PhasesFit'
    BY <1>6 DEF RevokeNext, PhasesFit, Abandoning
  <2>3. TargetsFit'
    BY <1>6 DEF RevokeNext, TypeOK, TargetsFit
  <2>4. ASSUME NEW j \in Issuers PROVE IssuedInOrder(j)'
    BY <1>6 DEF RevokeNext, IssuedInOrder, Serial
  <2>5. RevokedByCall'
    BY <1>6 DEF RevokeNext, RevokedByCall, Abandoning
  <2>6. ASSUME NEW j \in Issuers PROVE Accounted(j)'
    BY <1>6 DEF RevokeNext, Accounted
  <2>7. MarkedOnce'
    BY <1>6 DEF RevokeNext, MarkedOnce, Marked
  <2>8. DraftsSound'
    BY <1>6 DEF RevokeNext, DraftsSound
  <2>9. ListedIsRevoked'
    BY <1>6 DEF RevokeNext, ListedIsRevoked
  <2> QED
    BY <2>1, <2>2, <2>3, <2>4, <2>5, <2>6, <2>7, <2>8, <2>9
<1>7. ASSUME NEW i \in Issuers, ReportFailure(i) PROVE IInv'
  <2>1. TypeOK'
    BY <1>7 DEF ReportFailure, TypeOK
  <2>2. PhasesFit'
    BY <1>7 DEF ReportFailure, PhasesFit, Abandoning
  <2>3. TargetsFit'
    BY <1>7 DEF ReportFailure, TargetsFit
  <2>4. ASSUME NEW j \in Issuers PROVE IssuedInOrder(j)'
    BY <1>7 DEF ReportFailure, IssuedInOrder, Serial
  <2>5. RevokedByCall'
    BY <1>7 DEF ReportFailure, RevokedByCall, Abandoning
  <2>6. ASSUME NEW j \in Issuers PROVE Accounted(j)'
    BY <1>7 DEF ReportFailure, Accounted
  <2>7. MarkedOnce'
    BY <1>7 DEF ReportFailure, MarkedOnce, Marked
  <2>8. DraftsSound'
    BY <1>7 DEF ReportFailure, DraftsSound
  <2>9. ListedIsRevoked'
    BY <1>7 DEF ReportFailure, ListedIsRevoked
  <2> QED
    BY <2>1, <2>2, <2>3, <2>4, <2>5, <2>6, <2>7, <2>8, <2>9
<1>8. ASSUME NEW r \in Revokers, StartRevoke(r) PROVE IInv'
  <2>1. TypeOK'
    BY <1>8 DEF StartRevoke, TypeOK
  <2>2. PhasesFit'
    BY <1>8 DEF StartRevoke, PhasesFit
  <2>3. TargetsFit'
    BY <1>8 DEF StartRevoke, TypeOK, TargetsFit
  <2>4. ASSUME NEW j \in Issuers PROVE IssuedInOrder(j)'
    BY <1>8 DEF StartRevoke, IssuedInOrder, Serial
  <2>5. RevokedByCall'
    <3> SUFFICES ASSUME NEW s \in Serials, certs[s] = "revoked"
                 PROVE  \/ \E q \in Revokers : target'[q] = s
                        \/ \E i \in Issuers : s \in Own(i) /\ pc'[i] \in Abandoning
      BY <1>8 DEF StartRevoke, RevokedByCall
    <3>1. ASSUME NEW q \in Revokers, target[q] = s PROVE target'[q] = s
      BY <1>8, <3>1, SerialsOwned DEF StartRevoke, TargetsFit
    <3>2. \A i \in Issuers : pc'[i] = pc[i]
      BY <1>8 DEF StartRevoke
    <3> QED
      BY <3>1, <3>2 DEF RevokedByCall
  <2>6. ASSUME NEW j \in Issuers PROVE Accounted(j)'
    BY <1>8 DEF StartRevoke, Accounted
  <2>7. MarkedOnce'
    BY <1>8 DEF StartRevoke, MarkedOnce, Marked
  <2>8. DraftsSound'
    BY <1>8 DEF StartRevoke, DraftsSound
  <2>9. ListedIsRevoked'
    BY <1>8 DEF StartRevoke, ListedIsRevoked
  <2> QED
    BY <2>1, <2>2, <2>3, <2>4, <2>5, <2>6, <2>7, <2>8, <2>9
<1>9. ASSUME NEW a \in Issuers \cup Revokers, MarkRevoked(a) PROVE IInv'
  <2>1. TypeOK'
    BY <1>9 DEF MarkRevoked, TypeOK
  <2>2. PhasesFit'
    BY <1>9 DEF MarkRevoked, PhasesFit, Abandoning
  <2>3. TargetsFit'
    BY <1>9 DEF MarkRevoked, TargetsFit
  <2>4. ASSUME NEW j \in Issuers PROVE IssuedInOrder(j)'
    <3>1. pc'[j] = pc[j] \/ pc'[j] \in Abandoning
      BY <1>9 DEF MarkRevoked, Abandoning
    <3>2. targets'[j] = targets[j] /\ out'[j] = out[j] /\ pending'[j] \subseteq pending[j]
      BY <1>9 DEF MarkRevoked
    <3>3. \A s \in Own(j) : certs'[s] = "none" <=> certs[s] = "none"
      BY <1>9 DEF MarkRevoked
    <3> QED
      BY <1>9, <3>1, OrderKept, SerialFits DEF MarkRevoked
  <2>5. RevokedByCall'
    <3>1. target' = target
      BY <1>9 DEF MarkRevoked
    <3>2. \A i \in Issuers : pc[i] \in Abandoning => pc'[i] \in Abandoning
      BY <1>9 DEF MarkRevoked, Abandoning
    <3>3. \/ \E r \in Revokers : target[r] = target[a]
          \/ \E i \in Issuers : target[a] \in Own(i) /\ pc'[i] \in Abandoning
      <4>1. CASE a \in Revokers
        BY <4>1
      <4>2. CASE a \in Issuers
        BY <1>9 DEF MarkRevoked, TypeOK, TargetsFit, IssuedInOrder, Abandoning
      <4> QED
        BY <4>2
    <3>4. \A s \in Serials : certs'[s] = "revoked" => certs[s] = "revoked" \/ s = target[a]
      BY <1>9 DEF MarkRevoked
    <3> QED
      BY <3>1, <3>2, <3>3, <3>4 DEF RevokedByCall
  <2>6. ASSUME NEW j \in Issuers PROVE Accounted(j)'
    BY <1>9 DEF MarkRevoked, Accounted
  <2>7. MarkedOnce'
    BY <1>9 DEF MarkRevoked, TypeOK, TargetsFit, MarkedOnce, Marked
  <2>8. DraftsSound'
    BY <1>9 DEF MarkRevoked, DraftsSound
  <2>9. ListedIsRevoked'
    BY <1>9 DEF MarkRevoked, ListedIsRevoked
  <2> QED
    BY <2>1, <2>2, <2>3, <2>4, <2>5, <2>6, <2>7, <2>8, <2>9
<1>10. ASSUME NEW a \in Issuers \cup Revokers, RevokeFails(a) PROVE IInv'
  <2>0. Returned(a, FALSE)
    BY <1>10, ReturnSteps DEF RevokeFails
  <2>1. TypeOK'
    BY <1>10, <2>0 DEF RevokeFails, Returned, TypeOK
  <2>2. PhasesFit'
    BY <2>0 DEF Returned, PhasesFit, Abandoning
  <2>3. TargetsFit'
    BY <1>10, <2>0 DEF RevokeFails, Returned, TypeOK, TargetsFit
  <2>4. ASSUME NEW j \in Issuers PROVE IssuedInOrder(j)'
    <3>1. pc'[j] = pc[j] \/ pc'[j] \in Abandoning
      BY <2>0 DEF Returned, Abandoning
    <3>2. targets'[j] = targets[j] /\ out'[j] = out[j] /\ pending'[j] \subseteq pending[j]
      BY <1>10, <2>0 DEF RevokeFails, Returned
    <3>3. \A s \in Own(j) : certs'[s] = "none" <=> certs[s] = "none"
      BY <1>10, SerialsOwned DEF RevokeFails, TypeOK
    <3> QED
      BY <1>10, <3>1, <3>2, <3>3, OrderKept, SerialFits DEF RevokeFails
  <2>5. RevokedByCall'
    <3>1. target' = target
      BY <1>10 DEF RevokeFails
    <3>2. \A i \in Issuers : pc[i] \in Abandoning => pc'[i] \in Abandoning
      BY <2>0 DEF Returned, Abandoning
    <3>3. \/ \E r \in Revokers : target[r] = target[a]
          \/ \E i \in Issuers : target[a] \in Own(i) /\ pc'[i] \in Abandoning
      <4>1. CASE a \in Revokers
        BY <4>1
      <4>2. CASE a \in Issuers
        BY <1>10, <2>0 DEF RevokeFails, Returned, TypeOK, TargetsFit, IssuedInOrder,
           Abandoning
      <4> QED
        BY <4>2
    <3>4. \A s \in Serials : certs'[s] = "revoked" => certs[s] = "revoked" \/ s = target[a]
      BY <1>10 DEF RevokeFails, TypeOK
    <3> QED
      BY <3>1, <3>2, <3>3, <3>4 DEF RevokedByCall
  <2>6. ASSUME NEW j \in Issuers PROVE Accounted(j)'
    BY <1>10, <2>0 DEF RevokeFails, Returned, TypeOK, Accounted, Own, Serials
  <2>7. MarkedOnce'
    BY <1>10, <2>0 DEF RevokeFails, Returned, TypeOK, TargetsFit, MarkedOnce, Marked
  <2>8. DraftsSound'
    BY <1>10, <2>0 DEF RevokeFails, Returned, TypeOK, DraftsSound
  <2>9. ListedIsRevoked'
    BY <1>10 DEF RevokeFails, TypeOK, ListedIsRevoked
  <2> QED
    BY <2>1, <2>2, <2>3, <2>4, <2>5, <2>6, <2>7, <2>8, <2>9
<1>11. ASSUME NEW a \in Issuers \cup Revokers, RecordRevoke(a) PROVE IInv'
  <2>0. Returned(a, TRUE)
    BY <1>11, ReturnSteps DEF RecordRevoke
  <2>1. TypeOK'
    BY <1>11, <2>0 DEF RecordRevoke, Returned, TypeOK, TargetsFit
  <2>2. PhasesFit'
    BY <2>0 DEF Returned, PhasesFit, Abandoning
  <2>3. TargetsFit'
    BY <1>11, <2>0 DEF RecordRevoke, Returned, TypeOK, TargetsFit
  <2>4. ASSUME NEW j \in Issuers PROVE IssuedInOrder(j)'
    <3>1. pc'[j] = pc[j] \/ pc'[j] \in Abandoning
      BY <2>0 DEF Returned, Abandoning
    <3>2. targets'[j] = targets[j] /\ out'[j] = out[j] /\ pending'[j] \subseteq pending[j]
      BY <1>11, <2>0 DEF RecordRevoke, Returned
    <3>3. \A s \in Own(j) : certs'[s] = "none" <=> certs[s] = "none"
      BY <1>11 DEF RecordRevoke
    <3> QED
      BY <1>11, <3>1, <3>2, OrderKept, SerialFits DEF RecordRevoke
  <2>5. RevokedByCall'
    BY <1>11, <2>0 DEF RecordRevoke, Returned, RevokedByCall, Own, Abandoning
  <2>6. ASSUME NEW j \in Issuers PROVE Accounted(j)'
    <3>1. CASE j = a
      <4>1. certs[target[a]] = "revoked"
        BY <1>11 DEF RecordRevoke, MarkedOnce, Marked
      <4> QED
        BY <1>11, <2>0, <4>1 DEF RecordRevoke, Returned, Accounted
    <3>2. CASE j # a
      BY <1>11, <2>0, <3>2 DEF RecordRevoke, Returned, Accounted
    <3> QED
      BY <3>1, <3>2
  <2>7. MarkedOnce'
    BY <1>11, <2>0 DEF RecordRevoke, Returned, MarkedOnce, Marked
  <2>8. DraftsSound'
    BY <1>11, <2>0 DEF RecordRevoke, Returned, DraftsSound
  <2>9. ListedIsRevoked'
    BY <1>11 DEF RecordRevoke, ListedIsRevoked
  <2> QED
    BY <2>1, <2>2, <2>3, <2>4, <2>5, <2>6, <2>7, <2>8, <2>9
<1>12. ASSUME NEW a \in Issuers \cup Revokers, RecordRevokeFails(a) PROVE IInv'
  <2>0. Returned(a, FALSE)
    BY <1>12, ReturnSteps DEF RecordRevokeFails
  <2>1. TypeOK'
    BY <1>12, <2>0 DEF RecordRevokeFails, Returned, TypeOK, TargetsFit
  <2>2. PhasesFit'
    BY <2>0 DEF Returned, PhasesFit, Abandoning
  <2>3. TargetsFit'
    BY <1>12, <2>0 DEF RecordRevokeFails, Returned, TypeOK, TargetsFit
  <2>4. ASSUME NEW j \in Issuers PROVE IssuedInOrder(j)'
    <3>1. pc'[j] = pc[j] \/ pc'[j] \in Abandoning
      BY <2>0 DEF Returned, Abandoning
    <3>2. targets'[j] = targets[j] /\ out'[j] = out[j] /\ pending'[j] \subseteq pending[j]
      BY <1>12, <2>0 DEF RecordRevokeFails, Returned
    <3>3. \A s \in Own(j) : certs'[s] = "none" <=> certs[s] = "none"
      BY <1>12 DEF RecordRevokeFails
    <3> QED
      BY <1>12, <3>1, <3>2, OrderKept, SerialFits DEF RecordRevokeFails
  <2>5. RevokedByCall'
    BY <1>12, <2>0 DEF RecordRevokeFails, Returned, RevokedByCall, Own, Abandoning
  <2>6. ASSUME NEW j \in Issuers PROVE Accounted(j)'
    BY <1>12, <2>0 DEF RecordRevokeFails, Returned, Accounted
  <2>7. MarkedOnce'
    BY <1>12, <2>0 DEF RecordRevokeFails, Returned, MarkedOnce, Marked
  <2>8. DraftsSound'
    BY <1>12, <2>0 DEF RecordRevokeFails, Returned, DraftsSound
  <2>9. ListedIsRevoked'
    BY <1>12 DEF RecordRevokeFails, ListedIsRevoked
  <2> QED
    BY <2>1, <2>2, <2>3, <2>4, <2>5, <2>6, <2>7, <2>8, <2>9
<1>13. ASSUME NEW b \in Builders, ScanRevoked(b) PROVE IInv'
  <2>1. TypeOK'
    <3>1. PICK c \in Chains : draft' = [draft EXCEPT ![b] =
              [chain |-> c, listed |-> Revoked(c), num |-> 0, after |-> Numbers]]
      BY <1>13 DEF ScanRevoked
    <3>2. Revoked(c) \subseteq Serials /\ Numbers \subseteq Nat
      BY DEF Revoked, OfChain, Numbers, TypeOK
    <3>3. draft' \in [Builders -> DraftType]
      BY <3>1, <3>2 DEF DraftType, TypeOK
    <3> QED
      BY <1>13, <3>3 DEF ScanRevoked, TypeOK, DraftType
  <2>2. PhasesFit'
    BY <1>13 DEF ScanRevoked, PhasesFit
  <2>3. TargetsFit'
    BY <1>13 DEF ScanRevoked, TargetsFit
  <2>4. ASSUME NEW j \in Issuers PROVE IssuedInOrder(j)'
    BY <1>13, OrderKept, SerialFits DEF ScanRevoked
  <2>5. RevokedByCall'
    BY <1>13 DEF ScanRevoked, RevokedByCall, Own
  <2>6. ASSUME NEW j \in Issuers PROVE Accounted(j)'
    BY <1>13 DEF ScanRevoked, Accounted
  <2>7. MarkedOnce'
    BY <1>13 DEF ScanRevoked, MarkedOnce, Marked
  <2>8. DraftsSound'
    BY <1>13 DEF ScanRevoked, Revoked, OfChain, DraftsSound
  <2>9. ListedIsRevoked'
    BY <1>13 DEF ScanRevoked, ListedIsRevoked
  <2> QED
    BY <2>1, <2>2, <2>3, <2>4, <2>5, <2>6, <2>7, <2>8, <2>9
<1>14. ASSUME NEW b \in Builders, NextNumber(b) PROVE IInv'
  <2>1. TypeOK'
    <3>1. crlNumber' \in Nat
      BY <1>14 DEF NextNumber, TypeOK
    <3>2. [draft[b] EXCEPT !.num = crlNumber + 1] \in DraftType
      <4>1. draft[b] \in DraftType /\ crlNumber + 1 \in Nat
        BY DEF TypeOK, DraftType
      <4> QED
        BY <4>1 DEF DraftType
    <3>3. draft' \in [Builders -> DraftType]
      BY <1>14, <3>2 DEF NextNumber, TypeOK, DraftType
    <3> QED
      BY <1>14, <3>3 DEF NextNumber, TypeOK, DraftType
  <2>2. PhasesFit'
    BY <1>14 DEF NextNumber, PhasesFit
  <2>3. TargetsFit'
    BY <1>14 DEF NextNumber, TargetsFit
  <2>4. ASSUME NEW j \in Issuers PROVE IssuedInOrder(j)'
    BY <1>14, OrderKept, SerialFits DEF NextNumber
  <2>5. RevokedByCall'
    BY <1>14 DEF NextNumber, RevokedByCall, Own
  <2>6. ASSUME NEW j \in Issuers PROVE Accounted(j)'
    BY <1>14 DEF NextNumber, Accounted
  <2>7. MarkedOnce'
    BY <1>14 DEF NextNumber, MarkedOnce, Marked
  <2>8. DraftsSound'
    BY <1>14 DEF NextNumber, TypeOK, DraftsSound
  <2>9. ListedIsRevoked'
    BY <1>14 DEF NextNumber, ListedIsRevoked
  <2> QED
    BY <2>1, <2>2, <2>3, <2>4, <2>5, <2>6, <2>7, <2>8, <2>9
<1>15. ASSUME NEW b \in Builders, Publish(b) PROVE IInv'
  <2>1. TypeOK'
    <3>1. crls' \subseteq CRLType
      BY <1>15 DEF Publish, TypeOK, DraftsSound, CRLType
    <3>2. draft' \in [Builders -> DraftType]
      BY <1>15 DEF Publish, Rest, NoDraft, Chains, TypeOK, DraftType
    <3> QED
      BY <1>15, <3>1, <3>2 DEF Publish, Rest, TypeOK, DraftType, CRLType
  <2>2. PhasesFit'
    BY <1>15 DEF Publish, Rest, PhasesFit
  <2>3. TargetsFit'
    BY <1>15 DEF Publish, Rest, TargetsFit
  <2>4. ASSUME NEW j \in Issuers PROVE IssuedInOrder(j)'
    BY <1>15, OrderKept, SerialFits DEF Publish, Rest
  <2>5. RevokedByCall'
    BY <1>15 DEF Publish, Rest, RevokedByCall, Own
  <2>6. ASSUME NEW j \in Issuers PROVE Accounted(j)'
    BY <1>15 DEF Publish, Rest, Accounted
  <2>7. MarkedOnce'
    BY <1>15 DEF Publish, Rest, MarkedOnce, Marked
  <2>8. DraftsSound'
    BY <1>15 DEF Publish, Rest, NoDraft, TypeOK, DraftsSound
  <2>9. ListedIsRevoked'
    BY <1>15 DEF Publish, ListedIsRevoked, DraftsSound
  <2> QED
    BY <2>1, <2>2, <2>3, <2>4, <2>5, <2>6, <2>7, <2>8, <2>9
<1>16. ASSUME NEW b \in Builders, BuildFails(b) PROVE IInv'
  <2>1. TypeOK'
    <3>1. draft' \in [Builders -> DraftType]
      BY <1>16 DEF BuildFails, Rest, NoDraft, Chains, TypeOK, DraftType
    <3> QED
      BY <1>16, <3>1 DEF BuildFails, Rest, TypeOK, DraftType
  <2>2. PhasesFit'
    BY <1>16 DEF BuildFails, Rest, PhasesFit
  <2>3. TargetsFit'
    BY <1>16 DEF BuildFails, Rest, TargetsFit
  <2>4. ASSUME NEW j \in Issuers PROVE IssuedInOrder(j)'
    BY <1>16, OrderKept, SerialFits DEF BuildFails, Rest
  <2>5. RevokedByCall'
    BY <1>16 DEF BuildFails, Rest, RevokedByCall, Own
  <2>6. ASSUME NEW j \in Issuers PROVE Accounted(j)'
    BY <1>16 DEF BuildFails, Rest, Accounted
  <2>7. MarkedOnce'
    BY <1>16 DEF BuildFails, Rest, MarkedOnce, Marked
  <2>8. DraftsSound'
    BY <1>16 DEF BuildFails, Rest, NoDraft, TypeOK, DraftsSound
  <2>9. ListedIsRevoked'
    BY <1>16 DEF BuildFails, ListedIsRevoked
  <2> QED
    BY <2>1, <2>2, <2>3, <2>4, <2>5, <2>6, <2>7, <2>8, <2>9
<1>17. ASSUME NEW a \in Issuers \cup Revokers, Crash(a) PROVE IInv'
  <2>1. TypeOK'
    BY <1>17 DEF Crash, TypeOK
  <2>2. PhasesFit'
    BY <1>17 DEF Crash, PhasesFit, Abandoning
  <2>3. TargetsFit'
    BY <1>17 DEF Crash, Running, TargetsFit
  <2>4. ASSUME NEW j \in Issuers PROVE IssuedInOrder(j)'
    BY <1>17 DEF Crash, IssuedInOrder, Serial
  <2>5. RevokedByCall'
    BY <1>17 DEF Crash, RevokedByCall, Abandoning
  <2>6. ASSUME NEW j \in Issuers PROVE Accounted(j)'
    BY <1>17 DEF Crash, Accounted
  <2>7. MarkedOnce'
    BY <1>17 DEF Crash, MarkedOnce, Marked
  <2>8. DraftsSound'
    BY <1>17 DEF Crash, DraftsSound
  <2>9. ListedIsRevoked'
    BY <1>17 DEF Crash, ListedIsRevoked
  <2> QED
    BY <2>1, <2>2, <2>3, <2>4, <2>5, <2>6, <2>7, <2>8, <2>9
<1>18. CASE UNCHANGED vars
  <2>1. TypeOK' /\ PhasesFit'
    BY <1>18 DEF vars, TypeOK, PhasesFit
  <2>2. TargetsFit' /\ \A i \in Issuers : IssuedInOrder(i)' /\ Accounted(i)'
    BY <1>18 DEF vars, IssuedInOrder, TargetsFit, Accounted, Serial
  <2>3. RevokedByCall' /\ MarkedOnce'
    BY <1>18 DEF vars, RevokedByCall, MarkedOnce, Marked
  <2>4. DraftsSound' /\ ListedIsRevoked'
    BY <1>18 DEF vars, DraftsSound, ListedIsRevoked
  <2> QED
    BY <2>1, <2>2, <2>3, <2>4
<1> QED
  BY <1>1, <1>2, <1>3, <1>4, <1>5, <1>6, <1>7, <1>8, <1>9, <1>10, <1>11, <1>12, <1>13,
     <1>14, <1>15, <1>16, <1>17, <1>18 DEF Next

LEMMA Inductive == Spec => []IInv
  BY InitIInv, NextIInv, PTL DEF Spec

-----------------------------------------------------------------------------
(* Issue returns no certificate without its audit record, and none that    *)
(* anything but a request has revoked (issue.go:36).                       *)
THEOREM ReturnedAreRecorded == Spec => []ReturnedIsRecorded
<1>1. IInv => ReturnedIsRecorded
  <2> SUFFICES ASSUME IInv, NEW i \in Issuers, pc[i] = "done"
               PROVE  /\ out[i] \subseteq issueRecs
                      /\ \A s \in out[i] : certs[s] = "valid" \/ \E r \in Revokers : target[r] = s
    BY DEF ReturnedIsRecorded
  <2>1. out[i] \subseteq Own(i) \cap issueRecs /\ \A s \in out[i] : certs[s] # "none"
    BY DEF IInv, IssuedInOrder
  <2>2. ASSUME NEW s \in out[i], certs[s] = "revoked" PROVE \E r \in Revokers : target[r] = s
    <3>1. s \in Serials /\ \A j \in Issuers : s \in Own(j) => j = i
      BY <2>1, SerialsOwned
    <3> QED
      BY <2>2, <3>1 DEF IInv, RevokedByCall, Abandoning
  <2> QED
    BY <2>1, <2>2 DEF IInv, TypeOK
<1> QED
  BY <1>1, Inductive, PTL

(* A request that fails part-way leaves no valid certificate its error     *)
(* does not name, but the one whose own write failed and happened          *)
(* (issue.go:133).                                                         *)
THEOREM FailuresAccounted == Spec => []FailedIssueAccounted
<1>1. IInv => FailedIssueAccounted
  BY DEF IInv, FailedIssueAccounted, Accounted, Own
<1> QED
  BY <1>1, Inductive, PTL

(* A CRL lists only what is revoked, and on the chain that signs it,       *)
(* however many builders run.                                              *)
THEOREM ListsAreTrue == Spec => []ListedIsRevoked
<1>1. IInv => ListedIsRevoked
  BY DEF IInv
<1> QED
  BY <1>1, Inductive, PTL

-----------------------------------------------------------------------------
\* A step that touches no revocation: what each call owes stays as it is.
LEMMA RevocationsKept ==
  ASSUME IInv, SInv, UNCHANGED <<revokeRecs, succeeded>>,
         \A s \in Serials : certs'[s] = "revoked" <=> certs[s] = "revoked",
         \A a \in Issuers \cup Revokers :
             /\ Marked(a)' => Marked(a)
             /\ pc[a] \in {"revokeRecord", "crashed", "failed"} =>
                    pc'[a] \in {pc[a], "crashed"} /\ target'[a] = target[a],
         \A i \in Issuers : stuck[i] \subseteq stuck'[i]
  PROVE  SInv'
<1>1. \A p \in succeeded : p[2] \in Serials
  BY DEF IInv, TypeOK
<1>2. ASSUME NEW p \in succeeded, NEW a \in Issuers \cup Revokers, Marked(a)'
      PROVE  target'[a] # p[2]
  BY <1>2 DEF SInv, Marked
<1>3. ASSUME NEW s \in Serials, certs'[s] = "revoked", s \notin revokeRecs
      PROVE  \E a \in Issuers \cup Revokers : WithoutRecord(a, s)'
  <2>1. PICK a \in Issuers \cup Revokers : WithoutRecord(a, s)
    BY <1>3 DEF SInv, OneRevocationAnswered
  <2> QED
    BY <2>1 DEF WithoutRecord
<1>4. OneRevocationAnswered'
  BY <1>1, <1>3 DEF SInv, OneRevocationAnswered
<1> QED
  BY <1>2, <1>4 DEF SInv

\* How the end of a revocation that fails leaves what each call owes.
LEMMA RevocationFailed ==
  ASSUME IInv, SInv, NEW a \in Issuers \cup Revokers, Returned(a, FALSE),
         pc[a] \in {"revoke", "revokeRecord"},
         target' = target, revokeRecs \subseteq revokeRecs',
         \A s \in Serials : certs[s] = "revoked" => certs'[s] = "revoked",
         \A s \in Serials : certs'[s] = "revoked" => certs[s] = "revoked" \/ s = target[a]
  PROVE  SInv'
<1> USE CallsAreDisjoint
<1>1. succeeded' = succeeded /\ \A p \in succeeded : p[2] \in Serials
  BY DEF IInv, TypeOK, Returned
<1>2. WithoutRecord(a, target[a])'
  BY DEF IInv, TypeOK, Returned, WithoutRecord
<1>3. ASSUME NEW b \in Issuers \cup Revokers, b # a
      PROVE  /\ pc'[b] = pc[b]
             /\ b \in Issuers => stuck'[b] = stuck[b]
  BY <1>3 DEF IInv, TypeOK, Returned
<1>4. ASSUME NEW p \in succeeded, NEW b \in Issuers \cup Revokers, Marked(b)'
      PROVE  target'[b] # p[2]
  <2>1. b # a
    BY <1>4 DEF IInv, TypeOK, Returned, Marked
  <2> QED
    BY <1>3, <1>4, <2>1 DEF SInv, Marked
<1>5. ASSUME NEW s \in Serials, certs'[s] = "revoked", s \notin revokeRecs'
      PROVE  \E b \in Issuers \cup Revokers : WithoutRecord(b, s)'
  <2>1. CASE s = target[a]
    BY <1>2, <2>1
  <2>2. CASE s # target[a]
    <3>1. PICK b \in Issuers \cup Revokers : WithoutRecord(b, s)
      BY <1>5, <2>2 DEF SInv, OneRevocationAnswered
    <3>2. CASE b # a
      BY <1>3, <3>1, <3>2 DEF WithoutRecord
    <3>3. CASE b = a
      <4>1. a \in Issuers /\ s \in stuck[a]
        BY <2>2, <3>1, <3>3 DEF WithoutRecord
      <4>2. s \in stuck'[a]
        BY <4>1 DEF Returned
      <4> QED
        BY <4>1, <4>2 DEF WithoutRecord
    <3> QED
      BY <3>2, <3>3
  <2> QED
    BY <2>1, <2>2
<1>6. OneRevocationAnswered'
  BY <1>1, <1>5 DEF SInv, OneRevocationAnswered
<1> QED
  BY <1>1, <1>4, <1>6 DEF SInv

\* No step lets two revocations of one certificate succeed, or forgets who
\* owes a record.
LEMMA NextSInv == ASSUME IInv, SInv, [Next]_vars PROVE SInv'
<1> USE CallsAreDisjoint DEF Goto, issueVars, crlVars
<1>1. ASSUME NEW i \in Issuers,
             \/ StartIssue(i) \/ RecordIssue(i) \/ RecordIssueFails(i)
             \/ RevokeNext(i) \/ ReportFailure(i)
      PROVE  SInv'
  <2>1. UNCHANGED <<certs, revokeRecs, succeeded, stuck>>
    BY <1>1 DEF StartIssue, RecordIssue, RecordIssueFails, RevokeNext, ReportFailure
  <2>2. ASSUME NEW a \in Issuers \cup Revokers
        PROVE  /\ Marked(a)' => Marked(a)
               /\ pc[a] \in {"revokeRecord", "crashed", "failed"} =>
                      pc'[a] \in {pc[a], "crashed"} /\ target'[a] = target[a]
    BY <1>1 DEF StartIssue, RecordIssue, RecordIssueFails, RevokeNext, ReportFailure,
       Abandon, Marked, IInv, TypeOK
  <2> QED
    BY <2>1, <2>2, RevocationsKept
<1>2. ASSUME NEW i \in Issuers, PutCert(i) \/ PutFails(i) PROVE SInv'
  <2>1. UNCHANGED <<revokeRecs, succeeded, stuck, target>>
    BY <1>2 DEF PutCert, PutFails
  <2>2. Serial(i) \in Serials /\ certs[Serial(i)] = "none"
    BY <1>2, SerialFits, SerialsOwned DEF PutCert, PutFails, IInv, IssuedInOrder
  <2>3. certs' = certs \/ certs' = [certs EXCEPT ![Serial(i)] = "valid"]
    BY <1>2 DEF PutCert, PutFails
  <2>4. \A s \in Serials : certs'[s] = "revoked" <=> certs[s] = "revoked"
    BY <2>2, <2>3 DEF IInv, TypeOK
  <2>5. ASSUME NEW a \in Issuers \cup Revokers
        PROVE  /\ Marked(a)' => Marked(a)
               /\ pc[a] \in {"revokeRecord", "crashed", "failed"} => pc'[a] = pc[a]
    BY <1>2 DEF PutCert, PutFails, Abandon, Marked, IInv, TypeOK
  <2> QED
    BY <2>1, <2>4, <2>5, RevocationsKept
<1>3. ASSUME NEW r \in Revokers, StartRevoke(r) PROVE SInv'
  <2>1. UNCHANGED <<certs, revokeRecs, succeeded, stuck>>
    BY <1>3 DEF StartRevoke
  <2>2. ASSUME NEW a \in Issuers \cup Revokers
        PROVE  /\ Marked(a)' => Marked(a)
               /\ pc[a] \in {"revokeRecord", "crashed", "failed"} =>
                      pc'[a] = pc[a] /\ target'[a] = target[a]
    BY <1>3 DEF StartRevoke, Marked, IInv, TypeOK
  <2> QED
    BY <2>1, <2>2, RevocationsKept
<1>4. ASSUME NEW a \in Issuers \cup Revokers, MarkRevoked(a) PROVE SInv'
  <2>1. /\ UNCHANGED <<revokeRecs, succeeded, stuck, target>>
        /\ target[a] \in Serials /\ certs[target[a]] = "valid"
        /\ certs' = [certs EXCEPT ![target[a]] = "revoked"]
        /\ pc[a] = "revoke" /\ pc' = [pc EXCEPT ![a] = "revokeRecord"]
    BY <1>4, SerialsOwned DEF MarkRevoked, IInv, TargetsFit, TypeOK
  <2>2. pc'[a] = "revokeRecord" /\ \A b \in Issuers \cup Revokers : b # a => pc'[b] = pc[b]
    BY <2>1 DEF IInv, TypeOK
  <2>3. \A p \in succeeded : p[2] \in Serials /\ certs[p[2]] = "revoked"
    BY DEF SInv, OneRevocationAnswered, IInv, TypeOK
  <2>4. \A s \in Serials : certs'[s] = IF s = target[a] THEN "revoked" ELSE certs[s]
    BY <2>1 DEF IInv, TypeOK
  <2>5. ASSUME NEW p \in succeeded, NEW b \in Issuers \cup Revokers, Marked(b)'
        PROVE  target'[b] # p[2]
    <3>1. CASE b = a
      BY <2>1, <2>3, <3>1
    <3>2. CASE b # a
      BY <2>1, <2>2, <2>5, <3>2 DEF SInv, Marked
    <3> QED
      BY <3>1, <3>2
  <2>6. ASSUME NEW s \in Serials, certs'[s] = "revoked", s \notin revokeRecs
        PROVE  \E b \in Issuers \cup Revokers : WithoutRecord(b, s)'
    <3>1. CASE s = target[a]
      BY <2>1, <2>2, <3>1 DEF WithoutRecord
    <3>2. CASE s # target[a]
      <4>1. PICK b \in Issuers \cup Revokers : WithoutRecord(b, s)
        BY <2>4, <2>6, <3>2 DEF SInv, OneRevocationAnswered
      <4> QED
        BY <2>1, <2>2, <3>2, <4>1 DEF WithoutRecord
    <3> QED
      BY <3>1, <3>2
  <2>7. OneRevocationAnswered'
    BY <2>1, <2>3, <2>4, <2>6 DEF SInv, OneRevocationAnswered
  <2> QED
    BY <2>1, <2>5, <2>7 DEF SInv
<1>5. ASSUME NEW a \in Issuers \cup Revokers, RevokeFails(a) PROVE SInv'
  <2>1. Returned(a, FALSE)
    BY <1>5, ReturnSteps DEF RevokeFails
  <2>2. \A s \in Serials :
            /\ certs[s] = "revoked" => certs'[s] = "revoked"
            /\ certs'[s] = "revoked" => certs[s] = "revoked" \/ s = target[a]
    BY <1>5 DEF RevokeFails, IInv, TypeOK
  <2> QED
    BY <1>5, <2>1, <2>2, RevocationFailed DEF RevokeFails
<1>6. ASSUME NEW a \in Issuers \cup Revokers, RecordRevokeFails(a) PROVE SInv'
  <2>1. Returned(a, FALSE)
    BY <1>6, ReturnSteps DEF RecordRevokeFails
  <2> QED
    BY <1>6, <2>1, RevocationFailed DEF RecordRevokeFails
<1>7. ASSUME NEW a \in Issuers \cup Revokers, RecordRevoke(a) PROVE SInv'
  <2>1. Returned(a, TRUE)
    BY <1>7, ReturnSteps DEF RecordRevoke
  <2>2. /\ UNCHANGED <<certs, target>> /\ revokeRecs' = revokeRecs \cup {target[a]}
        /\ succeeded' = succeeded \cup {<<a, target[a]>>} /\ stuck' = stuck
        /\ Marked(a) /\ target[a] \in Serials /\ certs[target[a]] = "revoked"
    <3>1. UNCHANGED <<certs, target>> /\ revokeRecs' = revokeRecs \cup {target[a]} /\ Marked(a)
      BY <1>7 DEF RecordRevoke, Marked
    <3>2. succeeded' = succeeded \cup {<<a, target[a]>>}
      BY <2>1 DEF Returned
    <3>3. target[a] \in Serials /\ certs[target[a]] = "revoked"
      BY <3>1, SerialsOwned DEF IInv, TargetsFit, MarkedOnce, Marked, TypeOK
    <3>4. stuck' = stuck
      BY <2>1 DEF Returned, IInv, TypeOK
    <3> QED
      BY <3>1, <3>2, <3>3, <3>4
  <2>3. /\ \A b \in Issuers \cup Revokers : b # a => pc'[b] = pc[b]
        /\ pc'[a] # "revokeRecord"
    BY <2>1 DEF Returned, IInv, TypeOK
  <2>4. \A p \in succeeded : p[2] # target[a]
    BY <2>2 DEF SInv
  <2>5. ASSUME NEW p \in succeeded', NEW b \in Issuers \cup Revokers, Marked(b)'
        PROVE  target'[b] # p[2]
    <3>1. b # a /\ Marked(b) /\ target'[b] = target[b]
      BY <2>2, <2>3, <2>5 DEF Marked
    <3>2. target[b] # target[a]
      BY <2>2, <3>1 DEF IInv, MarkedOnce
    <3> QED
      BY <2>2, <3>1, <3>2 DEF SInv
  <2>6. ASSUME NEW s \in Serials, certs'[s] = "revoked", s \notin revokeRecs'
        PROVE  \E b \in Issuers \cup Revokers : WithoutRecord(b, s)'
    <3>1. PICK b \in Issuers \cup Revokers : WithoutRecord(b, s)
      BY <2>2, <2>6 DEF SInv, OneRevocationAnswered
    <3>2. s # target[a]
      BY <2>2, <2>6
    <3> QED
      BY <2>2, <2>3, <3>1, <3>2 DEF WithoutRecord
  <2>7. /\ \A p, q \in succeeded' : p[2] = q[2] => p = q
        /\ \A p \in succeeded' : certs'[p[2]] = "revoked" /\ p[2] \in revokeRecs'
    BY <2>2, <2>4 DEF SInv, OneRevocationAnswered
  <2>8. OneRevocationAnswered'
    BY <2>6, <2>7 DEF OneRevocationAnswered
  <2> QED
    BY <2>5, <2>8 DEF SInv
<1>8. ASSUME NEW b \in Builders,
             ScanRevoked(b) \/ NextNumber(b) \/ Publish(b) \/ BuildFails(b)
      PROVE  SInv'
  <2>1. UNCHANGED <<certs, revokeRecs, succeeded, stuck, target>>
    BY <1>8 DEF ScanRevoked, NextNumber, Publish, BuildFails
  <2>2. \A a \in Issuers \cup Revokers : pc'[a] = pc[a]
    BY <1>8 DEF ScanRevoked, NextNumber, Publish, BuildFails, Rest, IInv, TypeOK
  <2> QED
    BY <2>1, <2>2, RevocationsKept DEF Marked
<1>9. ASSUME NEW a \in Issuers \cup Revokers, Crash(a) PROVE SInv'
  <2>1. UNCHANGED <<certs, revokeRecs, succeeded, stuck, target>>
    BY <1>9 DEF Crash
  <2>2. \A b \in Issuers \cup Revokers : pc'[b] \in {pc[b], "crashed"}
    BY <1>9 DEF Crash, IInv, TypeOK
  <2> QED
    BY <2>1, <2>2, RevocationsKept DEF Marked
<1>10. CASE UNCHANGED vars
  <2>1. UNCHANGED <<certs, revokeRecs, succeeded, stuck, target, pc>>
    BY <1>10 DEF vars
  <2> QED
    BY <2>1, RevocationsKept DEF Marked
<1> QED
  BY <1>1, <1>2, <1>3, <1>4, <1>5, <1>6, <1>7, <1>8, <1>9, <1>10 DEF Next

(* However many calls revoke a certificate, abandonIssued's included, one  *)
(* is told that it did, and then the certificate is revoked and its record *)
(* stored; a revoked certificate without a record is owed to a call that   *)
(* has not succeeded (issue.go:281).                                       *)
THEOREM RevokedOnce == Spec => []OneRevocationAnswered
<1>1. Init => SInv
  BY DEF Init, SInv, OneRevocationAnswered
<1>2. IInv /\ SInv /\ [Next]_vars => SInv'
  BY NextSInv
<1>3. SInv => OneRevocationAnswered
  BY DEF SInv
<1> QED
  BY <1>1, <1>2, <1>3, Inductive, PTL DEF Spec

-----------------------------------------------------------------------------
\* Only a builder changes what DraftsNewer is about.
LEMMA NextGInv == ASSUME IInv, GInv, [Next]_vars PROVE GInv'
<1> USE CallsAreDisjoint DEF Goto, issueVars, crlVars
<1>0. /\ crlNumber \in Nat
      /\ \A l \in crls : l.num \in Nat /\ l.after \in SUBSET Nat
      /\ \A b \in Builders : draft[b] \in DraftType /\ draft[b].num \in Nat
      /\ Numbers \subseteq Nat
  BY DEF IInv, TypeOK, DraftType, CRLType, Numbers
<1>1. ASSUME NEW b \in Builders, ScanRevoked(b) PROVE GInv'
  <2>1. PICK c \in Chains : draft' = [draft EXCEPT ![b] =
            [chain |-> c, listed |-> Revoked(c), num |-> 0, after |-> Numbers]]
    BY <1>1 DEF ScanRevoked
  <2>2. /\ draft'[b].chain = c /\ draft'[b].listed = Revoked(c) /\ draft'[b].after = Numbers
        /\ \A d \in Builders : d # b => draft'[d] = draft[d]
    BY <2>1 DEF IInv, TypeOK
  <2>3. /\ pc'[b] = "number" /\ \A d \in Builders : d # b => pc'[d] = pc[d]
        /\ crls' = crls /\ crlNumber' = crlNumber /\ Numbers' = Numbers
    BY <1>1 DEF ScanRevoked, IInv, TypeOK, Numbers
  <2>4. \A l \in crls : l.chain = c => l.listed \subseteq Revoked(c)
    BY DEF IInv, TypeOK, ListedIsRevoked, Revoked, OfChain
  <2>5. ASSUME NEW d \in Builders PROVE draft'[d].after \subseteq Numbers
    BY <2>2 DEF GInv, DraftsNewer
  <2>6. ASSUME NEW d \in Builders, pc'[d] \in {"number", "publish"},
               NEW l \in crls, l.num \in draft'[d].after, l.chain = draft'[d].chain
        PROVE  l.listed \subseteq draft'[d].listed
    BY <2>2, <2>3, <2>4, <2>6 DEF GInv, DraftsNewer
  <2>7. ASSUME NEW d \in Builders, pc'[d] = "publish"
        PROVE  d # b /\ pc[d] = "publish" /\ draft'[d] = draft[d]
    BY <2>2, <2>3, <2>7
  <2>8. DraftsNewer'
    BY <2>3, <2>5, <2>6, <2>7 DEF GInv, DraftsNewer
  <2> QED
    BY <2>3, <2>8 DEF GInv, CRLsGrow
<1>2. ASSUME NEW b \in Builders, NextNumber(b) PROVE GInv'
  <2>1. /\ crlNumber' = crlNumber + 1 /\ crls' = crls /\ Numbers' = Numbers
        /\ pc[b] = "number" /\ pc'[b] = "publish"
        /\ \A d \in Builders : d # b => pc'[d] = pc[d] /\ draft'[d] = draft[d]
        /\ draft'[b] = [draft[b] EXCEPT !.num = crlNumber + 1]
    BY <1>2 DEF NextNumber, IInv, TypeOK, Numbers
  <2>2. /\ draft'[b].num = crlNumber + 1 /\ draft'[b].chain = draft[b].chain
        /\ draft'[b].listed = draft[b].listed /\ draft'[b].after = draft[b].after
    BY <1>0, <2>1 DEF DraftType
  <2>3. \A n \in Numbers : n <= crlNumber
    BY DEF GInv, DraftsNewer, Numbers
  <2>4. ASSUME NEW d \in Builders PROVE draft'[d].after \subseteq Numbers
    BY <2>1, <2>2 DEF GInv, DraftsNewer
  <2>5. ASSUME NEW d \in Builders, pc'[d] \in {"number", "publish"},
               NEW l \in crls, l.num \in draft'[d].after, l.chain = draft'[d].chain
        PROVE  l.listed \subseteq draft'[d].listed
    BY <2>1, <2>2, <2>5 DEF GInv, DraftsNewer
  <2>6. ASSUME NEW d \in Builders, pc'[d] = "publish"
        PROVE  /\ draft'[d].num <= crlNumber + 1
               /\ draft'[d].num \notin Numbers
               /\ \A n \in draft'[d].after : n < draft'[d].num
               /\ \A e \in Builders : pc'[e] = "publish" /\ draft'[e].num = draft'[d].num
                      => d = e
    <3>1. \A e \in Builders : e # b /\ pc'[e] = "publish" =>
              draft'[e].num \in Nat /\ draft'[e].num <= crlNumber
      BY <1>0, <2>1 DEF GInv, DraftsNewer
    <3>2. CASE d = b
      <4>1. \A n \in draft[b].after : n \in Nat /\ n <= crlNumber
        BY <1>0, <2>3 DEF GInv, DraftsNewer
      <4>2. draft'[d].num \notin Numbers
        BY <1>0, <2>2, <2>3, <3>2
      <4>3. \A n \in draft'[d].after : n < draft'[d].num
        BY <1>0, <2>2, <3>2, <4>1
      <4>4. \A e \in Builders : e # b /\ pc'[e] = "publish" => draft'[e].num # draft'[d].num
        <5>1. draft'[d].num = crlNumber + 1
          BY <2>2, <3>2
        <5> QED
          BY <1>0, <3>1, <5>1
      <4> QED
        BY <1>0, <2>2, <3>2, <4>2, <4>3, <4>4
    <3>3. CASE d # b
      <4>1. draft'[d] = draft[d] /\ pc[d] = "publish" /\ draft[d].num <= crlNumber
        BY <2>1, <2>6, <3>1, <3>3
      <4>2. draft[d].num # draft'[b].num
        BY <1>0, <2>2, <4>1
      <4>3. ASSUME NEW e \in Builders, pc'[e] = "publish", draft'[e].num = draft'[d].num
            PROVE  d = e
        <5>1. e # b
          BY <4>1, <4>2, <4>3
        <5>2. pc[e] = "publish" /\ draft'[e] = draft[e]
          BY <2>1, <4>3, <5>1
        <5> QED
          BY <4>1, <4>3, <5>2 DEF GInv, DraftsNewer
      <4>4. draft[d].num <= crlNumber + 1
        BY <1>0, <4>1
      <4>5. draft[d].num \notin Numbers /\ \A n \in draft[d].after : n < draft[d].num
        BY <4>1 DEF GInv, DraftsNewer
      <4> QED
        BY <4>1, <4>3, <4>4, <4>5
    <3> QED
      BY <3>2, <3>3
  <2>7. \A l \in crls : l.num <= crlNumber + 1 /\ l.after \subseteq Numbers
    BY <1>0 DEF GInv, DraftsNewer
  <2>8. DraftsNewer'
    BY <2>1, <2>4, <2>5, <2>6, <2>7 DEF DraftsNewer
  <2> QED
    BY <2>1, <2>8 DEF GInv, CRLsGrow
<1>3. ASSUME NEW b \in Builders, Publish(b) PROVE GInv'
  <2>1. /\ crls' = crls \cup {draft[b]} /\ crlNumber' = crlNumber
        /\ pc[b] = "publish" /\ pc'[b] = "idle" /\ draft'[b] = NoDraft
        /\ \A d \in Builders : d # b => pc'[d] = pc[d] /\ draft'[d] = draft[d]
    BY <1>3 DEF Publish, Rest, IInv, TypeOK
  <2>2. Numbers' = Numbers \cup {draft[b].num}
    BY <2>1 DEF Numbers
  <2>3. /\ draft[b].num <= crlNumber /\ draft[b].num \notin Numbers
        /\ draft[b].after \subseteq Numbers
        /\ \A n \in draft[b].after : n < draft[b].num
    BY <2>1 DEF GInv, DraftsNewer
  <2>4. ASSUME NEW d \in Builders PROVE draft'[d].after \subseteq Numbers
    BY <2>1 DEF GInv, DraftsNewer, NoDraft
  <2>5. ASSUME NEW d \in Builders, pc'[d] \in {"number", "publish"},
               NEW l \in crls', l.num \in draft'[d].after, l.chain = draft'[d].chain
        PROVE  l.listed \subseteq draft'[d].listed
    <3>1. d # b /\ draft'[d] = draft[d] /\ pc[d] \in {"number", "publish"}
      BY <2>1, <2>5
    <3>2. l \in crls
      BY <2>1, <2>3, <2>4, <2>5
    <3> QED
      BY <2>5, <3>1, <3>2 DEF GInv, DraftsNewer
  <2>6. ASSUME NEW d \in Builders, pc'[d] = "publish"
        PROVE  /\ draft'[d].num <= crlNumber
               /\ draft'[d].num \notin Numbers'
               /\ \A n \in draft'[d].after : n < draft'[d].num
               /\ \A e \in Builders : pc'[e] = "publish" /\ draft'[e].num = draft'[d].num
                      => d = e
    <3>1. d # b /\ draft'[d] = draft[d] /\ pc[d] = "publish"
      BY <2>1, <2>6
    <3>2. draft[d].num # draft[b].num
      BY <2>1, <3>1 DEF GInv, DraftsNewer
    <3>3. \A e \in Builders : pc'[e] = "publish" =>
              pc[e] = "publish" /\ draft'[e] = draft[e]
      BY <2>1
    <3> QED
      BY <2>2, <3>1, <3>2, <3>3 DEF GInv, DraftsNewer
  <2>7. \A l \in crls' : l.num <= crlNumber /\ l.after \subseteq Numbers'
    BY <2>1, <2>2, <2>3 DEF GInv, DraftsNewer
  <2>8. DraftsNewer'
    BY <2>1, <2>2, <2>4, <2>5, <2>6, <2>7 DEF DraftsNewer
  <2>9. CRLsGrow'
    <3> SUFFICES ASSUME NEW x \in crls', NEW y \in crls',
                        x.chain = y.chain, x.num \in y.after
                 PROVE  x.num < y.num /\ x.listed \subseteq y.listed
      BY DEF CRLsGrow
    <3>1. y.after \subseteq Numbers
      BY <2>1, <2>3 DEF GInv, DraftsNewer
    <3>2. x \in crls
      BY <2>1, <2>3, <3>1
    <3>3. CASE y \in crls
      BY <3>2, <3>3 DEF GInv, CRLsGrow
    <3>4. CASE y = draft[b]
      <4>1. x.num < draft[b].num
        BY <2>3, <3>4
      <4>2. x.listed \subseteq draft[b].listed
        BY <2>1, <3>2, <3>4 DEF GInv, DraftsNewer
      <4> QED
        BY <3>4, <4>1, <4>2
    <3> QED
      BY <2>1, <3>3, <3>4
  <2> QED
    BY <2>8, <2>9 DEF GInv
<1>4. ASSUME NEW b \in Builders, BuildFails(b) PROVE GInv'
  <2>1. /\ crls' = crls /\ crlNumber' = crlNumber /\ Numbers' = Numbers
        /\ pc'[b] = "idle" /\ draft'[b] = NoDraft
        /\ \A d \in Builders : d # b => pc'[d] = pc[d] /\ draft'[d] = draft[d]
    BY <1>4 DEF BuildFails, Rest, IInv, TypeOK, Numbers
  <2>2. \A d \in Builders : pc'[d] \in {"number", "publish"} =>
            d # b /\ pc'[d] = pc[d] /\ draft'[d] = draft[d]
    BY <2>1
  <2>3. \A d \in Builders : draft'[d].after \subseteq Numbers
    BY <2>1 DEF GInv, DraftsNewer, NoDraft
  <2> QED
    BY <2>1, <2>2, <2>3 DEF GInv, DraftsNewer, CRLsGrow
<1>5. ASSUME UNCHANGED crlVars, \A b \in Builders : pc'[b] = pc[b] PROVE GInv'
  BY <1>5 DEF GInv, DraftsNewer, CRLsGrow, Numbers
<1>6. ASSUME NEW i \in Issuers,
             \/ StartIssue(i) \/ PutCert(i) \/ PutFails(i) \/ RecordIssue(i)
             \/ RecordIssueFails(i) \/ RevokeNext(i) \/ ReportFailure(i)
      PROVE  GInv'
  <2>1. UNCHANGED crlVars /\ \A b \in Builders : pc'[b] = pc[b]
    BY <1>6 DEF IInv, TypeOK, StartIssue, PutCert, PutFails, RecordIssue,
       RecordIssueFails, RevokeNext, ReportFailure, Abandon
  <2> QED
    BY <1>5, <2>1
<1>7. ASSUME NEW a \in Issuers \cup Revokers,
             \/ a \in Revokers /\ StartRevoke(a)
             \/ MarkRevoked(a) \/ RevokeFails(a) \/ RecordRevoke(a) \/ RecordRevokeFails(a)
             \/ Crash(a)
      PROVE  GInv'
  <2>1. UNCHANGED crlVars /\ \A b \in Builders : pc'[b] = pc[b]
    BY <1>7 DEF IInv, TypeOK, StartRevoke, MarkRevoked, RevokeFails, RecordRevoke,
       RecordRevokeFails, Crash, Return
  <2> QED
    BY <1>5, <2>1
<1>8. CASE UNCHANGED vars
  BY <1>8 DEF vars, GInv, DraftsNewer, CRLsGrow, Numbers
<1> QED
  BY <1>1, <1>2, <1>3, <1>4, <1>6, <1>7, <1>8 DEF Next

(* However many builders overlap, a CRL that is built after another was    *)
(* returned has a higher number and loses none of its entries              *)
(* (issue.go:331).                                                         *)
THEOREM CRLsComplete == Spec => []CRLsSound
<1>1. Init => GInv
  BY DEF Init, GInv, DraftsNewer, CRLsGrow, NoDraft
<1>2. IInv /\ GInv /\ [Next]_vars => GInv'
  BY NextGInv
<1>3. IInv /\ GInv => CRLsSound
  BY DEF IInv, GInv, CRLsSound
<1> QED
  BY <1>1, <1>2, <1>3, Inductive, PTL DEF Spec
==============================================================================
