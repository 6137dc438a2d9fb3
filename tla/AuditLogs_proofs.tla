-------------------------- MODULE AuditLogs_proofs --------------------------
(***************************************************************************)
(* Proofs about the two audit logs.                                        *)
(*                                                                         *)
(* The log in the store, AuditChain: no stored record is ever overwritten, *)
(* the records of all replicas form one chain, an answered append is       *)
(* stored, VerifyStore tells losses and races and only them, and the chain *)
(* implements the abstract audit trail.                                    *)
(*                                                                         *)
(* The log in a file, AuditFile: crashes and losses of power never break   *)
(* the chain, an answered record survives them, and what is synced         *)
(* implements the same trail.                                              *)
(***************************************************************************)
EXTENDS AuditChain, AuditFile, SequenceTheorems, TLAPS

\* r is the record of history h at its own sequence number.
On(r, h) ==
    /\ r.seq \in 1..Len(h)
    /\ Len(r.prev) = r.seq - 1
    /\ \A i \in 1..r.seq - 1 : r.prev[i] = h[i]
    /\ r.by = h[r.seq]

Putting(w) == pc[w] \in {"genesis", "put"}

\* The head counts its own history.
HeadCounts == head # None => head.seq = Len(head.hash) /\ head.seq \in Seqs

\* Before genesis there is nothing but replicas that create the head.
NothingBeforeGenesis ==
    /\ head = None => /\ Stored = {}
                      /\ \A w \in Writers : pc[w] \in {"closed", "creating"}
    /\ \A w \in Writers : pc[w] = "creating" => sealed[w] = GenesisRecord(w)

\* r is a genesis record, or the one that history h has at its number.
Chained(r, h) ==
    /\ r.seq = 1 => r.prev = <<>>
    /\ Once(r.seq) => On(r, h)

\* The records that are stored are chained.
StoredOnChain ==
    \A n \in Stored : records[n].seq = n /\ Chained(records[n], head.hash)

\* So are the sealed ones, each under a number that the head has handed out;
\* nobody else holds it and nothing is stored at it.
SealedOnChain ==
    /\ \A w \in Writers : Putting(w) => /\ sealed[w] \in Record
                                        /\ sealed[w].seq \in 1..head.seq
                                        /\ Chained(sealed[w], head.hash)
                                        /\ Once(sealed[w].seq) => sealed[w].seq \notin Stored
    /\ \A v, w \in Writers :
            Putting(v) /\ Putting(w) /\ sealed[v].seq = sealed[w].seq /\ Once(sealed[w].seq)
                => v = w

CInv ==
    /\ TypeOK
    /\ HeadCounts
    /\ NothingBeforeGenesis
    /\ StoredOnChain
    /\ SealedOnChain
    /\ AnsweredIsStored

-----------------------------------------------------------------------------
\* Appending to a history keeps the records that are on it.
LEMMA OnAppend ==
  ASSUME NEW h \in Seq(Writers), NEW w \in Writers, NEW r \in Record, On(r, h)
  PROVE  On(r, Append(h, w))
<1>1. /\ Len(Append(h, w)) = Len(h) + 1
      /\ \A i \in 1..Len(h) : Append(h, w)[i] = h[i]
  BY AppendProperties
<1> QED
  BY <1>1 DEF On, Record

\* The record sealed on a history is on the history it extends it to.
LEMMA OnSealed ==
  ASSUME NEW h \in Seq(Writers), NEW w \in Writers, NEW r \in Record,
         r.seq = Len(h) + 1, r.prev = h, r.by = w
  PROVE  On(r, Append(h, w))
<1>1. /\ Len(Append(h, w)) = Len(h) + 1
      /\ \A i \in 1..Len(h) : Append(h, w)[i] = h[i]
      /\ Append(h, w)[Len(h) + 1] = w
  BY AppendProperties
<1> QED
  BY <1>1 DEF On, Record

\* Two neighbours on one history are linked by the chained hash.
LEMMA OnLinked ==
  ASSUME NEW h \in Seq(Writers), NEW q \in Record, NEW r \in Record,
         On(q, h), On(r, h), r.seq = q.seq + 1
  PROVE  r.prev = HashOf(q)
<1>0. q.prev \in Seq(Writers) /\ q.by \in Writers
  BY DEF Record
<1>1. /\ HashOf(q) \in Seq(Writers)
      /\ Len(HashOf(q)) = Len(q.prev) + 1
      /\ \A i \in 1..Len(q.prev) : HashOf(q)[i] = q.prev[i]
      /\ HashOf(q)[Len(q.prev) + 1] = q.by
  BY <1>0, AppendProperties DEF HashOf
<1>2. r.prev \in Seq(Writers) /\ q.seq \in Nat /\ r.seq \in Nat
  BY DEF Record
<1>3. Len(r.prev) = Len(HashOf(q))
  BY <1>1, <1>2 DEF On
<1>4. ASSUME NEW i \in 1..Len(r.prev) PROVE r.prev[i] = HashOf(q)[i]
  <2>1. i \in Nat /\ i <= q.seq /\ q.seq = Len(q.prev) + 1 /\ 1 <= i
    BY <1>2 DEF On
  <2>2. r.prev[i] = h[i]
    BY <1>2, <2>1 DEF On
  <2>3. CASE i = q.seq
    BY <1>1, <2>1, <2>2, <2>3 DEF On
  <2>4. CASE i # q.seq
    <3>1. i \in 1..q.seq - 1 /\ i \in 1..Len(q.prev)
      BY <1>2, <2>1, <2>4
    <3> QED
      BY <1>1, <2>2, <3>1 DEF On
  <2> QED
    BY <2>3, <2>4
<1> QED
  BY <1>1, <1>2, <1>3, <1>4, SeqEqual

\* The newest record on a history hashes to the history.
LEMMA OnNewest ==
  ASSUME NEW h \in Seq(Writers), NEW q \in Record, On(q, h), q.seq = Len(h)
  PROVE  h = HashOf(q)
<1>0. q.prev \in Seq(Writers) /\ q.by \in Writers
  BY DEF Record
<1>1. /\ HashOf(q) \in Seq(Writers)
      /\ Len(HashOf(q)) = Len(q.prev) + 1
      /\ \A i \in 1..Len(q.prev) : HashOf(q)[i] = q.prev[i]
      /\ HashOf(q)[Len(q.prev) + 1] = q.by
  BY <1>0, AppendProperties DEF HashOf
<1>2. Len(h) \in Nat /\ Len(h) = Len(q.prev) + 1 /\ Len(q.prev) \in Nat
  BY <1>0 DEF On
<1>3. ASSUME NEW i \in 1..Len(h) PROVE h[i] = HashOf(q)[i]
  <2>1. CASE i = Len(h)
    BY <1>1, <1>2, <2>1 DEF On
  <2>2. CASE i # Len(h)
    <3>1. i \in 1..q.seq - 1 /\ i \in 1..Len(q.prev)
      BY <1>2, <2>2
    <3> QED
      BY <1>1, <3>1 DEF On
  <2> QED
    BY <2>1, <2>2
<1> QED
  BY <1>1, <1>2, <1>3, SeqEqual

-----------------------------------------------------------------------------
\* CInv holds of the store before anybody opens a log in it.
LEMMA InitCInv == Init => CInv
  BY DEF Init, CInv, TypeOK, HeadCounts, NothingBeforeGenesis, StoredOnChain,
     SealedOnChain, AnsweredIsStored, Stored, Putting

\* A genesis record is a record, whoever creates the head.
LEMMA GenesisIsRecord ==
  ASSUME NEW w \in Writers
  PROVE  /\ GenesisRecord(w) \in Record /\ GenesisRecord(w).seq = 1
         /\ GenesisRecord(w).prev = <<>> /\ GenesisRecord(w).by = w
  BY EmptySeq DEF GenesisRecord, Record

\* Every step of a writer, and of the verifier, keeps the chain.
LEMMA NextCInv == CInv /\ [Next]_vars => CInv'
<1> SUFFICES ASSUME CInv, [Next]_vars PROVE CInv'
  OBVIOUS
<1> USE MaxSeqAssumption, NoneAssumption
<1>1. ASSUME NEW w \in Writers, OpenStore(w), head = None PROVE CInv'
  <2>1. GenesisRecord(w) \in Record
    BY GenesisIsRecord
  <2>2. /\ sealed' = [sealed EXCEPT ![w] = GenesisRecord(w)]
        /\ pc' = [pc EXCEPT ![w] = "creating"]
        /\ UNCHANGED <<head, records, answered, lost, raced, scanned, verdict>>
    BY <1>1 DEF OpenStore, Goto
  <2>3. \A v \in Writers : ~Putting(v)'
    BY <1>1, <2>2 DEF Putting, CInv, TypeOK, NothingBeforeGenesis
  <2>4. TypeOK'
    BY <2>1, <2>2 DEF CInv, TypeOK
  <2>5. NothingBeforeGenesis'
    BY <1>1, <2>2 DEF CInv, TypeOK, NothingBeforeGenesis, Stored, GenesisRecord
  <2> QED
    BY <2>2, <2>3, <2>4, <2>5 DEF CInv, HeadCounts, StoredOnChain, SealedOnChain,
       Chained, Once, AnsweredIsStored, Stored
<1>8. ASSUME NEW w \in Writers, CreateHead(w), head = None PROVE CInv'
  <2> DEFINE genesis == GenesisRecord(w)
  <2>1. /\ Stored = {} /\ answered = {} /\ sealed[w] = genesis /\ pc[w] = "creating"
        /\ \A v \in Writers : pc[v] \in {"closed", "creating"}
    BY <1>8 DEF CreateHead, CInv, NothingBeforeGenesis, AnsweredIsStored
  <2>2. /\ genesis \in Record /\ genesis.seq = 1
        /\ genesis.prev = <<>> /\ genesis.by = w
    BY GenesisIsRecord
  <2> HIDE DEF genesis
  <2>3. /\ head' = [seq |-> 1, hash |-> Append(<<>>, w)]
        /\ pc' = [pc EXCEPT ![w] = "genesis"]
        /\ UNCHANGED <<records, sealed, answered, lost, raced, scanned, verdict>>
    BY <1>8, <2>1, <2>2 DEF CreateHead, HeadAt, HashOf, Goto, CInv, TypeOK
  <2>4. head'.hash = Append(<<>>, w) /\ head'.seq = 1
    BY <2>3
  <2>5. <<>> \in Seq(Writers) /\ Len(<<>>) = 0
    BY EmptySeq
  <2>6. head'.hash \in Seq(Writers) /\ Len(head'.hash) = 1
    BY <2>4, <2>5, AppendProperties
  <2>7. Chained(genesis, head'.hash)
    <3>1. genesis.seq = Len(<<>>) + 1
      BY <2>2, <2>5
    <3>2. On(genesis, Append(<<>>, w))
      BY <2>2, <2>5, <3>1, OnSealed
    <3> QED
      BY <2>2, <2>4, <3>2 DEF Chained
  <2>8. head' \in HeadDoc
    BY <2>3, <2>4, <2>6 DEF HeadDoc
  <2>9. head' # None
    BY <2>8 DEF HeadDoc
  <2>10. TypeOK'
    BY <2>3, <2>8 DEF CInv, TypeOK
  <2>11. \A v \in Writers : Putting(v)' => v = w
    BY <2>1, <2>3 DEF Putting, CInv, TypeOK
  <2>12. Stored' = {} /\ answered' = {} /\ sealed'[w] = genesis
    BY <2>1, <2>3 DEF Stored
  <2>13. HeadCounts'
    BY <2>4, <2>6 DEF HeadCounts, Seqs
  <2>14. NothingBeforeGenesis'
    BY <2>1, <2>3, <2>9 DEF NothingBeforeGenesis, CInv, TypeOK
  <2>15. StoredOnChain' /\ AnsweredIsStored'
    BY <2>12 DEF StoredOnChain, AnsweredIsStored
  <2>16. SealedOnChain'
    BY <2>2, <2>3, <2>4, <2>7, <2>11, <2>12 DEF SealedOnChain, Chained, Once
  <2> QED
    BY <2>10, <2>13, <2>14, <2>15, <2>16 DEF CInv
\* The create that loses the race: from now on the first number has two records.
<1>10. ASSUME NEW w \in Writers, CreateHead(w), head # None PROVE CInv'
  <2>1. /\ pc[w] = "creating" /\ pc' = [pc EXCEPT ![w] = "genesis"] /\ raced' = TRUE
        /\ UNCHANGED <<head, records, sealed, answered, lost, scanned, verdict>>
    BY <1>10 DEF CreateHead, Goto
  <2>2. sealed[w] = GenesisRecord(w) /\ head.seq \in Seqs
    BY <1>10, <2>1 DEF CInv, NothingBeforeGenesis, HeadCounts
  <2>3. /\ sealed[w] \in Record /\ sealed[w].seq \in 1..head.seq
        /\ sealed[w].seq = 1 /\ sealed[w].prev = <<>>
    BY <2>2, GenesisIsRecord DEF Seqs
  <2>4. \A v \in Writers : Putting(v)' => v = w \/ Putting(v)
    BY <2>1 DEF Putting, CInv, TypeOK
  <2>5. Stored' = Stored
    BY <2>1 DEF Stored
  <2>6. SealedOnChain'
    BY <2>1, <2>3, <2>4, <2>5 DEF CInv, SealedOnChain, Chained, Once
  <2>7. StoredOnChain'
    BY <2>1, <2>5 DEF CInv, StoredOnChain, Chained, Once
  <2> QED
    BY <1>10, <2>1, <2>2, <2>5, <2>6, <2>7 DEF CInv, TypeOK, HeadCounts,
       NothingBeforeGenesis, AnsweredIsStored
<1>9. ASSUME NEW w \in Writers, CreateFails(w) PROVE CInv'
  <2>1. /\ pc[w] = "creating" /\ pc' = [pc EXCEPT ![w] = "closed"]
        /\ sealed' = [sealed EXCEPT ![w] = None]
        /\ UNCHANGED <<head, records, answered, lost, raced, scanned, verdict>>
    BY <1>9 DEF CreateFails, Goto
  <2>2. TypeOK'
    BY <2>1 DEF CInv, TypeOK
  <2>3. \A v \in Writers : Putting(v)' => Putting(v) /\ sealed'[v] = sealed[v]
    BY <2>1 DEF Putting, CInv, TypeOK
  <2>4. NothingBeforeGenesis'
    BY <2>1 DEF CInv, TypeOK, NothingBeforeGenesis, Stored
  <2>5. Stored' = Stored
    BY <2>1 DEF Stored
  <2>6. SealedOnChain'
    BY <2>1, <2>3, <2>5 DEF CInv, SealedOnChain, Chained, Once
  <2> QED
    BY <2>1, <2>2, <2>4, <2>5, <2>6 DEF CInv, HeadCounts, StoredOnChain, Chained, Once,
       AnsweredIsStored
<1>2. ASSUME NEW w \in Writers, OpenStore(w), head # None PROVE CInv'
  BY <1>2 DEF OpenStore, Goto, CInv, TypeOK, HeadCounts, NothingBeforeGenesis,
     StoredOnChain, SealedOnChain, AnsweredIsStored, Stored, Putting, Chained, Once
<1>3. ASSUME NEW w \in Writers, Claim(w) PROVE CInv'
  <2> DEFINE next == [seq |-> head.seq + 1, prev |-> head.hash, by |-> w]
  <2>1. head # None /\ head \in HeadDoc
    BY <1>3 DEF Claim, CInv, NothingBeforeGenesis, TypeOK
  <2>2. head.hash \in Seq(Writers) /\ head.seq = Len(head.hash) /\ head.seq \in Seqs
    BY <2>1 DEF CInv, HeadCounts, HeadDoc
  <2>3. /\ head' = [seq |-> head.seq + 1, hash |-> Append(head.hash, w)]
        /\ sealed' = [sealed EXCEPT ![w] = next]
        /\ pc' = [pc EXCEPT ![w] = "put"] /\ pc[w] = "open" /\ head.seq < MaxSeq
        /\ UNCHANGED <<records, answered, lost, raced, scanned, verdict>>
    BY <1>3 DEF Claim, HeadAt, HashOf, NextRecord, Goto
  <2>4. next \in Record
    BY <2>2 DEF Record, Seqs
  <2>5. On(next, head'.hash)
    BY <2>2, <2>3, <2>4, OnSealed
  <2>6. head'.hash \in Seq(Writers) /\ Len(head'.hash) = head.seq + 1
    BY <2>2, <2>3, AppendProperties
  <2>0. head' \in HeadDoc
    BY <2>2, <2>3, <2>6 DEF HeadDoc, Seqs
  <2>7. head' # None /\ head' \in HeadDoc
    BY <2>0 DEF HeadDoc
  <2>8. TypeOK'
    BY <2>3, <2>4, <2>7 DEF CInv, TypeOK
  <2>9. HeadCounts' /\ NothingBeforeGenesis' /\ AnsweredIsStored'
    BY <2>2, <2>3, <2>6, <2>7 DEF CInv, HeadCounts, NothingBeforeGenesis,
       AnsweredIsStored, Stored, Seqs
  <2>10. ASSUME NEW r \in Record, Chained(r, head.hash) PROVE Chained(r, head'.hash)
    BY <2>2, <2>3, <2>10, OnAppend DEF Chained
  <2>11. Stored' = Stored /\ \A n \in Stored : records[n] \in Record
    BY <2>3 DEF Stored, CInv, TypeOK
  <2>12. StoredOnChain'
    BY <2>3, <2>10, <2>11 DEF StoredOnChain, CInv, Chained, Once
  <2>13. next.seq = head.seq + 1 /\ Once(next.seq)
    BY <2>2 DEF Once, Seqs
  <2>14. next.seq \notin Stored
    BY <2>2, <2>11, <2>13 DEF CInv, StoredOnChain, Chained, On, Seqs
  <2>15. \A v \in Writers : v # w =>
            sealed'[v] = sealed[v] /\ (Putting(v)' <=> Putting(v))
    BY <2>3 DEF Putting, CInv, TypeOK
  <2>16. sealed'[w] = next
    BY <2>3 DEF CInv, TypeOK
  <2>17. Chained(next, head'.hash)
    BY <2>2, <2>5 DEF Chained, Seqs
  <2>18. ASSUME NEW v \in Writers, v # w, Putting(v)'
         PROVE  /\ Putting(v) /\ sealed'[v] = sealed[v] /\ sealed[v] \in Record
                /\ sealed[v].seq \in 1..head.seq /\ Chained(sealed[v], head.hash)
                /\ Once(sealed[v].seq) => sealed[v].seq \notin Stored
    BY <2>15, <2>18 DEF SealedOnChain, CInv
  <2>19. head'.seq = head.seq + 1 /\ head.seq \in Nat
    BY <2>2, <2>3 DEF Seqs
  <2> HIDE DEF next
  <2>20. SealedOnChain'
    BY <2>3, <2>4, <2>10, <2>11, <2>13, <2>14, <2>16, <2>17, <2>18, <2>19
       DEF SealedOnChain, CInv, Chained, Once
  <2> QED
    BY <2>8, <2>9, <2>12, <2>20 DEF CInv
<1>4. ASSUME NEW w \in Writers, PutRecord(w) \/ PutFails(w) PROVE CInv'
  <2> DEFINE r == sealed[w]
  <2>1. /\ Putting(w) /\ r \in Record /\ r.seq \in Seqs /\ Chained(r, head.hash)
        /\ Once(r.seq) => r.seq \notin Stored
        /\ head # None /\ UNCHANGED head
    <3>1. Putting(w) /\ UNCHANGED head
      BY <1>4 DEF PutRecord, PutFails, Putting
    <3>2. head # None
      BY <3>1 DEF CInv, NothingBeforeGenesis, Putting
    <3> QED
      BY <3>1, <3>2 DEF CInv, SealedOnChain, HeadCounts, Seqs
  <2>2. r # None
    BY <2>1 DEF Record
  <2>3. /\ sealed' = [sealed EXCEPT ![w] = None]
        /\ \A v \in Writers : v # w => pc'[v] = pc[v]
        /\ pc'[w] \in {"open", "closed"}
        /\ pc' \in [Writers -> {"closed", "creating", "genesis", "open", "put"}]
        /\ UNCHANGED <<raced, scanned, verdict>>
    BY <1>4 DEF PutRecord, PutFails, Forget, Goto, CInv, TypeOK
  <2>4. records' = [records EXCEPT ![r.seq] = r] \/ records' = records
    BY <1>4 DEF PutRecord, PutFails, Write
  <2>5. answered' \subseteq answered \cup {r.seq} /\ lost' \subseteq lost \cup {r.seq}
    BY <1>4 DEF PutRecord, PutFails
  <2>6. answered' # answered => records' = [records EXCEPT ![r.seq] = r]
    BY <1>4 DEF PutRecord, PutFails, Write
  <2>7. TypeOK'
    <3>1. records' \in [Seqs -> Record \cup {None}]
      BY <2>1, <2>4 DEF CInv, TypeOK
    <3>2. sealed' \in [Writers -> Record \cup {None}]
      BY <2>3 DEF CInv, TypeOK
    <3>3. answered' \subseteq Seqs /\ lost' \subseteq Seqs
      BY <2>1, <2>5 DEF CInv, TypeOK
    <3> QED
      BY <2>1, <2>3, <3>1, <3>2, <3>3 DEF CInv, TypeOK
  <2>8. /\ Stored \subseteq Stored' /\ Stored' \subseteq Stored \cup {r.seq}
        /\ r.seq \in Stored' => records'[r.seq] = r \/ records' = records
        /\ \A n \in Stored : n # r.seq => records'[n] = records[n]
        /\ answered' # answered => r.seq \in Stored'
    BY <2>1, <2>2, <2>4, <2>6 DEF Stored, CInv, TypeOK
  <2>9. \A v \in Writers : Putting(v)' =>
            /\ v # w /\ Putting(v) /\ sealed'[v] = sealed[v]
            /\ Once(sealed[v].seq) => sealed[v].seq # r.seq
    BY <2>1, <2>3 DEF Putting, CInv, TypeOK, SealedOnChain
  <2>10. StoredOnChain'
    <3> SUFFICES ASSUME NEW n \in Stored'
                 PROVE  records'[n].seq = n /\ Chained(records'[n], head.hash)
      BY <2>1, <2>3 DEF StoredOnChain, Chained, Once
    <3>1. CASE n \in Stored /\ records'[n] = records[n]
      BY <3>1 DEF StoredOnChain, CInv
    <3>2. CASE n = r.seq /\ records'[n] = r
      BY <2>1, <3>2
    <3>3. CASE n = r.seq /\ records' = records
      BY <3>3 DEF StoredOnChain, CInv, Stored
    <3> QED
      BY <2>8, <3>1, <3>2, <3>3
  <2>11. SealedOnChain'
    BY <2>1, <2>3, <2>8, <2>9 DEF SealedOnChain, CInv, Chained, Once
  <2>12. AnsweredIsStored' /\ HeadCounts' /\ NothingBeforeGenesis'
    BY <2>1, <2>3, <2>5, <2>8 DEF AnsweredIsStored, CInv, HeadCounts,
       NothingBeforeGenesis
  <2> QED
    BY <2>7, <2>10, <2>11, <2>12 DEF CInv
<1>5. ASSUME NEW w \in Writers, Restart(w) PROVE CInv'
  BY <1>5 DEF Restart, Goto, CInv, TypeOK, HeadCounts, NothingBeforeGenesis,
     StoredOnChain, SealedOnChain, AnsweredIsStored, Stored, Putting, Chained, Once
<1>6. CASE VerifyScan \/ VerifyHead \/ VerifyAgain
  <2>1. UNCHANGED logVars
    BY <1>6 DEF VerifyScan, VerifyHead, VerifyAgain, logVars
  <2>2. CInv => HeadCounts' /\ NothingBeforeGenesis' /\ StoredOnChain'
                /\ SealedOnChain' /\ AnsweredIsStored'
    BY <2>1 DEF logVars, CInv, HeadCounts, NothingBeforeGenesis, StoredOnChain,
       SealedOnChain, AnsweredIsStored, Stored, Putting, Chained, Once
  <2>3. /\ scanned' \in HeadDoc \cup {None}
        /\ verdict' \in {"none", "ok", "broken", "mismatch", "uninitialized"}
    <3>1. ASSUME NEW n \in 0..MaxSeq, ReplaysTo(n) PROVE HashUpTo(n) \in Seq(Writers)
      <4>1. CASE n = 0
        BY <4>1, EmptySeq DEF HashUpTo
      <4>2. CASE n # 0
        <5>1. n \in Stored
          BY <3>1, <4>2 DEF ReplaysTo
        <5>2. records[n] \in Record
          BY <5>1 DEF Stored, CInv, TypeOK
        <5>3. records[n].prev \in Seq(Writers) /\ records[n].by \in Writers
          BY <5>2 DEF Record
        <5> QED
          BY <4>2, <5>3, AppendProperties DEF HashUpTo, HashOf
      <4> QED
        BY <4>1, <4>2
    <3> QED
      BY <1>6, <3>1 DEF VerifyScan, VerifyHead, VerifyAgain, CInv, TypeOK, HeadDoc
  <2> QED
    BY <2>1, <2>2, <2>3 DEF logVars, CInv, TypeOK
<1>7. CASE UNCHANGED vars
  BY <1>7 DEF vars, logVars, CInv, TypeOK, HeadCounts, NothingBeforeGenesis,
     StoredOnChain, SealedOnChain, AnsweredIsStored, Stored, Putting, Chained, Once
<1> QED
  BY <1>1, <1>2, <1>3, <1>4, <1>5, <1>6, <1>7, <1>8, <1>9, <1>10 DEF Next

\* CInv holds throughout, whoever creates the log.
LEMMA Invariance == Spec => []CInv
  BY InitCInv, NextCInv, PTL DEF Spec

\* The links of the chain follow from the records being on one history.
LEMMA ChainLinked ==
  ASSUME CInv, NEW n \in Stored, Once(n)
  PROVE  /\ n + 1 \in Stored => records[n + 1].prev = HashOf(records[n])
         /\ n = head.seq => head.hash = HashOf(records[n])
<1> USE NoneAssumption
<1>1. /\ head \in HeadDoc /\ head.hash \in Seq(Writers)
      /\ head.seq = Len(head.hash) /\ n \in Nat \ {0}
  BY DEF CInv, TypeOK, HeadDoc, HeadCounts, NothingBeforeGenesis, Stored, Seqs
<1>2. ASSUME NEW m \in Stored, Once(m)
      PROVE  records[m] \in Record /\ records[m].seq = m /\ On(records[m], head.hash)
  BY <1>2 DEF CInv, TypeOK, StoredOnChain, Stored, Chained
<1>3. Once(n + 1)
  BY <1>1 DEF Once
<1>4. ASSUME n + 1 \in Stored
      PROVE  records[n + 1].prev = HashOf(records[n])
  BY <1>1, <1>2, <1>3, <1>4, OnLinked
<1>5. ASSUME n = head.seq
      PROVE  head.hash = HashOf(records[n])
  BY <1>1, <1>2, <1>5, OnNewest
<1> QED
  BY <1>4, <1>5

(* The state has its type, whatever the number of replicas and records.    *)
THEOREM TypeCorrect == Spec => []TypeOK
<1>1. CInv => TypeOK
  BY DEF CInv
<1> QED
  BY Invariance, <1>1, PTL

(* An append that was answered is stored, whoever creates the log: Log and *)
(* ensureGenesis return only after the write of the record.                *)
THEOREM AnsweredRecordsStored == Spec => []AnsweredIsStored
<1>1. CInv => AnsweredIsStored
  BY DEF CInv
<1> QED
  BY Invariance, <1>1, PTL

(* The stored records of all replicas link up, and the newest is the one   *)
(* the head document has the hash of (storelog.go, Log and ensureGenesis); *)
(* a race to create the log can only unlink the first.                     *)
THEOREM ReplicasShareOneChain == Spec => []Linked
<1>1. CInv => Linked
  BY ChainLinked DEF Linked
<1> QED
  BY Invariance, <1>1, PTL

\* A record that has its number for itself is never overwritten.
LEMMA OneRecordPerNumber ==
  ASSUME CInv, [Next]_vars, NEW n \in Stored, Once(n)
  PROVE  records'[n] = records[n]
<1>1. ASSUME NEW w \in Writers, PutRecord(w) \/ PutFails(w)
      PROVE  records'[n] = records[n]
  <2>1. n # sealed[w].seq
    BY <1>1 DEF PutRecord, PutFails, CInv, SealedOnChain, Putting
  <2> QED
    BY <1>1, <2>1 DEF PutRecord, PutFails, Write, CInv, TypeOK, Stored
<1>2. ASSUME ~ \E w \in Writers : PutRecord(w) \/ PutFails(w)
      PROVE  records' = records
  BY <1>2 DEF Next, OpenStore, CreateHead, CreateFails, Claim, Restart,
     VerifyScan, VerifyHead, VerifyAgain, logVars, vars
<1> QED
  BY <1>1, <1>2

(* No replica overwrites a record that is stored, although the write of a  *)
(* record is blind (storelog.go, Log and ensureGenesis), but the first one *)
(* after a race to create the log.                                         *)
THEOREM RecordsNeverOverwritten == Spec => RecordsKept
<1>1. CInv /\ [Next]_vars =>
        [\A n \in Seqs : records[n] # None /\ Once(n) => records'[n] = records[n]]_records
  BY OneRecordPerNumber DEF Stored
<1> QED
  BY Invariance, <1>1, PTL DEF Spec, RecordsKept

-----------------------------------------------------------------------------
(* The verdict of VerifyStore.  Every number the head has handed out is    *)
(* stored, lost, or held by a writer that may still store it; a lost one   *)
(* is never stored, if one record has the number; and what a scan has seen *)
(* stays in the store.                                                     *)

NumbersAccounted ==
    head # None => \A n \in 1..head.seq :
        n \in Stored \cup lost \/ \E w \in Writers : Putting(w) /\ sealed[w].seq = n

LossesFinal ==
    /\ head = None => lost = {}
    /\ head # None => lost \subseteq 1..head.seq
    /\ \A n \in lost : Once(n) => n \notin Stored
    /\ \A w \in Writers : Putting(w) /\ Once(sealed[w].seq) => sealed[w].seq \notin lost

ScanStays == scanned # None => 1..scanned.seq \subseteq Stored

VInv == NumbersAccounted /\ LossesFinal /\ ScanStays

\* Every step of a replica or of the verifier keeps the account.
LEMMA NextVInv ==
  ASSUME CInv, VInv, [Next]_vars
  PROVE  VInv'
<1> USE NoneAssumption
<1>0. CInv'
  BY NextCInv
<1>1. ASSUME NEW w \in Writers, OpenStore(w) \/ CreateFails(w) \/ Restart(w) PROVE VInv'
  <2>1. UNCHANGED <<head, records, lost, raced, scanned>>
    BY <1>1 DEF OpenStore, CreateFails, Restart
  <2>2. \A v \in Writers : (Putting(v)' <=> Putting(v))
                            /\ (Putting(v) => sealed'[v] = sealed[v])
    BY <1>1 DEF OpenStore, CreateFails, Restart, Putting, Goto, CInv, TypeOK
  <2>3. Stored' = Stored
    BY <2>1 DEF Stored
  <2> QED
    BY <2>1, <2>2, <2>3 DEF VInv, NumbersAccounted, LossesFinal, ScanStays, Once
<1>2. ASSUME NEW w \in Writers, CreateHead(w) PROVE VInv'
  <2>1. /\ sealed[w] = GenesisRecord(w) /\ sealed[w].seq = 1
        /\ UNCHANGED <<records, sealed, lost, scanned>>
        /\ pc[w] = "creating" /\ pc' = [pc EXCEPT ![w] = "genesis"]
    BY <1>2 DEF CreateHead, CInv, NothingBeforeGenesis, GenesisRecord, Goto
  <2>2. Stored' = Stored
    BY <2>1 DEF Stored
  <2>3. /\ Putting(w)'
        /\ \A v \in Writers : Putting(v) => Putting(v)'
        /\ \A v \in Writers : Putting(v)' => v = w \/ Putting(v)
    BY <2>1 DEF Putting, CInv, TypeOK
  <2>4. CASE head = None
    <3>1. Stored = {} /\ lost = {} /\ head'.seq = 1
      BY <1>2, <2>1, <2>4 DEF CreateHead, HeadAt, CInv, NothingBeforeGenesis, VInv, LossesFinal
    <3> QED
      BY <2>1, <2>2, <2>3, <3>1 DEF VInv, NumbersAccounted, LossesFinal, ScanStays
  <2>5. CASE head # None
    <3>1. head' = head /\ raced' = TRUE
      BY <1>2, <2>5 DEF CreateHead
    <3> QED
      BY <2>1, <2>2, <2>3, <2>5, <3>1
         DEF VInv, NumbersAccounted, LossesFinal, ScanStays, Once
  <2> QED
    BY <2>4, <2>5
<1>3. ASSUME NEW w \in Writers, Claim(w) PROVE VInv'
  <2>1. /\ head # None /\ head.seq \in Nat
        /\ head'.seq = head.seq + 1
        /\ sealed' = [sealed EXCEPT ![w] = NextRecord(w)]
        /\ pc' = [pc EXCEPT ![w] = "put"] /\ pc[w] = "open"
        /\ UNCHANGED <<records, lost, raced, scanned>>
    BY <1>3 DEF Claim, CInv, NothingBeforeGenesis, HeadCounts, Seqs, HeadAt,
       NextRecord, Goto
  <2>2. Putting(w)' /\ sealed'[w].seq = head.seq + 1
    BY <2>1 DEF Putting, NextRecord, CInv, TypeOK
  <2>3. \A v \in Writers : Putting(v) => Putting(v)' /\ sealed'[v] = sealed[v]
    BY <2>1 DEF Putting, CInv, TypeOK
  <2>4. \A v \in Writers : Putting(v)' => v = w \/ (Putting(v) /\ sealed'[v] = sealed[v])
    BY <2>1 DEF Putting, CInv, TypeOK
  <2>5. Stored' = Stored
    BY <2>1 DEF Stored
  <2>6. head' # None
    BY <1>0, <2>2 DEF CInv, NothingBeforeGenesis, Putting
  <2>7. NumbersAccounted'
    <3> SUFFICES ASSUME NEW n \in 1..head.seq + 1
                 PROVE  \/ n \in Stored \cup lost
                        \/ \E v \in Writers : Putting(v)' /\ sealed'[v].seq = n
      BY <2>1, <2>5 DEF NumbersAccounted
    <3>1. CASE n = head.seq + 1
      BY <2>2, <3>1
    <3>2. CASE n # head.seq + 1
      <4>1. n \in 1..head.seq
        BY <2>1, <3>2
      <4> QED
        BY <2>1, <2>3, <4>1 DEF VInv, NumbersAccounted
    <3> QED
      BY <3>1, <3>2
  <2>8. LossesFinal' /\ ScanStays'
    BY <2>1, <2>2, <2>4, <2>5, <2>6 DEF VInv, LossesFinal, ScanStays, Once
  <2> QED
    BY <2>7, <2>8 DEF VInv
<1>4. ASSUME NEW w \in Writers, PutRecord(w) \/ PutFails(w) PROVE VInv'
  <2> DEFINE n == sealed[w].seq
  <2>0. Putting(w)
    BY <1>4 DEF PutRecord, PutFails, Putting
  <2>1. /\ sealed[w] \in Record
        /\ Once(n) => n \notin Stored /\ n \notin lost
        /\ head # None /\ n \in Seqs /\ n \in 1..head.seq
    <3>1. /\ sealed[w] \in Record /\ n \in 1..head.seq
          /\ Once(n) => n \notin Stored /\ n \notin lost
      BY <2>0 DEF CInv, SealedOnChain, VInv, LossesFinal
    <3>2. head # None
      BY <2>0 DEF CInv, NothingBeforeGenesis, Putting
    <3> QED
      BY <3>1, <3>2, MaxSeqAssumption DEF CInv, HeadCounts, Seqs
  <2>2. UNCHANGED <<head, raced, scanned>>
    BY <1>4 DEF PutRecord, PutFails
  <2>3. \A v \in Writers :
          /\ Putting(v)' => v # w
          /\ v # w => (Putting(v)' <=> Putting(v)) /\ sealed'[v] = sealed[v]
    BY <1>4 DEF PutRecord, PutFails, Goto, Forget, Putting, CInv, TypeOK
  <2>4. \A v \in Writers : Putting(v) /\ v # w /\ Once(sealed[v].seq) => sealed[v].seq # n
    BY <2>0 DEF CInv, SealedOnChain
  <2>5. \/ Stored' = Stored \cup {n} /\ lost' = lost
        \/ Stored' = Stored /\ lost' = lost \cup {n}
    <3>1. CASE Write(w) /\ UNCHANGED lost
      <4>1. sealed[w] # None
        BY <2>1 DEF Record
      <4> QED
        BY <2>1, <3>1, <4>1 DEF Write, Stored, CInv, TypeOK
    <3>2. CASE lost' = lost \cup {n} /\ UNCHANGED records
      BY <3>2 DEF Stored
    <3> QED
      BY <1>4, <3>1, <3>2 DEF PutRecord, PutFails
  <2>6. NumbersAccounted'
    <3> SUFFICES ASSUME NEW m \in 1..head.seq
                 PROVE  \/ m \in Stored' \cup lost'
                        \/ \E v \in Writers : Putting(v)' /\ sealed'[v].seq = m
      BY <2>2 DEF NumbersAccounted
    <3>1. m \in Stored \cup lost \/ \E v \in Writers : Putting(v) /\ sealed[v].seq = m
      BY <2>1 DEF VInv, NumbersAccounted
    <3>2. CASE m \in Stored \cup lost
      BY <2>5, <3>2
    <3>3. ASSUME NEW v \in Writers, Putting(v), sealed[v].seq = m, v = w
          PROVE  m \in Stored' \cup lost'
      BY <2>5, <3>3
    <3>4. ASSUME NEW v \in Writers, Putting(v), sealed[v].seq = m, v # w
          PROVE  Putting(v)' /\ sealed'[v].seq = m
      BY <2>3, <3>4
    <3> QED
      BY <3>1, <3>2, <3>3, <3>4
  <2>7. LossesFinal'
    <3>1. lost' \subseteq 1..head'.seq /\ head' # None
      BY <2>1, <2>2, <2>5 DEF VInv, LossesFinal
    <3>2. \A m \in lost' : Once(m) => m \notin Stored'
      BY <2>1, <2>5 DEF VInv, LossesFinal
    <3>3. \A v \in Writers :
              Putting(v)' /\ Once(sealed'[v].seq) => sealed'[v].seq \notin lost'
      <4> SUFFICES ASSUME NEW v \in Writers, Putting(v)', Once(sealed'[v].seq)
                   PROVE  sealed'[v].seq \notin lost'
        OBVIOUS
      <4>1. v # w /\ Putting(v) /\ sealed'[v] = sealed[v]
        BY <2>3
      <4>2. sealed[v].seq # n /\ sealed[v].seq \notin lost
        BY <2>4, <4>1 DEF VInv, LossesFinal
      <4> QED
        BY <2>5, <4>1, <4>2
    <3> QED
      BY <2>2, <3>1, <3>2, <3>3 DEF LossesFinal, Once
  <2>8. ScanStays'
    BY <2>2, <2>5 DEF VInv, ScanStays
  <2> QED
    BY <2>6, <2>7, <2>8 DEF VInv
<1>5. CASE VerifyScan \/ VerifyHead \/ VerifyAgain \/ UNCHANGED vars
  <2>1. UNCHANGED logVars
    BY <1>5 DEF VerifyScan, VerifyHead, VerifyAgain, vars
  <2>2. NumbersAccounted' /\ LossesFinal' /\ Stored' = Stored
    BY <2>1 DEF logVars, VInv, NumbersAccounted, LossesFinal, Stored, Putting, Once
  <2>3. scanned' # None => 1..scanned'.seq \subseteq Stored
    BY <1>5 DEF VerifyScan, VerifyHead, VerifyAgain, vars, ReplaysTo, VInv, ScanStays
  <2> QED
    BY <2>2, <2>3 DEF VInv, ScanStays
<1> QED
  BY <1>1, <1>2, <1>3, <1>4, <1>5 DEF Next

\* A scan that matches the head has seen every number that was handed out.
LEMMA MatchMeansNoLoss ==
  ASSUME CInv, VInv, [Next]_vars
  PROVE  [verdict' = "ok" => \A n \in lost : ~Once(n)]_verdict
<1> SUFFICES ASSUME verdict' = "ok", verdict' # verdict PROVE \A n \in lost : ~Once(n)
  OBVIOUS
<1>1. scanned # None /\ HeadMatches(scanned.seq, scanned.hash)
  BY DEF Next, OpenStore, CreateHead, CreateFails, Claim, PutRecord, PutFails, Restart,
     VerifyScan, VerifyHead, VerifyAgain, vars
<1>2. head # None /\ 1..head.seq \subseteq Stored
  BY <1>1 DEF HeadMatches, VInv, ScanStays
<1> QED
  BY <1>2 DEF VInv, LossesFinal

\* A store at rest with nothing lost replays up to the head and matches it.
LEMMA RestVerifies == CInv /\ VInv => NoFalseAlarm
<1> SUFFICES ASSUME CInv, VInv, head # None, lost = {}, ~raced,
                    \A w \in Writers : pc[w] \notin {"genesis", "put"}
             PROVE  VerifyPasses
  BY DEF NoFalseAlarm
<1>1. head.seq = Len(head.hash) /\ head.seq \in 1..MaxSeq
  BY DEF CInv, HeadCounts, Seqs
<1>2. 1..head.seq \subseteq Stored
  BY DEF VInv, NumbersAccounted, Putting
<1>3. \A n \in Stored : n \in 1..head.seq
  BY <1>1 DEF CInv, StoredOnChain, Chained, Once, On
<1>4. Stored = 1..head.seq
  BY <1>2, <1>3
<1>5. Linked
  BY ChainLinked DEF Linked, Once
<1>6. ReplaysTo(head.seq)
  BY <1>4, <1>5 DEF ReplaysTo, Linked, Once
<1>7. head.seq \in Stored /\ head.seq # 0
  BY <1>1, <1>4
<1>8. head.hash = HashUpTo(head.seq)
  BY <1>5, <1>7 DEF Linked, Once, HashUpTo
<1>9. HeadMatches(head.seq, HashUpTo(head.seq))
  BY <1>8 DEF HeadMatches
<1> QED
  BY <1>1, <1>6, <1>9, MaxSeqAssumption DEF VerifyPasses

\* The account holds throughout, whoever creates the log.
LEMMA AccountKept == Spec => [](CInv /\ VInv)
<1>1. Init => CInv /\ VInv
  <2> SUFFICES ASSUME Init PROVE VInv
    BY InitCInv
  <2>1. \A w \in Writers : ~Putting(w)
    BY DEF Init, Putting
  <2> QED
    BY <2>1 DEF Init, VInv, NumbersAccounted, LossesFinal, ScanStays
<1>2. CInv /\ VInv /\ [Next]_vars => CInv' /\ VInv'
  BY NextCInv, NextVInv
<1> QED
  BY <1>1, <1>2, PTL DEF Spec

\* A log that verifies starts from the record its head starts from: the first
\* link, or the head itself where there is no second record, says so.
LEMMA VerifiedGenesis == CInv => RaceIsLoud
<1> SUFFICES ASSUME CInv, NEW n \in 0..MaxSeq, ReplaysTo(n), HeadMatches(n, HashUpTo(n)),
                    records[1] # None
             PROVE  records[1].by = head.hash[1]
  BY DEF RaceIsLoud, VerifyPasses, GenesisOnce
<1> USE MaxSeqAssumption
<1>1. 1 \in Stored /\ Stored = 1..n /\ n >= 1
  BY DEF Stored, Seqs, ReplaysTo
<1>2. records[1] \in Record /\ records[1].prev = <<>>
  BY <1>1 DEF Stored, CInv, TypeOK, StoredOnChain, Chained
<1>3. HashOf(records[1])[1] = records[1].by
  BY <1>2, EmptySeq, AppendProperties DEF HashOf, Record
<1>4. CASE n = 1
  BY <1>3, <1>4 DEF HeadMatches, HashUpTo
<1>5. CASE n # 1
  <2>1. 2 \in Stored /\ records[2].prev = HashOf(records[1])
    BY <1>1, <1>5 DEF ReplaysTo
  <2>2. records[2].seq = 2 /\ On(records[2], head.hash)
    BY <2>1 DEF CInv, StoredOnChain, Chained, Once
  <2>3. records[2].prev[1] = head.hash[1]
    BY <2>2 DEF On
  <2> QED
    BY <1>3, <2>1, <2>3
<1> QED
  BY <1>4, <1>5

(* The verdict of VerifyStore: "ok" is only said of a log without a loss,  *)
(* also when replicas append while it reads, or with the genesis record    *)
(* its head starts from, and a log at rest without a loss or a race always *)
(* verifies (storelog.go, VerifyStore).                                    *)
THEOREM VerdictIsTrue == Spec => VerdictTrue
<1>1. CInv /\ VInv /\ [Next]_vars => [verdict' = "ok" => \A n \in lost : ~Once(n)]_verdict
  BY MatchMeansNoLoss
<1>2. CInv /\ VInv => RaceIsLoud /\ NoFalseAlarm
  BY VerifiedGenesis, RestVerifies
<1> QED
  BY AccountKept, <1>1, <1>2, PTL DEF Spec, VerdictTrue, LossIsLoud

-----------------------------------------------------------------------------
(* The chain of all replicas is one audit trail, whoever creates it: it    *)
(* only grows at its end, and what is answered is on it.                   *)
THEOREM ImplementsTrail == Spec => TrailSpec
<1> DEFINE trail == IF head = None THEN <<>> ELSE head.hash
<1> USE NoneAssumption
<1>1. Init => Trail!Init
  BY DEF Init, Trail!Init
<1>2. ASSUME CInv, [Next]_vars
      PROVE  [Trail!Next]_(Trail!vars)
  <2>1. ASSUME NEW w \in Writers, CreateHead(w), head = None
        PROVE  trail' = Append(trail, w) /\ UNCHANGED answered
    <3>1. sealed[w] = GenesisRecord(w)
      BY <1>2, <2>1 DEF CreateHead, CInv, NothingBeforeGenesis
    <3>2. head' = [seq |-> 1, hash |-> Append(<<>>, w)] /\ UNCHANGED answered
      BY <2>1, <3>1 DEF CreateHead, HeadAt, HashOf, GenesisRecord
    <3>3. CInv'
      BY <1>2, NextCInv
    <3>4. head' # None
      <4>1. pc'[w] = "genesis"
        BY <1>2, <2>1 DEF CreateHead, Goto, CInv, TypeOK
      <4> QED
        BY <3>3, <4>1 DEF CInv, NothingBeforeGenesis
    <3> QED
      BY <2>1, <3>2, <3>4
  <2>2. ASSUME NEW w \in Writers, Claim(w)
        PROVE  trail' = Append(trail, w) /\ UNCHANGED answered
    <3>1. head # None
      BY <1>2, <2>2 DEF Claim, CInv, NothingBeforeGenesis
    <3>2. /\ head' = [seq |-> head.seq + 1, hash |-> Append(head.hash, w)]
          /\ UNCHANGED answered
      BY <2>2 DEF Claim, HeadAt, HashOf, NextRecord
    <3>3. CInv'
      BY <1>2, NextCInv
    <3>4. head' # None
      <4>1. pc'[w] = "put"
        BY <1>2, <2>2 DEF Claim, Goto, CInv, TypeOK
      <4> QED
        BY <3>3, <4>1 DEF CInv, NothingBeforeGenesis
    <3> QED
      BY <3>1, <3>2, <3>4
  <2>3. ASSUME NEW w \in Writers, PutRecord(w)
        PROVE  /\ UNCHANGED trail
               /\ \E n \in 1..Len(trail) : answered' = answered \cup {n}
    <3>1. head # None /\ sealed[w].seq \in 1..Len(head.hash) /\ UNCHANGED head
      BY <1>2, <2>3 DEF PutRecord, CInv, NothingBeforeGenesis, HeadCounts,
         SealedOnChain, Putting
    <3>2. answered' = answered \cup {sealed[w].seq}
      BY <2>3 DEF PutRecord
    <3> QED
      BY <3>1, <3>2
  <2>4. ASSUME ~ \E w \in Writers : \/ CreateHead(w) /\ head = None
                                    \/ Claim(w)
                                    \/ PutRecord(w)
        PROVE  UNCHANGED <<trail, answered>>
    BY <1>2, <2>4 DEF Next, OpenStore, CreateHead, CreateFails, PutFails, Restart,
       VerifyScan, VerifyHead, VerifyAgain, logVars, vars
  <2> QED
    BY <2>1, <2>2, <2>3, <2>4
       DEF Trail!Next, Trail!vars, Trail!Extend, Trail!Answer
<1> QED
  BY Invariance, <1>1, <1>2, PTL DEF Spec, TrailSpec, Trail!Spec

-----------------------------------------------------------------------------
(* The log in a file (AuditFile).                                          *)

\* The call in progress: its record is the one the log has counted.
CallSealed ==
    /\ log = None => stage = "idle"
    /\ stage # "idle" => rec \in FileRecord /\ rec.seq = log.seq

\* The numbers of the lines rise, and the log's own is at least the last.
NumbersRise ==
    \A i, j \in 1..Len(file) :
        i < j /\ Parses(file[i]) /\ Parses(file[j]) => file[i].seq < file[j].seq

LogLeads ==
    log # None => \A i \in 1..Len(file) : Parses(file[i]) =>
        file[i].seq <= log.seq /\ (stage = "write" => file[i].seq < log.seq)

\* The line that is being synced is the sealed record, or what became of it.
SyncingSealed ==
    stage = "sync" => file # <<>> /\ Last(file) \in {rec, Garbled}

\* Numbers are answered in turn; what is not synced is not answered.
AnswersBehind ==
    log # None => \A n \in logged : n <= log.seq /\ (stage # "idle" => n < log.seq)

UnsyncedUnanswered ==
    \A i \in synced + 1..Len(file) :
        Parses(file[i]) => file[i].seq \notin logged

\* What is answered is synced, or in a synced line that does not parse.
AnsweredInFile ==
    \A n \in logged : \E i \in 1..synced :
        file[i] = Garbled \/ (Parses(file[i]) /\ file[i].seq = n)

\* Only a partial write garbles a line or lets a log run on behind a torn one.
MarksAreShort ==
    "short" \notin faults =>
        \A i \in 1..Len(file) : file[i] # Garbled /\ (file[i] = Torn => log = None)

\* With no failed call the log in memory is the end of the chain in the file.
LogAtEnd ==
    /\ "short" \in faults => "io" \in faults
    /\ "io" \notin faults /\ log # None =>
          \/ /\ stage = "idle" /\ file # <<>>
             /\ log.seq = Len(file) /\ log.head = LineHash(Last(file))
          \/ /\ stage = "write" /\ rec.seq = Len(file) + 1
             /\ file # <<>> => rec.prev = LineHash(Last(file))
          \/ /\ stage = "sync" /\ file # <<>> /\ rec = Last(file)
             /\ log.seq = Len(file)

FInv ==
    /\ FileTypeOK
    /\ CallSealed
    /\ NumbersRise
    /\ LogLeads
    /\ SyncingSealed
    /\ AnswersBehind
    /\ UnsyncedUnanswered
    /\ AnsweredInFile
    /\ MarksAreShort
    /\ LogAtEnd
    /\ CrashesKeepChain

-----------------------------------------------------------------------------
Line == FileRecord \cup {Torn, Garbled}

\* The marks are lines that are no records.
LEMMA Marks ==
  /\ Torn # Garbled
  /\ \A line \in Line : Parses(line) <=> line \in FileRecord
  /\ ~Parses(Torn) /\ ~Parses(Garbled)
  /\ None \notin FileRecord /\ None \notin OpenLog
BY SentinelsAssumption DEF Line, Parses

\* What the types say of the lines.
LEMMA Lines ==
  ASSUME FileTypeOK
  PROVE  /\ file \in Seq(Line) /\ Len(file) \in Nat /\ synced \in 0..Len(file)
         /\ \A i \in 1..Len(file) : /\ file[i] \in Line
                                    /\ Parses(file[i]) => file[i] \in FileRecord
         /\ file = <<>> <=> Len(file) = 0
         /\ MaxSeq \in Nat
<1>1. file \in Seq(Line) /\ synced \in 0..Len(file)
  BY DEF FileTypeOK, Line
<1>2. \A i \in 1..Len(file) : file[i] \in Line
  BY <1>1, ElementOfSeq
<1>3. Len(file) \in Nat /\ (file = <<>> <=> Len(file) = 0)
  BY <1>1, EmptySeq
<1> QED
  BY <1>1, <1>2, <1>3, Marks, MaxSeqAssumption

\* The hash of a record is a history.
LEMMA HashType == \A r \in FileRecord : LineHash(r) \in Seq(Seqs)
  BY AppendProperties DEF LineHash, FileRecord

\* A record appended to the file, or a mark.
LEMMA Appended ==
  ASSUME FileTypeOK, NEW line \in Line
  PROVE  /\ Append(file, line) \in Seq(Line)
         /\ Len(Append(file, line)) = Len(file) + 1
         /\ \A i \in 1..Len(file) : Append(file, line)[i] = file[i]
         /\ Append(file, line)[Len(file) + 1] = line
         /\ Append(file, line) # <<>>
         /\ Last(Append(file, line)) = line
BY Lines, AppendProperties DEF Last

-----------------------------------------------------------------------------
\* FInv holds of the file that is not there yet.
LEMMA InitFInv == FileInit => FInv
<1> SUFFICES ASSUME FileInit PROVE FInv
  OBVIOUS
<1>1. file = <<>> /\ Len(file) = 0 /\ file \in Seq(FileRecord \cup {Torn, Garbled})
  BY EmptySeq DEF FileInit
<1>2. FileTypeOK
  BY <1>1 DEF FileInit, FileTypeOK
<1> QED
  BY <1>1, <1>2 DEF FileInit, FInv, CallSealed, NumbersRise, LogLeads, SyncingSealed,
     AnswersBehind, UnsyncedUnanswered, AnsweredInFile, MarksAreShort, LogAtEnd,
     CrashesKeepChain

\* The types first, one operation at a time.
LEMMA NextTypeOK == FInv /\ [FileNext]_fileVars => FileTypeOK'
<1> SUFFICES ASSUME FInv, [FileNext]_fileVars PROVE FileTypeOK'
  OBVIOUS
<1>0. /\ FileTypeOK
      /\ file \in Seq(Line) /\ Len(file) \in Nat /\ synced \in 0..Len(file)
      /\ MaxSeq \in Nat /\ MaxSeq # 0
  BY Lines, MaxSeqAssumption DEF FInv
<1> USE <1>0
<1>1. CASE Seal
  <2>1. /\ log \in OpenLog /\ log.seq \in Seqs
        /\ log.head \in Seq(Seqs) /\ log.seq < MaxSeq
    BY <1>1 DEF Seal, FileTypeOK, OpenLog
  <2>2. [log EXCEPT !.seq = @ + 1] \in OpenLog
    <3>1. log.seq + 1 \in Seqs
      BY <2>1 DEF Seqs
    <3> QED
      BY <2>1, <3>1 DEF OpenLog
  <2>3. [seq |-> log.seq + 1, prev |-> log.head] \in FileRecord
    BY <2>1 DEF FileRecord, Seqs
  <2> QED
    BY <1>1, <2>2, <2>3 DEF Seal, FileTypeOK
<1>2. ASSUME NEW ok \in BOOLEAN, stage # "idle", Answer(rec.seq, ok)
      PROVE  /\ log' \in OpenLog \cup {None} /\ stage' = "idle" /\ rec' = None
             /\ logged' \subseteq Seqs
  <2>1. /\ rec \in FileRecord /\ rec.seq \in Seqs
        /\ log \in OpenLog
    BY <1>2 DEF FInv, CallSealed, FileTypeOK, FileRecord
  <2>2. [log EXCEPT !.head = LineHash(rec)] \in OpenLog
    BY <2>1, HashType DEF OpenLog
  <2> QED
    BY <1>2, <2>1, <2>2 DEF Answer, FileTypeOK
<1>3. CASE SealFails \/ Sync \/ SyncFails
  BY <1>2, <1>3 DEF SealFails, Sync, SyncFails, Fault, FileTypeOK
<1>4. CASE WriteFails
  <2>1. /\ log' \in OpenLog \cup {None} /\ stage' = "idle" /\ rec' = None
        /\ logged' \subseteq Seqs
    BY <1>2, <1>4 DEF WriteFails
  <2>2. Append(file, Torn) \in Seq(Line) /\ Len(Append(file, Torn)) = Len(file) + 1
    BY Appended DEF Line
  <2>3. file' \in Seq(Line) /\ synced' \in 0..Len(file')
    BY <1>4, <2>2 DEF WriteFails
  <2>4. faults' \subseteq {"io", "short", "tear"}
    BY <1>4 DEF WriteFails, Fault, FileTypeOK
  <2> QED
    BY <2>1, <2>3, <2>4 DEF FileTypeOK, Line
<1>5. CASE WriteLine
  <2>1. rec \in FileRecord
    BY <1>5 DEF WriteLine, FInv, CallSealed
  <2>2. /\ Append(file, rec) \in Seq(Line)
        /\ Len(Append(file, rec)) = Len(file) + 1
    BY <2>1, Appended DEF Line
  <2>3. EndsTorn => /\ [file EXCEPT ![Len(file)] = Garbled] \in Seq(Line)
                    /\ Len([file EXCEPT ![Len(file)] = Garbled]) = Len(file)
    <3> SUFFICES ASSUME EndsTorn
                 PROVE  /\ [file EXCEPT ![Len(file)] = Garbled] \in Seq(Line)
                        /\ Len([file EXCEPT ![Len(file)] = Garbled]) = Len(file)
      OBVIOUS
    <3>1. Len(file) \in 1..Len(file) /\ Garbled \in Line
      BY Lines DEF EndsTorn, Line
    <3> QED
      BY <3>1, ExceptSeq
  <2>4. file' \in Seq(Line) /\ synced' \in 0..Len(file')
    BY <1>5, <2>2, <2>3 DEF WriteLine
  <2> QED
    BY <1>5, <2>4 DEF WriteLine, FileTypeOK, Line
<1>6. CASE WriteBack
  BY <1>6 DEF WriteBack, FileTypeOK
<1>7. CASE Open
  <2>1. CASE file = <<>>
    <3>1. /\ First \in FileRecord
          /\ [seq |-> First.seq, head |-> First.prev] \in OpenLog
      BY EmptySeq DEF First, FileRecord, OpenLog, Seqs
    <3> QED
      BY <1>7, <2>1, <3>1 DEF Open, FileTypeOK
  <2>2. CASE file # <<>>
    <3>1. Last(file) \in FileRecord
      BY <1>7, <2>2, Lines DEF Open, Corrupt,
         Last
    <3>2. Recovered \in OpenLog
      BY <3>1, HashType DEF Recovered, OpenLog, FileRecord
    <3> QED
      BY <1>7, <2>2, <3>2 DEF Open, FileTypeOK
  <2> QED
    BY <2>1, <2>2
<1>8. CASE Crash
  BY <1>8 DEF Crash, Stop, FileTypeOK
<1>9. CASE PowerLoss
  <2>1. SubSeq(file, 1, synced) \in Seq(Line)
    BY SubSeqProperties
  <2>2. Append(SubSeq(file, 1, synced), Torn) \in Seq(Line)
    BY <2>1, AppendProperties DEF Line
  <2>3. file' \in Seq(Line) /\ synced' = Len(file')
    BY <1>9, <2>1, <2>2 DEF PowerLoss
  <2>4. synced' \in 0..Len(file')
    BY <2>3
  <2>5. faults' \subseteq {"io", "short", "tear"}
    BY <1>9 DEF PowerLoss, Fault, FileTypeOK
  <2> QED
    BY <1>9, <2>3, <2>4, <2>5 DEF PowerLoss, Stop, FileTypeOK, Line
<1>10. CASE UNCHANGED fileVars
  BY <1>10 DEF fileVars, FileTypeOK
<1> QED
  BY <1>1, <1>3, <1>4, <1>5, <1>6, <1>7, <1>8, <1>9, <1>10 DEF FileNext

\* No operation, fault or restart breaks FInv.
LEMMA NextFInv == FInv /\ [FileNext]_fileVars => FInv'
<1> SUFFICES ASSUME FInv, [FileNext]_fileVars PROVE FInv'
  OBVIOUS
<1>0. /\ FileTypeOK /\ FileTypeOK'
      /\ file \in Seq(Line) /\ Len(file) \in Nat /\ synced \in 0..Len(file)
      /\ \A i \in 1..Len(file) : /\ file[i] \in Line
                                 /\ Parses(file[i]) => file[i] \in FileRecord
      /\ file = <<>> <=> Len(file) = 0
      /\ \A r \in FileRecord : r.seq \in Seqs /\ Parses(r)
      /\ \A n \in Seqs : n \in Nat /\ 1 <= n
  BY NextTypeOK, Lines, Marks DEF FInv, FileRecord, Line,
     Seqs
<1> USE <1>0
<1>1. CASE Seal
  <2>1. /\ stage = "idle" /\ log # None /\ log \in OpenLog /\ log.seq \in Nat
        /\ log'.seq = log.seq + 1 /\ log' # None
        /\ rec' = [seq |-> log.seq + 1, prev |-> log.head]
        /\ stage' = "write"
        /\ UNCHANGED <<file, synced, logged, faults>>
    BY <1>1, Marks DEF Seal, FileTypeOK, OpenLog
  <2>2. /\ rec' \in FileRecord /\ rec'.seq = log'.seq
        /\ rec'.prev = log.head
    BY <2>1 DEF FileTypeOK, OpenLog, FileRecord
  <2>3. CallSealed' /\ NumbersRise' /\ LogLeads' /\ SyncingSealed'
    BY <2>1, <2>2 DEF FInv, CallSealed, NumbersRise, LogLeads, SyncingSealed
  <2>4. AnswersBehind' /\ UnsyncedUnanswered' /\ AnsweredInFile' /\ MarksAreShort'
    BY <2>1 DEF FInv, AnswersBehind, UnsyncedUnanswered, AnsweredInFile, MarksAreShort,
       FileTypeOK
  <2>5. LogAtEnd'
    BY <2>1, <2>2 DEF FInv, LogAtEnd
  <2>6. CrashesKeepChain'
    BY <2>1 DEF FInv, CrashesKeepChain, RecordVerifies, EndsTorn
  <2> QED
    BY <2>3, <2>4, <2>5, <2>6 DEF FInv
\* A call that fails without touching the file.
<1>2. ASSUME stage # "idle", Answer(rec.seq, FALSE), Fault({"io"}),
             UNCHANGED <<file, synced>>
      PROVE  FInv'
  <2>1. /\ stage' = "idle" /\ logged' = logged
        /\ faults' = faults \cup {"io"}
        /\ log' = log \/ log' = None
        /\ UNCHANGED <<file, synced>>
    BY <1>2 DEF Answer, Fault
  <2>2. log # None
    BY <1>2 DEF FInv, CallSealed
  <2>3. CallSealed' /\ NumbersRise' /\ LogLeads' /\ SyncingSealed'
    BY <2>1 DEF FInv, CallSealed, NumbersRise, LogLeads, SyncingSealed
  <2>4. AnswersBehind' /\ UnsyncedUnanswered' /\ AnsweredInFile'
    BY <1>2, <2>1 DEF FInv, AnswersBehind, UnsyncedUnanswered, AnsweredInFile,
       FileTypeOK, OpenLog
  <2>5. MarksAreShort' /\ LogAtEnd' /\ CrashesKeepChain'
    BY <2>1, <2>2 DEF FInv, MarksAreShort, LogAtEnd, CrashesKeepChain
  <2> QED
    BY <2>3, <2>4, <2>5 DEF FInv
<1>3. CASE SealFails \/ SyncFails
  BY <1>2, <1>3 DEF SealFails, SyncFails
<1>4. CASE WriteFails
  <2>1. CASE UNCHANGED file /\ Fault({"io"})
    BY <1>2, <1>4, <2>1 DEF WriteFails
  <2>2. CASE /\ file' = IF EndsTorn THEN file ELSE Append(file, Torn)
             /\ Fault({"io", "short"})
    <3>1. /\ stage = "write" /\ stage' = "idle" /\ logged' = logged
          /\ "io" \in faults' /\ "short" \in faults'
          /\ log' = log \/ log' = None
          /\ UNCHANGED synced
      BY <1>4, <2>2 DEF WriteFails, Answer, Fault
    <3>2. /\ Len(file') \in {Len(file), Len(file) + 1}
          /\ \A i \in 1..Len(file) : file'[i] = file[i]
          /\ \A i \in 1..Len(file') : i \in 1..Len(file) \/ file'[i] = Torn
      <4>1. CASE EndsTorn
        BY <2>2, <4>1
      <4>2. CASE ~EndsTorn
        BY <2>2, <4>2, Appended DEF Line
      <4> QED
        BY <4>1, <4>2
    <3>3. \A i \in 1..Len(file') :
            Parses(file'[i]) => i \in 1..Len(file) /\ Parses(file[i])
      BY <3>2, Marks
    <3>4. CallSealed' /\ SyncingSealed' /\ AnswersBehind'
      BY <3>1 DEF FInv, CallSealed, SyncingSealed, AnswersBehind, FileTypeOK,
         OpenLog
    <3>5. NumbersRise' /\ LogLeads'
      BY <3>1, <3>2, <3>3 DEF FInv, NumbersRise, LogLeads
    <3>6. UnsyncedUnanswered' /\ AnsweredInFile'
      BY <3>1, <3>2, <3>3 DEF FInv, UnsyncedUnanswered, AnsweredInFile
    <3>7. MarksAreShort' /\ LogAtEnd' /\ CrashesKeepChain'
      BY <3>1 DEF MarksAreShort, LogAtEnd, CrashesKeepChain
    <3> QED
      BY <3>4, <3>5, <3>6, <3>7 DEF FInv
  <2> QED
    BY <1>4, <2>1, <2>2 DEF WriteFails
<1>5. CASE WriteLine
  <2>1. /\ stage = "write" /\ stage' = "sync"
        /\ UNCHANGED <<synced, log, rec, logged, faults>>
        /\ rec \in FileRecord /\ rec.seq = log.seq /\ log # None
        /\ \A n \in logged : n < rec.seq
        /\ \A i \in 1..Len(file) : Parses(file[i]) => file[i].seq < rec.seq
    BY <1>5 DEF WriteLine, FInv, CallSealed, AnswersBehind, LogLeads
  <2>2. CASE EndsTorn
    <3>1. Len(file) \in 1..Len(file) /\ file[Len(file)] = Torn
      BY <2>2 DEF EndsTorn, Last
    <3>2. /\ Len(file') = Len(file)
          /\ \A i \in 1..Len(file) : file'[i] = IF i = Len(file) THEN Garbled ELSE file[i]
      <4>1. file' = [file EXCEPT ![Len(file)] = Garbled]
        BY <1>5, <2>2 DEF WriteLine
      <4>2. Garbled \in Line
        BY DEF Line
      <4> QED
        BY <3>1, <4>1, <4>2, ExceptSeq
    <3>3. \A i \in 1..Len(file) : /\ Parses(file'[i]) <=> Parses(file[i])
                                  /\ Parses(file[i]) => file'[i] = file[i]
      BY <3>1, <3>2, Marks
    <3>4. "short" \in faults
      BY <2>1, <3>1 DEF FInv, MarksAreShort
    <3>5. "io" \in faults
      BY <3>4 DEF FInv, LogAtEnd
    <3>6. Last(file') = Garbled /\ file' # <<>>
      BY <3>1, <3>2 DEF Last
    <3>7. CallSealed' /\ SyncingSealed' /\ AnswersBehind'
      BY <2>1, <3>6 DEF FInv, CallSealed, SyncingSealed, AnswersBehind
    <3>8. NumbersRise' /\ LogLeads'
      BY <2>1, <3>2, <3>3 DEF FInv, NumbersRise, LogLeads
    <3>9. UnsyncedUnanswered'
      BY <2>1, <3>2, <3>3 DEF FInv, UnsyncedUnanswered
    <3>10. AnsweredInFile'
      BY <2>1, <3>2, <3>3 DEF FInv, AnsweredInFile
    <3>11. MarksAreShort' /\ LogAtEnd' /\ CrashesKeepChain'
      BY <2>1, <3>4, <3>5 DEF MarksAreShort, LogAtEnd, CrashesKeepChain
    <3> QED
      BY <3>7, <3>8, <3>9, <3>10, <3>11 DEF FInv
  <2>3. CASE ~EndsTorn
    <3>1. /\ Len(file') = Len(file) + 1
          /\ \A i \in 1..Len(file) : file'[i] = file[i]
          /\ file'[Len(file) + 1] = rec
          /\ file' # <<>> /\ Last(file') = rec
      <4>1. file' = Append(file, rec) /\ rec \in Line
        BY <1>5, <2>1, <2>3 DEF WriteLine, Line
      <4> QED
        BY <4>1, Appended
    <3>2. \A i \in 1..Len(file') : i \in 1..Len(file) \/ i = Len(file) + 1
      BY <3>1
    <3>3. /\ Len(file') \in Nat /\ rec.seq \in Nat /\ rec # Torn
          /\ rec # Garbled
      BY <2>1, <3>1 DEF Parses
    <3>4. CallSealed' /\ SyncingSealed' /\ AnswersBehind'
      BY <2>1, <3>1 DEF FInv, CallSealed, SyncingSealed, AnswersBehind
    <3>5. NumbersRise'
      <4> SUFFICES ASSUME NEW i \in 1..Len(file'), NEW j \in 1..Len(file'), i < j,
                          Parses(file'[i]), Parses(file'[j])
                   PROVE  file'[i].seq < file'[j].seq
        BY DEF NumbersRise
      <4>1. i \in 1..Len(file) /\ file'[i] = file[i]
        BY <3>1, <3>2, <3>3
      <4>2. CASE j \in 1..Len(file)
        BY <3>1, <4>1, <4>2 DEF FInv, NumbersRise
      <4>3. CASE j = Len(file) + 1
        BY <2>1, <3>1, <4>1, <4>3
      <4> QED
        BY <3>2, <4>2, <4>3
    <3>11. LogLeads'
      BY <2>1, <3>1, <3>2, <3>3 DEF LogLeads
    <3>6. UnsyncedUnanswered'
      BY <2>1, <3>1, <3>2, <3>3 DEF FInv, UnsyncedUnanswered
    <3>7. AnsweredInFile'
      BY <2>1, <3>1 DEF FInv, AnsweredInFile
    <3>8. MarksAreShort'
      BY <2>1, <3>1, <3>2, <3>3 DEF FInv, MarksAreShort
    <3>9. LogAtEnd'
      BY <2>1, <3>1 DEF FInv, LogAtEnd
    <3>10. CrashesKeepChain'
      <4> SUFFICES ASSUME "io" \notin faults
                   PROVE  \A i \in 1..Len(file') : RecordVerifies(i)'
        BY <2>1 DEF CrashesKeepChain
      <4>1. /\ rec.seq = Len(file) + 1
            /\ file # <<>> => rec.prev = LineHash(file[Len(file)])
        BY <2>1 DEF FInv, LogAtEnd, Last
      <4>2. ASSUME NEW i \in 1..Len(file) PROVE RecordVerifies(i)'
        <5>1. RecordVerifies(i)
          BY <2>3 DEF FInv, CrashesKeepChain
        <5>2. i > 1 => i - 1 \in 1..Len(file)
          OBVIOUS
        <5> QED
          BY <3>1, <5>1, <5>2 DEF RecordVerifies
      <4>3. ASSUME NEW i \in Nat, i = Len(file) + 1 PROVE RecordVerifies(i)'
        <5>1. /\ Parses(file'[Len(file) + 1])
              /\ file'[Len(file) + 1].seq = Len(file) + 1
          BY <2>1, <3>1, <4>1
        <5>2. Len(file) + 1 > 1 => file'[Len(file) + 1].prev = LineHash(file'[Len(file)])
          BY <3>1, <4>1
        <5> QED
          BY <4>3, <5>1, <5>2 DEF RecordVerifies
      <4> QED
        BY <3>2, <4>2, <4>3
    <3> QED
      BY <3>4, <3>5, <3>6, <3>7, <3>8, <3>9, <3>10, <3>11 DEF FInv
  <2> QED
    BY <2>2, <2>3
<1>6. CASE Sync
  <2>1. /\ stage = "sync" /\ stage' = "idle" /\ synced = Len(file)
        /\ log' = [log EXCEPT !.head = LineHash(rec)]
        /\ logged' = logged \cup {rec.seq}
        /\ UNCHANGED <<file, synced, faults>>
        /\ log # None /\ rec \in FileRecord /\ rec.seq = log.seq
    BY <1>6 DEF Sync, Answer, FInv, CallSealed
  <2>2. /\ log \in OpenLog /\ log'.seq = log.seq
        /\ log'.head = LineHash(rec) /\ log' # None
    <3>1. log \in OpenLog /\ LineHash(rec) \in Seq(Seqs)
      BY <2>1, HashType DEF FileTypeOK
    <3>2. /\ log' \in OpenLog /\ log'.seq = log.seq
          /\ log'.head = LineHash(rec)
      BY <2>1, <3>1 DEF OpenLog
    <3> QED
      BY <3>1, <3>2, Marks
  <2>3. Len(file) \in 1..synced /\ file[Len(file)] \in {rec, Garbled}
    BY <2>1 DEF FInv, SyncingSealed, Last
  <2>4. CallSealed' /\ SyncingSealed' /\ NumbersRise' /\ LogLeads'
    BY <2>1, <2>2 DEF FInv, CallSealed, SyncingSealed, NumbersRise, LogLeads
  <2>5. AnswersBehind' /\ UnsyncedUnanswered'
    BY <2>1, <2>2 DEF FInv, AnswersBehind, UnsyncedUnanswered, FileTypeOK
  <2>6. AnsweredInFile'
    BY <2>1, <2>3 DEF FInv, AnsweredInFile
  <2>7. MarksAreShort' /\ CrashesKeepChain'
    BY <2>1, <2>2 DEF FInv, MarksAreShort, CrashesKeepChain, RecordVerifies,
       EndsTorn
  <2>8. LogAtEnd'
    BY <2>1, <2>2 DEF FInv, LogAtEnd
  <2> QED
    BY <2>4, <2>5, <2>6, <2>7, <2>8 DEF FInv
<1>7. CASE WriteBack
  <2>1. /\ synced' = synced + 1 /\ synced < Len(file)
        /\ UNCHANGED <<file, log, stage, rec, logged, faults>>
    BY <1>7 DEF WriteBack
  <2>2. UnsyncedUnanswered'
    BY <2>1 DEF FInv, UnsyncedUnanswered
  <2>3. AnsweredInFile'
    <3>1. \A i \in 1..synced : i \in 1..synced + 1
      OBVIOUS
    <3> QED
      BY <2>1, <3>1 DEF FInv, AnsweredInFile
  <2>4. CallSealed' /\ NumbersRise' /\ LogLeads' /\ SyncingSealed' /\ AnswersBehind'
    BY <2>1 DEF FInv, CallSealed, NumbersRise, LogLeads, SyncingSealed, AnswersBehind
  <2>5. MarksAreShort' /\ LogAtEnd' /\ CrashesKeepChain'
    BY <2>1 DEF FInv, MarksAreShort, LogAtEnd, CrashesKeepChain,
       RecordVerifies, EndsTorn
  <2> QED
    BY <2>2, <2>3, <2>4, <2>5 DEF FInv
<1>8. CASE Open
  <2>1. /\ log = None /\ stage = "idle"
        /\ UNCHANGED <<file, synced, logged, faults>>
    BY <1>8 DEF Open, FInv, CallSealed
  <2>2. NumbersRise' /\ UnsyncedUnanswered' /\ AnsweredInFile' /\ CrashesKeepChain'
    BY <2>1 DEF FInv, NumbersRise, UnsyncedUnanswered, AnsweredInFile,
       CrashesKeepChain, RecordVerifies, EndsTorn
  <2>3. CASE file = <<>>
    <3>1. /\ log' = [seq |-> 1, head |-> <<>>]
          /\ rec' = [seq |-> 1, prev |-> <<>>]
          /\ stage' = "write"
      BY <1>8, <2>3 DEF Open, First
    <3>2. /\ rec' \in FileRecord /\ log'.seq = 1 /\ rec'.seq = 1
          /\ Len(file) = 0
      BY <2>3, <3>1, EmptySeq, MaxSeqAssumption DEF FileRecord, Seqs
    <3>6. log' # None
      <4>1. 1 \in Seqs /\ <<>> \in Seq(Seqs)
        BY EmptySeq, MaxSeqAssumption DEF Seqs
      <4>2. log' \in OpenLog
        BY <3>1, <4>1 DEF OpenLog
      <4> QED
        BY <4>2, Marks
    <3>3. logged = {}
      BY <3>2 DEF FInv, AnsweredInFile
    <3>4. CallSealed' /\ LogLeads' /\ SyncingSealed' /\ AnswersBehind'
      BY <2>1, <3>1, <3>2, <3>3, <3>6 DEF CallSealed, LogLeads, SyncingSealed,
         AnswersBehind
    <3>5. MarksAreShort' /\ LogAtEnd'
      BY <2>1, <2>3, <3>1, <3>2 DEF FInv, MarksAreShort, LogAtEnd
    <3> QED
      BY <2>2, <3>4, <3>5 DEF FInv
  <2>4. CASE file # <<>>
    <3>1. /\ log' = [seq |-> Last(file).seq, head |-> LineHash(Last(file))]
          /\ UNCHANGED <<rec, stage>>
          /\ \A i \in 1..Len(file) : Parses(file[i])
      BY <1>8, <2>4 DEF Open, Recovered, Corrupt
    <3>2. Len(file) \in 1..Len(file) /\ Last(file) = file[Len(file)]
      BY <2>4 DEF Last
    <3>3. log'.seq = file[Len(file)].seq /\ log'.seq \in Nat
      BY <3>1, <3>2
    <3>4. \A i \in 1..Len(file) : file[i].seq <= log'.seq
      BY <3>1, <3>2, <3>3 DEF FInv, NumbersRise
    <3>5. \A i \in 1..Len(file) : file[i] # Garbled /\ file[i] # Torn
      BY <3>1, Marks
    <3>6. CallSealed' /\ LogLeads' /\ SyncingSealed' /\ MarksAreShort'
      BY <2>1, <3>1, <3>4, <3>5 DEF CallSealed, LogLeads, SyncingSealed, MarksAreShort
    <3>7. AnswersBehind'
      BY <2>1, <3>1, <3>4, <3>5 DEF FInv, AnswersBehind, AnsweredInFile
    <3>8. LogAtEnd'
      <4>1. "io" \notin faults => RecordVerifies(Len(file))
        BY <3>2, <3>5 DEF FInv, CrashesKeepChain, EndsTorn
      <4>2. "io" \notin faults =>
               log'.seq = Len(file) /\ log'.head = LineHash(Last(file))
        BY <3>1, <3>3, <4>1 DEF RecordVerifies
      <4> QED
        BY <2>1, <2>4, <3>1, <4>2 DEF FInv, LogAtEnd
    <3> QED
      BY <2>2, <3>6, <3>7, <3>8 DEF FInv
  <2> QED
    BY <2>3, <2>4
<1>9. CASE Crash
  <2>1. /\ log' = None /\ stage' = "idle"
        /\ UNCHANGED <<file, synced, logged, faults>>
    BY <1>9 DEF Crash, Stop
  <2> QED
    BY <2>1 DEF FInv, CallSealed, NumbersRise, LogLeads, SyncingSealed, AnswersBehind,
       UnsyncedUnanswered, AnsweredInFile, MarksAreShort, LogAtEnd,
       CrashesKeepChain, RecordVerifies, EndsTorn
<1>10. CASE PowerLoss
  <2> DEFINE kept == SubSeq(file, 1, synced)
  <2>1. /\ log' = None /\ stage' = "idle" /\ UNCHANGED logged
        /\ synced' = Len(file')
        /\ faults \subseteq faults' /\ ("io" \in faults' <=> "io" \in faults)
        /\ ("short" \in faults' <=> "short" \in faults)
    BY <1>10 DEF PowerLoss, Stop, Fault
  <2>2. /\ kept \in Seq(Line) /\ Len(kept) = synced
        /\ \A i \in 1..synced : kept[i] = file[i]
    BY SubSeqProperties
  <2>3. /\ file' \in Seq(Line)
        /\ Len(file') \in {synced, synced + 1}
        /\ Len(file') = synced + 1 => file'[synced + 1] = Torn /\ synced < Len(file)
        /\ \A i \in 1..synced : file'[i] = file[i]
    <3>1. CASE file' = kept
      BY <2>2, <3>1
    <3>2. CASE synced < Len(file) /\ file' = Append(kept, Torn)
      BY <2>2, <3>2, AppendProperties DEF Line
    <3> QED
      BY <1>10, <3>1, <3>2 DEF PowerLoss
  <2>4. \A i \in 1..Len(file') :
            \/ i \in 1..synced /\ i \in 1..Len(file) /\ file'[i] = file[i]
            \/ i = synced + 1 /\ i = Len(file') /\ file'[i] = Torn
    BY <2>3
  <2>5. CallSealed' /\ LogLeads' /\ SyncingSealed' /\ AnswersBehind'
    BY <2>1 DEF CallSealed, LogLeads, SyncingSealed, AnswersBehind
  <2>6. NumbersRise'
    BY <2>4, Marks DEF FInv, NumbersRise
  <2>7. UnsyncedUnanswered'
    BY <2>1, <2>3 DEF UnsyncedUnanswered
  <2>8. AnsweredInFile'
    <3>1. \A i \in 1..synced : i \in 1..Len(file')
      BY <2>3
    <3> QED
      BY <2>1, <2>3, <3>1 DEF FInv, AnsweredInFile
  <2>9. MarksAreShort' /\ LogAtEnd'
    BY <2>1, <2>4, Marks DEF FInv, MarksAreShort, LogAtEnd
  <2>10. CrashesKeepChain'
    <3> SUFFICES ASSUME "io" \notin faults, NEW i \in 1..Len(file')
                 PROVE  RecordVerifies(i)' \/ (i = Len(file') /\ EndsTorn')
      BY <2>1 DEF CrashesKeepChain
    <3>1. CASE i \in 1..synced /\ RecordVerifies(i)
      <4>1. i > 1 => i - 1 \in 1..synced
        BY <3>1
      <4> QED
        BY <2>3, <3>1, <4>1 DEF RecordVerifies
    <3>2. CASE i \in 1..synced /\ i = Len(file) /\ EndsTorn
      BY <2>3, <3>2 DEF EndsTorn, Last
    <3>3. CASE i = synced + 1
      BY <2>3, <3>3 DEF EndsTorn, Last
    <3> QED
      BY <2>4, <3>1, <3>2, <3>3 DEF FInv, CrashesKeepChain
  <2> QED
    BY <2>5, <2>6, <2>7, <2>8, <2>9, <2>10 DEF FInv
<1>11. CASE UNCHANGED fileVars
  BY <1>11 DEF fileVars, FInv, CallSealed, NumbersRise, LogLeads, SyncingSealed,
     AnswersBehind, UnsyncedUnanswered, AnsweredInFile, MarksAreShort, LogAtEnd,
     CrashesKeepChain, RecordVerifies, EndsTorn
<1> QED
  BY <1>1, <1>3, <1>4, <1>5, <1>6, <1>7, <1>8, <1>9, <1>10, <1>11 DEF FileNext

\* FInv holds throughout, whatever fails.
LEMMA FInvariance == FileSpec => []FInv
<1>1. FileInit => FInv
  BY InitFInv
<1>2. FInv /\ [FileNext]_fileVars => FInv'
  BY NextFInv
<1> QED
  BY <1>1, <1>2, PTL DEF FileSpec

-----------------------------------------------------------------------------
(* Every line is as Log wrote it, and the lines form one chain: while no   *)
(* call has failed, no crash and no loss of power breaks it but for a last *)
(* line that was torn (audit.go, Open and Log).                            *)
THEOREM FileChainKept == FileSpec => []ChainKept
<1>1. FInv => ChainKept
  BY DEF FInv, ChainKept
<1> QED
  BY FInvariance, <1>1, PTL

(* An answered record survives a loss of power, whatever failed before,    *)
(* unless it was appended to a partial line (audit.go, Log).               *)
THEOREM FileAnswersSurvive == FileSpec => []AnsweredSurvives
<1>1. FInv => AnsweredSurvives
  <2> SUFFICES ASSUME FInv, "short" \notin faults, NEW n \in logged
               PROVE  \E i \in 1..synced : Parses(file[i]) /\ file[i].seq = n
    BY DEF AnsweredSurvives
  <2>1. synced \in 0..Len(file) /\ Len(file) \in Nat
    BY Lines DEF FInv
  <2>2. \A i \in 1..synced : file[i] # Garbled
    BY <2>1 DEF FInv, MarksAreShort
  <2> QED
    BY <2>2 DEF FInv, AnsweredInFile
<1> QED
  BY FInvariance, <1>1, PTL

-----------------------------------------------------------------------------
SyncedTrail == [i \in 1..synced |-> Entry(i)]
SyncedAnswers == {i \in 1..synced : Entry(i) \in logged}

\* The entries are a sequence of numbers of records and zeros.
LEMMA Entries ==
  ASSUME FileTypeOK
  PROVE  /\ \A i \in 1..synced : Entry(i) \in Seqs \cup {0}
         /\ SyncedTrail \in Seq(Seqs \cup {0}) /\ Len(SyncedTrail) = synced
         /\ \A i \in 1..synced : SyncedTrail[i] = Entry(i)
<1>1. synced \in 0..Len(file) /\ Len(file) \in Nat
  BY Lines
<1>2. \A i \in 1..synced : Entry(i) \in Seqs \cup {0}
  BY <1>1, Lines DEF Entry, FileRecord
<1>3. SyncedTrail \in [1..synced -> Seqs \cup {0}]
  BY <1>2 DEF SyncedTrail
<1> QED
  BY <1>1, <1>2, <1>3 DEF SyncedTrail

\* A step that keeps the synced entries keeps the trail ...
LEMMA TrailKept ==
  ASSUME FileTypeOK, FileTypeOK',
         synced' = synced, UNCHANGED logged,
         \A i \in 1..synced : Entry(i)' = Entry(i)
  PROVE  UNCHANGED <<SyncedTrail, SyncedAnswers>>
BY DEF SyncedTrail, SyncedAnswers

\* ... and one that syncs another entry, not answered yet, extends it.
LEMMA TrailGrows ==
  ASSUME FileTypeOK, FileTypeOK',
         synced' = synced + 1, UNCHANGED logged,
         \A i \in 1..synced : Entry(i)' = Entry(i),
         NEW e \in (Seqs \cup {0}) \ logged,
         \A i \in 1..synced' : i \notin 1..synced => Entry(i)' = e
  PROVE  /\ SyncedTrail' = Append(SyncedTrail, e)
         /\ UNCHANGED SyncedAnswers
<1>1. synced \in Nat /\ \A i \in 1..synced' : i \in 1..synced \/ i = synced + 1
  BY Lines
<1>2. /\ SyncedTrail \in Seq(Seqs \cup {0}) /\ Len(SyncedTrail) = synced
      /\ \A i \in 1..synced : SyncedTrail[i] = Entry(i)
  BY Entries
<1>3. /\ SyncedTrail' \in Seq(Seqs \cup {0}) /\ Len(SyncedTrail') = synced'
      /\ \A i \in 1..synced' : SyncedTrail'[i] = Entry(i)'
  BY Entries, Lines DEF SyncedTrail
<1>4. /\ Append(SyncedTrail, e) \in Seq(Seqs \cup {0})
      /\ Len(Append(SyncedTrail, e)) = synced + 1
      /\ \A i \in 1..synced : Append(SyncedTrail, e)[i] = Entry(i)
      /\ Append(SyncedTrail, e)[synced + 1] = e
  BY <1>2, AppendProperties
<1>5. \A i \in 1..synced' : SyncedTrail'[i] = Append(SyncedTrail, e)[i]
  BY <1>1, <1>3, <1>4
<1>6. SyncedTrail' = Append(SyncedTrail, e)
  BY <1>3, <1>4, <1>5, SeqEqual
<1>7. UNCHANGED SyncedAnswers
  BY <1>1 DEF SyncedAnswers
<1> QED
  BY <1>6, <1>7

\* Writing a record back extends the trail, answering it answers its place,
\* and nothing else that happens to the file touches what is synced.
LEMMA TrailStep ==
  ASSUME FInv, [FileNext]_fileVars
  PROVE  \/ UNCHANGED <<SyncedTrail, SyncedAnswers>>
         \/ \E e \in Seqs \cup {0} : /\ SyncedTrail' = Append(SyncedTrail, e)
                                     /\ UNCHANGED SyncedAnswers
         \/ \E n \in 1..synced : /\ SyncedAnswers' = SyncedAnswers \cup {n}
                                 /\ UNCHANGED SyncedTrail
<1>0. /\ FileTypeOK /\ FileTypeOK'
      /\ file \in Seq(Line) /\ Len(file) \in Nat /\ synced \in 0..Len(file)
      /\ \A i \in 1..synced : i \in 1..Len(file)
      /\ \A i \in 1..Len(file) : file[i] \in Line
      /\ file = <<>> <=> Len(file) = 0
      /\ 0 \notin logged /\ logged \subseteq Seqs
  BY NextTypeOK, Lines DEF FInv, FileTypeOK, Seqs
<1> USE <1>0
<1>1. CASE \/ Seal \/ SealFails \/ SyncFails
           \/ Open \/ Crash \/ UNCHANGED fileVars
  <2>1. UNCHANGED <<file, synced, logged>>
    BY <1>1 DEF Seal, SealFails, SyncFails, Open, Crash,
       Answer, Stop, fileVars
  <2> QED
    BY <2>1 DEF SyncedTrail, SyncedAnswers, Entry
<1>2. CASE WriteFails
  <2>1. /\ UNCHANGED <<synced, logged>>
        /\ file' = file \/ file' = Append(file, Torn)
    BY <1>2 DEF WriteFails, Answer
  <2>2. \A i \in 1..Len(file) : file'[i] = file[i]
    BY <2>1, Appended DEF Line
  <2> QED
    BY <2>1, <2>2, TrailKept DEF Entry
<1>3. CASE WriteLine
  <2>1. UNCHANGED <<synced, logged>> /\ rec \in FileRecord
    BY <1>3 DEF WriteLine, FInv, CallSealed
  <2>2. ASSUME NEW i \in 1..Len(file)
        PROVE  file'[i] = file[i] \/ (file[i] = Torn /\ file'[i] = Garbled)
    <3>1. CASE EndsTorn
      <4>1. file' = [file EXCEPT ![Len(file)] = Garbled] /\ Garbled \in Line
        BY <1>3, <3>1 DEF WriteLine, Line
      <4>2. Len(file) \in 1..Len(file) /\ file[Len(file)] = Torn
        BY <3>1 DEF EndsTorn, Last
      <4> QED
        BY <4>1, <4>2, ExceptSeq
    <3>2. CASE ~EndsTorn
      <4>1. file' = Append(file, rec) /\ rec \in Line
        BY <1>3, <2>1, <3>2 DEF WriteLine, Line
      <4> QED
        BY <4>1, Appended
    <3> QED
      BY <3>1, <3>2
  <2> QED
    BY <2>1, <2>2, Marks, TrailKept DEF Entry
<1>4. CASE Sync
  <2>1. /\ synced = Len(file) /\ logged' = logged \cup {rec.seq}
        /\ UNCHANGED <<file, synced>>
        /\ rec \in FileRecord /\ Len(file) \in 1..synced
        /\ file[Len(file)] \in {rec, Garbled}
    BY <1>4 DEF Sync, Answer, FInv, CallSealed, SyncingSealed, Last
  <2>2. UNCHANGED SyncedTrail /\ \A i \in 1..synced : Entry(i)' = Entry(i)
    BY <2>1 DEF SyncedTrail, Entry
  <2>3. SyncedAnswers' =
          SyncedAnswers \cup {i \in 1..synced : Entry(i) = rec.seq}
    BY <2>1, <2>2 DEF SyncedAnswers
  <2>4. rec.seq \in Seqs /\ rec.seq # 0
    BY <2>1 DEF FileRecord, Seqs
  <2>5. ASSUME NEW i \in 1..synced, NEW j \in 1..synced,
               Entry(i) = rec.seq, Entry(j) = rec.seq
        PROVE  i = j
    <3>1. /\ Parses(file[i]) /\ Parses(file[j]) /\ file[i].seq = file[j].seq
          /\ file[i].seq \in Nat
      BY <2>4, <2>5 DEF Entry, Seqs
    <3> QED
      BY <3>1 DEF FInv, NumbersRise
  <2>6. CASE \E i \in 1..synced : Entry(i) = rec.seq
    <3>1. PICK i \in 1..synced : Entry(i) = rec.seq
      BY <2>6
    <3>2. SyncedAnswers' = SyncedAnswers \cup {i}
      BY <2>3, <2>5, <3>1
    <3> QED
      BY <2>2, <3>2
  <2>7. CASE ~ \E i \in 1..synced : Entry(i) = rec.seq
    BY <2>2, <2>3, <2>7
  <2> QED
    BY <2>6, <2>7
<1>5. CASE WriteBack
  <2>1. /\ synced < Len(file) /\ synced' = synced + 1
        /\ UNCHANGED <<file, logged>>
    BY <1>5 DEF WriteBack
  <2>2. synced + 1 \in 1..Len(file) /\ synced + 1 \in synced + 1..Len(file)
    BY <2>1
  <2> DEFINE e == Entry(synced + 1)
  <2>3. e \in (Seqs \cup {0}) \ logged
    BY <2>2, Lines DEF Entry, FInv, UnsyncedUnanswered,
       FileRecord
  <2>4. \A i \in 1..synced' : i \notin 1..synced => i = synced + 1
    BY <2>1
  <2>5. \A i \in 1..Len(file) : Entry(i)' = Entry(i)
    BY <2>1 DEF Entry
  <2>6. \A i \in 1..synced' : i \notin 1..synced => Entry(i)' = e
    BY <2>2, <2>4, <2>5
  <2>7. SyncedTrail' = Append(SyncedTrail, e) /\ UNCHANGED SyncedAnswers
    <3> HIDE DEF e
    <3> QED
      BY <2>1, <2>3, <2>5, <2>6, TrailGrows
  <2> QED
    BY <2>3, <2>7
<1>6. CASE PowerLoss
  <2> DEFINE kept == SubSeq(file, 1, synced)
  <2>1. /\ kept \in Seq(Line) /\ Len(kept) = synced
        /\ \A i \in 1..synced : kept[i] = file[i]
    BY SubSeqProperties
  <2>2. synced' = Len(file') /\ UNCHANGED logged
    BY <1>6 DEF PowerLoss, Stop
  <2>3. CASE file' = kept
    BY <2>1, <2>2, <2>3, TrailKept DEF Entry
  <2>4. CASE file' = Append(kept, Torn)
    <3>1. /\ synced' = synced + 1 /\ file'[synced + 1] = Torn
          /\ \A i \in 1..synced : file'[i] = file[i]
      BY <2>1, <2>2, <2>4, AppendProperties DEF Line
    <3>2. \A i \in 1..synced' : i \notin 1..synced => i = synced + 1
      BY <3>1
    <3>3. \A i \in 1..synced' : i \notin 1..synced => Entry(i)' = 0
      BY <3>1, <3>2, Marks DEF Entry
    <3>4. \A i \in 1..synced : Entry(i)' = Entry(i)
      BY <3>1 DEF Entry
    <3>5. 0 \in (Seqs \cup {0}) \ logged
      OBVIOUS
    <3> QED
      BY <2>2, <3>1, <3>3, <3>4, <3>5, TrailGrows
  <2> QED
    BY <1>6, <2>3, <2>4 DEF PowerLoss
<1> QED
  BY <1>1, <1>2, <1>3, <1>4, <1>5, <1>6 DEF FileNext

(* What is synced is an audit trail, whatever fails: it only grows at its  *)
(* end, and a call is answered only at a place the trail has.              *)
THEOREM FileImplementsTrail == FileSpec => FileTrailSpec
<1>1. FileInit => FileTrail!Init
  <2> SUFFICES ASSUME FileInit PROVE FileTrail!Init
    OBVIOUS
  <2>1. FileTypeOK /\ synced = 0
    BY InitFInv DEF FInv, FileInit
  <2>2. SyncedTrail \in Seq(Seqs \cup {0}) /\ Len(SyncedTrail) = 0
    BY <2>1, Entries
  <2>3. SyncedTrail = <<>> /\ SyncedAnswers = {}
    BY <2>1, <2>2, EmptySeq DEF SyncedAnswers
  <2> QED
    BY <2>3 DEF FileTrail!Init, SyncedTrail, SyncedAnswers
<1>2. ASSUME FInv, [FileNext]_fileVars
      PROVE  [FileTrail!Next]_(FileTrail!vars)
  <2>1. Len(SyncedTrail) = synced
    BY <1>2, Entries DEF FInv
  <2> QED
    BY <1>2, <2>1, TrailStep DEF FileTrail!Next,
       FileTrail!vars, FileTrail!Extend, FileTrail!Answer, SyncedTrail,
       SyncedAnswers
<1> QED
  BY FInvariance, <1>1, <1>2, PTL DEF FileSpec,
     FileTrailSpec, FileTrail!Spec
=============================================================================
