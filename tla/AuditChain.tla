----------------------------- MODULE AuditChain -----------------------------
(***************************************************************************)
(* The audit log kept in the store (internal/audit/storelog.go).           *)
(*                                                                         *)
(* Replicas share one chain.  A Log call claims the next sequence number   *)
(* by a compare-and-swap of the head document, which is one step, and then *)
(* writes the record, which is another; a crash, a cancelled context or a  *)
(* store error between the two loses the record and leaves a gap.          *)
(* The head document itself is created by the first OpenStore, in two      *)
(* steps over MongoDB: a read that finds nothing, and a create that fails  *)
(* when another replica's came first (store.Mongo.Update).                 *)
(*                                                                         *)
(* The chained hash of a record commits to the whole history before it, so *)
(* a hash is modelled as that history: the sequence of writers of the      *)
(* records up to it.  Two records have one hash only if they have one      *)
(* history.  The signature adds nothing to that and is left out.           *)
(***************************************************************************)
EXTENDS AuditLog

CONSTANTS Writers     \* the replicas that log

ASSUME NoneAssumption ==
    None \notin [seq : Nat, hash : Seq(Writers)]
                \cup [seq : Nat, prev : Seq(Writers), by : Writers]

VARIABLES
    head,       \* the head document audit/meta/head
    records,    \* the record documents, by sequence number
    pc,         \* where each writer is
    sealed,     \* the record each writer has sealed and not yet written
    answered,   \* the sequence numbers whose Log returned without an error
    lost,       \* the sequence numbers whose record was never written
    raced,      \* a replica has lost the create of the head to another
    scanned,    \* VerifyStore: what the replay of the records found
    verdict     \* VerifyStore: its answer

logVars == <<head, records, pc, sealed, answered, lost, raced>>
vars == <<logVars, scanned, verdict>>

Record == [seq : Nat, prev : Seq(Writers), by : Writers]
HeadDoc == [seq : Nat, hash : Seq(Writers)]

HashOf(r) == Append(r.prev, r.by)
Goto(w, phase) == pc' = [pc EXCEPT ![w] = phase]

Init ==
    /\ head = None
    /\ records = [n \in Seqs |-> None]
    /\ pc = [w \in Writers |-> "closed"]
    /\ sealed = [w \in Writers |-> None]
    /\ answered = {}
    /\ lost = {}
    /\ raced = FALSE
    /\ scanned = None
    /\ verdict = "none"

-----------------------------------------------------------------------------
\* The head document that seals r.
HeadAt(r) == [seq |-> r.seq, hash |-> HashOf(r)]

\* Variant: the record is sealed on an empty history.
UnchainedRecord(w) == [seq |-> head.seq + 1, prev |-> <<>>, by |-> w]

\* The next record of the chain, recomputed from the head that is swapped.
NextRecord(w) == [seq |-> head.seq + 1, prev |-> head.hash, by |-> w]

\* Record 1 starts from a random anchor, the empty history of its writer.
GenesisRecord(w) == [seq |-> 1, prev |-> <<>>, by |-> w]

\* ensureGenesis reads the head; where there is none it seals a genesis record
OpenStore(w) ==
    /\ pc[w] = "closed"
    /\ IF head = None
       THEN /\ sealed' = [sealed EXCEPT ![w] = GenesisRecord(w)]
            /\ Goto(w, "creating")
       ELSE /\ Goto(w, "open")
            /\ UNCHANGED sealed
    /\ UNCHANGED <<head, records, answered, lost, raced, scanned, verdict>>

\* The create of the head.  When it loses the race, Update calls the function
\* again, which keeps the head it now finds; the variable `genesis` still
\* holds the record of the first attempt, and it is written all the same.
CreateHead(w) ==
    /\ pc[w] = "creating"
    /\ head' = IF head = None THEN HeadAt(sealed[w]) ELSE head
    /\ raced' = (raced \/ head # None)
    /\ Goto(w, "genesis")
    /\ UNCHANGED <<records, sealed, answered, lost, scanned, verdict>>

\* the create fails and the log stays closed
CreateFails(w) ==
    /\ pc[w] = "creating"
    /\ sealed' = [sealed EXCEPT ![w] = None]
    /\ Goto(w, "closed")
    /\ UNCHANGED <<head, records, answered, lost, raced, scanned, verdict>>

\* Variant: the head is read and written back without its sequence number.
ClaimKeepingSeq(w) ==
    /\ pc[w] = "open"
    /\ head.seq < MaxSeq
    /\ sealed' = [sealed EXCEPT ![w] = NextRecord(w)]
    /\ head' = [seq |-> head.seq, hash |-> HashOf(NextRecord(w))]
    /\ Goto(w, "put")
    /\ UNCHANGED <<records, answered, lost, raced, scanned, verdict>>

\* Log and Checkpoint: the compare-and-swap of the head
Claim(w) ==
    /\ pc[w] = "open"
    /\ head.seq < MaxSeq
    /\ sealed' = [sealed EXCEPT ![w] = NextRecord(w)]
    /\ head' = HeadAt(NextRecord(w))
    /\ Goto(w, "put")
    /\ UNCHANGED <<records, answered, lost, raced, scanned, verdict>>

Write(w) == records' = [records EXCEPT ![sealed[w].seq] = sealed[w]]
Forget(w) == sealed' = [sealed EXCEPT ![w] = None]

\* the write of the record; Log (or Open) returns without an error
PutRecord(w) ==
    /\ pc[w] \in {"genesis", "put"}
    /\ Write(w)
    /\ answered' = answered \cup {sealed[w].seq}
    /\ Forget(w)
    /\ Goto(w, "open")
    /\ UNCHANGED <<head, lost, raced, scanned, verdict>>

\* Variant: the error of the write is dropped.
PutFailsSilently(w) ==
    /\ pc[w] \in {"genesis", "put"}
    /\ lost' = lost \cup {sealed[w].seq}
    /\ answered' = answered \cup {sealed[w].seq}
    /\ Forget(w)
    /\ Goto(w, "open")
    /\ UNCHANGED <<head, records, raced, scanned, verdict>>

\* The write returns an error, or the writer crashes before its answer: the
\* record may be stored or lost.  Log fails and the replica goes on; a failed
\* Open, or a crash, closes the log.
PutFails(w) ==
    /\ pc[w] \in {"genesis", "put"}
    /\ \/ Write(w) /\ UNCHANGED lost
       \/ lost' = lost \cup {sealed[w].seq} /\ UNCHANGED records
    /\ Forget(w)
    /\ \/ pc[w] = "put" /\ Goto(w, "open")
       \/ Goto(w, "closed")
    /\ UNCHANGED <<head, answered, raced, scanned, verdict>>

Restart(w) ==
    /\ pc[w] = "open"
    /\ Goto(w, "closed")
    /\ UNCHANGED <<head, records, sealed, answered, lost, raced, scanned, verdict>>

-----------------------------------------------------------------------------
(* VerifyStore: a replay of the records, then a look at the head.          *)

Stored == {n \in Seqs : records[n] # None}

\* verifyRecord for each record in key order: no gap, and every link holds
ReplaysTo(n) ==
    /\ Stored = 1..n
    /\ \A i \in Stored : i + 1 \in Stored => records[i + 1].prev = HashOf(records[i])

\* the hash of the last record replayed
HashUpTo(n) == IF n = 0 THEN <<>> ELSE HashOf(records[n])

\* Variant: the head is not compared.
HeadIgnored(n, hash) == head # None

HeadMatches(n, hash) == head # None /\ head.seq = n /\ head.hash = hash

VerifyPasses == \E n \in 0..MaxSeq : ReplaysTo(n) /\ HeadMatches(n, HashUpTo(n))

VerifyScan ==
    /\ verdict = "none" /\ scanned = None
    /\ \/ \E n \in 0..MaxSeq :
            /\ ReplaysTo(n)
            /\ scanned' = [seq |-> n, hash |-> HashUpTo(n)]
            /\ UNCHANGED verdict
       \/ /\ \A n \in 0..MaxSeq : ~ReplaysTo(n)
          /\ verdict' = "broken"
          /\ UNCHANGED scanned
    /\ UNCHANGED logVars

VerifyHead ==
    /\ scanned # None
    /\ \/ HeadMatches(scanned.seq, scanned.hash) /\ verdict' = "ok"
       \/ head = None /\ verdict' = "uninitialized"
       \/ /\ head # None
          /\ ~HeadMatches(scanned.seq, scanned.hash)
          /\ verdict' = "mismatch"
    /\ scanned' = None
    /\ UNCHANGED logVars

\* the verifier has reported and may run again
VerifyAgain ==
    /\ verdict # "none"
    /\ verdict' = "none"
    /\ UNCHANGED <<logVars, scanned>>

-----------------------------------------------------------------------------
Next ==
    \/ \E w \in Writers : OpenStore(w) \/ CreateHead(w) \/ CreateFails(w)
                          \/ Claim(w) \/ PutRecord(w) \/ PutFails(w) \/ Restart(w)
    \/ VerifyScan \/ VerifyHead \/ VerifyAgain

Spec == Init /\ [][Next]_vars

-----------------------------------------------------------------------------
TypeOK ==
    /\ head \in HeadDoc \cup {None}
    /\ records \in [Seqs -> Record \cup {None}]
    /\ pc \in [Writers -> {"closed", "creating", "genesis", "open", "put"}]
    /\ sealed \in [Writers -> Record \cup {None}]
    /\ answered \subseteq Seqs
    /\ lost \subseteq Seqs
    /\ raced \in BOOLEAN
    /\ scanned \in HeadDoc \cup {None}
    /\ verdict \in {"none", "ok", "broken", "mismatch", "uninitialized"}

\* The numbers that one record has.  A replica that loses the create of the
\* head has another one for the first.
Once(n) == raced => n # 1

(* PutJSON is a blind write under the sequence number: the compare-and-    *)
(* swap of the head is all that keeps two replicas from one number, so a   *)
(* record that is stored is never overwritten, but for the first one when  *)
(* replicas have raced to create the log.                                  *)
RecordsKept ==
    [][\A n \in Seqs : records[n] # None /\ Once(n) => records'[n] = records[n]]_records

(* The records of all replicas form one chain: a record carries the hash   *)
(* of its predecessor, and the head the hash of the newest.  A race for    *)
(* the first record leaves the links between the others alone.             *)
Linked ==
    \A n \in Stored : Once(n) =>
        /\ n + 1 \in Stored => records[n + 1].prev = HashOf(records[n])
        /\ n = head.seq => head.hash = HashOf(records[n])

(* Log returns only after its record is stored (write-ahead auditing).     *)
AnsweredIsStored == answered \subseteq Stored

(* storelog.go:64: the genesis record is written "exactly once, even when  *)
(* several replicas open the log concurrently": record 1 is the one the    *)
(* head's chain starts from.                                               *)
GenesisOnce == records[1] # None => records[1].by = head.hash[1]

(* ADR-0010: a lost record is reported, never silently skipped, also by a  *)
(* VerifyStore that runs while replicas append.                            *)
LossIsLoud == [][verdict' = "ok" => \A n \in lost : ~Once(n)]_verdict

(* ... so is the wrong genesis record of a race, ...                       *)
RaceIsLoud == VerifyPasses => GenesisOnce

(* ... and nothing else: with no append in flight, no record lost and no   *)
(* race, the chain verifies.                                               *)
NoFalseAlarm ==
    /\ head # None
    /\ lost = {}
    /\ ~raced
    /\ \A w \in Writers : pc[w] \notin {"genesis", "put"}
    => VerifyPasses

(* The verdict of VerifyStore tells losses and races, and only them.       *)
VerdictTrue == LossIsLoud /\ [](RaceIsLoud /\ NoFalseAlarm)

(* The chain is an audit trail: the head's hash is the trail.              *)
Trail == INSTANCE AuditTrail
    WITH trail <- IF head = None THEN <<>> ELSE head.hash

TrailSpec == Trail!Spec
=============================================================================
