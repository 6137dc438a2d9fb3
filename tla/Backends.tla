------------------------------ MODULE Backends ------------------------------
(***************************************************************************)
(* The two implementations of the store: bbolt (internal/store/bolt.go)    *)
(* and MongoDB (internal/store/mongo.go).                                  *)
(*                                                                         *)
(* Over bbolt a call is one transaction.  Over MongoDB every call to the   *)
(* server is one step: the server executes one insert, read, version-      *)
(* checked update, findOneAndDelete or upsert atomically, and the calls of *)
(* several callers interleave between them.                                *)
(*                                                                         *)
(* fresh[c] says that the document c has read is still the one stored:     *)
(* the same _id and version, which is what goodm.Update compares.          *)
(***************************************************************************)
EXTENDS Integers, FiniteSets

CONSTANTS
    Callers,
    LastKey,      \* the keys of the bucket are 1..LastKey, in key order
    Data, Absent, Refused, Fns, Idle,
    MaxSeq,       \* bound of the model on the counter
    MaxAttempts   \* updateMaxAttempts

ASSUME FnsAssumption == Fns \subseteq [Data \cup {Absent} -> Data \cup {Refused}]
ASSUME SentinelsAssumption ==
    /\ Absent \notin Data /\ Refused \notin Data
    /\ Absent # Refused
ASSUME BoundsAssumption == MaxSeq \in Nat /\ LastKey \in Nat
ASSUME MaxAttemptsAssumption == MaxAttempts \in Nat \ {0}

VARIABLES
    backend,   \* "bolt" or "mongo"
    docs,      \* the documents of one bucket
    seq,       \* the counter of the bucket
    call, outcome,
    pc,        \* where each call is
    held,      \* the data it has read
    fresh,
    attempt,   \* how often its loop has started over
    overtaken, \* how many writes of others to its document or counter fell into the
               \* call, counted to MaxAttempts
    scan       \* of a ForEach: next key, what it has visited, what was there throughout

vars == <<backend, docs, seq, call, outcome, pc, held, fresh, attempt, overtaken, scan>>

Keys == 1..LastKey
Abstract == INSTANCE Store

ForEachCall == [op |-> "for-each"]

ASSUME CallersAssumption == IsFiniteSet(Callers)
ASSUME IdleAssumption == Idle \notin Abstract!Calls \cup Abstract!Answers \cup {ForEachCall}

NoScan == [at |-> LastKey + 1, visited |-> {}, stayed |-> {}]

Goto(c, phase) == pc' = [pc EXCEPT ![c] = phase]
Becomes(c, result) ==
    /\ outcome' = [outcome EXCEPT ![c] = result]
    /\ Goto(c, "return")

Init ==
    /\ backend \in {"bolt", "mongo"}
    /\ Abstract!Init
    /\ pc = [c \in Callers |-> "idle"]
    /\ held = [c \in Callers |-> Absent]
    /\ fresh = [c \in Callers |-> FALSE]
    /\ attempt = [c \in Callers |-> 0]
    /\ overtaken = [c \in Callers |-> 0]
    /\ scan = [c \in Callers |-> NoScan]

-----------------------------------------------------------------------------
\* Os: the other calls that one more write overtakes
Overtake(Os) ==
    overtaken' = [o \in Callers |->
        IF o \in Os /\ overtaken[o] < MaxAttempts THEN overtaken[o] + 1 ELSE overtaken[o]]

Running == {o \in Callers : pc[o] \notin {"idle", "return"}}
Updating(k) == {o \in Running : call[o].op = "update" /\ call[o].key = k}
Counting == {o \in Running : call[o].op = "next-seq"}

\* Variant: the version is one of the bucket, not of the document.
WriteInBucket(c, k, d) ==
    /\ docs' = [docs EXCEPT ![k] = d]
    /\ fresh' = [o \in Callers |-> FALSE]
    /\ scan' = IF d # Absent THEN scan
               ELSE [o \in Callers |->
                       IF o \in Running THEN [scan[o] EXCEPT !.stayed = @ \ {k}] ELSE scan[o]]
    /\ Overtake(Updating(k) \ {c})

\* d becomes the document of key k: no reader of k has it
Write(c, k, d) ==
    /\ docs' = [docs EXCEPT ![k] = d]
    /\ fresh' = [o \in Callers |-> fresh[o] /\ o \notin Updating(k)]
    /\ scan' = IF d # Absent THEN scan
               ELSE [o \in Callers |->
                       IF o \in Running THEN [scan[o] EXCEPT !.stayed = @ \ {k}] ELSE scan[o]]
    /\ Overtake(Updating(k) \ {c})

Unwritten == UNCHANGED <<docs, fresh, scan, overtaken>>

\* Variant: starting over is not counted.
AgainForever(c, phase) ==
    Goto(c, phase) /\ UNCHANGED <<attempt, outcome>>

\* the loop of Update and NextSeq starts over, or gives up
Again(c, phase) ==
    /\ attempt' = [attempt EXCEPT ![c] = @ + 1]
    /\ IF attempt[c] + 1 < MaxAttempts
       THEN Goto(c, phase) /\ UNCHANGED outcome
       ELSE Becomes(c, Abstract!Failed)

-----------------------------------------------------------------------------
(* A call starts and ends.                                                 *)

FirstStep(x) ==
    CASE backend = "bolt" /\ x.op # "for-each" -> "tx"
      [] x.op = "for-each" -> "scan"
      [] x.op = "update"   -> "find"
      [] x.op = "next-seq" -> "upsert"
      [] OTHER             -> "direct"

Present == {k \in Keys : docs[k] # Absent}

Invoke(c) ==
    /\ pc[c] = "idle"
    /\ \E x \in Abstract!Calls \cup {ForEachCall} :
            /\ Abstract!Fits(x)
            /\ call' = [call EXCEPT ![c] = x]
            /\ Goto(c, FirstStep(x))
            /\ scan' = IF x = ForEachCall
                       THEN [scan EXCEPT ![c] = [at |-> 1, visited |-> {}, stayed |-> Present]]
                       ELSE scan
    /\ UNCHANGED <<backend, docs, seq, outcome, held, fresh, attempt, overtaken>>

\* the working state of a call is gone with it
Forget(c) ==
    /\ held' = [held EXCEPT ![c] = Absent]
    /\ fresh' = [fresh EXCEPT ![c] = FALSE]
    /\ attempt' = [attempt EXCEPT ![c] = 0]
    /\ overtaken' = [overtaken EXCEPT ![c] = 0]
    /\ scan' = [scan EXCEPT ![c] = NoScan]

\* an error, a dead connection or a cancelled context: before the effect of
\* the call, or after it when the answer is lost
Fails(c) ==
    /\ pc[c] # "idle"
    /\ Becomes(c, Abstract!Failed)
    /\ Forget(c)
    /\ UNCHANGED <<backend, docs, seq, call>>

Return(c) ==
    /\ pc[c] = "return"
    /\ call' = [call EXCEPT ![c] = Idle]
    /\ outcome' = [outcome EXCEPT ![c] = Idle]
    /\ Forget(c)
    /\ Goto(c, "idle")
    /\ UNCHANGED <<backend, docs, seq>>

-----------------------------------------------------------------------------
(* Single steps.                                                           *)

\* the document of the call, after an effect of it
Leaves(c, d) ==
    IF d = docs[call[c].key] THEN Unwritten ELSE Write(c, call[c].key, d)

\* one transaction of bbolt, or one findOneAndDelete, insert, delete or find
OneStep(c) ==
    /\ LET e == Abstract!Effect(call[c], docs[call[c].key]) IN
        /\ Leaves(c, e[1])
        /\ Becomes(c, e[2])
    /\ UNCHANGED <<backend, seq, call, held, attempt>>

BoltTx(c) == pc[c] = "tx" /\ call[c].op # "next-seq" /\ OneStep(c)

\* PutIfAbsent, Get, Take, Delete
MongoDirect(c) == pc[c] = "direct" /\ OneStep(c)

\* the bucket's sequence, or $inc of a counter that exists
NextSeq(c) ==
    /\ \/ pc[c] = "tx" /\ call[c].op = "next-seq"
       \/ pc[c] = "upsert" /\ seq > 0
    /\ seq' = seq + 1
    /\ Becomes(c, Abstract!Number(seq'))
    /\ Overtake(Counting \ {c})
    /\ UNCHANGED <<backend, docs, call, held, fresh, attempt, scan>>

-----------------------------------------------------------------------------
(* MongoDB: the first counter of a path.                                   *)

\* the server finds nothing to increment and will insert
UpsertFindsNone(c) ==
    /\ pc[c] = "upsert" /\ seq = 0
    /\ Goto(c, "insert-counter")
    /\ UNCHANGED <<backend, docs, seq, call, outcome, held, fresh, attempt, overtaken, scan>>

\* the unique index lets one insert through; the others start over
InsertCounter(c) ==
    /\ pc[c] = "insert-counter"
    /\ IF seq = 0
       THEN /\ seq' = 1
            /\ Becomes(c, Abstract!Number(1))
            /\ Overtake(Counting \ {c}) /\ UNCHANGED attempt
       ELSE /\ UNCHANGED <<seq, overtaken>>
            /\ Again(c, "upsert")
    /\ UNCHANGED <<backend, docs, call, held, fresh, scan>>

-----------------------------------------------------------------------------
(* MongoDB: the loop of Update.                                            *)

\* the document is read and the function called, which may end the call
Find(c) ==
    /\ pc[c] = "find"
    /\ LET x == call[c]  d == docs[x.key] IN
        /\ held' = [held EXCEPT ![c] = d]
        /\ fresh' = [fresh EXCEPT ![c] = d # Absent]
        /\ CASE d = Absent /\ ~x.create -> Becomes(c, <<"not found">>)
             [] (d # Absent \/ x.create) /\ x.fn[d] = Refused -> Becomes(c, <<"refused">>)
             [] OTHER -> Goto(c, IF d = Absent THEN "create" ELSE "save") /\ UNCHANGED outcome
    /\ UNCHANGED <<backend, docs, seq, call, attempt, overtaken, scan>>

\* goodm.Create: a duplicate key means another call has created it
Create(c) ==
    /\ pc[c] = "create"
    /\ IF docs[call[c].key] = Absent
       THEN /\ Write(c, call[c].key, call[c].fn[Absent])
            /\ Becomes(c, <<"ok">>) /\ UNCHANGED attempt
       ELSE Unwritten /\ Again(c, "find")
    /\ held' = [held EXCEPT ![c] = Absent]
    /\ UNCHANGED <<backend, seq, call>>

\* Variant: the document is replaced whatever its version.
SaveAnyVersion(c) ==
    /\ pc[c] = "save"
    /\ IF docs[call[c].key] # Absent
       THEN /\ Write(c, call[c].key, call[c].fn[held[c]])
            /\ Becomes(c, <<"ok">>) /\ UNCHANGED attempt
       ELSE Unwritten /\ Again(c, "find")
    /\ held' = [held EXCEPT ![c] = Absent]
    /\ UNCHANGED <<backend, seq, call>>

\* goodm.Update: refused if the document was replaced or deleted since it was read
Save(c) ==
    /\ pc[c] = "save"
    /\ IF fresh[c]
       THEN /\ Write(c, call[c].key, call[c].fn[held[c]])
            /\ Becomes(c, <<"ok">>) /\ UNCHANGED attempt
       ELSE Unwritten /\ Again(c, "find")
    /\ held' = [held EXCEPT ![c] = Absent]
    /\ UNCHANGED <<backend, seq, call>>

-----------------------------------------------------------------------------
(* ForEach: a snapshot over bbolt, a cursor in key order over MongoDB.     *)

Visit(c, ks, next) ==
    scan' = [scan EXCEPT ![c].visited = @ \cup ks, ![c].at = next]

BoltScan(c) ==
    /\ pc[c] = "scan" /\ backend = "bolt"
    /\ scan' = [scan EXCEPT ![c] = [at |-> LastKey + 1, visited |-> Present, stayed |-> Present]]
    /\ Becomes(c, <<"ok">>)
    /\ UNCHANGED <<backend, docs, seq, call, held, fresh, attempt, overtaken>>

\* Variant: the scan is paged by the number of documents visited.
CursorByOffset(c) ==
    /\ pc[c] = "scan" /\ backend = "mongo"
    /\ LET Nth == {k \in Present :
               Cardinality({j \in Present : j < k}) = Cardinality(scan[c].visited)} IN
       \/ \E k \in Nth : Visit(c, {k}, k + 1) /\ UNCHANGED <<outcome, pc>>
       \/ Nth = {} /\ Becomes(c, <<"ok">>) /\ UNCHANGED scan
    /\ UNCHANGED <<backend, docs, seq, call, held, fresh, attempt, overtaken>>

\* the next document that is there, until there is none
CursorNext(c) ==
    /\ pc[c] = "scan" /\ backend = "mongo"
    /\ \/ \E k \in Present : /\ k >= scan[c].at
                             /\ \A j \in Present : j >= scan[c].at => k <= j
                             /\ Visit(c, {k}, k + 1)
                             /\ UNCHANGED <<outcome, pc>>
       \/ /\ \A k \in Present : k < scan[c].at
          /\ Becomes(c, <<"ok">>) /\ UNCHANGED scan
    /\ UNCHANGED <<backend, docs, seq, call, held, fresh, attempt, overtaken>>

-----------------------------------------------------------------------------
Step(c) ==
    \/ BoltTx(c) \/ MongoDirect(c) \/ NextSeq(c)
    \/ UpsertFindsNone(c) \/ InsertCounter(c)
    \/ Find(c) \/ Create(c) \/ Save(c)
    \/ BoltScan(c) \/ CursorNext(c)
    \/ Return(c)

Next == \E c \in Callers : Invoke(c) \/ Step(c) \/ Fails(c)

Spec == Init /\ [][Next]_vars

\* a call that was started goes on: its goroutine is scheduled and the server
\* answers
FairSpec == Spec /\ \A c \in Callers : WF_vars(Step(c))

-----------------------------------------------------------------------------
Phases == {"idle", "tx", "direct", "upsert", "insert-counter", "find", "create",
           "save", "scan", "return"}

TypeOK ==
    /\ backend \in {"bolt", "mongo"}
    /\ docs \in [Keys -> Data \cup {Absent}]
    /\ seq \in 0..MaxSeq
    /\ \A c \in Callers : call[c] \in Abstract!Calls \cup {ForEachCall, Idle}
    /\ \A c \in Callers : outcome[c] \in Abstract!Answers \cup {Idle}
    /\ pc \in [Callers -> Phases]
    /\ held \in [Callers -> Data \cup {Absent}]
    /\ fresh \in [Callers -> BOOLEAN]
    /\ attempt \in [Callers -> 0..MaxAttempts]
    /\ overtaken \in [Callers -> 0..MaxAttempts]
    /\ scan \in [Callers -> [at : 1..(LastKey + 1), visited : SUBSET Keys, stayed : SUBSET Keys]]

(* store.go:18: "Implementations must make Update and Take atomic with     *)
(* respect to concurrent writers".  Both backends implement the store      *)
(* whose calls take effect at one instant and at most once; a ForEach is   *)
(* no call of that store.                                                  *)
CallOf(c) == IF call[c] = ForEachCall THEN Idle ELSE call[c]
OutcomeOf(c) == IF call[c] = ForEachCall THEN Idle ELSE outcome[c]
Atomic == INSTANCE Store WITH
    call <- [c \in Callers |-> CallOf(c)],
    outcome <- [c \in Callers |-> OutcomeOf(c)]
AtomicSpec == Atomic!Spec

(* mongo.go:202: "each retry implies another writer made progress": a call *)
(* has started over at most as often as others wrote while it ran, so with *)
(* fewer than updateMaxAttempts writes against it, it does not give up.    *)
RetriesAreProgress == \A c \in Callers : attempt[c] <= overtaken[c]

\* How many steps a call has left at most: its laps, and the rest of the one
\* it is in; a cursor has a step for each key.
StepsLeft(c) ==
    LET laps == MaxAttempts - attempt[c] IN
    CASE pc[c] = "idle" -> 0
      [] pc[c] = "return" -> 1
      [] pc[c] \in {"tx", "direct"} -> 2
      [] pc[c] \in {"upsert", "find"} -> 2 * laps + 1
      [] pc[c] \in {"insert-counter", "create", "save"} -> 2 * laps
      [] pc[c] = "scan" -> LastKey + 3 - scan[c].at

(* A call under way advances: its laps are counted, bounded and earned by  *)
(* others, each step of it leaves fewer to do, and no step of another, and *)
(* no error, leaves more.                                                  *)
CallsAdvance ==
    /\ [](TypeOK /\ RetriesAreProgress)
    /\ [][\A c \in Callers : pc[c] # "idle" =>
              /\ StepsLeft(c)' <= StepsLeft(c)
              /\ Step(c) => StepsLeft(c)' < StepsLeft(c)]_vars

(* A ForEach that ends well has visited every document that was there from *)
(* its start to its end, however the bucket changed under it.              *)
ScanComplete ==
    \A c \in Callers : call[c] = ForEachCall /\ outcome[c] = <<"ok">> =>
        scan[c].stayed \subseteq scan[c].visited

(* Every call returns, also under writers that never stop.                 *)
EveryCallReturns == \A c \in Callers : []<>(call[c] = Idle)
=============================================================================
