-------------------------- MODULE Backends_proofs ---------------------------
(***************************************************************************)
(* Theorems about Backends, for any callers, keys, values, Update          *)
(* functions and bounds: both backends implement the atomic store of       *)
(* module Store, a call gives up only when it was overtaken and gets       *)
(* closer to its answer with every step, and a ForEach misses nothing that *)
(* was there throughout.                                                   *)
(***************************************************************************)
EXTENDS Backends, FiniteSetTheorems, TLAPS

\* TypeOK in parts.
DocsTyped ==
    /\ backend \in {"bolt", "mongo"}
    /\ docs \in [Keys -> Data \cup {Absent}]
    /\ held \in [Callers -> Data \cup {Absent}]
    /\ fresh \in [Callers -> BOOLEAN]

CallsTyped ==
    /\ call \in [Callers -> Abstract!Calls \cup {ForEachCall, Idle}]
    /\ outcome \in [Callers -> Abstract!Answers \cup {Idle}]
    /\ pc \in [Callers -> Phases]

LapsTyped ==
    /\ attempt \in [Callers -> 0..MaxAttempts]
    /\ overtaken \in [Callers -> 0..MaxAttempts]

Scans == [at : 1..(LastKey + 1), visited : SUBSET Keys, stayed : SUBSET Keys]
ScansTyped == scan \in [Callers -> Scans]

\* What a caller is in, and whether it has its outcome, fits its phase.
PhaseFits(c) ==
    /\ pc[c] = "idle" <=> call[c] = Idle
    /\ pc[c] = "return" <=> outcome[c] # Idle
    /\ pc[c] \in {"tx", "direct", "upsert", "insert-counter", "find", "create", "save"} =>
            call[c] \in Abstract!Calls
    /\ pc[c] = "direct" => call[c].op \notin {"update", "next-seq"}
    /\ pc[c] \in {"upsert", "insert-counter"} => call[c].op = "next-seq"
    /\ pc[c] \in {"find", "create", "save"} => call[c].op = "update"
    /\ pc[c] = "scan" => call[c] = ForEachCall

\* The numbers drawn, and those that the calls under way will draw.
CountFits == seq \in Nat /\ seq + Cardinality(Counting) <= MaxSeq

\* An Update that is about to write has a value to write, and while what it
\* read is fresh, it is the document.
HeldFits(c) ==
    /\ pc[c] = "create" => call[c].create /\ call[c].fn[Absent] # Refused
    /\ pc[c] = "save" => held[c] \in Data /\ call[c].fn[held[c]] # Refused
    /\ pc[c] = "save" /\ fresh[c] => docs[call[c].key] = held[c]

\* A call that will have to start over has already been overtaken once more
\* than it has started over.
Beaten(c) ==
    \/ pc[c] = "save" /\ ~fresh[c]
    \/ pc[c] = "create" /\ docs[call[c].key] # Absent
    \/ pc[c] = "insert-counter" /\ seq > 0

LapFits(c) ==
    /\ pc[c] = "idle" => attempt[c] = 0
    /\ pc[c] # "return" => attempt[c] < MaxAttempts
    /\ attempt[c] <= overtaken[c]
    /\ Beaten(c) => attempt[c] < overtaken[c]

\* What has been there since a cursor started is there now, and has been
\* visited if the cursor is past it.
ScanFits(c) ==
    /\ pc[c] = "scan" => \A k \in scan[c].stayed :
            docs[k] # Absent /\ (k < scan[c].at => k \in scan[c].visited)
    /\ call[c] = ForEachCall /\ outcome[c] = <<"ok">> => scan[c].stayed \subseteq scan[c].visited

IInv ==
    /\ DocsTyped
    /\ CallsTyped
    /\ LapsTyped
    /\ ScansTyped
    /\ \A c \in Callers : PhaseFits(c)
    /\ CountFits
    /\ \A c \in Callers : HeldFits(c)
    /\ \A c \in Callers : LapFits(c)
    /\ \A c \in Callers : ScanFits(c)

-----------------------------------------------------------------------------
LEMMA KeysAndLaps == LastKey \in Nat /\ MaxSeq \in Nat /\ MaxAttempts \in Nat /\ MaxAttempts > 0
  BY BoundsAssumption, MaxAttemptsAssumption

LEMMA Distinct ==
    /\ ForEachCall # Idle /\ ForEachCall \notin Abstract!Calls
    /\ Idle \notin Abstract!Calls /\ Idle \notin Abstract!Answers
    /\ ForEachCall.op = "for-each"
  BY IdleAssumption DEF ForEachCall, Abstract!Calls

LEMMA AnswersAre ==
    /\ <<"ok">> \in Abstract!Answers /\ <<"exists">> \in Abstract!Answers
    /\ <<"not found">> \in Abstract!Answers /\ <<"refused">> \in Abstract!Answers
    /\ Abstract!Failed \in Abstract!Answers /\ Abstract!Failed # <<"ok">>
    /\ \A d \in Data : Abstract!Found(d) \in Abstract!Answers
    /\ \A n \in 1..MaxSeq : Abstract!Number(n) \in Abstract!Answers
  BY DEF Abstract!Answers, Abstract!Failed, Abstract!Found, Abstract!Number

\* The abstract store counts as this module does.
LEMMA SameCardinality ==
    ASSUME NEW S
    PROVE  Abstract!Cardinality(S) = Cardinality(S) /\ Atomic!Cardinality(S) = Cardinality(S)
  BY DEF Cardinality, Abstract!Cardinality, Atomic!Cardinality

LEMMA AnswersSpeak ==
    /\ <<"ok">> # Idle /\ <<"not found">> # Idle /\ <<"refused">> # Idle /\ Abstract!Failed # Idle
    /\ <<"not found">> # <<"ok">> /\ <<"refused">> # <<"ok">> /\ Abstract!Failed # <<"ok">>
<1>1. <<"not found">> # <<"ok">> /\ <<"refused">> # <<"ok">>
  OBVIOUS
<1> QED
  BY <1>1, Distinct, AnswersAre

LEMMA CallFields ==
    ASSUME NEW x \in Abstract!Calls
    PROVE  /\ x.op \in {"put-if-absent", "get", "take", "delete", "update", "next-seq"}
           /\ x.op # "next-seq" => x.key \in Keys
           /\ x.op = "put-if-absent" => x.data \in Data
           /\ x.op = "update" => x.create \in BOOLEAN /\ x.fn \in Fns
  BY DEF Abstract!Calls

LEMMA FnValues ==
    ASSUME NEW fn \in Fns, NEW d \in Data \cup {Absent}, fn[d] # Refused
    PROVE  fn[d] \in Data
  BY FnsAssumption

LEMMA EffectTyped ==
    ASSUME NEW x \in Abstract!Calls, x.op # "next-seq", NEW d \in Data \cup {Absent}
    PROVE  /\ Abstract!Effect(x, d)[1] \in Data \cup {Absent}
           /\ Abstract!Effect(x, d)[2] \in Abstract!Answers
<1>1. CASE x.op \in {"put-if-absent", "get", "take", "delete"}
  BY <1>1, CallFields, AnswersAre DEF Abstract!Effect
<1>2. CASE x.op = "update"
  BY <1>2, CallFields, FnValues, AnswersAre DEF Abstract!Effect
<1> QED
  BY <1>1, <1>2, CallFields

\* A write overtakes the calls it names, up to the bound.
LEMMA OvertakeCounts ==
    ASSUME NEW Os, Overtake(Os), LapsTyped
    PROVE  /\ overtaken' \in [Callers -> 0..MaxAttempts]
           /\ \A o \in Callers : overtaken[o] <= overtaken'[o]
           /\ \A o \in Callers : o \in Os /\ attempt[o] < MaxAttempts /\ attempt[o] <= overtaken[o]
                => attempt[o] < overtaken'[o]
  BY KeysAndLaps DEF Overtake, LapsTyped

\* What a write of d to k by c, or leaving d there, means to all calls.
Written(c, k, d) ==
    /\ docs' = [docs EXCEPT ![k] = d]
    /\ fresh' \in [Callers -> BOOLEAN]
    /\ overtaken' \in [Callers -> 0..MaxAttempts]
    /\ scan' \in [Callers -> Scans]
    /\ \A o \in Callers : fresh'[o] => fresh[o] /\ (o \in Updating(k) => docs[k] = d)
    /\ \A o \in Callers : overtaken[o] <= overtaken'[o]
    /\ \A o \in Callers \ {c} :
            /\ fresh'[o] # fresh[o] \/ (docs[k] # d /\ o \in Updating(k))
            /\ pc[o] # "return"
            => attempt[o] < overtaken'[o]
    /\ \A o \in Callers :
            /\ scan'[o].at = scan[o].at /\ scan'[o].visited = scan[o].visited
            /\ scan'[o].stayed \subseteq scan[o].stayed
            /\ d = Absent /\ docs[k] # d /\ o \in Running => k \notin scan'[o].stayed

LEMMA WriteIsWritten ==
    ASSUME IInv, NEW c \in Callers, NEW k \in Keys, NEW d \in Data \cup {Absent}, Write(c, k, d)
    PROVE  Written(c, k, d)
<1> USE DEF IInv, Write
<1>1. fresh' \in [Callers -> BOOLEAN] /\ \A o \in Callers : fresh'[o] = (fresh[o] /\ o \notin Updating(k))
  BY DEF DocsTyped
<1>2. /\ overtaken' \in [Callers -> 0..MaxAttempts]
      /\ \A o \in Callers : overtaken[o] <= overtaken'[o]
      /\ \A o \in Callers \ {c} : o \in Updating(k) => attempt[o] < overtaken'[o]
  BY OvertakeCounts DEF Updating, Running, LapFits
<1>3. ASSUME NEW o \in Callers
      PROVE  LET new == [scan[o] EXCEPT !.stayed = @ \ {k}]
             IN  /\ new \in Scans /\ new.at = scan[o].at /\ new.visited = scan[o].visited
                 /\ new.stayed = scan[o].stayed \ {k}
  BY DEF ScansTyped, Scans
<1>4. /\ scan' \in [Callers -> Scans]
      /\ \A o \in Callers :
            /\ scan'[o].at = scan[o].at /\ scan'[o].visited = scan[o].visited
            /\ scan'[o].stayed \subseteq scan[o].stayed
            /\ d = Absent /\ o \in Running => k \notin scan'[o].stayed
  <2>1. CASE d # Absent
    BY <2>1 DEF ScansTyped
  <2>2. CASE d = Absent
    BY <1>3, <2>2 DEF ScansTyped
  <2> QED
    BY <2>1, <2>2
<1>5. docs' = [docs EXCEPT ![k] = d]
  OBVIOUS
<1>6. \A o \in Callers : fresh'[o] => fresh[o] /\ (o \in Updating(k) => docs[k] = d)
  BY <1>1
<1>7. \A o \in Callers \ {c} :
          /\ fresh'[o] # fresh[o] \/ (docs[k] # d /\ o \in Updating(k))
          /\ pc[o] # "return"
          => attempt[o] < overtaken'[o]
  <2>1. \A o \in Callers : fresh'[o] # fresh[o] => o \in Updating(k)
    BY <1>1 DEF DocsTyped
  <2> QED
    BY <1>2, <2>1
<1> QED
  BY <1>1, <1>2, <1>4, <1>5, <1>6, <1>7 DEF Written

LEMMA LeavesIsWritten ==
    ASSUME IInv, NEW c \in Callers, call[c].key \in Keys, NEW d \in Data \cup {Absent}, Leaves(c, d)
    PROVE  Written(c, call[c].key, d)
<1>1. CASE d = docs[call[c].key]
  BY <1>1, KeysAndLaps DEF Leaves, Unwritten, Written, IInv, DocsTyped, LapsTyped,
     ScansTyped
<1>2. CASE d # docs[call[c].key]
  BY <1>2, WriteIsWritten DEF Leaves
<1> QED
  BY <1>1, <1>2

\* The other calls fit their phases after a write.
LEMMA OthersFit ==
    ASSUME IInv, NEW c \in Callers, NEW k \in Keys, NEW d \in Data \cup {Absent}, Written(c, k, d),
           UNCHANGED <<seq, call>>,
           NEW o \in Callers \ {c}, pc'[o] = pc[o], outcome'[o] = outcome[o],
           held'[o] = held[o], attempt'[o] = attempt[o]
    PROVE  PhaseFits(o)' /\ HeldFits(o)' /\ LapFits(o)' /\ ScanFits(o)'
<1> USE DEF IInv, Written
<1>1. PhaseFits(o)'
  BY DEF PhaseFits
<1>2. docs'[k] = d /\ \A j \in Keys \ {k} : docs'[j] = docs[j]
  BY DEF DocsTyped
<1>3. pc[o] \in {"create", "save"} =>
          /\ call[o].key \in Keys /\ o \in Running
          /\ call[o].key = k => o \in Updating(k)
  BY CallFields DEF PhaseFits, Updating, Running
<1>4. HeldFits(o)'
  BY <1>2, <1>3 DEF HeldFits
<1>5. LapFits(o)'
  <2>1. Beaten(o)' => attempt[o] < overtaken'[o]
    BY <1>2, <1>3, KeysAndLaps DEF Beaten, LapFits, LapsTyped
  <2> QED
    BY <2>1, KeysAndLaps DEF LapFits, LapsTyped
<1>6. ScanFits(o)'
  BY <1>2, SMTT(30) DEF ScanFits, PhaseFits, Running, ScansTyped, Scans
<1> QED
  BY <1>1, <1>4, <1>5, <1>6

LEMMA FiniteCounting == IsFiniteSet(Counting) /\ Cardinality(Counting) \in Nat
  BY CallersAssumption, FS_Subset, FS_CardinalityType DEF Counting, Running

LEMMA CountKept ==
    ASSUME CountFits, seq' = seq, Counting' \subseteq Counting
    PROVE  CountFits'
  BY FiniteCounting, FS_Subset, FS_CardinalityType, KeysAndLaps DEF CountFits

LEMMA CountDrawn ==
    ASSUME CountFits, NEW c \in Counting, seq' = seq + 1, Counting' = Counting \ {c}
    PROVE  CountFits' /\ seq' \in 1..MaxSeq
<1>1. Cardinality(Counting') = Cardinality(Counting) - 1 /\ Cardinality(Counting') \in Nat
  BY FiniteCounting, FS_RemoveElement, FS_CardinalityType
<1> QED
  BY <1>1, FiniteCounting, KeysAndLaps DEF CountFits

LEMMA FirstStepFits ==
    ASSUME NEW x \in Abstract!Calls \cup {ForEachCall}
    PROVE  /\ FirstStep(x) \in {"tx", "direct", "upsert", "find", "scan"}
           /\ x = ForEachCall <=> FirstStep(x) = "scan"
           /\ FirstStep(x) = "direct" => x.op \notin {"update", "next-seq"}
           /\ FirstStep(x) = "upsert" => x.op = "next-seq"
           /\ FirstStep(x) = "find" => x.op = "update"
  BY CallFields, Distinct DEF FirstStep

\* What a caller remembers of its call is of no importance once it has returned.
LEMMA NoScanFits == NoScan \in Scans /\ NoScan.stayed = {}
  BY KeysAndLaps DEF NoScan, Scans

\* A call that starts over, or gives up, was overtaken and leaves all as it is.
LEMMA AgainFits ==
    ASSUME IInv, NEW c \in Callers, NEW p \in {"find", "upsert"}, Again(c, p),
           pc[c] # "return", attempt[c] < overtaken[c],
           p = "find" => pc[c] \in {"create", "save"},
           p = "upsert" => pc[c] = "insert-counter",
           Unwritten, UNCHANGED <<backend, seq, call>>,
           held' \in [Callers -> Data \cup {Absent}],
           \A o \in Callers \ {c} : held'[o] = held[o]
    PROVE  IInv'
<1> USE DEF IInv
<1>1. /\ attempt' = [attempt EXCEPT ![c] = attempt[c] + 1]
      /\ \/ /\ attempt[c] + 1 < MaxAttempts
            /\ pc' = [pc EXCEPT ![c] = p] /\ outcome' = outcome
         \/ /\ ~(attempt[c] + 1 < MaxAttempts)
            /\ pc' = [pc EXCEPT ![c] = "return"]
            /\ outcome' = [outcome EXCEPT ![c] = Abstract!Failed]
  BY DEF Again, Becomes, Goto, LapsTyped
<1>2. attempt[c] + 1 \in 0..MaxAttempts /\ attempt[c] < MaxAttempts
  BY KeysAndLaps DEF LapsTyped, LapFits
<1>3. /\ attempt'[c] = attempt[c] + 1
      /\ \A o \in Callers \ {c} : attempt'[o] = attempt[o] /\ pc'[o] = pc[o] /\ outcome'[o] = outcome[o]
      /\ \/ attempt[c] + 1 < MaxAttempts /\ pc'[c] = p /\ outcome'[c] = outcome[c]
         \/ pc'[c] = "return" /\ outcome'[c] = Abstract!Failed
  BY <1>1 DEF LapsTyped, CallsTyped
<1>4. DocsTyped' /\ LapsTyped' /\ ScansTyped'
  BY <1>1, <1>2 DEF DocsTyped, LapsTyped, ScansTyped, Unwritten
<1>5. CallsTyped'
  BY <1>1, AnswersAre DEF CallsTyped, Phases
<1>6. \A o \in Callers : PhaseFits(o)'
  <2>1. PhaseFits(c)'
    BY <1>3, AnswersSpeak, Distinct DEF PhaseFits
  <2>2. \A o \in Callers \ {c} : PhaseFits(o)'
    BY <1>3 DEF PhaseFits
  <2> QED
    BY <2>1, <2>2
<1>7. CountFits'
  <2>1. Counting' \subseteq Counting
    BY <1>3 DEF Counting, Running
  <2> QED
    BY <2>1, CountKept
<1>8. \A o \in Callers : HeldFits(o)'
  BY <1>3 DEF HeldFits, Unwritten
<1>9. \A o \in Callers : LapFits(o)'
  BY <1>2, <1>3, KeysAndLaps DEF LapFits, Beaten, LapsTyped, Unwritten
<1>10. \A o \in Callers : ScanFits(o)'
  <2>1. call[c] # ForEachCall
    BY Distinct DEF PhaseFits
  <2>2. ScanFits(c)'
    BY <1>3, <2>1 DEF ScanFits
  <2>3. \A o \in Callers \ {c} : ScanFits(o)'
    BY <1>3 DEF ScanFits, Unwritten
  <2> QED
    BY <2>2, <2>3
<1> QED
  BY <1>4, <1>5, <1>6, <1>7, <1>8, <1>9, <1>10

\* A call that writes ends well, and the others were overtaken.
LEMMA WriteFits ==
    ASSUME IInv, NEW c \in Callers, pc[c] \in {"create", "save"},
           NEW d \in Data, Write(c, call[c].key, d), Becomes(c, <<"ok">>),
           UNCHANGED <<backend, seq, call, attempt>>,
           held' \in [Callers -> Data \cup {Absent}],
           \A o \in Callers \ {c} : held'[o] = held[o]
    PROVE  IInv'
<1> USE DEF IInv
<1> DEFINE k == call[c].key
<1>1. k \in Keys /\ call[c] \in Abstract!Calls
  BY CallFields DEF PhaseFits
<1>2. Written(c, k, d)
  BY <1>1, WriteIsWritten
<1>3. /\ pc' = [pc EXCEPT ![c] = "return"] /\ outcome' = [outcome EXCEPT ![c] = <<"ok">>]
      /\ pc'[c] = "return" /\ outcome'[c] = <<"ok">>
      /\ \A o \in Callers \ {c} : pc'[o] = pc[o] /\ outcome'[o] = outcome[o]
  BY DEF Becomes, Goto, CallsTyped
<1> HIDE DEF k
<1>4. \A o \in Callers \ {c} : PhaseFits(o)' /\ HeldFits(o)' /\ LapFits(o)' /\ ScanFits(o)'
  BY <1>1, <1>2, <1>3, OthersFit
<1>5. DocsTyped' /\ CallsTyped' /\ LapsTyped' /\ ScansTyped'
  BY <1>1, <1>2, <1>3, AnswersAre DEF Written, DocsTyped, CallsTyped, Phases,
     LapsTyped, ScansTyped
<1>6. PhaseFits(c)' /\ HeldFits(c)'
  BY <1>1, <1>3, AnswersSpeak, Distinct DEF PhaseFits, HeldFits
<1>7. LapFits(c)'
  BY <1>2, <1>3, KeysAndLaps DEF LapFits, Beaten, Written, LapsTyped
<1>8. ScanFits(c)'
  BY <1>1, <1>3, Distinct DEF ScanFits
<1>9. CountFits'
  <2>1. Counting' \subseteq Counting
    BY <1>3 DEF Counting, Running
  <2> QED
    BY <2>1, CountKept
<1> QED
  BY <1>4, <1>5, <1>6, <1>7, <1>8, <1>9

\* A call that draws a number ends with it, and overtakes the others that count.
LEMMA DrawFits ==
    ASSUME IInv, NEW c \in Counting, seq' = seq + 1, Overtake(Counting \ {c}),
           Becomes(c, Abstract!Number(seq')),
           UNCHANGED <<backend, docs, call, held, fresh, attempt, scan>>
    PROVE  IInv'
<1> USE DEF IInv
<1>1. c \in Callers /\ call[c].op = "next-seq" /\ call[c] # ForEachCall /\ call[c] # Idle
  BY Distinct DEF Counting, Running, PhaseFits
<1>2. /\ pc' = [pc EXCEPT ![c] = "return"]
      /\ outcome' = [outcome EXCEPT ![c] = Abstract!Number(seq')]
      /\ pc'[c] = "return" /\ outcome'[c] = Abstract!Number(seq')
      /\ \A o \in Callers \ {c} : pc'[o] = pc[o] /\ outcome'[o] = outcome[o]
  BY <1>1 DEF Becomes, Goto, CallsTyped
<1>3. Counting' = Counting \ {c}
  BY <1>2 DEF Counting, Running
<1>4. CountFits' /\ seq' \in 1..MaxSeq
  BY <1>3, CountDrawn
<1>5. /\ overtaken' \in [Callers -> 0..MaxAttempts]
      /\ \A o \in Callers : overtaken[o] <= overtaken'[o]
      /\ \A o \in Counting \ {c} : attempt[o] < overtaken'[o]
  BY OvertakeCounts DEF Counting, Running, LapFits
<1>6. Abstract!Number(seq') \in Abstract!Answers
  BY <1>4, AnswersAre
<1>7. DocsTyped' /\ LapsTyped' /\ ScansTyped'
  BY <1>5 DEF DocsTyped, LapsTyped, ScansTyped
<1>8. CallsTyped'
  BY <1>2, <1>6 DEF CallsTyped, Phases
<1>9. \A o \in Callers : PhaseFits(o)'
  BY <1>1, <1>2, <1>6, Distinct DEF PhaseFits
<1>10. \A o \in Callers : HeldFits(o)'
  BY <1>2 DEF HeldFits
<1>11. \A o \in Callers : LapFits(o)'
  <2>1. LapFits(c)'
    BY <1>1, <1>2, <1>5, KeysAndLaps DEF LapFits, Beaten, LapsTyped
  <2>2. ASSUME NEW o \in Callers \ {c} PROVE LapFits(o)'
    <3>1. pc[o] = "insert-counter" => o \in Counting
      BY DEF Counting, Running, PhaseFits
    <3>2. Beaten(o)' => attempt[o] < overtaken'[o]
      BY <1>2, <1>5, <3>1, KeysAndLaps DEF Beaten, LapFits, LapsTyped
    <3> QED
      BY <1>2, <1>5, <3>2, KeysAndLaps DEF LapFits, LapsTyped
  <2> QED
    BY <2>1, <2>2
<1>12. \A o \in Callers : ScanFits(o)'
  BY <1>1, <1>2 DEF ScanFits
<1> QED
  BY <1>4, <1>7, <1>8, <1>9, <1>10, <1>11, <1>12

LEMMA InitIInv == Init => IInv
<1> SUFFICES ASSUME Init PROVE IInv
  OBVIOUS
<1> USE DEF Init, Abstract!Init
<1>1. DocsTyped /\ CallsTyped /\ LapsTyped
  BY KeysAndLaps DEF DocsTyped, CallsTyped, LapsTyped, Phases
<1>2. ScansTyped
  BY KeysAndLaps DEF ScansTyped, Scans, NoScan
<1>3. \A c \in Callers : PhaseFits(c) /\ HeldFits(c) /\ LapFits(c) /\ ScanFits(c)
  BY Distinct, KeysAndLaps DEF PhaseFits, HeldFits, LapFits, Beaten, ScanFits, NoScan
<1>4. CountFits
  <2>1. Counting = {}
    BY DEF Counting, Running
  <2> QED
    BY <2>1, FS_EmptySet, KeysAndLaps DEF CountFits
<1> QED
  BY <1>1, <1>2, <1>3, <1>4 DEF IInv

LEMMA NextIInv == IInv /\ [Next]_vars => IInv'
<1> SUFFICES ASSUME IInv, [Next]_vars PROVE IInv'
  OBVIOUS
<1> USE DEF IInv
<1>1. ASSUME NEW c \in Callers, Invoke(c) PROVE IInv'
  <2>a. PICK x \in Abstract!Calls \cup {ForEachCall} :
            /\ Abstract!Fits(x)
            /\ call' = [call EXCEPT ![c] = x]
            /\ pc' = [pc EXCEPT ![c] = FirstStep(x)]
            /\ scan' = IF x = ForEachCall
                       THEN [scan EXCEPT ![c] = [at |-> 1, visited |-> {}, stayed |-> Present]]
                       ELSE scan
    BY <1>1 DEF Invoke, Goto
  <2>b. pc[c] = "idle" /\ UNCHANGED <<backend, docs, seq, outcome, held, fresh, attempt, overtaken>>
    BY <1>1 DEF Invoke
  <2>c. call[c] = Idle /\ outcome[c] = Idle /\ attempt[c] = 0
    BY <2>b DEF PhaseFits, LapFits
  <2>d. /\ call'[c] = x /\ pc'[c] = FirstStep(x)
        /\ \A o \in Callers \ {c} : pc'[o] = pc[o] /\ call'[o] = call[o] /\ scan'[o] = scan[o]
    BY <2>a DEF CallsTyped, ScansTyped
  <2>e. /\ [at |-> 1, visited |-> {}, stayed |-> Present] \in Scans
        /\ x = ForEachCall => scan'[c].stayed = Present /\ scan'[c].at = 1
    BY <2>a, KeysAndLaps DEF Scans, ScansTyped, Present, Keys
  <2>0. /\ pc'[c] \in {"tx", "direct", "upsert", "find", "scan"}
        /\ x = ForEachCall <=> pc'[c] = "scan"
    BY <2>d, FirstStepFits
  <2>1. DocsTyped'
    BY <2>b DEF DocsTyped
  <2>2. CallsTyped'
    BY <2>a, <2>b, FirstStepFits DEF CallsTyped, Phases
  <2>3. LapsTyped'
    BY <2>b DEF LapsTyped
  <2>4. ScansTyped'
    BY <2>a, <2>e DEF ScansTyped
  <2>5. ASSUME NEW o \in Callers PROVE PhaseFits(o)'
    BY <2>a, <2>b, <2>c, <2>d, <2>0, FirstStepFits, Distinct DEF PhaseFits
  <2>6. CountFits'
    <3>1. CASE x.op # "next-seq"
      <4>1. Counting' \subseteq Counting
        BY <2>d, <3>1 DEF Counting, Running
      <4> QED
        BY <2>b, <4>1, CountKept
    <3>2. CASE x.op = "next-seq"
      <4> DEFINE Q == {q \in Callers : call[q] # Idle /\ call[q].op = "next-seq"}
      <4>1. seq + Cardinality(Q) < MaxSeq
        <5>1. Abstract!Fits(x)
          BY <2>a
        <5> QED
          BY <3>2, <5>1, SameCardinality DEF Abstract!Fits
      <4>2. Counting \subseteq Q /\ c \notin Counting
        BY <2>b DEF Counting, Running, PhaseFits
      <4>3. IsFiniteSet(Q) /\ Cardinality(Q) \in Nat
        BY CallersAssumption, FS_Subset, FS_CardinalityType
      <4>4. Cardinality(Counting) <= Cardinality(Q)
        BY <4>2, <4>3, FS_Subset
      <4>5. Counting' = Counting \cup {c}
        BY <2>d, <2>0, <3>2 DEF Counting, Running
      <4>6. Cardinality(Counting') = Cardinality(Counting) + 1
        BY <4>2, <4>5, FiniteCounting, FS_AddElement
      <4> QED
        BY <2>b, <4>1, <4>3, <4>4, <4>6, FiniteCounting, KeysAndLaps DEF CountFits
    <3> QED
      BY <3>1, <3>2
  <2>7. ASSUME NEW o \in Callers PROVE HeldFits(o)'
    BY <2>b, <2>d, <2>0 DEF HeldFits
  <2>8. ASSUME NEW o \in Callers PROVE LapFits(o)'
    BY <2>b, <2>c, <2>d, <2>0, KeysAndLaps DEF LapFits, Beaten, LapsTyped
  <2>9. ASSUME NEW o \in Callers PROVE ScanFits(o)'
    <3>1. CASE o # c
      BY <2>b, <2>d, <3>1 DEF ScanFits
    <3>2. CASE o = c
      <4>1. outcome'[c] # <<"ok">>
        BY <2>b, <2>c, AnswersSpeak
      <4>2. pc'[c] = "scan" => \A k \in scan'[c].stayed : docs'[k] # Absent /\ ~(k < scan'[c].at)
        BY <2>b, <2>e, <2>0, KeysAndLaps DEF Present, Keys
      <4> QED
        BY <3>2, <4>1, <4>2 DEF ScanFits
    <3> QED
      BY <3>1, <3>2
  <2> QED
    BY <2>1, <2>2, <2>3, <2>4, <2>5, <2>6, <2>7, <2>8, <2>9
<1>2. ASSUME NEW c \in Callers, BoltTx(c) PROVE IInv'
  <2> DEFINE k == call[c].key
             e == Abstract!Effect(call[c], docs[k])
  <2>a. call[c] \in Abstract!Calls /\ call[c].op # "next-seq" /\ pc[c] \in {"tx", "direct"}
    BY <1>2 DEF BoltTx, PhaseFits
  <2>b. k \in Keys /\ docs[k] \in Data \cup {Absent}
    BY <2>a, CallFields DEF DocsTyped
  <2>c. e[1] \in Data \cup {Absent} /\ e[2] \in Abstract!Answers
    BY <2>a, <2>b, EffectTyped
  <2>d. /\ Leaves(c, e[1])
        /\ outcome' = [outcome EXCEPT ![c] = e[2]] /\ pc' = [pc EXCEPT ![c] = "return"]
        /\ UNCHANGED <<backend, seq, call, held, attempt>>
    BY <1>2 DEF BoltTx, OneStep, Becomes, Goto
  <2> HIDE DEF e
  <2>e. Written(c, k, e[1])
    BY <2>b, <2>c, <2>d, LeavesIsWritten
  <2> HIDE DEF k
  <2>f. \A o \in Callers \ {c} : pc'[o] = pc[o] /\ outcome'[o] = outcome[o]
    BY <2>d DEF CallsTyped
  <2>g. \A o \in Callers \ {c} : PhaseFits(o)' /\ HeldFits(o)' /\ LapFits(o)' /\ ScanFits(o)'
    BY <2>b, <2>c, <2>d, <2>e, <2>f, OthersFit
  <2>0. pc'[c] = "return" /\ outcome'[c] = e[2]
    BY <2>d DEF CallsTyped
  <2>1. DocsTyped'
    BY <2>b, <2>c, <2>d, <2>e DEF Written, DocsTyped
  <2>2. CallsTyped'
    BY <2>c, <2>d DEF CallsTyped, Phases
  <2>3. LapsTyped'
    BY <2>d, <2>e DEF Written, LapsTyped
  <2>4. ScansTyped'
    BY <2>e DEF Written, ScansTyped
  <2>5. ASSUME NEW o \in Callers PROVE PhaseFits(o)'
    BY <2>a, <2>c, <2>d, <2>g, <2>0, Distinct DEF PhaseFits
  <2>6. CountFits'
    <3>1. Counting' \subseteq Counting
      BY <2>d, <2>f, <2>0 DEF Counting, Running
    <3> QED
      BY <2>d, <3>1, CountKept
  <2>7. ASSUME NEW o \in Callers PROVE HeldFits(o)'
    BY <2>g, <2>0 DEF HeldFits
  <2>8. ASSUME NEW o \in Callers PROVE LapFits(o)'
    BY <2>d, <2>e, <2>g, <2>0, KeysAndLaps DEF LapFits, Beaten, Written, LapsTyped
  <2>9. ASSUME NEW o \in Callers PROVE ScanFits(o)'
    BY <2>a, <2>d, <2>g, <2>0, Distinct DEF ScanFits
  <2> QED
    BY <2>1, <2>2, <2>3, <2>4, <2>5, <2>6, <2>7, <2>8, <2>9
<1>3. ASSUME NEW c \in Callers, MongoDirect(c) PROVE IInv'
  <2> DEFINE k == call[c].key
             e == Abstract!Effect(call[c], docs[k])
  <2>a. call[c] \in Abstract!Calls /\ call[c].op # "next-seq" /\ pc[c] \in {"tx", "direct"}
    BY <1>3 DEF MongoDirect, PhaseFits
  <2>b. k \in Keys /\ docs[k] \in Data \cup {Absent}
    BY <2>a, CallFields DEF DocsTyped
  <2>c. e[1] \in Data \cup {Absent} /\ e[2] \in Abstract!Answers
    BY <2>a, <2>b, EffectTyped
  <2>d. /\ Leaves(c, e[1])
        /\ outcome' = [outcome EXCEPT ![c] = e[2]] /\ pc' = [pc EXCEPT ![c] = "return"]
        /\ UNCHANGED <<backend, seq, call, held, attempt>>
    BY <1>3 DEF MongoDirect, OneStep, Becomes, Goto
  <2> HIDE DEF e
  <2>e. Written(c, k, e[1])
    BY <2>b, <2>c, <2>d, LeavesIsWritten
  <2> HIDE DEF k
  <2>f. \A o \in Callers \ {c} : pc'[o] = pc[o] /\ outcome'[o] = outcome[o]
    BY <2>d DEF CallsTyped
  <2>g. \A o \in Callers \ {c} : PhaseFits(o)' /\ HeldFits(o)' /\ LapFits(o)' /\ ScanFits(o)'
    BY <2>b, <2>c, <2>d, <2>e, <2>f, OthersFit
  <2>0. pc'[c] = "return" /\ outcome'[c] = e[2]
    BY <2>d DEF CallsTyped
  <2>1. DocsTyped'
    BY <2>b, <2>c, <2>d, <2>e DEF Written, DocsTyped
  <2>2. CallsTyped'
    BY <2>c, <2>d DEF CallsTyped, Phases
  <2>3. LapsTyped'
    BY <2>d, <2>e DEF Written, LapsTyped
  <2>4. ScansTyped'
    BY <2>e DEF Written, ScansTyped
  <2>5. ASSUME NEW o \in Callers PROVE PhaseFits(o)'
    BY <2>a, <2>c, <2>d, <2>g, <2>0, Distinct DEF PhaseFits
  <2>6. CountFits'
    <3>1. Counting' \subseteq Counting
      BY <2>d, <2>f, <2>0 DEF Counting, Running
    <3> QED
      BY <2>d, <3>1, CountKept
  <2>7. ASSUME NEW o \in Callers PROVE HeldFits(o)'
    BY <2>g, <2>0 DEF HeldFits
  <2>8. ASSUME NEW o \in Callers PROVE LapFits(o)'
    BY <2>d, <2>e, <2>g, <2>0, KeysAndLaps DEF LapFits, Beaten, Written, LapsTyped
  <2>9. ASSUME NEW o \in Callers PROVE ScanFits(o)'
    BY <2>a, <2>d, <2>g, <2>0, Distinct DEF ScanFits
  <2> QED
    BY <2>1, <2>2, <2>3, <2>4, <2>5, <2>6, <2>7, <2>8, <2>9
<1>4. ASSUME NEW c \in Callers, NextSeq(c) PROVE IInv'
  <2>1. c \in Counting
    BY <1>4 DEF NextSeq, Counting, Running, PhaseFits
  <2> QED
    BY <1>4, <2>1, DrawFits DEF NextSeq
<1>5. ASSUME NEW c \in Callers, UpsertFindsNone(c) PROVE IInv'
  <2>1. DocsTyped'
    BY <1>5 DEF UpsertFindsNone, Goto, CallsTyped, DocsTyped
  <2>2. CallsTyped'
    BY <1>5 DEF UpsertFindsNone, Goto, CallsTyped, Phases
  <2>3. LapsTyped'
    BY <1>5 DEF UpsertFindsNone, Goto, CallsTyped, LapsTyped
  <2>4. ScansTyped'
    BY <1>5 DEF UpsertFindsNone, Goto, CallsTyped, ScansTyped, Scans
  <2>5. ASSUME NEW o \in Callers PROVE PhaseFits(o)'
    BY <1>5 DEF UpsertFindsNone, Goto, CallsTyped, PhaseFits
  <2>6. CountFits'
    <3>1. seq' = seq /\ Counting' \subseteq Counting
      BY <1>5, Distinct DEF UpsertFindsNone, Goto, Counting, Running, CallsTyped,
         PhaseFits
    <3> QED
      BY <3>1, CountKept
  <2>7. ASSUME NEW o \in Callers PROVE HeldFits(o)'
    BY <1>5 DEF UpsertFindsNone, Goto, CallsTyped, HeldFits, DocsTyped
  <2>8. ASSUME NEW o \in Callers PROVE LapFits(o)'
    BY <1>5 DEF UpsertFindsNone, Goto, CallsTyped, LapFits, Beaten, LapsTyped
  <2>9. ASSUME NEW o \in Callers PROVE ScanFits(o)'
    BY <1>5 DEF UpsertFindsNone, Goto, CallsTyped, ScanFits, PhaseFits, ScansTyped,
       Scans
  <2> QED
    BY <2>1, <2>2, <2>3, <2>4, <2>5, <2>6, <2>7, <2>8, <2>9
<1>6. ASSUME NEW c \in Callers, InsertCounter(c) PROVE IInv'
  <2>1. CASE seq = 0
    <3>1. c \in Counting /\ seq' = seq + 1 /\ seq' = 1
      BY <1>6, <2>1 DEF InsertCounter, Counting, Running, PhaseFits
    <3> QED
      BY <1>6, <2>1, <3>1, DrawFits DEF InsertCounter
  <2>2. CASE seq # 0
    <3>1. Again(c, "upsert") /\ Unwritten /\ UNCHANGED <<backend, seq, call, held>> /\ pc[c] = "insert-counter"
      BY <1>6, <2>2 DEF InsertCounter, Unwritten
    <3>2. attempt[c] < overtaken[c]
      BY <2>2, <3>1 DEF LapFits, Beaten, CountFits
    <3> QED
      BY <3>1, <3>2, AgainFits DEF DocsTyped
  <2> QED
    BY <2>1, <2>2
<1>7. ASSUME NEW c \in Callers, Find(c) PROVE IInv'
  <2> DEFINE x == call[c]
             d == docs[call[c].key]
  <2>a. /\ pc[c] = "find" /\ x \in Abstract!Calls /\ x.op = "update" /\ outcome[c] = Idle
        /\ UNCHANGED <<backend, docs, seq, call, attempt, overtaken, scan>>
    BY <1>7 DEF Find, PhaseFits
  <2>b. x.key \in Keys /\ d \in Data \cup {Absent} /\ x.create \in BOOLEAN
    BY <2>a, CallFields DEF DocsTyped
  <2>c. held' = [held EXCEPT ![c] = d] /\ fresh' = [fresh EXCEPT ![c] = d # Absent]
    BY <1>7 DEF Find
  <2>d. \/ /\ pc' = [pc EXCEPT ![c] = "return"]
           /\ \E w \in {<<"not found">>, <<"refused">>} : outcome' = [outcome EXCEPT ![c] = w]
        \/ /\ d = Absent /\ x.create /\ x.fn[Absent] # Refused
           /\ pc' = [pc EXCEPT ![c] = "create"] /\ outcome' = outcome
        \/ /\ d \in Data /\ x.fn[d] # Refused
           /\ pc' = [pc EXCEPT ![c] = "save"] /\ outcome' = outcome
    BY <1>7, <2>b DEF Find, Becomes, Goto
  <2>e. /\ held'[c] = d /\ fresh'[c] = (d # Absent)
        /\ \A o \in Callers \ {c} : held'[o] = held[o] /\ fresh'[o] = fresh[o]
    BY <2>c DEF DocsTyped
  <2>f. /\ \A o \in Callers \ {c} : pc'[o] = pc[o] /\ outcome'[o] = outcome[o]
        /\ \/ /\ pc'[c] = "return"
              /\ outcome'[c] \in {<<"not found">>, <<"refused">>}
           \/ /\ d = Absent /\ x.create /\ x.fn[Absent] # Refused
              /\ pc'[c] = "create" /\ outcome'[c] = Idle
           \/ /\ d \in Data /\ x.fn[d] # Refused
              /\ pc'[c] = "save" /\ outcome'[c] = Idle
    BY <2>a, <2>d DEF CallsTyped
  <2>g. d \in Data => d # Absent
    BY SentinelsAssumption
  <2>0. outcome'[c] # <<"ok">>
    BY <2>f, AnswersSpeak
  <2>1. DocsTyped'
    BY <2>a, <2>b, <2>c DEF DocsTyped
  <2>2. CallsTyped'
    <3>1. outcome' \in [Callers -> Abstract!Answers \cup {Idle}]
      BY <2>d, AnswersAre DEF CallsTyped
    <3>2. pc' \in [Callers -> Phases]
      BY <2>d DEF CallsTyped, Phases
    <3> QED
      BY <2>a, <3>1, <3>2 DEF CallsTyped
  <2>3. LapsTyped'
    BY <2>a DEF LapsTyped
  <2>4. ScansTyped'
    BY <2>a DEF ScansTyped
  <2>5. ASSUME NEW o \in Callers PROVE PhaseFits(o)'
    <3>1. CASE o # c
      BY <2>a, <2>f, <3>1 DEF PhaseFits
    <3>2. CASE o = c
      BY <2>a, <2>f, <3>2, AnswersSpeak, Distinct DEF PhaseFits
    <3> QED
      BY <3>1, <3>2
  <2>6. CountFits'
    <3>1. Counting' \subseteq Counting
      BY <2>a, <2>f DEF Counting, Running
    <3> QED
      BY <2>a, <3>1, CountKept
  <2>7. ASSUME NEW o \in Callers PROVE HeldFits(o)'
    <3>1. CASE o # c
      <4>1. /\ pc'[o] = pc[o] /\ held'[o] = held[o] /\ fresh'[o] = fresh[o]
            /\ call'[o] = call[o] /\ docs' = docs
        BY <2>a, <2>e, <2>f, <3>1
      <4>2. HeldFits(o)
        OBVIOUS
      <4> QED
        BY <4>1, <4>2 DEF HeldFits
    <3>2. CASE o = c
      BY <2>a, <2>e, <2>f, <2>g, <3>2, Distinct DEF HeldFits
    <3> QED
      BY <3>1, <3>2
  <2>8. ASSUME NEW o \in Callers PROVE LapFits(o)'
    BY <2>a, <2>e, <2>f, <2>g DEF LapFits, Beaten
  <2>9. ASSUME NEW o \in Callers PROVE ScanFits(o)'
    BY <2>a, <2>f, <2>0 DEF ScanFits
  <2> QED
    BY <2>1, <2>2, <2>3, <2>4, <2>5, <2>6, <2>7, <2>8, <2>9
<1>8. ASSUME NEW c \in Callers, Create(c) PROVE IInv'
  <2>a. /\ pc[c] = "create" /\ held' = [held EXCEPT ![c] = Absent] /\ UNCHANGED <<backend, seq, call>>
        /\ call[c] \in Abstract!Calls /\ call[c].op = "update" /\ call[c].fn[Absent] # Refused
    BY <1>8 DEF Create, PhaseFits, HeldFits
  <2>b. held' \in [Callers -> Data \cup {Absent}] /\ \A o \in Callers \ {c} : held'[o] = held[o]
    BY <2>a DEF DocsTyped
  <2>1. CASE docs[call[c].key] = Absent
    <3>1. call[c].fn[Absent] \in Data
      BY <2>a, CallFields, FnValues
    <3> QED
      BY <1>8, <2>a, <2>b, <2>1, <3>1, WriteFits DEF Create
  <2>2. CASE docs[call[c].key] # Absent
    <3>1. attempt[c] < overtaken[c]
      BY <2>a, <2>2 DEF LapFits, Beaten
    <3> QED
      BY <1>8, <2>a, <2>b, <2>2, <3>1, AgainFits DEF Create
  <2> QED
    BY <2>1, <2>2
<1>9. ASSUME NEW c \in Callers, Save(c) PROVE IInv'
  <2>a. /\ pc[c] = "save" /\ held' = [held EXCEPT ![c] = Absent] /\ UNCHANGED <<backend, seq, call>>
        /\ call[c] \in Abstract!Calls /\ call[c].op = "update"
        /\ held[c] \in Data /\ call[c].fn[held[c]] # Refused
    BY <1>9 DEF Save, PhaseFits, HeldFits
  <2>b. held' \in [Callers -> Data \cup {Absent}] /\ \A o \in Callers \ {c} : held'[o] = held[o]
    BY <2>a DEF DocsTyped
  <2>1. CASE fresh[c]
    <3>1. call[c].fn[held[c]] \in Data
      BY <2>a, CallFields, FnValues
    <3> QED
      BY <1>9, <2>a, <2>b, <2>1, <3>1, WriteFits DEF Save
  <2>2. CASE ~fresh[c]
    <3>1. attempt[c] < overtaken[c]
      BY <2>a, <2>2 DEF LapFits, Beaten
    <3> QED
      BY <1>9, <2>a, <2>b, <2>2, <3>1, AgainFits DEF Save
  <2> QED
    BY <2>1, <2>2
<1>10. ASSUME NEW c \in Callers, BoltScan(c) PROVE IInv'
  <2> DEFINE new == [at |-> LastKey + 1, visited |-> Present, stayed |-> Present]
  <2>a. /\ pc[c] = "scan" /\ call[c] = ForEachCall
        /\ scan' = [scan EXCEPT ![c] = new]
        /\ outcome' = [outcome EXCEPT ![c] = <<"ok">>] /\ pc' = [pc EXCEPT ![c] = "return"]
        /\ UNCHANGED <<backend, docs, seq, call, held, fresh, attempt, overtaken>>
    BY <1>10 DEF BoltScan, Becomes, Goto, PhaseFits
  <2>b. new \in Scans
    BY KeysAndLaps DEF Scans, Present, Keys
  <2>0. /\ pc'[c] = "return" /\ outcome'[c] = <<"ok">> /\ scan'[c] = new
        /\ \A o \in Callers \ {c} : pc'[o] = pc[o] /\ outcome'[o] = outcome[o] /\ scan'[o] = scan[o]
    BY <2>a DEF CallsTyped, ScansTyped
  <2>1. DocsTyped'
    BY <1>10, <2>0 DEF BoltScan, Becomes, Goto, Present, CallsTyped, DocsTyped
  <2>2. CallsTyped'
    BY <2>a, AnswersAre DEF CallsTyped, Phases
  <2>3. LapsTyped'
    BY <1>10, <2>0 DEF BoltScan, Becomes, Goto, Present, CallsTyped, LapsTyped
  <2>4. ScansTyped'
    BY <2>a, <2>b DEF ScansTyped
  <2>5. ASSUME NEW o \in Callers PROVE PhaseFits(o)'
    <3>1. CASE o # c
      BY <2>a, <2>0, <3>1 DEF PhaseFits
    <3>2. CASE o = c
      <4>1. outcome'[c] # Idle /\ call'[c] # Idle
        BY <2>a, <2>0, AnswersSpeak, Distinct
      <4>2. pc'[c] = "return" /\ call'[c] = ForEachCall
        BY <2>a, <2>0
      <4> HIDE DEF new
      <4> QED
        BY <3>2, <4>1, <4>2 DEF PhaseFits
    <3> QED
      BY <3>1, <3>2
  <2>6. CountFits'
    <3>1. seq' = seq /\ Counting' \subseteq Counting
      BY <1>10, Distinct DEF BoltScan, Becomes, Goto, Present, Counting, Running,
         CallsTyped, PhaseFits
    <3> QED
      BY <3>1, CountKept
  <2>7. ASSUME NEW o \in Callers PROVE HeldFits(o)'
    BY <1>10, <2>0 DEF BoltScan, Becomes, Goto, Present, CallsTyped, HeldFits, DocsTyped
  <2>8. ASSUME NEW o \in Callers PROVE LapFits(o)'
    BY <1>10, <2>0 DEF BoltScan, Becomes, Goto, Present, CallsTyped, LapFits, Beaten,
       LapsTyped
  <2>9. ASSUME NEW o \in Callers PROVE ScanFits(o)'
    BY <1>10, <2>0 DEF BoltScan, Becomes, Goto, Present, CallsTyped, ScanFits,
       PhaseFits, ScansTyped, Scans
  <2> QED
    BY <2>1, <2>2, <2>3, <2>4, <2>5, <2>6, <2>7, <2>8, <2>9
<1>11. ASSUME NEW c \in Callers, CursorNext(c) PROVE IInv'
  <2>a. /\ pc[c] = "scan" /\ call[c] = ForEachCall
        /\ UNCHANGED <<backend, docs, seq, call, held, fresh, attempt, overtaken>>
    BY <1>11 DEF CursorNext, PhaseFits
  <2>b. \/ /\ outcome' = outcome /\ pc' = pc
           /\ \E k \in Present : /\ k >= scan[c].at
                                 /\ \A j \in Present : j >= scan[c].at => k <= j
                                 /\ Visit(c, {k}, k + 1)
        \/ /\ \A k \in Present : k < scan[c].at
           /\ outcome' = [outcome EXCEPT ![c] = <<"ok">>] /\ pc' = [pc EXCEPT ![c] = "return"]
           /\ scan' = scan
    BY <1>11 DEF CursorNext, Becomes, Goto
  <2>c. ASSUME NEW k \in Present, Visit(c, {k}, k + 1)
        PROVE  /\ ScansTyped'
               /\ scan'[c].stayed = scan[c].stayed /\ scan'[c].at = k + 1
               /\ scan'[c].visited = scan[c].visited \cup {k}
    <3>1. k \in Keys /\ k + 1 \in 1..(LastKey + 1)
      BY <2>c, KeysAndLaps DEF Present, Keys
    <3> QED
      BY <2>c, <3>1 DEF Visit, ScansTyped, Scans
  <2>0. Present \subseteq Keys /\ Keys \subseteq Nat /\ scan[c].at \in Nat /\ scan[c].stayed \subseteq Keys
    BY KeysAndLaps DEF Present, Keys, ScansTyped, Scans
  <2>1. DocsTyped'
    BY <1>11, <2>0 DEF CursorNext, Becomes, Goto, Visit, Present, CallsTyped, DocsTyped
  <2>2. CallsTyped'
    BY <2>a, <2>b, AnswersAre DEF CallsTyped, Phases
  <2>3. LapsTyped'
    BY <1>11, <2>0 DEF CursorNext, Becomes, Goto, Visit, Present, CallsTyped, LapsTyped
  <2>4. ScansTyped'
    BY <2>b, <2>c DEF ScansTyped
  <2>5. ASSUME NEW o \in Callers PROVE PhaseFits(o)'
    <3>1. CASE pc' = pc /\ outcome' = outcome
      BY <2>a, <3>1 DEF PhaseFits
    <3>2. CASE /\ outcome' = [outcome EXCEPT ![c] = <<"ok">>]
               /\ pc' = [pc EXCEPT ![c] = "return"]
      <4>1. /\ pc'[c] = "return" /\ outcome'[c] = <<"ok">>
            /\ \A q \in Callers \ {c} : pc'[q] = pc[q] /\ outcome'[q] = outcome[q]
        BY <3>2 DEF CallsTyped
      <4> QED
        BY <2>a, <4>1, AnswersSpeak, Distinct DEF PhaseFits
    <3> QED
      BY <2>b, <3>1, <3>2
  <2>6. CountFits'
    <3>1. seq' = seq /\ Counting' \subseteq Counting
      BY <1>11, Distinct DEF CursorNext, Becomes, Goto, Visit, Present, Counting,
         Running, CallsTyped, PhaseFits
    <3> QED
      BY <3>1, CountKept
  <2>7. ASSUME NEW o \in Callers PROVE HeldFits(o)'
    BY <1>11, <2>0 DEF CursorNext, Becomes, Goto, Visit, Present, CallsTyped, HeldFits,
       DocsTyped
  <2>8. ASSUME NEW o \in Callers PROVE LapFits(o)'
    BY <1>11, <2>0 DEF CursorNext, Becomes, Goto, Visit, Present, CallsTyped, LapFits,
       Beaten, LapsTyped
  <2>9. ASSUME NEW o \in Callers PROVE ScanFits(o)'
    <3>1. CASE o # c
      BY <2>a, <2>b, <3>1 DEF ScanFits, Visit, CallsTyped, ScansTyped
    <3>2. ASSUME o = c, outcome' = outcome, pc' = pc,
                 NEW k \in Present, k >= scan[c].at, Visit(c, {k}, k + 1),
                 \A j \in Present : j >= scan[c].at => k <= j
          PROVE  ScanFits(o)'
      <4>1. /\ scan'[c].stayed = scan[c].stayed /\ scan'[c].at = k + 1
            /\ scan'[c].visited = scan[c].visited \cup {k}
        BY <2>c, <3>2
      <4>2. outcome'[c] # <<"ok">>
        BY <2>a, <3>2, AnswersSpeak, Distinct DEF PhaseFits
      <4>3. ASSUME NEW j \in scan[c].stayed, j < k + 1 PROVE j \in scan'[c].visited
        <5>1. j \in Present /\ j \in Nat /\ k \in Nat
          BY <2>a, <2>0, <3>2, <4>3 DEF ScanFits, Present
        <5>2. CASE j < scan[c].at
          BY <2>a, <4>1, <4>3, <5>2 DEF ScanFits
        <5>3. CASE j >= scan[c].at
          <6>1. j = k
            BY <3>2, <4>3, <5>1, <5>3
          <6> QED
            BY <4>1, <6>1
        <5> QED
          BY <2>0, <5>1, <5>2, <5>3
      <4> QED
        BY <2>a, <3>2, <4>1, <4>2, <4>3 DEF ScanFits
    <3>3. ASSUME o = c, \A k \in Present : k < scan[c].at, scan' = scan,
                 pc' = [pc EXCEPT ![c] = "return"]
          PROVE  ScanFits(o)'
      <4>1. \A k \in scan[c].stayed : k \in Present
        BY <2>a, <2>0 DEF ScanFits, Present
      <4>2. pc'[c] = "return"
        BY <3>3 DEF CallsTyped
      <4> QED
        BY <2>a, <3>3, <4>1, <4>2 DEF ScanFits
    <3> QED
      BY <2>b, <3>1, <3>2, <3>3
  <2> QED
    BY <2>1, <2>2, <2>3, <2>4, <2>5, <2>6, <2>7, <2>8, <2>9
<1>12. ASSUME NEW c \in Callers, Return(c) PROVE IInv'
  <2>a. /\ pc[c] = "return" /\ pc' = [pc EXCEPT ![c] = "idle"]
        /\ call' = [call EXCEPT ![c] = Idle] /\ outcome' = [outcome EXCEPT ![c] = Idle]
        /\ UNCHANGED <<backend, docs, seq>>
    BY <1>12 DEF Return, Goto
  <2>b. /\ held' = [held EXCEPT ![c] = Absent] /\ fresh' = [fresh EXCEPT ![c] = FALSE]
        /\ attempt' = [attempt EXCEPT ![c] = 0] /\ overtaken' = [overtaken EXCEPT ![c] = 0]
        /\ scan' = [scan EXCEPT ![c] = NoScan]
    BY <1>12 DEF Return, Forget
  <2>c. /\ attempt'[c] = 0 /\ overtaken'[c] = 0 /\ scan'[c] = NoScan
        /\ \A o \in Callers \ {c} :
                /\ held'[o] = held[o] /\ fresh'[o] = fresh[o] /\ attempt'[o] = attempt[o]
                /\ overtaken'[o] = overtaken[o] /\ scan'[o] = scan[o]
    BY <2>b DEF DocsTyped, LapsTyped, ScansTyped
  <2>0. /\ pc'[c] = "idle" /\ call'[c] = Idle /\ outcome'[c] = Idle
        /\ \A o \in Callers \ {c} : pc'[o] = pc[o] /\ call'[o] = call[o] /\ outcome'[o] = outcome[o]
    BY <2>a DEF CallsTyped
  <2>1. DocsTyped'
    BY <2>a, <2>b DEF DocsTyped
  <2>2. CallsTyped'
    BY <2>a, AnswersAre DEF CallsTyped, Phases
  <2>3. LapsTyped'
    BY <2>b, KeysAndLaps DEF LapsTyped
  <2>4. ScansTyped'
    BY <2>b, NoScanFits DEF ScansTyped
  <2>5. ASSUME NEW o \in Callers PROVE PhaseFits(o)'
    <3>1. CASE o # c
      BY <2>a, <2>0, <3>1 DEF PhaseFits
    <3>2. CASE o = c
      BY <2>a, <2>0, <3>2, AnswersSpeak, Distinct DEF PhaseFits
    <3> QED
      BY <3>1, <3>2
  <2>6. CountFits'
    <3>1. Counting' \subseteq Counting
      BY <2>a, <2>0 DEF Counting, Running
    <3> QED
      BY <2>a, <3>1, CountKept
  <2>7. ASSUME NEW o \in Callers PROVE HeldFits(o)'
    BY <2>a, <2>c, <2>0 DEF HeldFits
  <2>8. ASSUME NEW o \in Callers PROVE LapFits(o)'
    BY <2>a, <2>c, <2>0, KeysAndLaps DEF LapFits, Beaten
  <2>9. ASSUME NEW o \in Callers PROVE ScanFits(o)'
    BY <2>a, <2>c, <2>0, NoScanFits, AnswersAre DEF ScanFits
  <2> QED
    BY <2>1, <2>2, <2>3, <2>4, <2>5, <2>6, <2>7, <2>8, <2>9
<1>13. ASSUME NEW c \in Callers, Fails(c) PROVE IInv'
  <2>a. /\ pc[c] # "idle" /\ pc' = [pc EXCEPT ![c] = "return"]
        /\ outcome' = [outcome EXCEPT ![c] = Abstract!Failed]
        /\ UNCHANGED <<backend, docs, seq, call>>
    BY <1>13 DEF Fails, Becomes, Goto
  <2>b. /\ held' = [held EXCEPT ![c] = Absent] /\ fresh' = [fresh EXCEPT ![c] = FALSE]
        /\ attempt' = [attempt EXCEPT ![c] = 0] /\ overtaken' = [overtaken EXCEPT ![c] = 0]
        /\ scan' = [scan EXCEPT ![c] = NoScan]
    BY <1>13 DEF Fails, Forget
  <2>c. /\ attempt'[c] = 0 /\ overtaken'[c] = 0 /\ scan'[c] = NoScan
        /\ \A o \in Callers \ {c} :
                /\ held'[o] = held[o] /\ fresh'[o] = fresh[o] /\ attempt'[o] = attempt[o]
                /\ overtaken'[o] = overtaken[o] /\ scan'[o] = scan[o]
    BY <2>b DEF DocsTyped, LapsTyped, ScansTyped
  <2>0. /\ pc'[c] = "return" /\ outcome'[c] = Abstract!Failed
        /\ \A o \in Callers \ {c} : pc'[o] = pc[o] /\ outcome'[o] = outcome[o]
    BY <2>a DEF CallsTyped
  <2>1. DocsTyped'
    BY <2>a, <2>b DEF DocsTyped
  <2>2. CallsTyped'
    BY <2>a, AnswersAre DEF CallsTyped, Phases
  <2>3. LapsTyped'
    BY <2>b, KeysAndLaps DEF LapsTyped
  <2>4. ScansTyped'
    BY <2>b, NoScanFits DEF ScansTyped
  <2>5. ASSUME NEW o \in Callers PROVE PhaseFits(o)'
    <3>1. CASE o # c
      BY <2>a, <2>0, <3>1 DEF PhaseFits
    <3>2. CASE o = c
      BY <2>a, <2>0, <3>2, AnswersSpeak, Distinct DEF PhaseFits
    <3> QED
      BY <3>1, <3>2
  <2>6. CountFits'
    <3>1. Counting' \subseteq Counting
      BY <2>a, <2>0 DEF Counting, Running
    <3> QED
      BY <2>a, <3>1, CountKept
  <2>7. ASSUME NEW o \in Callers PROVE HeldFits(o)'
    BY <2>a, <2>c, <2>0 DEF HeldFits
  <2>8. ASSUME NEW o \in Callers PROVE LapFits(o)'
    BY <2>a, <2>c, <2>0, KeysAndLaps DEF LapFits, Beaten
  <2>9. ASSUME NEW o \in Callers PROVE ScanFits(o)'
    BY <2>a, <2>c, <2>0, NoScanFits, AnswersAre DEF ScanFits
  <2> QED
    BY <2>1, <2>2, <2>3, <2>4, <2>5, <2>6, <2>7, <2>8, <2>9
<1>14. CASE UNCHANGED vars
  BY <1>14 DEF vars, DocsTyped, CallsTyped, LapsTyped, ScansTyped, PhaseFits,
     CountFits, Counting, Running, HeldFits, LapFits, Beaten, ScanFits
<1> QED
  BY <1>1, <1>2, <1>3, <1>4, <1>5, <1>6, <1>7, <1>8, <1>9, <1>10, <1>11, <1>12, <1>13,
     <1>14 DEF Next, Step
LEMMA Inductive == Spec => []IInv
  BY InitIInv, NextIInv, PTL DEF Spec

-----------------------------------------------------------------------------
\* Where a call is, which is all that its steps left depend on.
Place(c) == <<pc[c], attempt[c], scan[c].at>>

\* No document that is written moves a cursor.
LEMMA WriteMovesNone ==
    ASSUME ScansTyped, NEW c \in Callers, NEW k, NEW d, Write(c, k, d) \/ Unwritten
    PROVE  \A o \in Callers : scan'[o].at = scan[o].at
<1>1. \A o \in Callers : [scan[o] EXCEPT !.stayed = @ \ {k}].at = scan[o].at
  BY DEF ScansTyped, Scans
<1> QED
  BY <1>1 DEF Write, Unwritten, ScansTyped

\* A step of a call leaves the other calls where they are.
LEMMA OthersStay ==
    ASSUME IInv, NEW c \in Callers, Invoke(c) \/ Step(c) \/ Fails(c), NEW o \in Callers \ {c}
    PROVE  UNCHANGED Place(o)
<1> USE DEF IInv
<1>1. CASE Invoke(c)
  BY <1>1 DEF Invoke, Goto, Place, CallsTyped, ScansTyped
<1>2. CASE Fails(c)
  BY <1>2 DEF Fails, Becomes, Forget, Goto, Place, CallsTyped, LapsTyped, ScansTyped
<1>3. CASE Return(c)
  BY <1>3 DEF Return, Forget, Goto, Place, CallsTyped, LapsTyped, ScansTyped
<1>4. CASE BoltTx(c) \/ MongoDirect(c)
  <2>1. \E k, d : Write(c, k, d) \/ Unwritten
    BY <1>4 DEF BoltTx, MongoDirect, OneStep, Leaves
  <2> QED
    BY <1>4, <2>1, WriteMovesNone
       DEF BoltTx, MongoDirect, OneStep, Becomes, Goto, Place, CallsTyped
<1>5. CASE NextSeq(c) \/ UpsertFindsNone(c) \/ InsertCounter(c) \/ Find(c)
  BY <1>5 DEF NextSeq, UpsertFindsNone, InsertCounter, Find, Again, Becomes, Goto,
     Place, CallsTyped, LapsTyped
<1>6. CASE Create(c) \/ Save(c)
  <2>1. \E k, d : Write(c, k, d) \/ Unwritten
    BY <1>6 DEF Create, Save
  <2>2. pc'[o] = pc[o] /\ attempt'[o] = attempt[o]
    BY <1>6 DEF Create, Save, Again, Becomes, Goto, CallsTyped, LapsTyped
  <2> QED
    BY <2>1, <2>2, WriteMovesNone DEF Place
<1>7. CASE BoltScan(c) \/ CursorNext(c)
  BY <1>7 DEF BoltScan, CursorNext, Visit, Becomes, Goto, Place, CallsTyped, ScansTyped
<1> QED
  BY <1>1, <1>2, <1>3, <1>4, <1>5, <1>6, <1>7 DEF Step

\* A step of a call brings it closer to its end.
LEMMA StepAdvances ==
    ASSUME IInv, NEW c \in Callers, Step(c)
    PROVE  StepsLeft(c)' < StepsLeft(c)
<1> USE KeysAndLaps DEF IInv
<1>0. /\ attempt[c] \in Nat /\ (pc[c] # "return" => attempt[c] < MaxAttempts)
      /\ scan[c].at \in Nat /\ scan[c].at <= LastKey + 1
  BY DEF LapsTyped, LapFits, ScansTyped, Scans
<1>1. CASE Return(c)
  <2>1. pc[c] = "return" /\ pc'[c] = "idle"
    BY <1>1 DEF Return, Goto, CallsTyped
  <2> QED
    BY <2>1 DEF StepsLeft
\* The call has its answer.
<1>2. ASSUME pc[c] \notin {"idle", "return"}, pc'[c] = "return"
      PROVE  StepsLeft(c)' < StepsLeft(c)
  <2>1. StepsLeft(c)' = 1
    BY <1>2 DEF StepsLeft
  <2>2. pc[c] \in Phases \ {"idle", "return"}
    BY <1>2 DEF CallsTyped
  <2>3. StepsLeft(c) >= 2
    BY <1>0, <2>2 DEF StepsLeft, Phases
  <2>4. StepsLeft(c) \in Nat
    BY <1>0, <2>2 DEF StepsLeft, Phases
  <2> QED
    BY <2>1, <2>3, <2>4
\* The loop starts over, or gives up.
<1>3. ASSUME NEW p \in {"find", "upsert"}, Again(c, p),
             pc[c] \in {"insert-counter", "create", "save"}
      PROVE  StepsLeft(c)' < StepsLeft(c)
  <2>1. CASE pc'[c] = "return"
    BY <1>2, <1>3, <2>1
  <2>2. CASE pc'[c] # "return"
    <3>1. pc'[c] = p /\ attempt'[c] = attempt[c] + 1
      BY <1>3, <2>2 DEF Again, Becomes, Goto, CallsTyped, LapsTyped
    <3>2. StepsLeft(c)' = 2 * (MaxAttempts - (attempt[c] + 1)) + 1
      BY <3>1 DEF StepsLeft
    <3>3. StepsLeft(c) = 2 * (MaxAttempts - attempt[c])
      BY <1>3 DEF StepsLeft
    <3> QED
      BY <1>0, <3>2, <3>3
  <2> QED
    BY <2>1, <2>2
\* The loop goes from its read to its write.
<1>4. ASSUME pc[c] \in {"upsert", "find"}, pc'[c] \in {"insert-counter", "create", "save"},
             UNCHANGED attempt
      PROVE  StepsLeft(c)' < StepsLeft(c)
  <2>1. StepsLeft(c) = 2 * (MaxAttempts - attempt[c]) + 1
    BY <1>4 DEF StepsLeft
  <2>2. StepsLeft(c)' = 2 * (MaxAttempts - attempt[c])
    BY <1>4 DEF StepsLeft
  <2> QED
    BY <1>0, <2>1, <2>2
<1>5. CASE BoltTx(c) \/ MongoDirect(c) \/ NextSeq(c) \/ BoltScan(c)
  BY <1>2, <1>5 DEF BoltTx, MongoDirect, OneStep, NextSeq, BoltScan, Becomes, Goto,
     CallsTyped
<1>6. CASE UpsertFindsNone(c)
  BY <1>4, <1>6 DEF UpsertFindsNone, Goto, CallsTyped
<1>7. CASE InsertCounter(c)
  BY <1>2, <1>3, <1>7 DEF InsertCounter, Becomes, Goto, CallsTyped
<1>8. CASE Find(c)
  <2>1. pc[c] = "find" /\ pc'[c] \in {"return", "create", "save"} /\ UNCHANGED attempt
    BY <1>8 DEF Find, Becomes, Goto, CallsTyped
  <2> QED
    BY <1>2, <1>4, <2>1
<1>9. CASE Create(c) \/ Save(c)
  BY <1>2, <1>3, <1>9 DEF Create, Save, Becomes, Goto, CallsTyped
<1>10. CASE CursorNext(c)
  <2>1. CASE \E k \in Present : k >= scan[c].at /\ Visit(c, {k}, k + 1) /\ UNCHANGED pc
    <3>1. PICK k \in Present : k >= scan[c].at /\ Visit(c, {k}, k + 1)
      BY <2>1
    <3>2. k \in Nat /\ scan'[c].at = k + 1
      BY <3>1 DEF Visit, ScansTyped, Scans, Present, Keys
    <3>3. pc[c] = "scan" /\ pc'[c] = "scan"
      BY <1>10, <2>1 DEF CursorNext
    <3>4. StepsLeft(c) = LastKey + 3 - scan[c].at /\ StepsLeft(c)' = LastKey + 3 - (k + 1)
      BY <3>2, <3>3 DEF StepsLeft
    <3> QED
      BY <1>0, <3>1, <3>2, <3>4
  <2>2. CASE Becomes(c, <<"ok">>)
    BY <1>2, <1>10, <2>2 DEF CursorNext, Becomes, Goto, CallsTyped
  <2> QED
    BY <1>10, <2>1, <2>2 DEF CursorNext
<1> QED
  BY <1>1, <1>5, <1>6, <1>7, <1>8, <1>9, <1>10 DEF Step

\* An error leaves no more to do than the answer.
LEMMA FailureAdvances ==
    ASSUME IInv, NEW c \in Callers, Fails(c)
    PROVE  StepsLeft(c)' <= StepsLeft(c)
<1> USE KeysAndLaps DEF IInv
<1>1. StepsLeft(c)' = 1
  BY DEF Fails, Becomes, Goto, StepsLeft, CallsTyped
<1>2. pc[c] \in Phases \ {"idle"}
  BY DEF Fails, CallsTyped
<1>3. /\ attempt[c] \in Nat /\ (pc[c] # "return" => attempt[c] < MaxAttempts)
      /\ scan[c].at \in Nat /\ scan[c].at <= LastKey + 1
  BY DEF LapsTyped, LapFits, ScansTyped, Scans
<1>4. StepsLeft(c) \in Nat /\ StepsLeft(c) >= 1
  BY <1>2, <1>3 DEF StepsLeft, Phases
<1> QED
  BY <1>1, <1>4

(* mongo.go:202: "each retry implies another writer made progress": the    *)
(* loops of Update and NextSeq start over at most as often as others wrote *)
(* against them, never more than updateMaxAttempts times, and the counter  *)
(* stays within its bound; each step of a call leaves it fewer to do, and  *)
(* no error and no step of another call leaves it more.                    *)
THEOREM CallsGetCloser == Spec => CallsAdvance
<1>1. IInv => TypeOK /\ RetriesAreProgress
  <2> SUFFICES ASSUME IInv PROVE TypeOK /\ RetriesAreProgress
    OBVIOUS
  <2>1. seq \in 0..MaxSeq
    BY FiniteCounting, KeysAndLaps DEF IInv, CountFits
  <2>2. TypeOK
    BY <2>1 DEF IInv, DocsTyped, CallsTyped, LapsTyped, ScansTyped, Scans, TypeOK
  <2>3. RetriesAreProgress
    BY DEF IInv, LapFits, RetriesAreProgress
  <2> QED
    BY <2>2, <2>3
<1>2. ASSUME IInv, [Next]_vars
      PROVE  [\A c \in Callers : pc[c] # "idle" =>
                 /\ StepsLeft(c)' <= StepsLeft(c)
                 /\ Step(c) => StepsLeft(c)' < StepsLeft(c)]_vars
  <2> SUFFICES ASSUME Next, NEW c \in Callers, pc[c] # "idle"
               PROVE  /\ StepsLeft(c)' <= StepsLeft(c)
                      /\ Step(c) => StepsLeft(c)' < StepsLeft(c)
    BY <1>2
  <2>1. StepsLeft(c) \in Int
    BY <1>2, KeysAndLaps DEF IInv, CallsTyped, Phases, LapsTyped, ScansTyped, Scans, StepsLeft
  <2>2. StepsLeft(c)' \in Int
    <3>1. IInv'
      BY <1>2, NextIInv
    <3> QED
      BY <3>1, KeysAndLaps DEF IInv, CallsTyped, Phases, LapsTyped, ScansTyped, Scans, StepsLeft
  <2>3. Step(c) => StepsLeft(c)' < StepsLeft(c)
    BY <1>2, StepAdvances
  <2>4. PICK o \in Callers : Invoke(o) \/ Step(o) \/ Fails(o)
    BY DEF Next
  <2>5. CASE o = c
    BY <1>2, <2>1, <2>2, <2>3, <2>4, <2>5, FailureAdvances DEF Invoke
  <2>6. CASE o # c
    <3>1. UNCHANGED Place(c)
      BY <1>2, <2>4, <2>6, OthersStay
    <3>2. StepsLeft(c)' = StepsLeft(c)
      BY <3>1 DEF Place, StepsLeft
    <3> QED
      BY <2>1, <2>3, <3>2
  <2> QED
    BY <2>5, <2>6
<1> QED
  BY Inductive, <1>1, <1>2, PTL DEF Spec, CallsAdvance

(* bolt.go ForEach, mongo.go ForEach: a scan that ends well has visited    *)
(* every document that was there from its start to its end.                *)
THEOREM ScansMissNothing == Spec => []ScanComplete
<1>1. IInv => ScanComplete
  BY DEF IInv, ScanFits, ScanComplete
<1> QED
  BY <1>1, Inductive, PTL

-----------------------------------------------------------------------------
(* Both backends implement the atomic store.  A call takes effect in the   *)
(* atomic store when its transaction, or the server call that decides it,  *)
(* is executed; everything before and after that is a stutter.             *)

LEMMA SameStore ==
    /\ Atomic!Calls = Abstract!Calls /\ Atomic!Failed = Abstract!Failed
    /\ \A n : Atomic!Number(n) = Abstract!Number(n)
    /\ \A x, d : Atomic!Effect(x, d) = Abstract!Effect(x, d)
<1>1. Atomic!Calls = Abstract!Calls /\ Atomic!Failed = Abstract!Failed
  BY DEF Atomic!Calls, Abstract!Calls, Atomic!Failed, Abstract!Failed
<1>2. \A n : Atomic!Number(n) = Abstract!Number(n)
  BY DEF Atomic!Number, Abstract!Number
<1>3. \A x, d : Atomic!Effect(x, d) = Abstract!Effect(x, d)
  BY DEF Atomic!Effect, Abstract!Effect, Atomic!Found, Abstract!Found
<1> QED
  BY <1>1, <1>2, <1>3

MappedCall == [c \in Callers |-> CallOf(c)]
MappedOutcome == [c \in Callers |-> OutcomeOf(c)]

\* A step that changes one caller's call and outcome changes what they are mapped to there.
LEMMA Mapped ==
    ASSUME NEW c \in Callers,
           \A o \in Callers \ {c} : call'[o] = call[o] /\ outcome'[o] = outcome[o]
    PROVE  /\ MappedCall' = [MappedCall EXCEPT ![c] = CallOf(c)']
           /\ MappedOutcome' = [MappedOutcome EXCEPT ![c] = OutcomeOf(c)']
           /\ MappedCall[c] = CallOf(c) /\ MappedOutcome[c] = OutcomeOf(c)
  BY DEF MappedCall, MappedOutcome, CallOf, OutcomeOf

LEMMA Stutters ==
    ASSUME UNCHANGED <<docs, seq>>, NEW c \in Callers,
           \A o \in Callers \ {c} : call'[o] = call[o] /\ outcome'[o] = outcome[o],
           CallOf(c)' = CallOf(c), OutcomeOf(c)' = OutcomeOf(c)
    PROVE  UNCHANGED Atomic!vars
<1>1. MappedCall' = MappedCall /\ MappedOutcome' = MappedOutcome
  BY Mapped DEF MappedCall, MappedOutcome
<1> QED
  BY <1>1 DEF Atomic!vars, MappedCall, MappedOutcome

LEMMA InvokeMaps ==
    ASSUME NEW c \in Callers, CallsTyped, call[c] = Idle, outcome[c] = Idle,
           NEW x \in Abstract!Calls, Abstract!Fits(x),
           call' = [call EXCEPT ![c] = x], UNCHANGED <<docs, seq, outcome>>
    PROVE  Atomic!Invoke(c)
<1>1. \A o \in Callers \ {c} : call'[o] = call[o]
  BY DEF CallsTyped
<1>2. call'[c] = x
  BY DEF CallsTyped
<1>3. CallOf(c) = Idle /\ CallOf(c)' = x /\ OutcomeOf(c) = Idle /\ OutcomeOf(c)' = Idle
  BY <1>2, Distinct DEF CallOf, OutcomeOf
<1>4. /\ MappedCall[c] = Idle /\ MappedCall' = [MappedCall EXCEPT ![c] = x]
      /\ MappedOutcome' = MappedOutcome
  BY <1>1, <1>3, Mapped DEF MappedOutcome
<1>5. Atomic!Fits(x)
  <2>1. {o \in Callers : call[o] # Idle /\ call[o].op = "next-seq"}
        = {o \in Callers : MappedCall[o] # Idle /\ MappedCall[o].op = "next-seq"}
    BY Distinct DEF MappedCall, CallOf
  <2> QED
    BY <2>1, SameCardinality DEF Atomic!Fits, Abstract!Fits, MappedCall
<1> QED
  BY <1>4, <1>5, SameStore DEF Atomic!Invoke, MappedCall, MappedOutcome

LEMMA ExecuteMaps ==
    ASSUME NEW c \in Callers, CallsTyped, call[c] \in Abstract!Calls, outcome[c] = Idle,
           call[c].op # "next-seq",
           docs' = [docs EXCEPT ![call[c].key] =
                       Abstract!Effect(call[c], docs[call[c].key])[1]],
           outcome' = [outcome EXCEPT ![c] = Abstract!Effect(call[c], docs[call[c].key])[2]],
           UNCHANGED <<seq, call>>
    PROVE  Atomic!Execute(c)
<1> DEFINE e == Abstract!Effect(call[c], docs[call[c].key])
<1>1. outcome'[c] = e[2] /\ \A o \in Callers \ {c} : outcome'[o] = outcome[o]
  BY DEF CallsTyped
<1>2. CallOf(c) = call[c] /\ CallOf(c)' = call[c] /\ OutcomeOf(c) = Idle /\ OutcomeOf(c)' = e[2]
  BY <1>1, Distinct DEF CallOf, OutcomeOf
<1>3. /\ MappedCall[c] = call[c] /\ MappedOutcome[c] = Idle
      /\ MappedCall' = MappedCall
      /\ MappedOutcome' = [MappedOutcome EXCEPT ![c] = e[2]]
  BY <1>1, <1>2, Mapped, ZenonT(60) DEF MappedCall
<1>4. Atomic!Effect(MappedCall[c], docs[MappedCall[c].key]) = e
  BY <1>3, SameStore
<1>5. Atomic!Waiting(c)
  BY <1>3, Distinct DEF Atomic!Waiting, MappedCall, MappedOutcome
<1> HIDE DEF e
<1>6. docs' = [docs EXCEPT ![MappedCall[c].key] = e[1]]
  BY <1>3 DEF e
<1> QED
  BY <1>3, <1>4, <1>5, <1>6 DEF Atomic!Execute, MappedCall, MappedOutcome

LEMMA CountMaps ==
    ASSUME NEW c \in Callers, CallsTyped, call[c] \in Abstract!Calls, outcome[c] = Idle,
           call[c].op = "next-seq", seq' = seq + 1,
           outcome' = [outcome EXCEPT ![c] = Abstract!Number(seq')],
           UNCHANGED <<docs, call>>
    PROVE  Atomic!Count(c)
<1>1. outcome'[c] = Abstract!Number(seq') /\ \A o \in Callers \ {c} : outcome'[o] = outcome[o]
  BY DEF CallsTyped
<1>2. /\ CallOf(c) = call[c] /\ CallOf(c)' = call[c]
      /\ OutcomeOf(c) = Idle /\ OutcomeOf(c)' = Abstract!Number(seq')
  BY <1>1, Distinct DEF CallOf, OutcomeOf
<1>3. /\ MappedCall[c] = call[c] /\ MappedOutcome[c] = Idle
      /\ MappedCall' = MappedCall
      /\ MappedOutcome' = [MappedOutcome EXCEPT ![c] = Abstract!Number(seq')]
  BY <1>1, <1>2, Mapped DEF MappedCall
<1>4. Atomic!Waiting(c)
  BY <1>3, Distinct DEF Atomic!Waiting, MappedCall, MappedOutcome
<1> QED
  BY <1>3, <1>4, SameStore DEF Atomic!Count, MappedCall, MappedOutcome

LEMMA ErrorMaps ==
    ASSUME NEW c \in Callers, CallsTyped, call[c] \in Abstract!Calls,
           outcome' = [outcome EXCEPT ![c] = Abstract!Failed],
           UNCHANGED <<docs, seq, call>>
    PROVE  Atomic!Error(c)
<1>1. outcome'[c] = Abstract!Failed /\ \A o \in Callers \ {c} : outcome'[o] = outcome[o]
  BY DEF CallsTyped
<1>2. CallOf(c) = call[c] /\ CallOf(c)' = call[c] /\ OutcomeOf(c)' = Abstract!Failed
  BY <1>1, Distinct DEF CallOf, OutcomeOf
<1>3. /\ MappedCall[c] = call[c] /\ MappedCall' = MappedCall
      /\ MappedOutcome' = [MappedOutcome EXCEPT ![c] = Abstract!Failed]
  BY <1>1, <1>2, Mapped DEF MappedCall
<1> QED
  BY <1>3, Distinct, SameStore DEF Atomic!Error, MappedCall, MappedOutcome

LEMMA ReturnMaps ==
    ASSUME NEW c \in Callers, CallsTyped, call[c] \in Abstract!Calls, outcome[c] # Idle,
           call' = [call EXCEPT ![c] = Idle], outcome' = [outcome EXCEPT ![c] = Idle],
           UNCHANGED <<docs, seq>>
    PROVE  Atomic!Return(c)
<1>1. /\ call'[c] = Idle /\ outcome'[c] = Idle
      /\ \A o \in Callers \ {c} : call'[o] = call[o] /\ outcome'[o] = outcome[o]
  BY DEF CallsTyped
<1>2. /\ CallOf(c) = call[c] /\ OutcomeOf(c) = outcome[c]
      /\ CallOf(c)' = Idle /\ OutcomeOf(c)' = Idle
  BY <1>1, Distinct DEF CallOf, OutcomeOf
<1>3. /\ MappedCall[c] # Idle /\ MappedOutcome[c] # Idle
      /\ MappedCall' = [MappedCall EXCEPT ![c] = Idle]
      /\ MappedOutcome' = [MappedOutcome EXCEPT ![c] = Idle]
  BY <1>1, <1>2, Mapped, Distinct
<1> QED
  BY <1>3 DEF Atomic!Return, MappedCall, MappedOutcome

\* A loop that starts over is a stutter, one that gives up answers an error.
LEMMA AgainMaps ==
    ASSUME NEW c \in Callers, CallsTyped, call[c] \in Abstract!Calls, NEW p, Again(c, p),
           UNCHANGED <<docs, seq, call>>
    PROVE  Atomic!Error(c) \/ UNCHANGED Atomic!vars
<1>1. CASE outcome' = outcome
  BY <1>1, Stutters DEF CallOf, OutcomeOf
<1>2. CASE outcome' = [outcome EXCEPT ![c] = Abstract!Failed]
  BY <1>2, ErrorMaps
<1> QED
  BY <1>1, <1>2 DEF Again, Becomes

LEMMA ScanMaps ==
    ASSUME NEW c \in Callers, CallsTyped, call[c] = ForEachCall, UNCHANGED <<docs, seq, call>>,
           \A o \in Callers \ {c} : outcome'[o] = outcome[o]
    PROVE  UNCHANGED Atomic!vars
  BY Stutters DEF CallOf, OutcomeOf

\* Every step of a backend is a step of the atomic store, or changes nothing in it.
LEMMA StepsMap == IInv /\ [Next]_vars => [Atomic!Next]_(Atomic!vars)
<1> SUFFICES ASSUME IInv, [Next]_vars PROVE Atomic!Next \/ UNCHANGED Atomic!vars
  OBVIOUS
<1> DEFINE Goal(c) == \/ Atomic!Invoke(c) \/ Atomic!Execute(c) \/ Atomic!Count(c)
                      \/ Atomic!Error(c) \/ Atomic!Return(c) \/ UNCHANGED Atomic!vars
<1>0. CallsTyped /\ \A c \in Callers : PhaseFits(c) /\ HeldFits(c)
  BY DEF IInv
<1>1. ASSUME NEW c \in Callers, Invoke(c) PROVE Goal(c)
  <2>1. call[c] = Idle /\ outcome[c] = Idle
    BY <1>0, <1>1 DEF Invoke, PhaseFits
  <2>2. PICK x \in Abstract!Calls \cup {ForEachCall} :
            Abstract!Fits(x) /\ call' = [call EXCEPT ![c] = x]
    BY <1>1 DEF Invoke
  <2>3. UNCHANGED <<docs, seq, outcome>>
    BY <1>1 DEF Invoke
  <2>4. CASE x = ForEachCall
    <3>1. call'[c] = ForEachCall /\ \A o \in Callers \ {c} : call'[o] = call[o]
      BY <1>0, <2>2, <2>4 DEF CallsTyped
    <3> QED
      BY <2>1, <2>3, <3>1, Distinct, Stutters DEF CallOf, OutcomeOf
  <2>5. CASE x # ForEachCall
    BY <1>0, <2>1, <2>2, <2>3, <2>5, InvokeMaps
  <2> QED
    BY <2>4, <2>5
<1>2. ASSUME NEW c \in Callers, BoltTx(c) \/ MongoDirect(c) PROVE Goal(c)
  <2> DEFINE k == call[c].key
             e == Abstract!Effect(call[c], docs[k])
  <2>1. call[c] \in Abstract!Calls /\ call[c].op # "next-seq" /\ outcome[c] = Idle
    BY <1>0, <1>2 DEF BoltTx, MongoDirect, PhaseFits
  <2>2. k \in Keys /\ docs[k] \in Data \cup {Absent}
    BY <2>1, CallFields DEF IInv, DocsTyped
  <2>3. e[1] \in Data \cup {Absent}
    BY <2>1, <2>2, EffectTyped
  <2>4. Leaves(c, e[1]) /\ outcome' = [outcome EXCEPT ![c] = e[2]] /\ UNCHANGED <<seq, call>>
    BY <1>2 DEF BoltTx, MongoDirect, OneStep, Becomes
  <2>5. docs' = [docs EXCEPT ![k] = e[1]]
    BY <2>2, <2>3, <2>4, LeavesIsWritten DEF Written
  <2> QED
    BY <1>0, <2>1, <2>4, <2>5, ExecuteMaps
<1>3. ASSUME NEW c \in Callers, NextSeq(c) PROVE Goal(c)
  <2>1. call[c] \in Abstract!Calls /\ call[c].op = "next-seq" /\ outcome[c] = Idle
    BY <1>0, <1>3 DEF NextSeq, PhaseFits
  <2>2. /\ seq' = seq + 1 /\ UNCHANGED <<docs, call>>
        /\ outcome' = [outcome EXCEPT ![c] = Abstract!Number(seq')]
    BY <1>3 DEF NextSeq, Becomes
  <2> QED
    BY <1>0, <2>1, <2>2, CountMaps
<1>4. ASSUME NEW c \in Callers, UpsertFindsNone(c) PROVE Goal(c)
  BY <1>4, Stutters DEF UpsertFindsNone, CallOf, OutcomeOf
<1>5. ASSUME NEW c \in Callers, InsertCounter(c) PROVE Goal(c)
  <2>1. /\ call[c] \in Abstract!Calls /\ call[c].op = "next-seq" /\ outcome[c] = Idle
        /\ UNCHANGED <<docs, call>>
    BY <1>0, <1>5 DEF InsertCounter, PhaseFits
  <2>2. CASE seq = 0
    <3>1. seq' = seq + 1 /\ outcome' = [outcome EXCEPT ![c] = Abstract!Number(seq')]
      BY <1>5, <2>2 DEF InsertCounter, Becomes
    <3> QED
      BY <1>0, <2>1, <3>1, CountMaps
  <2>3. CASE seq # 0
    BY <1>0, <1>5, <2>1, <2>3, AgainMaps DEF InsertCounter
  <2> QED
    BY <2>2, <2>3
<1>6. ASSUME NEW c \in Callers, Find(c) PROVE Goal(c)
  <2> DEFINE x == call[c]
             d == docs[x.key]
  <2>1. x \in Abstract!Calls /\ x.op = "update" /\ x.key \in Keys /\ outcome[c] = Idle
    BY <1>0, <1>6, CallFields DEF Find, PhaseFits
  <2>2. UNCHANGED <<docs, seq, call>> /\ docs' = [docs EXCEPT ![x.key] = d]
    BY <1>6, <2>1 DEF Find, IInv, DocsTyped
  <2>3. \/ d = Absent /\ ~x.create /\ outcome' = [outcome EXCEPT ![c] = <<"not found">>]
        \/ /\ (d # Absent \/ x.create) /\ x.fn[d] = Refused
           /\ outcome' = [outcome EXCEPT ![c] = <<"refused">>]
        \/ outcome' = outcome
    BY <1>6 DEF Find, Becomes
  <2>4. CASE outcome' = outcome
    BY <2>2, <2>4, Stutters DEF CallOf, OutcomeOf
  <2>5. CASE /\ d = Absent /\ ~x.create
             /\ outcome' = [outcome EXCEPT ![c] = <<"not found">>]
    <3>1. Abstract!Effect(x, d)[1] = d /\ Abstract!Effect(x, d)[2] = <<"not found">>
      BY <2>1, <2>5 DEF Abstract!Effect
    <3> QED
      BY <1>0, <2>1, <2>2, <2>5, <3>1, ExecuteMaps
  <2>6. CASE /\ (d # Absent \/ x.create) /\ x.fn[d] = Refused
             /\ outcome' = [outcome EXCEPT ![c] = <<"refused">>]
    <3>1. Abstract!Effect(x, d)[1] = d /\ Abstract!Effect(x, d)[2] = <<"refused">>
      BY <2>1, <2>6 DEF Abstract!Effect
    <3> QED
      BY <1>0, <2>1, <2>2, <2>6, <3>1, ExecuteMaps
  <2> QED
    BY <2>3, <2>4, <2>5, <2>6
<1>7. ASSUME NEW c \in Callers, Create(c) PROVE Goal(c)
  <2>1. /\ call[c] \in Abstract!Calls /\ call[c].op = "update" /\ outcome[c] = Idle
        /\ call[c].create /\ call[c].fn[Absent] # Refused
        /\ UNCHANGED <<seq, call>>
    BY <1>0, <1>7 DEF Create, PhaseFits, HeldFits
  <2>2. CASE docs[call[c].key] = Absent
    <3>1. /\ docs' = [docs EXCEPT ![call[c].key] = call[c].fn[Absent]]
          /\ outcome' = [outcome EXCEPT ![c] = <<"ok">>]
      BY <1>7, <2>2 DEF Create, Write, Becomes
    <3>2. /\ Abstract!Effect(call[c], docs[call[c].key])[1] = call[c].fn[Absent]
          /\ Abstract!Effect(call[c], docs[call[c].key])[2] = <<"ok">>
      BY <2>1, <2>2 DEF Abstract!Effect
    <3> QED
      BY <1>0, <2>1, <3>1, <3>2, ExecuteMaps
  <2>3. CASE docs[call[c].key] # Absent
    BY <1>0, <1>7, <2>1, <2>3, AgainMaps DEF Create, Unwritten
  <2> QED
    BY <2>2, <2>3
<1>8. ASSUME NEW c \in Callers, Save(c) PROVE Goal(c)
  <2>1. /\ call[c] \in Abstract!Calls /\ call[c].op = "update" /\ outcome[c] = Idle
        /\ held[c] \in Data /\ call[c].fn[held[c]] # Refused
        /\ fresh[c] => docs[call[c].key] = held[c]
        /\ UNCHANGED <<seq, call>>
    BY <1>0, <1>8 DEF Save, PhaseFits, HeldFits
  <2>2. CASE fresh[c]
    <3>1. /\ docs' = [docs EXCEPT ![call[c].key] = call[c].fn[held[c]]]
          /\ outcome' = [outcome EXCEPT ![c] = <<"ok">>]
      BY <1>8, <2>2 DEF Save, Write, Becomes
    <3>2. /\ Abstract!Effect(call[c], docs[call[c].key])[1] = call[c].fn[held[c]]
          /\ Abstract!Effect(call[c], docs[call[c].key])[2] = <<"ok">>
      BY <2>1, <2>2, SentinelsAssumption DEF Abstract!Effect
    <3> QED
      BY <1>0, <2>1, <3>1, <3>2, ExecuteMaps
  <2>3. CASE ~fresh[c]
    BY <1>0, <1>8, <2>1, <2>3, AgainMaps DEF Save, Unwritten
  <2> QED
    BY <2>2, <2>3
<1>9. ASSUME NEW c \in Callers, BoltScan(c) \/ CursorNext(c) PROVE Goal(c)
  <2>1. call[c] = ForEachCall /\ UNCHANGED <<docs, seq, call>>
    BY <1>0, <1>9 DEF BoltScan, CursorNext, PhaseFits
  <2>2. \A o \in Callers \ {c} : outcome'[o] = outcome[o]
    BY <1>0, <1>9 DEF BoltScan, CursorNext, Becomes, CallsTyped
  <2> QED
    BY <1>0, <2>1, <2>2, ScanMaps
<1>10. ASSUME NEW c \in Callers, Return(c) PROVE Goal(c)
  <2>1. /\ call' = [call EXCEPT ![c] = Idle] /\ outcome' = [outcome EXCEPT ![c] = Idle]
        /\ UNCHANGED <<docs, seq>> /\ outcome[c] # Idle /\ call[c] # Idle
    BY <1>0, <1>10 DEF Return, PhaseFits
  <2>2. CASE call[c] = ForEachCall
    <3>1. /\ call'[c] = Idle /\ outcome'[c] = Idle
          /\ \A o \in Callers \ {c} : call'[o] = call[o] /\ outcome'[o] = outcome[o]
      BY <1>0, <2>1 DEF CallsTyped
    <3> QED
      BY <2>1, <2>2, <3>1, Distinct, Stutters DEF CallOf, OutcomeOf
  <2>3. CASE call[c] # ForEachCall
    <3>1. call[c] \in Abstract!Calls
      BY <1>0, <2>1, <2>3 DEF CallsTyped
    <3> QED
      BY <1>0, <2>1, <3>1, ReturnMaps
  <2> QED
    BY <2>2, <2>3
<1>11. ASSUME NEW c \in Callers, Fails(c) PROVE Goal(c)
  <2>1. /\ outcome' = [outcome EXCEPT ![c] = Abstract!Failed]
        /\ UNCHANGED <<docs, seq, call>> /\ call[c] # Idle
    BY <1>0, <1>11 DEF Fails, Becomes, PhaseFits
  <2>2. CASE call[c] = ForEachCall
    <3>1. \A o \in Callers \ {c} : outcome'[o] = outcome[o]
      BY <1>0, <2>1 DEF CallsTyped
    <3> QED
      BY <1>0, <2>1, <2>2, <3>1, ScanMaps
  <2>3. CASE call[c] # ForEachCall
    <3>1. call[c] \in Abstract!Calls
      BY <1>0, <2>1, <2>3 DEF CallsTyped
    <3> QED
      BY <1>0, <2>1, <3>1, ErrorMaps
  <2> QED
    BY <2>2, <2>3
<1>12. CASE UNCHANGED vars
  BY <1>12 DEF vars, Atomic!vars, CallOf, OutcomeOf
<1>13. (\E c \in Callers : Goal(c)) => Atomic!Next \/ UNCHANGED Atomic!vars
  BY DEF Atomic!Next
<1> HIDE DEF Goal
<1> QED
  BY <1>1, <1>2, <1>3, <1>4, <1>5, <1>6, <1>7, <1>8, <1>9, <1>10, <1>11, <1>12, <1>13
  DEF Next, Step

(* store.go:18: "Implementations must make Update and Take atomic with     *)
(* respect to concurrent writers": whatever the callers, keys and Update   *)
(* functions, every behaviour of either backend is one of the store whose  *)
(* calls take effect at one instant and at most once.                      *)
THEOREM BackendsAreAtomic == Spec => AtomicSpec
<1>1. Init => Atomic!Init
  BY Distinct DEF Init, Abstract!Init, Atomic!Init, CallOf, OutcomeOf
<1> QED
  BY <1>1, StepsMap, Inductive, PTL DEF Spec, AtomicSpec, Atomic!Spec
=============================================================================
