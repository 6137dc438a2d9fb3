----------------------------- MODULE AuditFile ------------------------------
(***************************************************************************)
(* The audit log kept in a file (internal/audit/audit.go): one process     *)
(* appends signed records to a JSONL file and syncs each before it answers.*)
(*                                                                         *)
(* A mutex makes one Log call run at a time, so what can interleave with   *)
(* its steps is the kernel writing the file back, a crash of the process,  *)
(* a loss of power, and errors.  The chained hash of a record commits to   *)
(* the history before it and is modelled as that history: the sequence     *)
(* numbers of the records up to it.                                        *)
(***************************************************************************)
EXTENDS AuditLog

CONSTANTS
    Torn,       \* the beginning of a line, without its newline
    Garbled     \* such a beginning and the line written after it

VARIABLES
    file,       \* the lines of the file
    synced,     \* how many of them a loss of power leaves alone
    log,        \* the open Log in memory: its seq and its head
    stage,      \* where the call of Log is
    rec,        \* the record it has sealed
    logged,     \* the sequence numbers whose Log returned without an error
    faults      \* what has gone wrong so far: "io" (an error), "short" (a write
                \* that failed wrote a part), "tear" (so did a loss of power)

fileVars == <<file, synced, log, stage, rec, logged, faults>>

FileRecord == [seq : Seqs, prev : Seq(Seqs)]
OpenLog == [seq : Seqs, head : Seq(Seqs)]

ASSUME SentinelsAssumption ==
    /\ Torn # Garbled
    /\ \A mark \in {None, Torn, Garbled} : mark \notin FileRecord \cup OpenLog

Fault(kinds) == faults' = faults \cup kinds

LineHash(r) == Append(r.prev, r.seq)
Last(s) == s[Len(s)]
EndsTorn == file # <<>> /\ Last(file) = Torn
Parses(line) == line \notin {Torn, Garbled}

FileInit ==
    /\ file = <<>>
    /\ synced = 0
    /\ log = None
    /\ stage = "idle"
    /\ rec = None
    /\ logged = {}
    /\ faults = {}

-----------------------------------------------------------------------------
(* Log                                                                     *)

\* the call returns; a genesis record that fails makes Open fail
Answer(seq, ok) ==
    /\ stage' = "idle"
    /\ rec' = None
    /\ log' = IF ok THEN [log EXCEPT !.head = LineHash(rec)]
              ELSE IF seq = 1 THEN None ELSE log
    /\ logged' = IF ok THEN logged \cup {seq} ELSE logged

\* the number is taken and the record sealed with the head's hash
Seal ==
    /\ stage = "idle" /\ log # None
    /\ log.seq < MaxSeq
    /\ log' = [log EXCEPT !.seq = @ + 1]
    /\ rec' = [seq |-> log.seq + 1, prev |-> log.head]
    /\ stage' = "write"
    /\ UNCHANGED <<file, synced, logged, faults>>

\* the signer fails (an audit key may live in an HSM): the number stays taken
SealFails ==
    /\ stage = "write"
    /\ Answer(rec.seq, FALSE)
    /\ Fault({"io"})
    /\ UNCHANGED <<file, synced>>

\* a line written after the beginning of another becomes a part of it
WriteLine ==
    /\ stage = "write"
    /\ file' = IF EndsTorn THEN [file EXCEPT ![Len(file)] = Garbled]
                           ELSE Append(file, rec)
    /\ stage' = "sync"
    /\ UNCHANGED <<synced, log, rec, logged, faults>>

\* nothing was written, or a part of the line
WriteFails ==
    /\ stage = "write"
    /\ \/ UNCHANGED file /\ Fault({"io"})
       \/ /\ file' = IF EndsTorn THEN file ELSE Append(file, Torn)
          /\ Fault({"io", "short"})
    /\ Answer(rec.seq, FALSE)
    /\ UNCHANGED synced

\* Variant: an error of fsync is ignored.
SyncFailsSilently ==
    /\ stage = "sync"
    /\ Answer(rec.seq, TRUE)
    /\ UNCHANGED <<file, synced, faults>>

\* fsync returns once everything is on disk
Sync ==
    /\ stage = "sync"
    /\ synced = Len(file)
    /\ Answer(rec.seq, TRUE)
    /\ UNCHANGED <<file, synced, faults>>

SyncFails ==
    /\ stage = "sync"
    /\ Answer(rec.seq, FALSE)
    /\ Fault({"io"})
    /\ UNCHANGED <<file, synced>>

\* the kernel writes the file back in its own time
WriteBack ==
    /\ synced < Len(file)
    /\ synced' = synced + 1
    /\ UNCHANGED <<file, log, stage, rec, logged, faults>>

-----------------------------------------------------------------------------
(* Open, crashes and restarts                                              *)

Corrupt == \E i \in 1..Len(file) : ~Parses(file[i])

\* Variant: Open starts from an empty chain.
Rebased == [seq |-> Len(file), head |-> <<>>]

\* lastRecord: the chain head of a file that is not empty
Recovered == [seq |-> Last(file).seq, head |-> LineHash(Last(file))]

\* the genesis record, whose random anchor stands for the empty history
First == [seq |-> 1, prev |-> <<>>]

\* Variant: the file is opened with O_TRUNC.
OpenTruncating ==
    /\ log = None
    /\ file' = <<>>
    /\ log' = [seq |-> 1, head |-> <<>>]
    /\ rec' = First
    /\ stage' = "write"
    /\ synced' = 0
    /\ UNCHANGED <<logged, faults>>

\* Open reads the whole file, and fails for good when a line does not parse
Open ==
    /\ log = None
    /\ IF file = <<>>
       THEN /\ log' = [seq |-> First.seq, head |-> First.prev]
            /\ rec' = First
            /\ stage' = "write"
       ELSE /\ ~Corrupt
            /\ log' = Recovered
            /\ UNCHANGED <<rec, stage>>
    /\ UNCHANGED <<file, synced, logged, faults>>

\* the process stops, between or inside calls of Log
Stop ==
    /\ log' = None
    /\ stage' = "idle"
    /\ rec' = None
    /\ UNCHANGED logged

Crash ==
    /\ log # None
    /\ Stop
    /\ UNCHANGED <<file, synced, faults>>

\* what is not written back is lost, its first line perhaps in part
PowerLoss ==
    /\ \/ file' = SubSeq(file, 1, synced) /\ UNCHANGED faults
       \/ /\ synced < Len(file)
          /\ file' = Append(SubSeq(file, 1, synced), Torn)
          /\ Fault({"tear"})
    /\ synced' = Len(file')
    /\ Stop

-----------------------------------------------------------------------------
\* Verify: line i parses, has the next number and is linked to the line before
RecordVerifies(i) ==
    /\ Parses(file[i])
    /\ file[i].seq = i
    /\ i > 1 => file[i].prev = LineHash(file[i - 1])

FileNext ==
    \/ Seal \/ SealFails \/ WriteLine \/ WriteFails \/ Sync \/ SyncFails
    \/ WriteBack \/ Open \/ Crash \/ PowerLoss

FileSpec == FileInit /\ [][FileNext]_fileVars

-----------------------------------------------------------------------------
FileTypeOK ==
    /\ file \in Seq(FileRecord \cup {Torn, Garbled})
    /\ synced \in 0..Len(file)
    /\ log \in OpenLog \cup {None}
    /\ stage \in {"idle", "write", "sync"}
    /\ rec \in FileRecord \cup {None}
    /\ logged \subseteq Seqs
    /\ faults \subseteq {"io", "short", "tear"}

(* audit.go:2: the file is "append-only JSONL, each record hash-chained to *)
(* its predecessor".  So Verify finds a record that Log has answered at    *)
(* its number and linked to the line before it.                            *)
AnsweredVerifies ==
    \A i \in 1..Len(file) :
        Parses(file[i]) /\ file[i].seq \in logged => RecordVerifies(i)

(* No crash and no loss of power breaks the chain: while no call has       *)
(* failed, every line verifies but a last one that was torn.               *)
CrashesKeepChain ==
    "io" \notin faults =>
        \A i \in 1..Len(file) : RecordVerifies(i) \/ (i = Len(file) /\ EndsTorn)

(* Every line is as Log wrote it, and the lines form one chain.            *)
ChainKept == FileTypeOK /\ CrashesKeepChain

(* Log "appends the record durably before returning" (audit.go:54): an     *)
(* answered record is a line of the part of the file that survives a loss  *)
(* of power, whatever failed before, unless it was appended to a partial   *)
(* line.                                                                   *)
AnsweredSurvives ==
    "short" \notin faults =>
        \A seq \in logged :
            \E i \in 1..synced : Parses(file[i]) /\ file[i].seq = seq

(* What is synced is an audit trail, whatever fails: it only grows at its  *)
(* end.  A line that does not parse is an entry of its own.                *)
Entry(i) == IF Parses(file[i]) THEN file[i].seq ELSE 0

FileTrail == INSTANCE AuditTrail
    WITH Writers <- Seqs \cup {0},
         trail <- [i \in 1..synced |-> Entry(i)],
         answered <- {i \in 1..synced : Entry(i) \in logged}

FileTrailSpec == FileTrail!Spec
=============================================================================
