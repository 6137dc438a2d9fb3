------------------------------- MODULE Store --------------------------------
(***************************************************************************)
(* The promise of the interface Store (internal/store/store.go): every     *)
(* call takes effect at one instant between its start and its answer, and  *)
(* at most once.  A call that answers an error may have taken effect.      *)
(*                                                                         *)
(* ForEach is not among the calls: store.go promises an order, and no      *)
(* atomicity.                                                              *)
(***************************************************************************)
EXTENDS Integers, FiniteSets

CONSTANTS
    Callers,
    Keys,
    Data,      \* values of documents
    Absent,    \* there is no document; also the data a function is given then
    Refused,   \* an Update function returns an error instead of a value
    Fns,       \* the Update functions, on Data and Absent
    Idle,      \* no call, or no outcome yet
    MaxSeq     \* bound of the model on the counter

VARIABLES
    docs,      \* the document of each key
    seq,       \* the counter of NextSeq
    call,      \* the call each caller is in
    outcome    \* its outcome, once it has taken effect

vars == <<docs, seq, call, outcome>>

\* Put is the Update that creates and whose function is constant.
Calls ==
    [op : {"put-if-absent"}, key : Keys, data : Data]
    \cup [op : {"get", "take", "delete"}, key : Keys]
    \cup [op : {"update"}, key : Keys, create : BOOLEAN, fn : Fns]
    \cup [op : {"next-seq"}]

\* answers: of a word, of the data found, of the number drawn
Found(d) == <<"found", d>>
Number(n) == <<"number", n>>
Failed == <<"error">>
Answers ==
    {<<w>> : w \in {"ok", "exists", "not found", "refused", "error"}}
    \cup {Found(d) : d \in Data}
    \cup {Number(n) : n \in 1..MaxSeq}

\* the bound of the model: every call of NextSeq finds a number
Fits(x) ==
    x.op = "next-seq" =>
        seq + Cardinality({c \in Callers : call[c] # Idle /\ call[c].op = "next-seq"}) < MaxSeq

Init ==
    /\ docs = [k \in Keys |-> Absent]
    /\ seq = 0
    /\ call = [c \in Callers |-> Idle]
    /\ outcome = [c \in Callers |-> Idle]

\* what call x leaves of a document d, and what it answers
Effect(x, d) ==
    CASE x.op = "put-if-absent" ->
            IF d = Absent THEN <<x.data, <<"ok">>>> ELSE <<d, <<"exists">>>>
      [] x.op = "get" ->
            IF d = Absent THEN <<d, <<"not found">>>> ELSE <<d, Found(d)>>
      [] x.op = "take" ->
            IF d = Absent THEN <<d, <<"not found">>>> ELSE <<Absent, Found(d)>>
      [] x.op = "delete" ->
            <<Absent, <<"ok">>>>
      [] x.op = "update" ->
            IF d = Absent /\ ~x.create THEN <<d, <<"not found">>>>
            ELSE IF x.fn[d] = Refused THEN <<d, <<"refused">>>>
            ELSE <<x.fn[d], <<"ok">>>>

Invoke(c) ==
    /\ call[c] = Idle
    /\ \E x \in Calls : Fits(x) /\ call' = [call EXCEPT ![c] = x]
    /\ UNCHANGED <<docs, seq, outcome>>

Waiting(c) == call[c] # Idle /\ outcome[c] = Idle

Execute(c) ==
    /\ Waiting(c) /\ call[c].op # "next-seq"
    /\ LET e == Effect(call[c], docs[call[c].key]) IN
        /\ docs' = [docs EXCEPT ![call[c].key] = e[1]]
        /\ outcome' = [outcome EXCEPT ![c] = e[2]]
    /\ UNCHANGED <<seq, call>>

Count(c) ==
    /\ Waiting(c) /\ call[c].op = "next-seq"
    /\ seq' = seq + 1
    /\ outcome' = [outcome EXCEPT ![c] = Number(seq')]
    /\ UNCHANGED <<docs, call>>

\* before the effect, or after it
Error(c) ==
    /\ call[c] # Idle
    /\ outcome' = [outcome EXCEPT ![c] = Failed]
    /\ UNCHANGED <<docs, seq, call>>

Return(c) ==
    /\ call[c] # Idle /\ outcome[c] # Idle
    /\ call' = [call EXCEPT ![c] = Idle]
    /\ outcome' = [outcome EXCEPT ![c] = Idle]
    /\ UNCHANGED <<docs, seq>>

Next == \E c \in Callers : Invoke(c) \/ Execute(c) \/ Count(c) \/ Error(c) \/ Return(c)

Spec == Init /\ [][Next]_vars
=============================================================================
