------------------------------ MODULE Tenancy ------------------------------
(***************************************************************************)
(* The root and the tenants of a CA (internal/ca: env.go, ca.go,           *)
(* profiles.go; internal/signer: softkey.go, storekey.go).                 *)
(*                                                                         *)
(* InitRoot and CreateTenant have one shape: look whether the document is  *)
(* there, generate keys under fixed labels, then store the document        *)
(* blindly.  SetProfile and DeleteProfile update a tenant's document.      *)
(* Calls run concurrently, in one process over bolt and key files, in      *)
(* several over MongoDB; each step is one operation on the store, on a     *)
(* key or on the trail, may fail, and a process may end between any two.   *)
(* Calls are numbered in the order they arrive.                            *)
(***************************************************************************)
EXTENDS Naturals, FiniteSets, Sequences

LOCAL INSTANCE FiniteSetsExt

CONSTANTS
    Root,        \* the root domain
    Tenants,     \* the tenant ids
    MaxCalls,    \* bound on the calls that are made
    Default,     \* the default profile
    Names,       \* all profile names
    None,        \* no document, no key, no profile
    Torn         \* a key file that was not written to the end

ASSUME RootAssumption == Root \notin Tenants
ASSUME MaxCallsAssumption == MaxCalls \in Nat
ASSUME NamesAssumption == Default \in Names
ASSUME NoneAssumption == None \notin Nat /\ Torn \notin Nat /\ None # Torn

VARIABLES
    backend,     \* "softkey": bolt and key files; "storekey": MongoDB
    doc,         \* the documents: the creation that stored each, whether it
                 \* has a pair chain, and the setter of each profile
    keys,        \* whose key each label holds
    trail,       \* the audit records of creations and of profile changes
    call,        \* where each call is
    marks        \* what happened to each domain, see below

vars == <<backend, doc, keys, trail, call, marks>>

Domains == Tenants \cup {Root}
Calls == 1..MaxCalls
Before == 0      \* stands for the calls made before those modelled
Roles == {"primary", "pair", "audit"}
Labels == Domains \X Roles

\* Variant: the keys of a root are generated audit key first if it has a pair.
KeysAuditFirst(d, pair) ==
    IF d = Root /\ pair THEN <<"audit", "pair", "primary">>
    ELSE <<"primary">> \o (IF pair THEN <<"pair">> ELSE <<>>)
                       \o (IF d = Root THEN <<"audit">> ELSE <<>>)

\* The keys of a domain, in the order they are generated.
KeysOf(d, pair) ==
    <<"primary">> \o (IF pair THEN <<"pair">> ELSE <<>>)
                  \o (IF d = Root THEN <<"audit">> ELSE <<>>)

RolesOf(d, pair) == {KeysOf(d, pair)[i] : i \in DOMAIN KeysOf(d, pair)}

(* A call asks for a single chain, for a pair, or for a pair whose         *)
(* algorithm needs an opt-in that was not given ("composite").             *)
Requests ==
    [op : {"create"}, dom : {Root}, want : {"single", "pair", "composite"}, name : {Default}]
        \cup [op : {"create"}, dom : Tenants, want : {"single", "pair"}, name : {Default}]
        \cup [op : {"set", "delete"}, dom : Tenants, want : {"single"}, name : Names]

NoRequest == [op |-> "none", dom |-> Root, want |-> "single", name |-> Default]
NoCall == [pc |-> "idle", req |-> NoRequest, cli |-> FALSE, log |-> FALSE, todo |-> <<>>,
           answer |-> "none"]

(* The marks are histories the properties refer to, not state of the code: *)
(*   fault     a call failed half way, or its process ended                *)
(*   burnt     a call was refused after it had generated a key             *)
(*   clobbered a key was overwritten                                       *)
(*   unlogged  a process without an audit log changed the domain           *)
(*   overtaken a profile was changed before an earlier change was          *)
(*             recorded, or a process opened before the root's creation was *)
MarkKinds == {"fault", "burnt", "clobbered", "unlogged", "overtaken"}
Mark(kind, d) == marks' = marks \cup {<<kind, d>>}
Marked(kind, d) == <<kind, d>> \in marks

Live(c) == call[c].pc \notin {"idle", "done"}
Creating(c, d) == Live(c) /\ call[c].req.op = "create" /\ call[c].req.dom = d
Stored(d) == doc[d] # None

NewDocument(c, d, pair) ==
    [by |-> c, pair |-> pair,
     profiles |-> [n \in Names |-> IF n = Default /\ d # Root THEN c ELSE None]]

(* A CA without a root, or one that an earlier call initialised.           *)
Init ==
    /\ backend \in {"softkey", "storekey"}
    /\ \E rooted, pair \in BOOLEAN :
            /\ pair => rooted
            /\ doc = [d \in Domains |-> IF rooted /\ d = Root THEN NewDocument(Before, d, pair)
                                        ELSE None]
            /\ keys = [l \in Labels |->
                        IF rooted /\ l[1] = Root /\ l[2] \in RolesOf(Root, pair) THEN Before
                        ELSE None]
            /\ trail = IF rooted THEN <<[op |-> "create", dom |-> Root, name |-> Default,
                                         by |-> Before]>>
                       ELSE <<>>
    /\ call = [c \in Calls |-> NoCall]
    /\ marks = {}

-----------------------------------------------------------------------------
Goto(c, pc) == call' = [call EXCEPT ![c].pc = pc]

\* of a call that changed nothing, or failed, nothing is remembered
Ended(b, answer) ==
    IF answer \in {"refused", "failed"}
    THEN [NoCall EXCEPT !.pc = "done", !.answer = answer]
    ELSE [call[b] EXCEPT !.pc = "done", !.answer = answer]

Answer(c, answer) == call' = [call EXCEPT ![c] = Ended(c, answer)]

Dom(c) == call[c].req.dom
Role(c) == Head(call[c].todo)
Label(c) == <<Dom(c), Role(c)>>
Pair(c) == call[c].req.want # "single"
Unrecorded(d) == \E c \in Calls : call[c].pc = "record" /\ Dom(c) = d

-----------------------------------------------------------------------------
(* A call arrives                                                          *)

\* bbolt holds a lock on its file: the server, or one command at a time
LockIsFree(cli) ==
    backend = "softkey" => \A c \in Calls : Live(c) => ~cli /\ ~call[c].cli

\* A command opens the environment for itself: with the audit log only if it
\* reads a root document, and over MongoDB an error of that read counts as none.
\* A request is served by a process that has the log, or it would not serve.
Arrive(c, req, cli, log) ==
    /\ call[c].pc = "idle"
    /\ \A b \in Calls : b < c => call[b].pc # "idle"
    /\ LockIsFree(cli)
    /\ log => Stored(Root)
    /\ Stored(Root) /\ backend = "softkey" => log
    /\ req.dom = Root => cli
    /\ ~cli => log
    /\ call' = [call EXCEPT ![c] = [pc |-> IF req.op = "create" THEN "check" ELSE "update",
                                    req |-> req, cli |-> cli, log |-> log, todo |-> <<>>,
                                    answer |-> "none"]]
    /\ IF log /\ Unrecorded(Root)
       THEN Mark("overtaken", Root) ELSE UNCHANGED marks
    /\ UNCHANGED <<backend, doc, keys, trail>>

-----------------------------------------------------------------------------
(* InitRoot and CreateTenant                                               *)

Missing(d) == IF d = Root THEN ~Stored(Root) ELSE ~Stored(d) /\ Stored(Root)

\* `init --if-needed` ends here with success, a plain `init` with an error;
\* neither changes anything
Check(c) ==
    /\ call[c].pc = "check"
    /\ IF Missing(Dom(c))
       THEN call' = [call EXCEPT ![c].pc = "generate", ![c].todo = KeysOf(Dom(c), Pair(c))]
       ELSE Answer(c, "refused")
    /\ UNCHANGED <<backend, doc, keys, trail, marks>>

\* the algorithm of the pair is looked at after the first key was generated
PairAllowed(c) ==
    \/ Role(c) # "pair"
    \/ IF Dom(c) = Root THEN call[c].req.want # "composite" ELSE doc[Root].pair

Generating(c) == call[c].pc = "generate" /\ call[c].todo # <<>>

RefusePair(c) ==
    /\ Generating(c)
    /\ ~PairAllowed(c)
    /\ Answer(c, "refused")
    /\ Mark("burnt", Dom(c))
    /\ UNCHANGED <<backend, doc, keys, trail>>

\* "key already exists"
RefuseKey(c) ==
    /\ Generating(c)
    /\ PairAllowed(c)
    /\ keys[Label(c)] # None
    /\ Answer(c, "exists")
    /\ UNCHANGED <<backend, doc, keys, trail, marks>>

StoreKey(c) ==
    /\ keys' = [keys EXCEPT ![Label(c)] = c]
    /\ call' = [call EXCEPT ![c].pc = "generate", ![c].todo = Tail(@)]
    /\ IF keys[Label(c)] # None THEN Mark("clobbered", Dom(c)) ELSE UNCHANGED marks
    /\ UNCHANGED <<backend, doc, trail>>

\* Variant: the envelope is put, whatever is there.
GenerateBlindly(c) ==
    /\ backend = "storekey"
    /\ Generating(c)
    /\ PairAllowed(c)
    /\ StoreKey(c)

\* Variant: a key that exists is used.
GenerateOrReuse(c) ==
    /\ backend = "storekey"
    /\ Generating(c)
    /\ PairAllowed(c)
    /\ IF keys[Label(c)] = None THEN StoreKey(c)
       ELSE /\ call' = [call EXCEPT ![c].todo = Tail(@)]
            /\ UNCHANGED <<backend, doc, keys, trail, marks>>

\* Storekey.Generate: one atomic update that creates or fails
GenerateInStore(c) ==
    /\ backend = "storekey"
    /\ Generating(c)
    /\ PairAllowed(c)
    /\ keys[Label(c)] = None
    /\ StoreKey(c)

\* Softkey.Generate: os.Stat finds no file, then os.WriteFile truncates and writes
FindNoFile(c) ==
    /\ backend = "softkey"
    /\ Generating(c)
    /\ PairAllowed(c)
    /\ keys[Label(c)] = None
    /\ Goto(c, "write")
    /\ UNCHANGED <<backend, doc, keys, trail, marks>>

WriteFile(c) ==
    /\ call[c].pc = "write"
    /\ StoreKey(c)

DocPut(c) == [doc EXCEPT ![Dom(c)] = NewDocument(c, Dom(c), Pair(c))]
Generated(c) == call[c].pc = "generate" /\ call[c].todo = <<>>

\* the document is stored whether or not one is there by now
Put(c) ==
    /\ Generated(c)
    /\ doc' = DocPut(c)
    /\ Goto(c, "record")
    /\ UNCHANGED <<backend, keys, trail, marks>>

-----------------------------------------------------------------------------
(* SetProfile and DeleteProfile                                            *)

Updatable(c) ==
    /\ Stored(Dom(c))
    /\ call[c].req.op = "delete" =>
            /\ call[c].req.name # Default
            /\ doc[Dom(c)].profiles[call[c].req.name] # None

DocUpdated(c) ==
    [doc EXCEPT ![Dom(c)].profiles[call[c].req.name] =
        IF call[c].req.op = "set" THEN c ELSE None]

Update(c) ==
    /\ call[c].pc = "update"
    /\ Updatable(c)
    /\ doc' = DocUpdated(c)
    /\ Goto(c, "record")
    /\ IF Unrecorded(Dom(c)) THEN Mark("overtaken", Dom(c)) ELSE UNCHANGED marks
    /\ UNCHANGED <<backend, keys, trail>>

\* Variant: a refused change goes on to its record.
RefuseUpdateRecorded(c) ==
    /\ call[c].pc = "update"
    /\ ~Updatable(c)
    /\ Goto(c, "record")
    /\ UNCHANGED <<backend, doc, keys, trail, marks>>

RefuseUpdate(c) ==
    /\ call[c].pc = "update"
    /\ ~Updatable(c)
    /\ Answer(c, "refused")
    /\ UNCHANGED <<backend, doc, keys, trail, marks>>

-----------------------------------------------------------------------------
(* The audit record of a call, and its answer                              *)

\* Init opens the log it writes ca.init to; a process without one records nothing
Logs(c) == call[c].log \/ Dom(c) = Root

Appended(c) == Append(trail, [op |-> call[c].req.op, dom |-> Dom(c),
                              name |-> call[c].req.name, by |-> c])

\* Variant: an error of the record is ignored.
RecordBestEffort(c) ==
    /\ call[c].pc = "record"
    /\ Answer(c, "ok")
    /\ trail' \in {trail, Appended(c)}
    /\ UNCHANGED <<backend, doc, keys, marks>>

Record(c) ==
    /\ call[c].pc = "record"
    /\ Answer(c, "ok")
    /\ IF Logs(c)
       THEN trail' = Appended(c) /\ UNCHANGED marks
       ELSE Mark("unlogged", Dom(c)) /\ UNCHANGED trail
    /\ UNCHANGED <<backend, doc, keys>>

-----------------------------------------------------------------------------
(* Failures                                                                *)

\* What the call did so far stays: a key without its document, a document
\* without its record.
Halfway(c) ==
    \/ call[c].pc = "record"
    \/ /\ call[c].pc \in {"generate", "write"}
       /\ call[c].todo # KeysOf(Dom(c), Pair(c))

\* A step returns an error.
Fail(c) ==
    /\ Live(c)
    /\ Answer(c, "failed")
    /\ IF Halfway(c) THEN Mark("fault", Dom(c)) ELSE UNCHANGED marks
    /\ UNCHANGED <<backend, doc, keys, trail>>

\* A step returns an error although its write happened.
FailUnanswered(c) ==
    /\ backend = "storekey"
    /\ \/ /\ Generating(c) /\ PairAllowed(c) /\ keys[Label(c)] = None
          /\ keys' = [keys EXCEPT ![Label(c)] = c]
          /\ UNCHANGED <<doc, trail>>
       \/ /\ \/ Generated(c) /\ doc' = DocPut(c)
             \/ call[c].pc = "update" /\ Updatable(c) /\ doc' = DocUpdated(c)
          /\ UNCHANGED <<keys, trail>>
       \/ /\ call[c].pc = "record" /\ Logs(c)
          /\ trail' = Appended(c)
          /\ UNCHANGED <<doc, keys>>
    /\ Answer(c, "failed")
    /\ Mark("fault", Dom(c))
    /\ UNCHANGED backend

\* Calls end with key files cut short while they were being written.
Cut(ending, torn) ==
    /\ call' = [b \in Calls |-> IF b \in ending THEN Ended(b, "failed") ELSE call[b]]
    /\ keys' = [l \in Labels |-> IF l \in {Label(b) : b \in torn} THEN Torn ELSE keys[l]]
    /\ marks' = marks \cup {<<"fault", Dom(b)>> : b \in torn \cup {e \in ending : Halfway(e)}}
                     \cup {<<"clobbered", Dom(b)>> : b \in {t \in torn : keys[Label(t)] # None}}
    /\ UNCHANGED <<backend, doc, trail>>

\* os.WriteFile returns an error half way
FailTorn(c) ==
    /\ call[c].pc = "write"
    /\ Cut({c}, {c})

\* A process ends, the one process over bolt with all its calls.
Crash(c) ==
    LET ending == IF backend = "softkey" THEN {b \in Calls : Live(b)} ELSE {c}
    IN  /\ Live(c)
        /\ \E torn \in SUBSET {b \in ending : call[b].pc = "write"} : Cut(ending, torn)

-----------------------------------------------------------------------------
Step(c) ==
    \/ Check(c) \/ RefusePair(c) \/ RefuseKey(c)
    \/ GenerateInStore(c) \/ FindNoFile(c) \/ WriteFile(c) \/ Put(c)
    \/ Update(c) \/ RefuseUpdate(c) \/ Record(c)

Next ==
    \E c \in Calls :
        \/ \E req \in Requests, cli, log \in BOOLEAN : Arrive(c, req, cli, log)
        \/ Step(c)
        \/ Fail(c) \/ FailUnanswered(c) \/ FailTorn(c) \/ Crash(c)

Spec == Init /\ [][Next]_vars

-----------------------------------------------------------------------------
(* Properties                                                              *)

CallStates ==
    [pc : {"idle", "check", "generate", "write", "update", "record", "done"},
     req : Requests \cup {NoRequest}, cli : BOOLEAN, log : BOOLEAN, todo : Seq(Roles),
     answer : {"none", "ok", "refused", "exists", "failed"}]

Documents == [by : Calls \cup {Before}, pair : BOOLEAN,
              profiles : [Names -> Calls \cup {Before, None}]]

ASSUME NoDocumentAssumption == None \notin Documents

\* What the variables hold; only the root domain has an audit key.
TypeOK ==
    /\ backend \in {"softkey", "storekey"}
    /\ doc \in [Domains -> Documents \cup {None}]
    /\ keys \in [Labels -> Calls \cup {Before, None, Torn}]
    /\ \A t \in Tenants : keys[<<t, "audit">>] = None
    /\ trail \in Seq([op : {"create", "set", "delete"}, dom : Domains, name : Names,
                       by : Calls \cup {Before}])
    /\ call \in [Calls -> CallStates]
    /\ marks \subseteq MarkKinds \X Domains

\* The key under each label of a stored domain is the one its certificate was
\* made for: InitRoot always, CreateTenant unless two creations of one tenant in
\* one process both found no key file (Softkey.Generate: Stat, then WriteFile).
KeysMatchCertificates ==
    \A d \in Domains :
        Stored(d) => \/ \A r \in RolesOf(d, doc[d].pair) : keys[<<d, r>>] = doc[d].by
                     \/ d # Root /\ backend = "softkey" /\ Marked("clobbered", d)

\* A stored root or tenant keeps its certificates: a creation that looked before
\* another's PutJSON never stores its own document over it, but after two key
\* files were written over each other.
CertificatesKept ==
    [][\A d \in Domains :
        Stored(d) /\ ~(backend = "softkey" /\ d # Root /\ Marked("clobbered", d)) =>
            /\ doc[d]'.by = doc[d].by
            /\ doc[d]'.pair = doc[d].pair]_vars

Recorded(c) == \E i \in DOMAIN trail : trail[i].by = c

\* A creation or a profile change that was answered is in the trail, unless a
\* command over MongoDB made it that read no root when it opened (env.go drops
\* the error of that read and leaves the no-op logger); and a root or tenant
\* whose creation was answered is the one that is stored.
AnsweredIsKept ==
    \A c \in Calls :
        call[c].answer = "ok" =>
            /\ Recorded(c) \/ (backend = "storekey" /\ call[c].cli /\ ~call[c].log)
            /\ call[c].req.op = "create" =>
                \/ Stored(Dom(c)) /\ doc[Dom(c)].by = c
                \/ Dom(c) # Root /\ Marked("clobbered", Dom(c))

\* The ca.init record comes before every other (env.go, Init), unless the
\* initialisation failed half way or another process opened before the record.
InitRecordFirst ==
    trail # <<>> => \/ trail[1].op = "create" /\ trail[1].dom = Root
                    \/ Marked("fault", Root) \/ Marked("overtaken", Root)

\* What the trail says of a profile: its last change since the tenant's creation.
Told(t, n) ==
    LET about == {i \in DOMAIN trail : /\ trail[i].dom = t
                                       /\ trail[i].op = "create" \/ trail[i].name = n}
        last == trail[Max(about)]
    IN  IF about = {} \/ (last.op = "create" /\ n # Default) \/ last.op = "delete" THEN None
        ELSE last.by

\* When no call on a tenant is running, the trail tells its profiles, unless a
\* call failed or was unlogged, or two of them recorded in the other order.
TrailTellsProfiles ==
    \A t \in Tenants :
        \/ \E c \in Calls : Live(c) /\ Dom(c) = t
        \/ \E kind \in MarkKinds \ {"burnt"} : Marked(kind, t)
        \/ \A n \in Names : Told(t, n) = IF Stored(t) THEN doc[t].profiles[n] ELSE None

Creatable(d) == Stored(d) \/ \E c \in Calls : Creating(c, d)

\* Creations of one domain that take each other's labels do not all fail: a key
\* is in the way only of a domain that is stored or is still being created, or
\* whose creation failed half way or was refused its pair after its first key.
OneCreationWins ==
    \A c \in Calls :
        call[c].answer = "exists" =>
            Creatable(Dom(c)) \/ Marked("fault", Dom(c)) \/ Marked("burnt", Dom(c))

\* The trail is well-formed, begins with ca.init and tells the profiles.
TrailTells == TypeOK /\ InitRecordFirst /\ TrailTellsProfiles
=============================================================================
