--------------------------- MODULE Tenancy_proofs ---------------------------
(***************************************************************************)
(* Theorems about Tenancy, for any tenants, profile names and number of    *)
(* calls: keys match the certificates stored, a stored root or tenant      *)
(* keeps them, what was answered is stored and recorded, racing creations  *)
(* do not all fail, and the trail tells what happened.                     *)
(***************************************************************************)
EXTENDS Tenancy, SequenceTheorems, TLAPS

LOCAL INSTANCE FiniteSetsExt

Records == [op : {"create", "set", "delete"}, dom : Domains, name : Names,
            by : Calls \cup {Before}]

\* TypeOK in parts.
StoreTyped ==
    /\ backend \in {"softkey", "storekey"}
    /\ doc \in [Domains -> Documents \cup {None}]
    /\ keys \in [Labels -> Calls \cup {Before, None, Torn}]
    /\ \A t \in Tenants : keys[<<t, "audit">>] = None
    /\ trail \in Seq(Records)
    /\ marks \subseteq MarkKinds \X Domains

CallsTyped == call \in [Calls -> CallStates]

\* What is left to generate of the keys of a domain.
Rests(d, pair) ==
    {<<>>}
    \cup (IF pair /\ d = Root
          THEN {<<"primary", "pair", "audit">>, <<"pair", "audit">>, <<"audit">>} ELSE {})
    \cup (IF pair /\ d # Root THEN {<<"primary", "pair">>, <<"pair">>} ELSE {})
    \cup (IF ~pair /\ d = Root THEN {<<"primary", "audit">>, <<"audit">>} ELSE {})
    \cup (IF ~pair /\ d # Root THEN {<<"primary">>} ELSE {})

\* The roles whose keys a creation has generated.
GotOf(d, pair, rest) == RolesOf(d, pair) \ {rest[i] : i \in DOMAIN rest}
Got(c) == GotOf(Dom(c), Pair(c), call[c].todo)
Generates(c) == call[c].pc \in {"generate", "write"}

\* Two creations of one tenant in one process wrote each other's key files.
Clobbered(d) == d # Root /\ backend = "softkey" /\ Marked("clobbered", d)

\* A call's phase fits what it was asked and how its process was opened.
PhaseFits(c) ==
    /\ call[c].pc # "done" => call[c].answer = "none"
    /\ Live(c) => call[c].req \in Requests
    /\ call[c].pc \in {"check", "generate", "write"} => call[c].req.op = "create"
    /\ call[c].pc = "update" => call[c].req.op # "create"
    /\ Generates(c) => call[c].todo \in Rests(Dom(c), Pair(c))
    /\ call[c].pc = "write" => call[c].todo # <<>> /\ backend = "softkey"
    /\ Live(c) /\ Dom(c) = Root => call[c].cli
    /\ Live(c) \/ call[c].answer = "ok" => call[c].cli \/ call[c].log

\* The lock of bbolt: a command runs alone.
Locked ==
    backend = "softkey" =>
        \A b, c \in Calls : Live(b) /\ Live(c) /\ call[c].cli => b = c

\* A creation owns the keys it has generated, unless key files were overwritten.
OwnsKeys(c) ==
    /\ Generates(c) => \A r \in Got(c) :
            /\ keys[<<Dom(c), r>>] # None
            /\ keys[<<Dom(c), r>>] = c \/ Clobbered(Dom(c))
    /\ call[c].pc = "write" /\ Dom(c) = Root => keys[Label(c)] = None

\* What is stored for a domain was stored by a creation that put it, under the
\* root, and owns its keys.
DocumentFits(d) ==
    Stored(d) =>
        /\ Clobbered(d) \/ \A r \in RolesOf(d, doc[d].pair) : keys[<<d, r>>] = doc[d].by
        /\ doc[d].by # Before => call[doc[d].by].pc \in {"record", "done"}
        /\ Stored(Root)

\* What a call relies on is stored.
ReliesFits(c) ==
    /\ call[c].pc \in {"generate", "write", "record"} /\ Dom(c) # Root => Stored(Root)
    /\ call[c].pc = "record" => Stored(Dom(c))
    /\ (call[c].pc = "record" \/ call[c].answer = "ok") /\ call[c].req.op = "create" =>
            Stored(Dom(c)) /\ (doc[Dom(c)].by = c \/ Clobbered(Dom(c)))

\* A process over bolt without a log has seen no root.
LogFits(c) == backend = "softkey" /\ Live(c) /\ ~call[c].log /\ Dom(c) # Root => ~Stored(Root)

\* A key that is there is of a domain that is stored, is being created by a call
\* that has passed this key, or was spoilt.
WinFits(d) ==
    \A r \in Roles : keys[<<d, r>>] # None =>
        \/ Stored(d) \/ Marked("fault", d) \/ Marked("burnt", d)
        \/ \E b \in Calls : Generates(b) /\ Dom(b) = d /\ r \in Got(b)

ExistsFits(c) == call[c].answer = "exists" => keys[<<Dom(c), "primary">>] # None

KInv ==
    /\ StoreTyped
    /\ CallsTyped
    /\ \A c \in Calls : PhaseFits(c)
    /\ Locked
    /\ \A c \in Calls : OwnsKeys(c)
    /\ \A d \in Domains : DocumentFits(d)
    /\ \A c \in Calls : ReliesFits(c)
    /\ \A c \in Calls : LogFits(c)
    /\ \A d \in Domains : WinFits(d)
    /\ \A c \in Calls : ExistsFits(c)

\* The record of the root's creation is the first, or is still to come.
FirstFits ==
    /\ InitRecordFirst
    /\ Stored(Root) => trail # <<>> \/ Marked("fault", Root) \/ Unrecorded(Root)
    /\ \A c \in Calls : Live(c) /\ call[c].log /\ Dom(c) # Root =>
            trail # <<>> \/ Marked("fault", Root) \/ Marked("overtaken", Root)

RecordedFits(c) ==
    call[c].answer = "ok" => Recorded(c) \/ (backend = "storekey" /\ call[c].cli /\ ~call[c].log)

Profile(t, n) == IF Stored(t) THEN doc[t].profiles[n] ELSE None
Spoilt(t) == \E kind \in MarkKinds \ {"burnt"} : Marked(kind, t)

\* The trail tells the profiles, up to the one change that is not yet recorded.
ToldFits(t) ==
    \/ Spoilt(t)
    \/ /\ \A b, c \in Calls :
            call[b].pc = "record" /\ Dom(b) = t /\ call[c].pc = "record" /\ Dom(c) = t => b = c
       /\ ~Unrecorded(t) => \A n \in Names : Told(t, n) = Profile(t, n)
       /\ \A c \in Calls : call[c].pc = "record" /\ Dom(c) = t =>
            \A n \in Names :
                Profile(t, n) = IF call[c].req.op = "create"
                                THEN IF n = Default THEN c ELSE None
                                ELSE IF n # call[c].req.name THEN Told(t, n)
                                ELSE IF call[c].req.op = "set" THEN c ELSE None

\* The records Told looks at have a last one, as long as there are any.
About(t, n) == {i \in DOMAIN trail : /\ trail[i].dom = t
                                     /\ trail[i].op = "create" \/ trail[i].name = n}
LastFits(t, n) == About(t, n) = {} \/ \E m \in About(t, n) : \A i \in About(t, n) : m >= i

TInv ==
    /\ FirstFits
    /\ \A t \in Tenants, n \in Names : LastFits(t, n)
    /\ \A c \in Calls : RecordedFits(c)
    /\ \A t \in Tenants : ToldFits(t)

-----------------------------------------------------------------------------
(* Constants, sequences and records.                                       *)

LEMMA Sentinels ==
    /\ \A c \in Calls : c \in Nat /\ c # None /\ c # Torn /\ c # Before
    /\ Before # None /\ Torn # None
    /\ None \notin Documents
    /\ Root \in Domains /\ \A t \in Tenants : t \in Domains /\ t # Root
  BY MaxCallsAssumption, NoneAssumption, RootAssumption, NoDocumentAssumption DEF
     Calls, Before, Domains

LEMMA RequestFields ==
    ASSUME NEW x \in Requests
    PROVE  /\ x.op \in {"create", "set", "delete"}
           /\ x.dom \in Domains /\ x.name \in Names
           /\ x.want \in {"single", "pair", "composite"}
           /\ x.dom = Root => x.op = "create"
  BY NamesAssumption, Sentinels DEF Requests

LEMMA Joins ==
    ASSUME NEW x \in Roles, NEW y \in Roles, NEW z \in Roles
    PROVE  /\ <<x>> \o <<>> = <<x>> /\ <<x, y>> \o <<>> = <<x, y>>
           /\ <<x>> \o <<y>> = <<x, y>> /\ <<x, y>> \o <<z>> = <<x, y, z>>
<1> DEFINE xy == <<x>> \o <<y>>
           xyz == <<x, y>> \o <<z>>
<1>1. /\ <<x>> \in Seq(Roles) /\ <<y>> \in Seq(Roles) /\ <<z>> \in Seq(Roles)
      /\ <<x, y>> \in Seq(Roles) /\ <<x, y, z>> \in Seq(Roles)
  OBVIOUS
<1>2. xy \in Seq(Roles) /\ Len(xy) = 2 /\ \A i \in 1..2 : xy[i] = <<x, y>>[i]
  BY <1>1
<1>3. xyz \in Seq(Roles) /\ Len(xyz) = 3 /\ \A i \in 1..3 : xyz[i] = <<x, y, z>>[i]
  BY <1>1
<1>4. xy = <<x, y>>
  BY <1>1, <1>2, SeqEqual
<1>5. xyz = <<x, y, z>>
  BY <1>1, <1>3, SeqEqual
<1> QED
  BY <1>1, <1>4, <1>5

LEMMA KeysOfIs ==
    ASSUME NEW d, NEW pair \in BOOLEAN
    PROVE  KeysOf(d, pair) = IF d = Root
                             THEN IF pair THEN <<"primary", "pair", "audit">> ELSE <<"primary", "audit">>
                             ELSE IF pair THEN <<"primary", "pair">> ELSE <<"primary">>
<1>1. CASE d = Root /\ pair
  BY <1>1, Joins DEF KeysOf, Roles
<1>2. CASE d = Root /\ ~pair
  BY <1>2, Joins DEF KeysOf, Roles
<1>3. CASE d # Root /\ pair
  BY <1>3, Joins DEF KeysOf, Roles
<1>4. CASE d # Root /\ ~pair
  BY <1>4, Joins DEF KeysOf
<1> QED
  BY <1>1, <1>2, <1>3, <1>4

LEMMA RolesOfIs ==
    ASSUME NEW d, NEW pair \in BOOLEAN
    PROVE  RolesOf(d, pair) = {"primary"} \cup (IF pair THEN {"pair"} ELSE {})
                                          \cup (IF d = Root THEN {"audit"} ELSE {})
  BY KeysOfIs DEF RolesOf

\* What taking the next key off the rest does.
LEMMA RestsShrink ==
    ASSUME NEW d, NEW pair \in BOOLEAN, NEW rest \in Rests(d, pair)
    PROVE  /\ rest \in Seq(Roles)
           /\ rest = <<>> => GotOf(d, pair, rest) = RolesOf(d, pair)
           /\ rest = KeysOf(d, pair) <=> GotOf(d, pair, rest) = {}
           /\ GotOf(d, pair, rest) # {} => "primary" \in GotOf(d, pair, rest)
           /\ rest # <<>> =>
                /\ Head(rest) \in RolesOf(d, pair) \ GotOf(d, pair, rest)
                /\ Tail(rest) \in Rests(d, pair)
                /\ GotOf(d, pair, Tail(rest)) = GotOf(d, pair, rest) \cup {Head(rest)}
<1> USE DEF Roles, GotOf
<1>1. KeysOf(d, pair) \in Rests(d, pair) /\ GotOf(d, pair, KeysOf(d, pair)) = {}
  BY KeysOfIs, RolesOfIs DEF Rests
<1>2. CASE rest = <<>>
  BY <1>2, KeysOfIs, RolesOfIs
<1>3. CASE rest = <<"primary", "pair", "audit">>
  BY <1>3, KeysOfIs, RolesOfIs DEF Rests
<1>4. CASE rest = <<"pair", "audit">>
  BY <1>4, KeysOfIs, RolesOfIs DEF Rests
<1>5. CASE rest = <<"audit">>
  BY <1>5, KeysOfIs, RolesOfIs DEF Rests
<1>6. CASE rest = <<"primary", "pair">>
  BY <1>6, KeysOfIs, RolesOfIs DEF Rests
<1>7. CASE rest = <<"pair">>
  BY <1>7, KeysOfIs, RolesOfIs DEF Rests
<1>8. CASE rest = <<"primary", "audit">>
  BY <1>8, KeysOfIs, RolesOfIs DEF Rests
<1>9. CASE rest = <<"primary">>
  BY <1>9, KeysOfIs, RolesOfIs DEF Rests
<1> QED
  BY <1>2, <1>3, <1>4, <1>5, <1>6, <1>7, <1>8, <1>9 DEF Rests

LEMMA GotMeans ==
    ASSUME NEW c \in Calls, CallsTyped, PhaseFits(c), Generates(c)
    PROVE  /\ Got(c) \subseteq RolesOf(Dom(c), Pair(c)) /\ RolesOf(Dom(c), Pair(c)) \subseteq Roles
           /\ call[c].todo = <<>> => Got(c) = RolesOf(Dom(c), Pair(c))
           /\ call[c].todo = KeysOf(Dom(c), Pair(c)) <=> Got(c) = {}
           /\ Got(c) # {} => "primary" \in Got(c)
           /\ call[c].todo # <<>> =>
                /\ Role(c) \in RolesOf(Dom(c), Pair(c)) \ Got(c)
                /\ Tail(call[c].todo) \in Rests(Dom(c), Pair(c)) /\ Tail(call[c].todo) \in Seq(Roles)
                /\ GotOf(Dom(c), Pair(c), Tail(call[c].todo)) = Got(c) \cup {Role(c)}
<1>1. Pair(c) \in BOOLEAN /\ call[c].todo \in Rests(Dom(c), Pair(c))
  BY DEF PhaseFits, Pair
<1>2. RolesOf(Dom(c), Pair(c)) \subseteq Roles
  BY <1>1, RolesOfIs DEF Roles
<1>3. Got(c) \subseteq RolesOf(Dom(c), Pair(c))
  BY DEF Got, GotOf
<1> QED
  BY <1>1, <1>2, <1>3, RestsShrink DEF Got, Role

-----------------------------------------------------------------------------
(* What becomes of the call that takes a step.                             *)

LEMMA ProceedMeans ==
    ASSUME CallsTyped, NEW c \in Calls,
           NEW p \in {"idle", "check", "generate", "write", "update", "record", "done"},
           NEW q \in Seq(Roles), call' = [call EXCEPT ![c].pc = p, ![c].todo = q]
    PROVE  /\ CallsTyped'
           /\ \A o \in Calls \ {c} : call'[o] = call[o]
           /\ call'[c].pc = p /\ call'[c].todo = q /\ call'[c].req = call[c].req
           /\ call'[c].cli = call[c].cli /\ call'[c].log = call[c].log
           /\ call'[c].answer = call[c].answer
  BY ZenonT(60) DEF CallsTyped, CallStates

LEMMA GotoMeans ==
    ASSUME CallsTyped, NEW c \in Calls,
           NEW p \in {"idle", "check", "generate", "write", "update", "record", "done"},
           Goto(c, p)
    PROVE  /\ CallsTyped'
           /\ \A o \in Calls \ {c} : call'[o] = call[o]
           /\ call'[c].pc = p /\ call'[c].todo = call[c].todo /\ call'[c].req = call[c].req
           /\ call'[c].cli = call[c].cli /\ call'[c].log = call[c].log
           /\ call'[c].answer = call[c].answer
  BY DEF Goto, CallsTyped, CallStates

LEMMA EndedMeans ==
    ASSUME CallsTyped, NEW c \in Calls, NEW a \in {"ok", "refused", "exists", "failed"}
    PROVE  /\ Ended(c, a) \in CallStates
           /\ Ended(c, a).pc = "done" /\ Ended(c, a).answer = a
           /\ a \in {"ok", "exists"} =>
                /\ Ended(c, a).req = call[c].req /\ Ended(c, a).cli = call[c].cli
                /\ Ended(c, a).log = call[c].log
<1>1. call[c] \in CallStates /\ NoCall \in CallStates
  BY DEF CallsTyped, NoCall, CallStates
<1>2. CASE a \in {"ok", "exists"}
  <2>1. Ended(c, a) = [call[c] EXCEPT !.pc = "done", !.answer = a]
    BY <1>2 DEF Ended
  <2> QED
    BY <1>1, <1>2, <2>1 DEF CallStates
<1>3. CASE a \in {"refused", "failed"}
  <2>1. Ended(c, a) = [NoCall EXCEPT !.pc = "done", !.answer = a]
    BY <1>3 DEF Ended
  <2> QED
    BY <1>1, <1>3, <2>1 DEF CallStates
<1> QED
  BY <1>2, <1>3

LEMMA AnswerMeans ==
    ASSUME CallsTyped, NEW c \in Calls, NEW a \in {"ok", "refused", "exists", "failed"},
           Answer(c, a)
    PROVE  /\ CallsTyped' /\ call'[c] = Ended(c, a)
           /\ \A o \in Calls \ {c} : call'[o] = call[o]
  BY EndedMeans DEF Answer, CallsTyped

LEMMA NewDocumentMeans ==
    ASSUME NEW c \in Calls \cup {Before}, NEW d \in Domains, NEW pair \in BOOLEAN
    PROVE  /\ NewDocument(c, d, pair) \in Documents
           /\ NewDocument(c, d, pair).by = c /\ NewDocument(c, d, pair).pair = pair
           /\ \A n \in Names : NewDocument(c, d, pair).profiles[n]
                               = IF n = Default /\ d # Root THEN c ELSE None
  BY DEF NewDocument, Documents

-----------------------------------------------------------------------------
(* What a step of the calls in E leaves as it is: the other calls, and all *)
(* documents and keys but those of the calls that take the step.           *)

Adds(E) ==
    /\ backend' = backend /\ marks \subseteq marks'
    /\ \A o \in Calls \ E : call'[o] = call[o]
    /\ \A c \in E : call[c].pc \in {"record", "done"} => call'[c].pc = "done"
    /\ \A d \in Domains, r \in Roles : keys'[<<d, r>>] # keys[<<d, r>>] =>
            /\ keys'[<<d, r>>] # None
            /\ keys[<<d, r>>] = None \/ Clobbered(d)'
            /\ \E c \in E : Live(c) /\ Dom(c) = d
    /\ \A d \in Domains : doc'[d] # doc[d] =>
            /\ doc'[d] # None
            /\ \E c \in E : Live(c) /\ Dom(c) = d
            /\ Stored(d) => Clobbered(d) \/ doc'[d].by = doc[d].by

LEMMA DomIn ==
    ASSUME CallsTyped, NEW c \in Calls
    PROVE  Dom(c) \in Domains /\ call[c].req \in Requests \cup {NoRequest}
  BY RequestFields, Sentinels DEF CallsTyped, CallStates, Dom, NoRequest

\* A command that initialises the root over bolt runs alone.
LEMMA RootAlone ==
    ASSUME \A c \in Calls : PhaseFits(c), Locked, backend = "softkey",
           NEW b \in Calls, NEW c \in Calls, Live(b), Live(c), Dom(c) = Root
    PROVE  b = c
  BY DEF PhaseFits, Locked

LEMMA OthersKept ==
    ASSUME KInv, NEW E \in SUBSET Calls, Adds(E), NEW o \in Calls \ E
    PROVE  PhaseFits(o)' /\ OwnsKeys(o)' /\ ReliesFits(o)' /\ LogFits(o)' /\ ExistsFits(o)'
<1> USE DEF KInv
<1>0. call'[o] = call[o] /\ backend' = backend /\ Dom(o) \in Domains
  BY DomIn DEF Adds
<1>1. /\ Live(o)' = Live(o) /\ Dom(o)' = Dom(o) /\ Pair(o)' = Pair(o) /\ Got(o)' = Got(o)
      /\ Generates(o)' = Generates(o) /\ Label(o)' = Label(o)
  BY <1>0 DEF Live, Dom, Pair, Got, Generates, Label, Role
<1>2. \A d \in Domains : /\ Clobbered(d) => Clobbered(d)'
                         /\ Stored(d) => Stored(d)' /\ (doc'[d].by = doc[d].by \/ Clobbered(d))
  BY DEF Adds, Clobbered, Marked, Stored
<1>3. \A d \in Domains, r \in Roles : keys[<<d, r>>] # None => keys'[<<d, r>>] # None
  BY DEF Adds
<1>4. PhaseFits(o)'
  BY <1>0, <1>1 DEF PhaseFits
<1>5. OwnsKeys(o)'
  <2>1. ASSUME Generates(o), NEW r \in Got(o)
        PROVE  /\ keys'[<<Dom(o), r>>] # None
               /\ keys'[<<Dom(o), r>>] = o \/ Clobbered(Dom(o))'
    <3>1. r \in Roles /\ keys[<<Dom(o), r>>] # None
      BY <2>1, GotMeans DEF OwnsKeys
    <3> QED
      BY <1>0, <1>1, <1>2, <1>3, <2>1, <3>1 DEF OwnsKeys, Adds
  <2>2. ASSUME call[o].pc = "write", Dom(o) = Root PROVE keys'[Label(o)] = None
    <3>1. Role(o) \in Roles /\ Live(o) /\ backend = "softkey"
      BY <2>2, GotMeans DEF PhaseFits, Generates, Live
    <3>2. \A c \in E : ~(Live(c) /\ Dom(c) = Root)
      BY <2>2, <3>1, RootAlone
    <3> QED
      BY <1>0, <2>2, <3>1, <3>2 DEF OwnsKeys, Adds, Label
  <2> QED
    BY <1>0, <1>1, <2>1, <2>2 DEF OwnsKeys
<1>6. ReliesFits(o)'
  BY <1>0, <1>1, <1>2, Sentinels DEF ReliesFits
<1>7. LogFits(o)'
  <2>1. ASSUME backend = "softkey", Live(o), Stored(Root)', ~Stored(Root) PROVE FALSE
    <3>1. PICK c \in E : Live(c) /\ Dom(c) = Root
      BY <2>1, Sentinels DEF Adds, Stored
    <3> QED
      BY <2>1, <3>1, RootAlone
  <2> QED
    BY <1>0, <1>1, <2>1 DEF LogFits
<1>8. ExistsFits(o)'
  BY <1>0, <1>1, <1>3 DEF ExistsFits, Roles
<1> QED
  BY <1>4, <1>5, <1>6, <1>7, <1>8

\* A domain whose certificates are kept.
LEMMA DomainKept ==
    ASSUME KInv, NEW E \in SUBSET Calls, Adds(E), NEW d \in Domains,
           Stored(d)' => Stored(d) /\ doc'[d].by = doc[d].by /\ doc'[d].pair = doc[d].pair
    PROVE  DocumentFits(d)'
<1> USE DEF KInv
<1> SUFFICES ASSUME Stored(d)' PROVE DocumentFits(d)'
  BY DEF DocumentFits
<1>1. Stored(d) /\ doc'[d].by = doc[d].by /\ doc'[d].pair = doc[d].pair
  OBVIOUS
<1>2. doc[d] \in Documents
  BY <1>1 DEF Stored, StoreTyped
<1>3. doc[d].by \in Calls \cup {Before} /\ doc[d].pair \in BOOLEAN
  BY <1>2 DEF Documents
<1>4. Stored(Root)'
  BY <1>1, Sentinels DEF DocumentFits, Adds, Stored
<1>5. doc[d].by # Before => call'[doc[d].by].pc \in {"record", "done"}
  BY <1>1, <1>3 DEF DocumentFits, Adds
<1>6. Clobbered(d) => Clobbered(d)'
  BY DEF Adds, Clobbered, Marked
<1>7. ASSUME ~Clobbered(d)', NEW r \in RolesOf(d, doc[d].pair) PROVE keys'[<<d, r>>] = doc[d].by
  <2>1. r \in Roles
    BY <1>3, RolesOfIs DEF Roles
  <2>2. keys[<<d, r>>] = doc[d].by /\ keys[<<d, r>>] # None
    BY <1>1, <1>3, <1>6, <1>7, Sentinels DEF DocumentFits
  <2> QED
    BY <1>7, <2>1, <2>2 DEF Adds
<1> QED
  BY <1>1, <1>4, <1>5, <1>7 DEF DocumentFits

LEMMA LockKept ==
    ASSUME Locked, NEW E \in SUBSET Calls, Adds(E),
           \A c \in E : Live(c) /\ (Live(c)' => call'[c].cli = call[c].cli)
    PROVE  Locked'
<1>1. \A o \in Calls : Live(o)' => Live(o) /\ call'[o].cli = call[o].cli
  BY DEF Adds, Live
<1> QED
  BY <1>1 DEF Locked, Adds

\* Whatever key is there after a step has its reason, if it has one for the calls
\* that take the step.
Reason(d) == Stored(d) \/ Marked("fault", d) \/ Marked("burnt", d)

LEMMA WinsKept ==
    ASSUME KInv, NEW E \in SUBSET Calls, Adds(E), NEW d \in Domains,
           \A c \in E : Generates(c) /\ Dom(c) = d =>
                \A r \in Got(c) :
                    Reason(d)' \/ \E b \in Calls : Generates(b)' /\ Dom(b)' = d /\ r \in Got(b)',
           \A r \in Roles : keys'[<<d, r>>] # keys[<<d, r>>] =>
                \/ Reason(d)'
                \/ \E c \in E : Generates(c)' /\ Dom(c)' = d /\ r \in Got(c)'
    PROVE  WinFits(d)'
<1> USE DEF KInv
<1> SUFFICES ASSUME NEW r \in Roles, keys'[<<d, r>>] # None
             PROVE  \/ Reason(d)'
                    \/ \E b \in Calls : Generates(b)' /\ Dom(b)' = d /\ r \in Got(b)'
  BY DEF WinFits, Reason
<1>1. CASE keys'[<<d, r>>] # keys[<<d, r>>]
  BY <1>1
<1>2. CASE keys'[<<d, r>>] = keys[<<d, r>>]
  <2>1. Reason(d) => Reason(d)'
    BY DEF Adds, Reason, Marked, Stored
  <2>2. CASE ~Reason(d)
    <3>1. PICK b \in Calls : Generates(b) /\ Dom(b) = d /\ r \in Got(b)
      BY <1>2, <2>2 DEF WinFits, Reason
    <3>2. CASE b \in E
      BY <3>1, <3>2
    <3>3. CASE b \notin E
      <4>1. call'[b] = call[b]
        BY <3>3 DEF Adds
      <4> QED
        BY <3>1, <4>1 DEF Generates, Dom, Got, Pair
    <3> QED
      BY <3>2, <3>3
  <2> QED
    BY <2>1, <2>2
<1> QED
  BY <1>1, <1>2

\* A call that ends relies on no more than it did.
LEMMA EndedFits ==
    ASSUME KInv, NEW E \in SUBSET Calls, Adds(E), NEW c \in E, Live(c),
           NEW a \in {"ok", "refused", "exists", "failed"}, call'[c] = Ended(c, a),
           a = "ok" => call[c].pc = "record",
           a = "exists" => keys'[<<Dom(c), "primary">>] # None
    PROVE  PhaseFits(c)' /\ OwnsKeys(c)' /\ ReliesFits(c)' /\ LogFits(c)' /\ ExistsFits(c)'
<1> USE DEF KInv
<1>1. /\ call'[c].pc = "done" /\ call'[c].answer = a
      /\ a \in {"ok", "exists"} =>
            /\ call'[c].req = call[c].req /\ call'[c].cli = call[c].cli
            /\ call'[c].log = call[c].log
  BY EndedMeans
<1>2. ~Live(c)' /\ ~Generates(c)' /\ (a \in {"ok", "exists"} => Dom(c)' = Dom(c))
  BY <1>1 DEF Live, Generates, Dom
<1>3. PhaseFits(c)'
  BY <1>1, <1>2 DEF PhaseFits
<1>4. OwnsKeys(c)' /\ LogFits(c)'
  BY <1>1, <1>2 DEF OwnsKeys, LogFits
<1>5. ReliesFits(c)'
  <2>1. Dom(c) \in Domains
    BY DomIn
  <2>2. \A d \in Domains : Clobbered(d) => Clobbered(d)'
    BY DEF Adds, Clobbered, Marked
  <2>3. ASSUME a = "ok", call[c].req.op = "create"
        PROVE  doc'[Dom(c)] # None /\ (doc'[Dom(c)].by = c \/ Clobbered(Dom(c)))
    BY <2>1, <2>3 DEF ReliesFits, Adds, Stored
  <2> QED
    BY <1>1, <1>2, <2>1, <2>2, <2>3 DEF ReliesFits, Stored
<1>6. ExistsFits(c)'
  BY <1>1, <1>2 DEF ExistsFits
<1> QED
  BY <1>3, <1>4, <1>5, <1>6

LEMMA Composed ==
    ASSUME KInv, NEW E \in SUBSET Calls, Adds(E), StoreTyped', CallsTyped', Locked',
           \A c \in E : PhaseFits(c)' /\ OwnsKeys(c)' /\ ReliesFits(c)' /\ LogFits(c)' /\ ExistsFits(c)',
           \A d \in Domains : DocumentFits(d)' /\ WinFits(d)'
    PROVE  KInv'
<1>1. \A o \in Calls \ E :
          PhaseFits(o)' /\ OwnsKeys(o)' /\ ReliesFits(o)' /\ LogFits(o)' /\ ExistsFits(o)'
  BY OthersKept
<1> QED
  BY <1>1 DEF KInv

-----------------------------------------------------------------------------
(* The steps.                                                              *)

LEMMA MarkTyped ==
    ASSUME StoreTyped, NEW d \in Domains, NEW kind \in MarkKinds, Mark(kind, d) \/ UNCHANGED marks
    PROVE  /\ marks \subseteq marks' /\ marks' \subseteq MarkKinds \X Domains
           /\ Mark(kind, d) => Marked(kind, d)'
  BY DEF StoreTyped, Mark, Marked

\* A call ends; documents and keys are as they were.
LEMMA EndKeeps ==
    ASSUME KInv, NEW c \in Calls, Live(c), NEW a \in {"ok", "refused", "exists", "failed"},
           Answer(c, a), UNCHANGED <<backend, doc, keys>>, trail' \in Seq(Records),
           marks \subseteq marks', marks' \subseteq MarkKinds \X Domains,
           a = "ok" => call[c].pc = "record",
           a = "exists" => keys[<<Dom(c), "primary">>] # None,
           Generates(c) =>
                \A r \in Got(c) :
                    \/ Reason(Dom(c)) \/ <<"fault", Dom(c)>> \in marks' \/ <<"burnt", Dom(c)>> \in marks'
                    \/ \E b \in Calls \ {c} : Generates(b) /\ Dom(b) = Dom(c) /\ r \in Got(b)
    PROVE  KInv'
<1> USE DEF KInv
<1>1. CallsTyped' /\ call'[c] = Ended(c, a) /\ \A o \in Calls \ {c} : call'[o] = call[o]
  BY AnswerMeans
<1>2. call'[c].pc = "done"
  BY <1>1, EndedMeans
<1>3. Adds({c})
  BY <1>1, <1>2 DEF Adds
<1>4. StoreTyped'
  BY DEF StoreTyped
<1>5. Locked'
  BY <1>2, <1>3, LockKept DEF Live
<1>6. PhaseFits(c)' /\ OwnsKeys(c)' /\ ReliesFits(c)' /\ LogFits(c)' /\ ExistsFits(c)'
  BY <1>1, <1>3, EndedFits
<1>7. ASSUME NEW d \in Domains PROVE DocumentFits(d)' /\ WinFits(d)'
  <2>1. DocumentFits(d)'
    BY <1>3, DomainKept DEF Stored
  <2>2. ASSUME Generates(c), Dom(c) = d, NEW r \in Got(c)
        PROVE  Reason(d)' \/ \E b \in Calls : Generates(b)' /\ Dom(b)' = d /\ r \in Got(b)'
    <3>1. CASE \/ Reason(Dom(c)) \/ <<"fault", Dom(c)>> \in marks' \/ <<"burnt", Dom(c)>> \in marks'
      BY <1>3, <2>2, <3>1 DEF Reason, Marked, Stored
    <3>2. ASSUME NEW b \in Calls \ {c}, Generates(b), Dom(b) = Dom(c), r \in Got(b)
          PROVE  Generates(b)' /\ Dom(b)' = d /\ r \in Got(b)'
      BY <1>1, <2>2, <3>2 DEF Generates, Dom, Got, Pair
    <3> QED
      BY <2>2, <3>1, <3>2
  <2> QED
    BY <1>3, <2>1, <2>2, WinsKept
<1> QED
  BY <1>1, <1>3, <1>4, <1>5, <1>6, <1>7, Composed

LEMMA ArriveKeeps ==
    ASSUME KInv, NEW c \in Calls, NEW req \in Requests, NEW cli \in BOOLEAN, NEW log \in BOOLEAN,
           Arrive(c, req, cli, log)
    PROVE  KInv'
<1> USE DEF KInv
<1> DEFINE new == [pc |-> IF req.op = "create" THEN "check" ELSE "update",
                   req |-> req, cli |-> cli, log |-> log, todo |-> <<>>, answer |-> "none"]
<1>1. /\ call[c].pc = "idle" /\ LockIsFree(cli) /\ (log => Stored(Root))
      /\ (Stored(Root) /\ backend = "softkey" => log)
      /\ (req.dom = Root => cli) /\ (~cli => log)
      /\ call' = [call EXCEPT ![c] = new]
      /\ Mark("overtaken", Root) \/ UNCHANGED marks
      /\ UNCHANGED <<backend, doc, keys, trail>>
  BY DEF Arrive
<1>2. new \in CallStates
  BY DEF CallStates
<1>3. CallsTyped' /\ call'[c] = new /\ \A o \in Calls \ {c} : call'[o] = call[o]
  BY <1>1, <1>2 DEF CallsTyped
<1>4. marks \subseteq marks' /\ marks' \subseteq MarkKinds \X Domains
  BY <1>1, MarkTyped, Sentinels DEF MarkKinds
<1>5. Adds({c})
  BY <1>1, <1>3, <1>4 DEF Adds
<1>6. StoreTyped'
  BY <1>1, <1>4 DEF StoreTyped
<1>7. Locked'
  BY <1>1, <1>3 DEF Locked, LockIsFree, Live
<1>8. /\ Live(c)' /\ ~Generates(c)' /\ Dom(c)' = req.dom
      /\ call'[c].pc \in {"check", "update"} /\ (call'[c].pc = "check" <=> req.op = "create")
  BY <1>3 DEF Live, Generates, Dom
<1>9. PhaseFits(c)' /\ OwnsKeys(c)' /\ ReliesFits(c)' /\ ExistsFits(c)'
  BY <1>1, <1>3, <1>8 DEF PhaseFits, OwnsKeys, ReliesFits, ExistsFits
<1>10. LogFits(c)'
  BY <1>1, <1>3 DEF LogFits, Stored
<1>11. \A d \in Domains : DocumentFits(d)' /\ WinFits(d)'
  <2>1. ASSUME NEW d \in Domains PROVE DocumentFits(d)'
    BY <1>1, <1>5, DomainKept DEF Stored
  <2>2. ~Generates(c)
    BY <1>1 DEF Generates
  <2>3. ASSUME NEW d \in Domains PROVE WinFits(d)'
    BY <1>1, <1>5, <2>2, WinsKept
  <2> QED
    BY <2>1, <2>3
<1> QED
  BY <1>3, <1>5, <1>6, <1>7, <1>9, <1>10, <1>11, Composed

\* A step that only moves its call on.
LEMMA MoveKeeps ==
    ASSUME KInv, NEW c \in Calls, Live(c), CallsTyped', Live(c)',
           \A o \in Calls \ {c} : call'[o] = call[o],
           call'[c].req = call[c].req, call'[c].cli = call[c].cli, call'[c].log = call[c].log,
           call[c].pc # "record", UNCHANGED <<backend, doc, keys, trail, marks>>,
           PhaseFits(c)', OwnsKeys(c)', ReliesFits(c)', ExistsFits(c)',
           Generates(c) => Generates(c)' /\ Got(c)' = Got(c)
    PROVE  KInv'
<1> USE DEF KInv
<1>1. Adds({c})
  BY DEF Adds, Live
<1>2. StoreTyped'
  BY DEF StoreTyped
<1>3. Locked'
  BY <1>1, LockKept
<1>4. Dom(c)' = Dom(c)
  BY DEF Dom
<1>5. LogFits(c)'
  BY <1>4 DEF LogFits, Stored
<1>6. \A d \in Domains : DocumentFits(d)' /\ WinFits(d)'
  <2>1. ASSUME NEW d \in Domains PROVE DocumentFits(d)'
    BY <1>1, DomainKept DEF Stored
  <2>2. ASSUME NEW d \in Domains PROVE WinFits(d)'
    BY <1>1, <1>4, WinsKept
  <2> QED
    BY <2>1, <2>2
<1> QED
  BY <1>1, <1>2, <1>3, <1>5, <1>6, Composed

LEMMA CheckKeeps == ASSUME KInv, NEW c \in Calls, Check(c) PROVE KInv'
<1> USE DEF KInv
<1>1. /\ call[c].pc = "check" /\ Live(c) /\ ~Generates(c) /\ Dom(c) \in Domains
      /\ UNCHANGED <<backend, doc, keys, trail, marks>>
  BY DomIn DEF Check, Live, Generates
<1>2. CASE Missing(Dom(c))
  <2> DEFINE rest == KeysOf(Dom(c), Pair(c))
  <2>1. Pair(c) \in BOOLEAN
    BY DEF Pair
  <2>2. rest \in Rests(Dom(c), Pair(c)) /\ rest \in Seq(Roles)
    BY <2>1, KeysOfIs, RestsShrink DEF Rests
  <2>3. call' = [call EXCEPT ![c].pc = "generate", ![c].todo = rest]
    BY <1>2 DEF Check
  <2>4. /\ CallsTyped' /\ \A o \in Calls \ {c} : call'[o] = call[o]
        /\ call'[c].pc = "generate" /\ call'[c].todo = rest /\ call'[c].req = call[c].req
        /\ call'[c].cli = call[c].cli /\ call'[c].log = call[c].log
        /\ call'[c].answer = call[c].answer
    BY <2>2, <2>3, ProceedMeans
  <2>5. Live(c)' /\ Dom(c)' = Dom(c) /\ Pair(c)' = Pair(c)
    BY <2>4 DEF Live, Dom, Pair
  <2>6. Got(c)' = {}
    BY <2>1, <2>2, <2>4, <2>5, RestsShrink DEF Got
  <2>7. PhaseFits(c)'
    BY <1>1, <2>2, <2>4, <2>5 DEF PhaseFits
  <2>8. OwnsKeys(c)'
    BY <2>4, <2>6 DEF OwnsKeys
  <2>9. ReliesFits(c)'
    BY <1>1, <1>2, <2>4, <2>5 DEF ReliesFits, Missing, Stored
  <2>10. ExistsFits(c)'
    BY <1>1, <2>4 DEF ExistsFits, PhaseFits
  <2> QED
    BY <1>1, <2>4, <2>5, <2>7, <2>8, <2>9, <2>10, MoveKeeps
<1>3. CASE ~Missing(Dom(c))
  <2>1. Answer(c, "refused")
    BY <1>3 DEF Check
  <2> QED
    BY <1>1, <2>1, EndKeeps DEF StoreTyped
<1> QED
  BY <1>2, <1>3

LEMMA RefusePairKeeps == ASSUME KInv, NEW c \in Calls, RefusePair(c) PROVE KInv'
<1>1. /\ Live(c) /\ Answer(c, "refused") /\ UNCHANGED <<backend, doc, keys, trail>>
      /\ Dom(c) \in Domains /\ Mark("burnt", Dom(c))
  BY DomIn DEF KInv, RefusePair, Generating, Live
<1>2. /\ marks \subseteq marks' /\ marks' \subseteq MarkKinds \X Domains
      /\ <<"burnt", Dom(c)>> \in marks'
  BY <1>1, MarkTyped DEF KInv, MarkKinds, Mark
<1> QED
  BY <1>1, <1>2, EndKeeps DEF KInv, StoreTyped

\* A key that is in the way was generated by a creation that got further.
LEMMA RefuseKeyKeeps == ASSUME KInv, NEW c \in Calls, RefuseKey(c) PROVE KInv'
<1> USE DEF KInv
<1> DEFINE d == Dom(c)
<1>1. /\ Generates(c) /\ Live(c) /\ call[c].todo # <<>> /\ keys[Label(c)] # None
      /\ Answer(c, "exists") /\ UNCHANGED <<backend, doc, keys, trail, marks>>
  BY DEF RefuseKey, Generating, Live, Generates
<1>2. d \in Domains /\ Role(c) \in RolesOf(d, Pair(c)) \ Got(c) /\ Role(c) \in Roles
  BY <1>1, DomIn, GotMeans
<1>3. keys[<<d, "primary">>] # None
  <2>1. CASE Got(c) # {}
    BY <1>1, <2>1, GotMeans DEF OwnsKeys
  <2>2. CASE Got(c) = {}
    <3>1. Role(c) = "primary"
      <4>1. call[c].todo = KeysOf(d, Pair(c)) /\ Pair(c) \in BOOLEAN
        BY <1>1, <2>2, GotMeans DEF Pair
      <4> QED
        BY <4>1, KeysOfIs DEF Role
    <3> QED
      BY <1>1, <3>1 DEF Label
  <2> QED
    BY <2>1, <2>2
<1>4. ASSUME NEW r \in Got(c)
      PROVE  \/ Reason(d)
             \/ \E b \in Calls \ {c} : Generates(b) /\ Dom(b) = d /\ r \in Got(b)
  <2> SUFFICES ASSUME ~Reason(d)
               PROVE  \E b \in Calls \ {c} : Generates(b) /\ Dom(b) = d /\ r \in Got(b)
    OBVIOUS
  <2>1. PICK b \in Calls : Generates(b) /\ Dom(b) = d /\ Role(c) \in Got(b)
    BY <1>1, <1>2 DEF WinFits, Reason, Label
  <2>2. b # c
    BY <1>2, <2>1
  <2>3. "primary" \in Got(c) /\ "primary" \in Got(b)
    BY <1>1, <1>4, <2>1, GotMeans
  <2>4. d # Root
    BY <1>1, <2>1, <2>2, <2>3, Sentinels DEF OwnsKeys, Clobbered
  <2>5. r = "primary"
    <3>1. RolesOf(d, Pair(c)) \subseteq {"primary", "pair"}
      BY <2>4, RolesOfIs DEF Pair
    <3>2. r \in RolesOf(d, Pair(c)) /\ Role(c) # r /\ Role(c) # "primary"
      BY <1>1, <1>2, <1>4, <2>3, GotMeans
    <3> QED
      BY <1>2, <3>1, <3>2
  <2> QED
    BY <2>1, <2>2, <2>3, <2>5
<1> QED
  BY <1>1, <1>3, <1>4, EndKeeps DEF StoreTyped

LEMMA StoreKeyKeeps ==
    ASSUME KInv, NEW c \in Calls, Generates(c), call[c].todo # <<>>, StoreKey(c),
           UNCHANGED backend,
           call[c].pc = "generate" => keys[Label(c)] = None
    PROVE  KInv'
<1> USE DEF KInv
<1> DEFINE d == Dom(c)  r == Role(c)  rest == Tail(call[c].todo)
<1>1. /\ keys' = [keys EXCEPT ![<<d, r>>] = c]
      /\ call' = [call EXCEPT ![c].pc = "generate", ![c].todo = rest]
      /\ IF keys[<<d, r>>] # None THEN Mark("clobbered", d) ELSE UNCHANGED marks
      /\ UNCHANGED <<doc, trail>>
  BY DEF StoreKey, Label
<1>2. /\ d \in Domains /\ r \in Roles /\ r \in RolesOf(d, Pair(c)) \ Got(c)
      /\ rest \in Rests(d, Pair(c)) /\ rest \in Seq(Roles)
      /\ GotOf(d, Pair(c), rest) = Got(c) \cup {r}
  BY DomIn, GotMeans
<1>3. /\ CallsTyped' /\ \A o \in Calls \ {c} : call'[o] = call[o]
      /\ call'[c].pc = "generate" /\ call'[c].todo = rest /\ call'[c].req = call[c].req
      /\ call'[c].cli = call[c].cli /\ call'[c].log = call[c].log
      /\ call'[c].answer = call[c].answer
  BY <1>1, <1>2, ProceedMeans
<1> HIDE DEF rest, r
<1>4. /\ Live(c) /\ Live(c)' /\ Generates(c)' /\ Dom(c)' = d /\ Pair(c)' = Pair(c)
      /\ Got(c)' = Got(c) \cup {r}
  BY <1>2, <1>3 DEF Live, Generates, Dom, Pair, Got
<1>5. <<d, r>> \in Labels /\ keys'[<<d, r>>] = c
  BY <1>1, <1>2 DEF Labels, StoreTyped
<1>6. \A e \in Domains, q \in Roles : <<e, q>> # <<d, r>> => keys'[<<e, q>>] = keys[<<e, q>>]
  BY <1>1 DEF Labels
<1>7. /\ marks \subseteq marks' /\ marks' \subseteq MarkKinds \X Domains
      /\ keys[<<d, r>>] # None => <<"clobbered", d>> \in marks'
  BY <1>1, <1>2, MarkTyped DEF MarkKinds, Mark
<1>8. keys[<<d, r>>] # None => d # Root /\ backend = "softkey"
  BY DEF OwnsKeys, PhaseFits, Generates, Label, r
<1>9. Adds({c})
  <2>1. ASSUME NEW e \in Domains, NEW q \in Roles, keys'[<<e, q>>] # keys[<<e, q>>]
        PROVE  /\ keys'[<<e, q>>] # None
               /\ keys[<<e, q>>] = None \/ Clobbered(e)'
               /\ Live(c) /\ Dom(c) = e
    <3>1. e = d /\ q = r
      BY <1>6, <2>1
    <3> QED
      BY <1>4, <1>5, <1>7, <1>8, <3>1, Sentinels DEF Clobbered, Marked
  <2> QED
    BY <1>1, <1>3, <1>7, <2>1 DEF Adds, Generates
<1>10. StoreTyped'
  <2>1. keys' \in [Labels -> Calls \cup {Before, None, Torn}]
    BY <1>1 DEF StoreTyped
  <2>2. ASSUME NEW t \in Tenants PROVE keys'[<<t, "audit">>] = None
    <3>1. t = d => r # "audit"
      <4>1. Pair(c) \in BOOLEAN
        BY DEF Pair
      <4>2. d # Root => "audit" \notin RolesOf(d, Pair(c))
        BY <4>1, RolesOfIs
      <4> QED
        BY <1>2, <4>2, Sentinels
    <3> QED
      BY <1>6, <3>1, Sentinels DEF Roles, StoreTyped
  <2> QED
    BY <1>1, <1>7, <2>1, <2>2 DEF StoreTyped
<1>11. Locked'
  BY <1>3, <1>4, <1>9, LockKept
<1>12. PhaseFits(c)'
  BY <1>2, <1>3, <1>4 DEF PhaseFits, Generates
<1>13. OwnsKeys(c)'
  <2>1. ASSUME NEW q \in Got(c)
        PROVE  keys'[<<d, q>>] # None /\ (keys'[<<d, q>>] = c \/ Clobbered(d)')
    <3>1. q # r /\ q \in Roles
      BY <1>2, <2>1, GotMeans
    <3>2. keys'[<<d, q>>] = keys[<<d, q>>]
      BY <1>2, <1>6, <3>1
    <3>3. \A e : Clobbered(e) => Clobbered(e)'
      BY <1>7 DEF Clobbered, Marked
    <3> QED
      BY <1>4, <2>1, <3>2, <3>3 DEF OwnsKeys
  <2> QED
    BY <1>3, <1>4, <1>5, <2>1, Sentinels DEF OwnsKeys
<1>14. ReliesFits(c)' /\ LogFits(c)' /\ ExistsFits(c)'
  <2>1. call[c].answer = "none" /\ call[c].pc \in {"generate", "write"}
    BY DEF PhaseFits, Generates
  <2> QED
    BY <1>1, <1>3, <1>4, <2>1 DEF ReliesFits, LogFits, ExistsFits, Stored
<1>15. ASSUME NEW e \in Domains PROVE DocumentFits(e)' /\ WinFits(e)'
  <2>1. DocumentFits(e)'
    BY <1>1, <1>9, DomainKept DEF Stored
  <2>2. \A q \in Roles : keys'[<<e, q>>] # keys[<<e, q>>] => Dom(c)' = e /\ q \in Got(c)'
    BY <1>4, <1>6
  <2> QED
    BY <1>4, <1>9, <2>1, <2>2, WinsKept
<1> QED
  BY <1>3, <1>9, <1>10, <1>11, <1>12, <1>13, <1>14, <1>15, Composed

LEMMA FindNoFileKeeps == ASSUME KInv, NEW c \in Calls, FindNoFile(c) PROVE KInv'
<1> USE DEF KInv
<1>1. /\ call[c].pc = "generate" /\ call[c].todo # <<>> /\ backend = "softkey"
      /\ keys[Label(c)] = None /\ Goto(c, "write")
      /\ UNCHANGED <<backend, doc, keys, trail, marks>>
  BY DEF FindNoFile, Generating
<1>2. /\ CallsTyped' /\ \A o \in Calls \ {c} : call'[o] = call[o]
      /\ call'[c].pc = "write" /\ call'[c].todo = call[c].todo /\ call'[c].req = call[c].req
      /\ call'[c].cli = call[c].cli /\ call'[c].log = call[c].log
      /\ call'[c].answer = call[c].answer
  BY <1>1, GotoMeans
<1>3. /\ Live(c) /\ Live(c)' /\ Generates(c) /\ Generates(c)' /\ Dom(c)' = Dom(c)
      /\ Pair(c)' = Pair(c) /\ Got(c)' = Got(c) /\ Label(c)' = Label(c)
  BY <1>1, <1>2 DEF Live, Generates, Dom, Pair, Got, Label, Role
<1>4. PhaseFits(c)'
  BY <1>1, <1>2, <1>3 DEF PhaseFits
<1>5. OwnsKeys(c)'
  BY <1>1, <1>2, <1>3 DEF OwnsKeys, Clobbered, Marked
<1>6. ReliesFits(c)' /\ ExistsFits(c)'
  BY <1>1, <1>2, <1>3 DEF ReliesFits, ExistsFits, PhaseFits, Stored
<1> QED
  BY <1>1, <1>2, <1>3, <1>4, <1>5, <1>6, MoveKeeps

\* A creation puts its document where none is, or where key files were overwritten.
LEMMA PutIsFirst ==
    ASSUME KInv, NEW c \in Calls, Generated(c)
    PROVE  /\ Generates(c) /\ Dom(c) \in Domains /\ Pair(c) \in BOOLEAN
           /\ Got(c) = RolesOf(Dom(c), Pair(c))
           /\ ~Stored(Dom(c)) \/ Clobbered(Dom(c))
           /\ \A r \in RolesOf(Dom(c), Pair(c)) :
                    keys[<<Dom(c), r>>] = c \/ Clobbered(Dom(c))
<1> USE DEF KInv
<1>1. Generates(c) /\ Dom(c) \in Domains /\ Pair(c) \in BOOLEAN /\ call[c].pc = "generate"
  BY DomIn DEF Generated, Generates, Pair
<1>2. Got(c) = RolesOf(Dom(c), Pair(c))
  BY <1>1, GotMeans DEF Generated
<1>3. \A r \in RolesOf(Dom(c), Pair(c)) : keys[<<Dom(c), r>>] = c \/ Clobbered(Dom(c))
  BY <1>1, <1>2 DEF OwnsKeys
<1>4. ASSUME Stored(Dom(c)), ~Clobbered(Dom(c)) PROVE FALSE
  <2>1. doc[Dom(c)] \in Documents
    BY <1>1, <1>4 DEF Stored, StoreTyped
  <2>2. doc[Dom(c)].pair \in BOOLEAN
    BY <2>1 DEF Documents
  <2>3. keys[<<Dom(c), "primary">>] = doc[Dom(c)].by
    BY <1>1, <1>4, <2>2, RolesOfIs DEF DocumentFits
  <2>4. keys[<<Dom(c), "primary">>] = c
    BY <1>1, <1>3, <1>4, RolesOfIs
  <2> QED
    BY <1>1, <1>4, <2>3, <2>4, Sentinels DEF DocumentFits
<1> QED
  BY <1>1, <1>2, <1>3, <1>4

\* What putting the document does to documents and keys, however the call ends.
LEMMA PutMeans ==
    ASSUME KInv, NEW c \in Calls, Generated(c), doc' = DocPut(c), UNCHANGED keys
    PROVE  /\ doc' \in [Domains -> Documents \cup {None}]
           /\ doc'[Dom(c)] = NewDocument(c, Dom(c), Pair(c))
           /\ doc'[Dom(c)] # None /\ doc'[Dom(c)].by = c /\ doc'[Dom(c)].pair = Pair(c)
           /\ \A d \in Domains \ {Dom(c)} : doc'[d] = doc[d]
           /\ doc'[Root] # None
<1> USE DEF KInv
<1>1. Dom(c) \in Domains /\ Pair(c) \in BOOLEAN /\ Generates(c) /\ Live(c)
  BY PutIsFirst DEF Generates, Live
<1>2. /\ NewDocument(c, Dom(c), Pair(c)) \in Documents
      /\ NewDocument(c, Dom(c), Pair(c)).by = c /\ NewDocument(c, Dom(c), Pair(c)).pair = Pair(c)
  BY <1>1, NewDocumentMeans
<1>3. /\ doc' \in [Domains -> Documents \cup {None}]
      /\ doc'[Dom(c)] = NewDocument(c, Dom(c), Pair(c))
      /\ \A d \in Domains \ {Dom(c)} : doc'[d] = doc[d]
  BY <1>1, <1>2 DEF DocPut, StoreTyped
<1>4. doc'[Root] # None
  BY <1>1, <1>2, <1>3, Sentinels DEF ReliesFits, Generates, Stored
<1> QED
  BY <1>2, <1>3, <1>4, Sentinels

LEMMA PutAdds ==
    ASSUME KInv, NEW c \in Calls, Generated(c), doc' = DocPut(c),
           UNCHANGED <<backend, keys>>, marks \subseteq marks',
           \A o \in Calls \ {c} : call'[o] = call[o],
           call'[c].pc \in {"record", "done"}
    PROVE  /\ Adds({c})
           /\ \A d \in Domains : DocumentFits(d)' /\ WinFits(d)'
<1> USE DEF KInv
<1>1. /\ Generates(c) /\ Live(c) /\ Dom(c) \in Domains /\ Pair(c) \in BOOLEAN
      /\ call[c].pc = "generate"
  BY PutIsFirst DEF Generated, Live
<1>2. Adds({c})
  BY <1>1, PutIsFirst, PutMeans DEF Adds
<1>3. ASSUME NEW d \in Domains, d # Dom(c) PROVE DocumentFits(d)'
  BY <1>2, <1>3, DomainKept, PutMeans DEF Stored
<1>4. ASSUME NEW d, d = Dom(c) PROVE DocumentFits(d)'
  <2>1. \A r \in RolesOf(d, Pair(c)) : keys'[<<d, r>>] = c \/ Clobbered(d)'
    BY <1>2, <1>4, PutIsFirst DEF Adds, Clobbered, Marked
  <2> QED
    BY <1>4, <2>1, PutMeans DEF DocumentFits, Stored
<1>5. ASSUME NEW d \in Domains PROVE WinFits(d)'
  <2>1. Dom(c) = d => Reason(d)'
    BY PutMeans DEF Reason, Stored
  <2> QED
    BY <1>2, <2>1, WinsKept
<1> QED
  BY <1>2, <1>3, <1>4, <1>5

LEMMA PutKeeps == ASSUME KInv, NEW c \in Calls, Put(c) PROVE KInv'
<1> USE DEF KInv
<1>1. /\ Generated(c) /\ doc' = DocPut(c) /\ Goto(c, "record")
      /\ UNCHANGED <<backend, keys, trail, marks>>
  BY DEF Put
<1>2. /\ CallsTyped' /\ \A o \in Calls \ {c} : call'[o] = call[o]
      /\ call'[c].pc = "record" /\ call'[c].todo = call[c].todo /\ call'[c].req = call[c].req
      /\ call'[c].cli = call[c].cli /\ call'[c].log = call[c].log
      /\ call'[c].answer = call[c].answer
  BY <1>1, GotoMeans
<1>3. Live(c) /\ Live(c)' /\ ~Generates(c)' /\ Dom(c)' = Dom(c) /\ Generates(c)
  BY <1>1, <1>2 DEF Live, Dom, Generates, Generated
<1>4. Adds({c}) /\ \A d \in Domains : DocumentFits(d)' /\ WinFits(d)'
  BY <1>1, <1>2, PutAdds
<1>5. StoreTyped'
  BY <1>1, PutMeans DEF StoreTyped
<1>6. Locked'
  BY <1>2, <1>3, <1>4, LockKept
<1>7. PhaseFits(c)' /\ OwnsKeys(c)' /\ ExistsFits(c)'
  BY <1>2, <1>3 DEF PhaseFits, OwnsKeys, ExistsFits, Generates
<1>8. ReliesFits(c)'
  BY <1>1, <1>2, <1>3, PutMeans DEF ReliesFits, Stored
<1>9. LogFits(c)'
  BY <1>1, <1>2, <1>3 DEF LogFits, ReliesFits, Generates
<1> QED
  BY <1>2, <1>4, <1>5, <1>6, <1>7, <1>8, <1>9, Composed

LEMMA UpdateMeans ==
    ASSUME KInv, NEW c \in Calls, call[c].pc = "update", Updatable(c), doc' = DocUpdated(c)
    PROVE  /\ Dom(c) \in Domains \ {Root} /\ Live(c) /\ ~Generates(c)
           /\ doc' \in [Domains -> Documents \cup {None}]
           /\ doc'[Dom(c)] # None /\ doc[Dom(c)] # None
           /\ doc'[Dom(c)].by = doc[Dom(c)].by /\ doc'[Dom(c)].pair = doc[Dom(c)].pair
           /\ \A n \in Names :
                doc'[Dom(c)].profiles[n] =
                    IF n # call[c].req.name THEN doc[Dom(c)].profiles[n]
                    ELSE IF call[c].req.op = "set" THEN c ELSE None
           /\ \A d \in Domains \ {Dom(c)} : doc'[d] = doc[d]
<1> USE DEF KInv
<1> DEFINE d == Dom(c)
           n == call[c].req.name
           v == IF call[c].req.op = "set" THEN c ELSE None
           new == [doc[d] EXCEPT !.profiles = [doc[d].profiles EXCEPT ![n] = v]]
<1>1. /\ Live(c) /\ ~Generates(c) /\ d \in Domains \ {Root} /\ n \in Names
      /\ call[c].req.op \in {"set", "delete"}
  BY DomIn, RequestFields DEF Live, Generates, PhaseFits, Dom
<1>2. doc[d] \in Documents /\ doc[d] # None
  BY <1>1 DEF Updatable, Stored, StoreTyped
<1>3. /\ new \in Documents /\ new.by = doc[d].by /\ new.pair = doc[d].pair
      /\ \A m \in Names : new.profiles[m] = IF m # n THEN doc[d].profiles[m] ELSE v
  BY <1>1, <1>2 DEF Documents
<1>4. doc' = [doc EXCEPT ![d] = new]
  BY DEF DocUpdated
<1>5. /\ doc' \in [Domains -> Documents \cup {None}] /\ doc'[d] = new
      /\ \A e \in Domains \ {d} : doc'[e] = doc[e]
  BY <1>1, <1>3, <1>4 DEF StoreTyped
<1> QED
  BY <1>1, <1>2, <1>3, <1>5, Sentinels

LEMMA UpdateAdds ==
    ASSUME KInv, NEW c \in Calls, call[c].pc = "update", Updatable(c), doc' = DocUpdated(c),
           UNCHANGED <<backend, keys>>, marks \subseteq marks',
           \A o \in Calls \ {c} : call'[o] = call[o]
    PROVE  /\ Adds({c})
           /\ \A d \in Domains : DocumentFits(d)' /\ WinFits(d)'
<1> USE DEF KInv
<1>1. Adds({c})
  BY UpdateMeans DEF Adds
<1>2. ASSUME NEW d \in Domains PROVE DocumentFits(d)'
  BY <1>1, DomainKept, UpdateMeans DEF Stored
<1>3. ASSUME NEW d \in Domains PROVE WinFits(d)'
  BY <1>1, UpdateMeans, WinsKept
<1> QED
  BY <1>1, <1>2, <1>3

LEMMA UpdateKeeps == ASSUME KInv, NEW c \in Calls, Update(c) PROVE KInv'
<1> USE DEF KInv
<1>1. /\ call[c].pc = "update" /\ Updatable(c) /\ doc' = DocUpdated(c) /\ Goto(c, "record")
      /\ UNCHANGED <<backend, keys, trail>>
      /\ Mark("overtaken", Dom(c)) \/ UNCHANGED marks
  BY DEF Update
<1>2. /\ CallsTyped' /\ \A o \in Calls \ {c} : call'[o] = call[o]
      /\ call'[c].pc = "record" /\ call'[c].todo = call[c].todo /\ call'[c].req = call[c].req
      /\ call'[c].cli = call[c].cli /\ call'[c].log = call[c].log
      /\ call'[c].answer = call[c].answer
  BY <1>1, GotoMeans
<1>3. /\ Live(c) /\ Live(c)' /\ ~Generates(c)' /\ ~Generates(c) /\ Dom(c)' = Dom(c)
      /\ Dom(c) \in Domains \ {Root}
  BY <1>1, <1>2, UpdateMeans DEF Live, Dom, Generates
<1>4. marks \subseteq marks' /\ marks' \subseteq MarkKinds \X Domains
  BY <1>1, <1>3, MarkTyped DEF MarkKinds
<1>5. Adds({c}) /\ \A d \in Domains : DocumentFits(d)' /\ WinFits(d)'
  BY <1>1, <1>2, <1>4, UpdateAdds
<1>6. StoreTyped'
  BY <1>1, <1>4, UpdateMeans DEF StoreTyped
<1>7. Locked'
  BY <1>2, <1>3, <1>5, LockKept
<1>8. PhaseFits(c)' /\ OwnsKeys(c)' /\ ExistsFits(c)'
  BY <1>1, <1>2, <1>3 DEF PhaseFits, OwnsKeys, ExistsFits
<1>9. Stored(Root) /\ Stored(Root)' /\ Stored(Dom(c))'
  BY <1>1, <1>3, Sentinels, UpdateMeans DEF DocumentFits, Updatable, Stored
<1>10. ReliesFits(c)'
  BY <1>1, <1>2, <1>3, <1>9 DEF ReliesFits, PhaseFits
<1>11. LogFits(c)'
  BY <1>1, <1>2, <1>3, <1>9 DEF LogFits
<1> QED
  BY <1>2, <1>5, <1>6, <1>7, <1>8, <1>10, <1>11, Composed

LEMMA RefuseUpdateKeeps == ASSUME KInv, NEW c \in Calls, RefuseUpdate(c) PROVE KInv'
  BY EndKeeps DEF KInv, RefuseUpdate, Live, Generates, StoreTyped

LEMMA AppendedTyped ==
    ASSUME KInv, NEW c \in Calls, Live(c)
    PROVE  /\ [op |-> call[c].req.op, dom |-> Dom(c), name |-> call[c].req.name, by |-> c]
                    \in Records
           /\ Appended(c) \in Seq(Records)
<1>1. [op |-> call[c].req.op, dom |-> Dom(c), name |-> call[c].req.name, by |-> c] \in Records
  BY RequestFields DEF KInv, PhaseFits, Dom, Records
<1> QED
  BY <1>1 DEF KInv, StoreTyped, Appended

LEMMA RecordKeeps == ASSUME KInv, NEW c \in Calls, Record(c) PROVE KInv'
<1> USE DEF KInv
<1>1. /\ call[c].pc = "record" /\ Live(c) /\ ~Generates(c) /\ Dom(c) \in Domains
      /\ Answer(c, "ok") /\ UNCHANGED <<backend, doc, keys>>
      /\ trail' = Appended(c) \/ trail' = trail
      /\ Mark("unlogged", Dom(c)) \/ UNCHANGED marks
  BY DomIn DEF Record, Live, Generates
<1>2. trail' \in Seq(Records)
  BY <1>1, AppendedTyped DEF StoreTyped
<1>3. marks \subseteq marks' /\ marks' \subseteq MarkKinds \X Domains
  BY <1>1, MarkTyped DEF MarkKinds
<1> QED
  BY <1>1, <1>2, <1>3, EndKeeps

\* A creation that has generated a key is half way.
LEMMA GotIsHalfway ==
    ASSUME CallsTyped, NEW c \in Calls, PhaseFits(c), Generates(c), Got(c) # {}
    PROVE  Halfway(c)
  BY GotMeans DEF Halfway, Generates

LEMMA FailKeeps == ASSUME KInv, NEW c \in Calls, Fail(c) PROVE KInv'
<1> USE DEF KInv
<1>1. /\ Live(c) /\ Dom(c) \in Domains
      /\ Answer(c, "failed") /\ UNCHANGED <<backend, doc, keys, trail>>
      /\ IF Halfway(c) THEN Mark("fault", Dom(c)) ELSE UNCHANGED marks
  BY DomIn DEF Fail
<1>2. /\ marks \subseteq marks' /\ marks' \subseteq MarkKinds \X Domains
      /\ Halfway(c) => <<"fault", Dom(c)>> \in marks'
  BY <1>1, MarkTyped DEF MarkKinds, Mark
<1>3. ASSUME Generates(c), NEW r \in Got(c) PROVE <<"fault", Dom(c)>> \in marks'
  BY <1>2, <1>3, GotIsHalfway
<1> QED
  BY <1>1, <1>2, <1>3, EndKeeps DEF StoreTyped

\* A call ends with an error after a step of it took effect.
LEMMA UnansweredKeeps ==
    ASSUME KInv, NEW c \in Calls, Live(c), Answer(c, "failed"), Mark("fault", Dom(c)),
           Adds({c}), StoreTyped', \A d \in Domains : DocumentFits(d)',
           \A d \in Domains \ {Dom(c)}, r \in Roles : keys'[<<d, r>>] = keys[<<d, r>>]
    PROVE  KInv'
<1> USE DEF KInv
<1>1. CallsTyped' /\ call'[c] = Ended(c, "failed") /\ call'[c].pc = "done"
  BY AnswerMeans, EndedMeans
<1>2. Locked'
  BY <1>1, LockKept DEF Live
<1>3. PhaseFits(c)' /\ OwnsKeys(c)' /\ ReliesFits(c)' /\ LogFits(c)' /\ ExistsFits(c)'
  BY <1>1, EndedFits
<1>4. ASSUME NEW d \in Domains PROVE WinFits(d)'
  <2>1. CASE d = Dom(c)
    <3>1. Reason(d)'
      BY <2>1 DEF Mark, Reason, Marked
    <3> QED
      BY <3>1, WinsKept
  <2>2. CASE d # Dom(c)
    BY <2>2, WinsKept
  <2> QED
    BY <2>1, <2>2
<1> QED
  BY <1>1, <1>2, <1>3, <1>4, Composed

LEMMA FailUnansweredKeeps == ASSUME KInv, NEW c \in Calls, FailUnanswered(c) PROVE KInv'
<1> USE DEF KInv
<1> DEFINE d == Dom(c)
<1>0. /\ Answer(c, "failed") /\ Mark("fault", Dom(c)) /\ UNCHANGED backend
      /\ Live(c) /\ d \in Domains
  BY DomIn DEF FailUnanswered, Generating, Generated, Live
<1>1. /\ \A o \in Calls \ {c} : call'[o] = call[o]
      /\ call'[c].pc = "done"
  BY <1>0, AnswerMeans, EndedMeans
<1>2. marks \subseteq marks' /\ marks' \subseteq MarkKinds \X Domains
  BY <1>0, MarkTyped DEF MarkKinds
<1>3. CASE /\ Generating(c) /\ keys[Label(c)] = None
           /\ keys' = [keys EXCEPT ![Label(c)] = c]
           /\ UNCHANGED <<doc, trail>>
  <2> DEFINE r == Role(c)
  <2>1. Generates(c) /\ r \in RolesOf(d, Pair(c)) /\ r \in Roles
    BY <1>3, GotMeans DEF Generating, Generates
  <2>2. /\ keys' \in [Labels -> Calls \cup {Before, None, Torn}]
        /\ <<d, r>> \in Labels /\ keys[<<d, r>>] = None /\ keys'[<<d, r>>] = c
    BY <1>0, <1>3, <2>1 DEF Label, Labels, StoreTyped
  <2> HIDE DEF r
  <2>3. \A e \in Domains, q \in Roles : <<e, q>> # <<d, r>> => keys'[<<e, q>>] = keys[<<e, q>>]
    BY <1>3 DEF Label, Labels, StoreTyped, r
  <2>4. Adds({c})
    <3>1. ASSUME NEW e \in Domains, NEW q \in Roles, keys'[<<e, q>>] # keys[<<e, q>>]
          PROVE  keys'[<<e, q>>] # None /\ keys[<<e, q>>] = None /\ Dom(c) = e
      <4>1. e = d /\ q = r
        BY <2>3, <3>1
      <4> QED
        BY <2>2, <4>1, Sentinels
    <3> QED
      BY <1>0, <1>1, <1>2, <1>3, <3>1 DEF Adds
  <2>5. StoreTyped'
    <3>1. ASSUME NEW t \in Tenants PROVE keys'[<<t, "audit">>] = None
      <4>1. Pair(c) \in BOOLEAN
        BY DEF Pair
      <4>2. d # Root => "audit" \notin RolesOf(d, Pair(c))
        BY <4>1, RolesOfIs
      <4>3. t = d => r # "audit"
        BY <2>1, <4>2, Sentinels
      <4> QED
        BY <2>3, <4>3, Sentinels DEF Roles, StoreTyped
    <3> QED
      BY <1>0, <1>2, <1>3, <2>2, <3>1 DEF StoreTyped
  <2>6. \A e \in Domains : DocumentFits(e)'
    BY <1>3, <2>4, DomainKept DEF Stored
  <2> QED
    BY <1>0, <2>3, <2>4, <2>5, <2>6, UnansweredKeeps
<1>4. CASE /\ \/ Generated(c) /\ doc' = DocPut(c)
              \/ call[c].pc = "update" /\ Updatable(c) /\ doc' = DocUpdated(c)
           /\ UNCHANGED <<keys, trail>>
  <2>1. /\ doc' \in [Domains -> Documents \cup {None}]
        /\ Adds({c}) /\ \A e \in Domains : DocumentFits(e)'
    <3>1. CASE Generated(c) /\ doc' = DocPut(c)
      BY <1>0, <1>1, <1>2, <1>4, <3>1, PutMeans, PutAdds
    <3>2. CASE call[c].pc = "update" /\ Updatable(c) /\ doc' = DocUpdated(c)
      BY <1>0, <1>1, <1>2, <1>4, <3>2, UpdateMeans, UpdateAdds
    <3> QED
      BY <1>4, <3>1, <3>2
  <2>2. StoreTyped'
    BY <1>0, <1>2, <1>4, <2>1 DEF StoreTyped
  <2> QED
    BY <1>0, <1>4, <2>1, <2>2, UnansweredKeeps
<1>5. CASE trail' = Appended(c) /\ UNCHANGED <<doc, keys>>
  <2>1. Adds({c})
    BY <1>0, <1>1, <1>2, <1>5 DEF Adds
  <2>2. StoreTyped'
    BY <1>0, <1>2, <1>5, AppendedTyped DEF StoreTyped
  <2>3. \A e \in Domains : DocumentFits(e)'
    BY <1>5, <2>1, DomainKept DEF Stored
  <2> QED
    BY <1>0, <1>5, <2>1, <2>2, <2>3, UnansweredKeeps
<1> QED
  BY <1>3, <1>4, <1>5 DEF FailUnanswered

\* Calls end with key files cut short.
LEMMA CutKeeps ==
    ASSUME KInv, NEW ending \in SUBSET Calls, \A c \in ending : Live(c),
           NEW torn \in SUBSET {c \in ending : call[c].pc = "write"}, Cut(ending, torn)
    PROVE  KInv'
<1> USE DEF KInv
<1>1. /\ call' = [b \in Calls |-> IF b \in ending THEN Ended(b, "failed") ELSE call[b]]
      /\ keys' = [l \in Labels |-> IF l \in {Label(b) : b \in torn} THEN Torn ELSE keys[l]]
      /\ marks' = marks \cup {<<"fault", Dom(b)>> : b \in torn \cup {e \in ending : Halfway(e)}}
                     \cup {<<"clobbered", Dom(b)>> : b \in {t \in torn : keys[Label(t)] # None}}
      /\ UNCHANGED <<backend, doc, trail>>
  BY DEF Cut
<1>2. /\ CallsTyped' /\ \A o \in Calls \ ending : call'[o] = call[o]
      /\ \A c \in ending : call'[c] = Ended(c, "failed") /\ call'[c].pc = "done"
  BY <1>1, EndedMeans DEF CallsTyped
<1>3. ASSUME NEW c \in torn
      PROVE  /\ c \in Calls /\ Generates(c) /\ Dom(c) \in Domains /\ Role(c) \in Roles
             /\ Role(c) \in RolesOf(Dom(c), Pair(c)) /\ backend = "softkey" /\ Live(c)
             /\ Label(c) \in Labels
             /\ keys[Label(c)] # None => Dom(c) # Root /\ <<"clobbered", Dom(c)>> \in marks'
             /\ <<"fault", Dom(c)>> \in marks'
  <2>1. c \in Calls /\ Generates(c) /\ call[c].pc = "write" /\ Dom(c) \in Domains /\ Live(c)
    BY <1>3, DomIn DEF Generates
  <2>2. /\ Role(c) \in Roles /\ Role(c) \in RolesOf(Dom(c), Pair(c)) /\ backend = "softkey"
    BY <2>1, GotMeans DEF PhaseFits
  <2>3. keys[Label(c)] # None => Dom(c) # Root
    BY <2>1 DEF OwnsKeys
  <2>4. /\ keys[Label(c)] # None => <<"clobbered", Dom(c)>> \in marks'
        /\ <<"fault", Dom(c)>> \in marks'
    BY <1>1
  <2> QED
    BY <2>1, <2>2, <2>3, <2>4 DEF Label, Labels
<1>4. marks \subseteq marks' /\ marks' \subseteq MarkKinds \X Domains
  <2>1. \A b \in Calls : Dom(b) \in Domains
    BY DomIn
  <2> QED
    BY <1>1, <2>1 DEF StoreTyped, MarkKinds
<1>5. ASSUME NEW d \in Domains, NEW r \in Roles, keys'[<<d, r>>] # keys[<<d, r>>]
      PROVE  /\ keys'[<<d, r>>] # None
             /\ keys[<<d, r>>] = None \/ Clobbered(d)'
             /\ \E c \in torn : Live(c) /\ Dom(c) = d
  <2>1. <<d, r>> \in Labels
    BY DEF Labels
  <2>2. PICK c \in torn : <<d, r>> = Label(c)
    BY <1>1, <1>5, <2>1
  <2>3. keys'[<<d, r>>] = Torn /\ Dom(c) = d
    BY <1>1, <2>1, <2>2 DEF Label
  <2> QED
    BY <1>1, <1>3, <2>2, <2>3, Sentinels DEF Clobbered, Marked
<1>6. Adds(ending)
  BY <1>1, <1>2, <1>4, <1>5 DEF Adds
<1>7. StoreTyped'
  <2>1. keys' \in [Labels -> Calls \cup {Before, None, Torn}]
    BY <1>1 DEF StoreTyped
  <2>2. ASSUME NEW t \in Tenants PROVE keys'[<<t, "audit">>] = None
    <3>1. <<t, "audit">> \in Labels
      BY Sentinels DEF Labels, Roles
    <3>2. ASSUME NEW c \in torn PROVE <<t, "audit">> # Label(c)
      <4>1. Pair(c) \in BOOLEAN /\ t # Root
        BY Sentinels DEF Pair
      <4>2. "audit" \notin RolesOf(t, Pair(c))
        BY <4>1, RolesOfIs
      <4> QED
        BY <1>3, <4>2 DEF Label
    <3> QED
      BY <1>1, <3>1, <3>2 DEF StoreTyped
  <2> QED
    BY <1>1, <1>4, <2>1, <2>2 DEF StoreTyped
<1>8. Locked'
  BY <1>2, <1>6, LockKept DEF Live
<1>9. \A c \in ending : PhaseFits(c)' /\ OwnsKeys(c)' /\ ReliesFits(c)' /\ LogFits(c)' /\ ExistsFits(c)'
  BY <1>2, <1>6, EndedFits
<1>10. ASSUME NEW d \in Domains PROVE DocumentFits(d)' /\ WinFits(d)'
  <2>1. DocumentFits(d)'
    BY <1>1, <1>6, DomainKept DEF Stored
  <2>2. ASSUME NEW c \in ending, Generates(c), Dom(c) = d, NEW r \in Got(c) PROVE Reason(d)'
    <3>1. Halfway(c)
      BY <2>2, GotIsHalfway
    <3> QED
      BY <1>1, <2>2, <3>1 DEF Reason, Marked
  <2>3. ASSUME NEW r \in Roles, keys'[<<d, r>>] # keys[<<d, r>>] PROVE Reason(d)'
    BY <1>3, <1>5, <2>3 DEF Reason, Marked
  <2> QED
    BY <1>6, <2>1, <2>2, <2>3, WinsKept
<1> QED
  BY <1>2, <1>6, <1>7, <1>8, <1>9, <1>10, Composed

LEMMA InitKInv == Init => KInv
<1> SUFFICES ASSUME Init PROVE KInv
  OBVIOUS
<1>1. PICK rooted \in BOOLEAN, pair \in BOOLEAN :
          /\ pair => rooted
          /\ doc = [d \in Domains |-> IF rooted /\ d = Root THEN NewDocument(Before, d, pair)
                                      ELSE None]
          /\ keys = [l \in Labels |->
                      IF rooted /\ l[1] = Root /\ l[2] \in RolesOf(Root, pair) THEN Before
                      ELSE None]
          /\ trail = IF rooted THEN <<[op |-> "create", dom |-> Root, name |-> Default,
                                       by |-> Before]>>
                     ELSE <<>>
  BY DEF Init
<1>2. /\ backend \in {"softkey", "storekey"} /\ marks = {}
      /\ \A c \in Calls : call[c] = NoCall
      /\ call \in [Calls -> CallStates]
  BY DEF Init, NoCall, CallStates
<1>3. \A c \in Calls : /\ ~Live(c) /\ ~Generates(c) /\ call[c].answer = "none"
                       /\ call[c].pc = "idle"
  BY <1>2 DEF Live, Generates, NoCall
<1>4. /\ NewDocument(Before, Root, pair) \in Documents
      /\ NewDocument(Before, Root, pair).by = Before /\ NewDocument(Before, Root, pair).pair = pair
  BY NewDocumentMeans, Sentinels
<1>5. \A d \in Domains, r \in Roles :
          keys[<<d, r>>] = IF rooted /\ d = Root /\ r \in RolesOf(Root, pair) THEN Before ELSE None
  BY <1>1 DEF Labels
<1>6. \A d \in Domains : doc[d] = IF rooted /\ d = Root THEN NewDocument(Before, Root, pair) ELSE None
  BY <1>1
<1>7. StoreTyped
  <2>1. doc \in [Domains -> Documents \cup {None}]
    BY <1>1, <1>4
  <2>2. keys \in [Labels -> Calls \cup {Before, None, Torn}]
    BY <1>1
  <2>3. trail \in Seq(Records)
    <3>1. [op |-> "create", dom |-> Root, name |-> Default, by |-> Before] \in Records
      BY NamesAssumption, Sentinels DEF Records
    <3> QED
      BY <1>1, <3>1
  <2>4. \A t \in Tenants : keys[<<t, "audit">>] = None
    BY <1>5, Sentinels DEF Roles
  <2> QED
    BY <1>2, <2>1, <2>2, <2>3, <2>4 DEF StoreTyped
<1>8. CallsTyped /\ Locked
  BY <1>2, <1>3 DEF CallsTyped, Locked
<1>9. \A c \in Calls : /\ PhaseFits(c) /\ OwnsKeys(c) /\ ReliesFits(c) /\ LogFits(c)
                       /\ ExistsFits(c)
  BY <1>3 DEF PhaseFits, OwnsKeys, ReliesFits, LogFits, ExistsFits
<1>10. ASSUME NEW d \in Domains PROVE DocumentFits(d) /\ WinFits(d)
  <2>1. RolesOf(Root, pair) \subseteq Roles
    BY RolesOfIs DEF Roles
  <2>2. Stored(d) => rooted /\ d = Root /\ doc[d].by = Before /\ doc[d].pair = pair
    BY <1>4, <1>6 DEF Stored
  <2>3. DocumentFits(d)
    BY <1>5, <2>1, <2>2 DEF DocumentFits
  <2>4. rooted => Stored(Root)
    BY <1>4, <1>6, Sentinels DEF Stored
  <2>5. WinFits(d)
    BY <1>5, <2>4 DEF WinFits
  <2> QED
    BY <2>3, <2>5
<1> QED
  BY <1>7, <1>8, <1>9, <1>10 DEF KInv

LEMMA NextKInv == KInv /\ [Next]_vars => KInv'
<1> SUFFICES ASSUME KInv, [Next]_vars PROVE KInv'
  OBVIOUS
<1>1. ASSUME NEW c \in Calls, GenerateInStore(c) PROVE KInv'
  BY <1>1, StoreKeyKeeps DEF GenerateInStore, Generating, Generates, StoreKey
<1>2. ASSUME NEW c \in Calls, WriteFile(c) PROVE KInv'
  BY <1>2, StoreKeyKeeps DEF WriteFile, KInv, PhaseFits, Generates, StoreKey
<1>3. ASSUME NEW c \in Calls, FailTorn(c) PROVE KInv'
  <2>1. call[c].pc = "write" /\ Cut({c}, {c}) /\ Live(c)
    BY <1>3 DEF FailTorn, Live
  <2> QED
    BY <2>1, CutKeeps
<1>4. ASSUME NEW c \in Calls, Crash(c) PROVE KInv'
  <2> DEFINE ending == IF backend = "softkey" THEN {b \in Calls : Live(b)} ELSE {c}
  <2>1. /\ Live(c)
        /\ \E torn \in SUBSET {b \in ending : call[b].pc = "write"} : Cut(ending, torn)
    BY <1>4 DEF Crash
  <2>2. ending \in SUBSET Calls /\ \A b \in ending : Live(b)
    BY <2>1
  <2> HIDE DEF ending
  <2> QED
    BY <2>1, <2>2, CutKeeps
<1>5. CASE UNCHANGED vars
  BY <1>5 DEF vars, KInv, StoreTyped, CallsTyped, PhaseFits, Locked, OwnsKeys,
     DocumentFits, ReliesFits, LogFits, WinFits, ExistsFits, Live, Generates, Dom,
     Pair, Got, Label, Role, Stored, Marked, Clobbered
<1> QED
  BY <1>1, <1>2, <1>3, <1>4, <1>5, ArriveKeeps, CheckKeeps, RefusePairKeeps,
     RefuseKeyKeeps, FindNoFileKeeps, PutKeeps, UpdateKeeps, RefuseUpdateKeeps,
     RecordKeeps, FailKeeps, FailUnansweredKeeps DEF Next, Step


-----------------------------------------------------------------------------
(* What follows of documents, keys and calls.                              *)

LEMMA KInductive == Spec => []KInv
  BY InitKInv, NextKInv, PTL DEF Spec

\* The key under each label of a stored domain is the one its certificate was
\* made for, after any interleaving of creations, errors and crashes (InitRoot,
\* CreateTenant, Softkey.Generate, Storekey.Generate); of a tenant over key files,
\* unless two creations wrote each other's.
THEOREM KeysAreTheCertified == Spec => []KeysMatchCertificates
<1>1. KInv => KeysMatchCertificates
  BY DEF KInv, DocumentFits, KeysMatchCertificates, Clobbered
<1> QED
  BY <1>1, KInductive, PTL

\* Creations that take each other's labels do not all fail: the answer "key already
\* exists" means that the domain is stored, is still being created, or that a
\* creation failed half way (InitRoot and CreateTenant generate before they store).
THEOREM RacingCreationsDoNotAllFail == Spec => []OneCreationWins
<1>1. ASSUME KInv, NEW c \in Calls, call[c].answer = "exists"
      PROVE  \/ Creatable(Dom(c)) \/ Marked("fault", Dom(c)) \/ Marked("burnt", Dom(c))
  <2>1. Dom(c) \in Domains /\ keys[<<Dom(c), "primary">>] # None
    BY <1>1, DomIn DEF KInv, ExistsFits
  <2>2. \/ Stored(Dom(c)) \/ Marked("fault", Dom(c)) \/ Marked("burnt", Dom(c))
        \/ \E b \in Calls : Generates(b) /\ Dom(b) = Dom(c)
    BY <1>1, <2>1 DEF KInv, WinFits, Roles
  <2>3. ASSUME NEW b \in Calls, Generates(b), Dom(b) = Dom(c) PROVE Creating(b, Dom(c))
    BY <1>1, <2>3 DEF KInv, PhaseFits, Generates, Creating, Live, Dom
  <2> QED
    BY <2>2, <2>3 DEF Creatable
<1>2. KInv => OneCreationWins
  BY <1>1 DEF OneCreationWins
<1> QED
  BY <1>2, KInductive, PTL

LEMMA CertificatesStay ==
    ASSUME KInv, [Next]_vars, NEW d \in Domains, Stored(d), ~Clobbered(d)
    PROVE  doc'[d].by = doc[d].by /\ doc'[d].pair = doc[d].pair
<1>1. ASSUME NEW c \in Calls, Generated(c), doc' = DocPut(c)
      PROVE  doc'[d] = doc[d]
  <2>1. Dom(c) # d /\ Dom(c) \in Domains
    BY <1>1, PutIsFirst
  <2> QED
    BY <1>1, <2>1 DEF DocPut, KInv
<1>2. ASSUME NEW c \in Calls, call[c].pc = "update", Updatable(c), doc' = DocUpdated(c)
      PROVE  doc'[d].by = doc[d].by /\ doc'[d].pair = doc[d].pair
  BY <1>2, UpdateMeans
<1>3. ASSUME NEW c \in Calls,
             \/ \E req \in Requests, cli, log \in BOOLEAN : Arrive(c, req, cli, log)
             \/ Step(c) \/ Fail(c) \/ FailUnanswered(c) \/ FailTorn(c) \/ Crash(c)
      PROVE  \/ UNCHANGED doc
             \/ Generated(c) /\ doc' = DocPut(c)
             \/ call[c].pc = "update" /\ Updatable(c) /\ doc' = DocUpdated(c)
  BY <1>3 DEF Arrive, Step, Check, RefusePair, RefuseKey, GenerateInStore, FindNoFile,
     WriteFile, StoreKey, Put, Update, RefuseUpdate, Record, Fail, FailUnanswered,
     FailTorn, Crash, Cut
<1>4. CASE UNCHANGED vars
  BY <1>4 DEF vars
<1> QED
  BY <1>1, <1>2, <1>3, <1>4 DEF Next

\* A stored root or tenant keeps its certificates: a creation that looked before
\* another's PutJSON never stores its own document over it (InitRoot, CreateTenant:
\* the key labels are taken first), nor does a profile change.
THEOREM StoredCertificatesAreKept == Spec => CertificatesKept
<1>1. KInv /\ [Next]_vars =>
        [\A d \in Domains :
            Stored(d) /\ ~(backend = "softkey" /\ d # Root /\ Marked("clobbered", d)) =>
                /\ doc[d]'.by = doc[d].by
                /\ doc[d]'.pair = doc[d].pair]_vars
  BY CertificatesStay DEF Clobbered
<1> QED
  BY <1>1, KInductive, PTL DEF Spec, CertificatesKept

-----------------------------------------------------------------------------
(* What follows of the trail.                                              *)

Entry(c) == [op |-> call[c].req.op, dom |-> Dom(c), name |-> call[c].req.name, by |-> c]

LEMMA AppendMeans ==
    ASSUME KInv, NEW c \in Calls, Live(c), trail' = Appended(c)
    PROVE  \E e \in Nat :
            /\ e \notin DOMAIN trail /\ DOMAIN trail' = DOMAIN trail \cup {e}
            /\ \A i \in DOMAIN trail : i \in Nat /\ trail'[i] = trail[i] /\ i <= e
            /\ trail'[e] = Entry(c)
            /\ trail' # <<>>
            /\ trail'[1] = IF trail = <<>> THEN Entry(c) ELSE trail[1]
<1>1. trail \in Seq(Records) /\ Entry(c) \in Records /\ trail' = Append(trail, Entry(c))
  BY AppendedTyped DEF KInv, StoreTyped, Appended, Entry
<1> HIDE DEF Entry
<1>2. /\ Len(trail) \in Nat /\ Len(trail') = Len(trail) + 1
      /\ DOMAIN trail = 1..Len(trail) /\ DOMAIN trail' = 1..Len(trail')
      /\ \A i \in 1..Len(trail) : trail'[i] = trail[i]
      /\ trail'[Len(trail) + 1] = Entry(c)
  BY <1>1
<1>3. trail = <<>> <=> Len(trail) = 0
  OBVIOUS
<1>4. trail' # <<>>
  BY <1>1
<1> DEFINE e == Len(trail) + 1
<1>5. e \in Nat /\ e \notin DOMAIN trail /\ DOMAIN trail' = DOMAIN trail \cup {e}
  BY <1>2
<1>6. \A i \in DOMAIN trail : i \in Nat /\ trail'[i] = trail[i] /\ i <= e
  BY <1>2
<1>7. trail'[1] = IF trail = <<>> THEN Entry(c) ELSE trail[1]
  BY <1>2
<1> QED
  BY <1>2, <1>4, <1>5, <1>6

LEMMA Greatest ==
    ASSUME NEW S \in SUBSET Int, NEW m \in S, \A i \in S : m >= i
    PROVE  (CHOOSE x \in S : \A y \in S : x >= y) = m
<1> DEFINE g == CHOOSE x \in S : \A y \in S : x >= y
<1>1. \E x \in S : \A y \in S : x >= y
  OBVIOUS
<1>2. g \in S /\ \A y \in S : g >= y
  OBVIOUS
<1> HIDE DEF g
<1>3. g \in Int /\ m \in Int /\ g >= m /\ m >= g
  BY <1>2
<1>4. g = m
  BY <1>3
<1> QED
  BY <1>4 DEF g

\* What Told makes of the last record about a profile.
Says(r, n) == IF (r.op = "create" /\ n # Default) \/ r.op = "delete" THEN None ELSE r.by

LEMMA ToldMeans ==
    ASSUME NEW t, NEW n
    PROVE  /\ About(t, n) = {} => Told(t, n) = None
           /\ About(t, n)' = {} => Told(t, n)' = None
           /\ \A m \in About(t, n) :
                About(t, n) \subseteq Int /\ (\A i \in About(t, n) : m >= i) =>
                    Told(t, n) = Says(trail[m], n)
           /\ \A m \in About(t, n)' :
                About(t, n)' \subseteq Int /\ (\A i \in About(t, n)' : m >= i) =>
                    Told(t, n)' = Says(trail'[m], n)
<1>1. /\ About(t, n) = {} => Told(t, n) = None
      /\ About(t, n)' = {} => Told(t, n)' = None
  BY DEF Told, About
<1>2. ASSUME NEW m \in About(t, n), About(t, n) \subseteq Int, \A i \in About(t, n) : m >= i
      PROVE  Told(t, n) = Says(trail[m], n)
  <2>1. (CHOOSE x \in About(t, n) : \A y \in About(t, n) : x >= y) = m
    BY <1>2
  <2> QED
    BY <2>1, <1>2 DEF Told, About, Max, Says
<1>3. ASSUME NEW m \in About(t, n)', About(t, n)' \subseteq Int, \A i \in About(t, n)' : m >= i
      PROVE  Told(t, n)' = Says(trail'[m], n)
  <2> DEFINE S == About(t, n)'
  <2>1. (CHOOSE x \in S : \A y \in S : x >= y) = m
    <3> HIDE DEF S
    <3>1. S \in SUBSET Int /\ m \in S /\ \A i \in S : m >= i
      BY <1>3 DEF S
    <3> QED
      BY <3>1, Greatest
  <2> QED
    BY <2>1, <1>3 DEF Told, About, Max, Says
<1> QED
  BY <1>1, <1>2, <1>3

LEMMA ToldAppends ==
    ASSUME KInv, NEW c \in Calls, Live(c), trail' = Appended(c), NEW t, NEW n, LastFits(t, n)
    PROVE  /\ LastFits(t, n)'
           /\ Told(t, n)' = IF Dom(c) # t THEN Told(t, n)
                            ELSE IF call[c].req.op = "create"
                            THEN IF n = Default THEN c ELSE None
                            ELSE IF n # call[c].req.name THEN Told(t, n)
                            ELSE IF call[c].req.op = "delete" THEN None ELSE c
<1> DEFINE x == Entry(c)
           hit == x.dom = t /\ (x.op = "create" \/ x.name = n)
<1>1. PICK e \in Nat :
            /\ e \notin DOMAIN trail /\ DOMAIN trail' = DOMAIN trail \cup {e}
            /\ \A i \in DOMAIN trail : i \in Nat /\ trail'[i] = trail[i] /\ i <= e
            /\ trail'[e] = x
  BY AppendMeans
<1>2. About(t, n)' = {i \in DOMAIN trail' : /\ trail'[i].dom = t
                                            /\ trail'[i].op = "create" \/ trail'[i].name = n}
  BY DEF About
<1>3. About(t, n) \subseteq DOMAIN trail
  BY DEF About
<1>4. About(t, n)' = About(t, n) \cup (IF hit THEN {e} ELSE {})
  <2> HIDE DEF x
  <2> QED
    BY <1>1, <1>2 DEF About
<1>5. x.dom = Dom(c) /\ x.op = call[c].req.op /\ x.name = call[c].req.name /\ x.by = c
  BY DEF Entry
<1> HIDE DEF x
<1>6. CASE hit
  <2>1. e \in About(t, n)' /\ e \in Int /\ \A i \in About(t, n)' : i \in Int /\ e >= i
    BY <1>1, <1>3, <1>4, <1>6
  <2>2. Told(t, n)' = Says(x, n)
    BY <1>1, <2>1, ToldMeans
  <2> QED
    BY <1>5, <1>6, <2>1, <2>2 DEF LastFits, Says
<1>7. CASE ~hit
  <2>1. About(t, n)' = About(t, n)
    BY <1>4, <1>7
  <2>2. Told(t, n)' = Told(t, n) /\ LastFits(t, n)'
    <3>1. CASE About(t, n) = {}
      BY <2>1, <3>1, ToldMeans DEF LastFits
    <3>2. CASE About(t, n) # {}
      <4>1. PICK m \in About(t, n) : \A i \in About(t, n) : m >= i
        BY <3>2 DEF LastFits
      <4>2. m \in Int /\ (\A i \in About(t, n) : i \in Int) /\ trail'[m] = trail[m]
        BY <1>1, <1>3
      <4>3. LastFits(t, n)'
        BY <2>1, <4>1 DEF LastFits
      <4> QED
        BY <2>1, <4>1, <4>2, <4>3, ToldMeans
    <3> QED
      BY <3>1, <3>2
  <2> QED
    BY <1>5, <1>7, <2>2
<1> QED
  BY <1>6, <1>7

\* A profile nothing happened to is still told.
LEMMA ToldStays ==
    ASSUME NEW t \in Tenants, ToldFits(t), marks \subseteq marks', doc'[t] = doc[t],
           \A n \in Names : Told(t, n)' = Told(t, n),
           \A o \in Calls :
                (call[o].pc = "record" /\ Dom(o) = t) \/ (call[o].pc = "record" /\ Dom(o) = t)' =>
                    call'[o] = call[o]
    PROVE  ToldFits(t)'
<1>1. CASE Spoilt(t)
  BY <1>1 DEF ToldFits, Spoilt, Marked
<1>2. CASE ~Spoilt(t)
  <2>1. \A o \in Calls :
            (call[o].pc = "record" /\ Dom(o) = t) <=> (call[o].pc = "record" /\ Dom(o) = t)'
    BY DEF Dom
  <2>2. \A n \in Names : Profile(t, n)' = Profile(t, n)
    BY DEF Profile, Stored
  <2>3. Unrecorded(t)' <=> Unrecorded(t)
    BY <2>1 DEF Unrecorded
  <2>4. \A b, c \in Calls :
            (call[b].pc = "record" /\ Dom(b) = t /\ call[c].pc = "record" /\ Dom(c) = t)' => b = c
    BY <1>2, <2>1 DEF ToldFits
  <2>5. ~Unrecorded(t)' => \A n \in Names : Told(t, n)' = Profile(t, n)'
    BY <1>2, <2>2, <2>3 DEF ToldFits
  <2>6. ASSUME NEW c \in Calls, (call[c].pc = "record" /\ Dom(c) = t)', NEW n \in Names
        PROVE  Profile(t, n)' = IF call'[c].req.op = "create"
                                THEN IF n = Default THEN c ELSE None
                                ELSE IF n # call'[c].req.name THEN Told(t, n)'
                                ELSE IF call'[c].req.op = "set" THEN c ELSE None
    BY <1>2, <2>1, <2>2, <2>6 DEF ToldFits
  <2> QED
    BY <2>4, <2>5, <2>6 DEF ToldFits
<1> QED
  BY <1>1, <1>2

\* A step that stores and records nothing, and answers no call with success.
Quiet ==
    /\ UNCHANGED <<backend, doc, trail>> /\ marks \subseteq marks'
    /\ \A o \in Calls :
        /\ call'[o].pc = "record" => call'[o] = call[o]
        /\ call[o].pc = "record" => call'[o].pc = "record" \/ <<"fault", Dom(o)>> \in marks'
        /\ call'[o].answer = "ok" => call'[o] = call[o]
        /\ Live(o)' =>
            \/ Live(o) /\ call'[o].req = call[o].req /\ call'[o].log = call[o].log
            \/ call'[o].log =>
                    Stored(Root) /\ (Unrecorded(Root) => <<"overtaken", Root>> \in marks')

LEMMA QuietKeeps == ASSUME TInv, Quiet PROVE TInv'
<1> USE DEF TInv
<1>1. FirstFits'
  <2>1. InitRecordFirst'
    BY DEF Quiet, FirstFits, InitRecordFirst, Marked
  <2>2. Unrecorded(Root) => Unrecorded(Root)' \/ Marked("fault", Root)'
    BY DEF Quiet, Unrecorded, Marked, Dom
  <2>3. Stored(Root)' => trail' # <<>> \/ Marked("fault", Root)' \/ Unrecorded(Root)'
    BY <2>2 DEF Quiet, FirstFits, Stored, Marked
  <2>4. ASSUME NEW c \in Calls, Live(c)', call'[c].log, Dom(c)' # Root
        PROVE  trail' # <<>> \/ Marked("fault", Root)' \/ Marked("overtaken", Root)'
    BY <2>4 DEF Quiet, FirstFits, Marked, Dom
  <2> QED
    BY <2>1, <2>3, <2>4 DEF FirstFits
<1>2. ASSUME NEW c \in Calls PROVE RecordedFits(c)'
  BY DEF Quiet, RecordedFits, Recorded
<1>3. ASSUME NEW t \in Tenants, NEW n \in Names PROVE LastFits(t, n)' /\ Told(t, n)' = Told(t, n)
  BY DEF Quiet, LastFits, About, Told
<1>4. ASSUME NEW t \in Tenants PROVE ToldFits(t)'
  <2>1. CASE \E o \in Calls : call[o].pc = "record" /\ Dom(o) = t /\ call'[o] # call[o]
    <3>1. <<"fault", t>> \in marks'
      BY <2>1 DEF Quiet
    <3>2. Spoilt(t)'
      BY <3>1 DEF Spoilt, MarkKinds, Marked
    <3> QED
      BY <3>2 DEF ToldFits
  <2>2. CASE \A o \in Calls : call[o].pc = "record" /\ Dom(o) = t => call'[o] = call[o]
    BY <1>3, <2>2, ToldStays DEF Quiet
  <2> QED
    BY <2>1, <2>2
<1> QED
  BY <1>1, <1>2, <1>3, <1>4

LEMMA ArriveIsQuiet ==
    ASSUME KInv, NEW c \in Calls, NEW req \in Requests, NEW cli \in BOOLEAN, NEW log \in BOOLEAN,
           Arrive(c, req, cli, log)
    PROVE  Quiet
<1> DEFINE new == [pc |-> IF req.op = "create" THEN "check" ELSE "update",
                   req |-> req, cli |-> cli, log |-> log, todo |-> <<>>, answer |-> "none"]
<1>1. /\ call[c].pc = "idle" /\ (log => Stored(Root))
      /\ call' = [call EXCEPT ![c] = new]
      /\ IF log /\ Unrecorded(Root) THEN Mark("overtaken", Root) ELSE UNCHANGED marks
      /\ UNCHANGED <<backend, doc, keys, trail>>
  BY DEF Arrive
<1>2. \A o \in Calls \ {c} : call'[o] = call[o]
  BY <1>1 DEF KInv
<1>3. /\ call'[c].pc \in {"check", "update"} /\ call'[c].log = log /\ call'[c].answer = "none"
  BY <1>1 DEF KInv, CallsTyped
<1>4. marks \subseteq marks' /\ (log /\ Unrecorded(Root) => <<"overtaken", Root>> \in marks')
  BY <1>1 DEF Mark
<1> QED
  BY <1>1, <1>2, <1>3, <1>4 DEF Quiet, Live

\* A call goes on to anything but its record, or ends without success.
LEMMA MoveIsQuiet ==
    ASSUME KInv, NEW c \in Calls, Live(c), UNCHANGED <<backend, doc, trail>>,
           marks \subseteq marks', \A o \in Calls \ {c} : call'[o] = call[o],
           call'[c].pc # "record", call'[c].answer # "ok",
           call[c].pc = "record" => <<"fault", Dom(c)>> \in marks',
           Live(c)' => call'[c].req = call[c].req /\ call'[c].log = call[c].log
    PROVE  Quiet
<1>1. \A o \in Calls \ {c} : Live(o)' = Live(o)
  BY DEF Live
<1> QED
  BY <1>1 DEF Quiet

LEMMA AnswerIsQuiet ==
    ASSUME KInv, NEW c \in Calls, Live(c), UNCHANGED <<backend, doc, trail>>,
           marks \subseteq marks', NEW a \in {"refused", "exists", "failed"}, Answer(c, a),
           call[c].pc = "record" => <<"fault", Dom(c)>> \in marks'
    PROVE  Quiet
<1>1. call'[c].pc = "done" /\ call'[c].answer = a /\ \A o \in Calls \ {c} : call'[o] = call[o]
  BY AnswerMeans, EndedMeans DEF KInv
<1> QED
  BY <1>1, MoveIsQuiet DEF Live

LEMMA CheckIsQuiet == ASSUME KInv, NEW c \in Calls, Check(c) PROVE Quiet
<1>1. /\ call[c].pc = "check" /\ Live(c) /\ ~Generates(c)
      /\ UNCHANGED <<backend, doc, trail, marks>>
  BY DEF Check, Live, Generates
<1>2. CASE Missing(Dom(c))
  <2> DEFINE rest == KeysOf(Dom(c), Pair(c))
  <2>1. Pair(c) \in BOOLEAN /\ rest \in Seq(Roles)
    <3>1. Pair(c) \in BOOLEAN
      BY DEF Pair
    <3>2. KeysOf(Dom(c), Pair(c)) \in Rests(Dom(c), Pair(c))
      BY <3>1, KeysOfIs DEF Rests
    <3> QED
      BY <3>1, <3>2, RestsShrink
  <2>2. call' = [call EXCEPT ![c].pc = "generate", ![c].todo = rest]
    BY <1>2 DEF Check
  <2> HIDE DEF rest
  <2>3. /\ \A o \in Calls \ {c} : call'[o] = call[o]
        /\ call'[c].pc = "generate" /\ call'[c].req = call[c].req
        /\ call'[c].log = call[c].log /\ call'[c].answer = call[c].answer
    BY <2>1, <2>2, ProceedMeans DEF KInv
  <2>4. call[c].answer = "none"
    BY <1>1 DEF KInv, PhaseFits
  <2> QED
    BY <1>1, <2>3, <2>4, MoveIsQuiet
<1>3. CASE ~Missing(Dom(c))
  BY <1>1, <1>3, AnswerIsQuiet DEF Check
<1> QED
  BY <1>2, <1>3

LEMMA StoreKeyIsQuiet ==
    ASSUME KInv, NEW c \in Calls, Generates(c), call[c].todo # <<>>, StoreKey(c)
    PROVE  Quiet
<1> DEFINE rest == Tail(call[c].todo)
<1>1. Live(c) /\ call[c].pc # "record" /\ call[c].answer = "none" /\ rest \in Seq(Roles)
  BY GotMeans DEF Generates, Live, KInv, PhaseFits
<1>2. /\ call' = [call EXCEPT ![c].pc = "generate", ![c].todo = rest]
      /\ UNCHANGED <<backend, doc, trail>> /\ marks \subseteq marks'
  BY DEF StoreKey, Mark
<1> HIDE DEF rest
<1>3. /\ \A o \in Calls \ {c} : call'[o] = call[o]
      /\ call'[c].pc = "generate" /\ call'[c].req = call[c].req
      /\ call'[c].log = call[c].log /\ call'[c].answer = call[c].answer
  BY <1>1, <1>2, ProceedMeans DEF KInv
<1> QED
  BY <1>1, <1>2, <1>3, MoveIsQuiet

LEMMA FindNoFileIsQuiet == ASSUME KInv, NEW c \in Calls, FindNoFile(c) PROVE Quiet
<1>1. /\ call[c].pc = "generate" /\ Live(c) /\ call[c].answer = "none"
      /\ Goto(c, "write") /\ UNCHANGED <<backend, doc, trail, marks>>
  BY DEF FindNoFile, Generating, Live, KInv, PhaseFits
<1>2. /\ \A o \in Calls \ {c} : call'[o] = call[o]
      /\ call'[c].pc = "write" /\ call'[c].req = call[c].req
      /\ call'[c].log = call[c].log /\ call'[c].answer = call[c].answer
  BY <1>1, GotoMeans DEF KInv
<1> QED
  BY <1>1, <1>2, MoveIsQuiet

LEMMA CutIsQuiet ==
    ASSUME KInv, NEW ending \in SUBSET Calls, \A c \in ending : Live(c), NEW torn, Cut(ending, torn)
    PROVE  Quiet
<1>1. /\ call' = [b \in Calls |-> IF b \in ending THEN Ended(b, "failed") ELSE call[b]]
      /\ \A b \in ending : Halfway(b) => <<"fault", Dom(b)>> \in marks'
      /\ marks \subseteq marks'
      /\ UNCHANGED <<backend, doc, trail>>
  BY DEF Cut
<1>2. /\ \A o \in Calls \ ending : call'[o] = call[o]
      /\ \A c \in ending : call'[c].pc = "done" /\ call'[c].answer = "failed"
  BY <1>1, EndedMeans DEF KInv
<1> QED
  BY <1>1, <1>2 DEF Quiet, Live, Halfway

LEMMA FailIsQuiet == ASSUME KInv, NEW c \in Calls, Fail(c) PROVE Quiet
<1>1. /\ marks \subseteq marks' /\ (Halfway(c) => <<"fault", Dom(c)>> \in marks')
  BY DEF Fail, Mark
<1> QED
  BY <1>1, AnswerIsQuiet DEF Fail, Halfway

\* The parts of TInv a step of c leaves true that is not quiet.
LEMMA RecordedStays ==
    ASSUME KInv, NEW c \in Calls, Live(c), trail' = trail \/ trail' = Appended(c),
           backend' = backend, NEW o \in Calls, RecordedFits(o), call'[o] = call[o]
    PROVE  RecordedFits(o)'
<1>1. CASE trail' = trail
  BY <1>1 DEF RecordedFits, Recorded
<1>2. CASE trail' = Appended(c)
  <2>1. \A i \in DOMAIN trail : i \in DOMAIN trail' /\ trail'[i] = trail[i]
    BY <1>2, AppendMeans
  <2> QED
    BY <2>1 DEF RecordedFits, Recorded
<1> QED
  BY <1>1, <1>2

LEMMA OthersToldStay ==
    ASSUME KInv, TInv, NEW c \in Calls, Live(c), trail' = trail \/ trail' = Appended(c),
           marks \subseteq marks', \A o \in Calls \ {c} : call'[o] = call[o],
           call'[c].pc = "record" => Dom(c)' = Dom(c),
           \A d \in Domains \ {Dom(c)} : doc'[d] = doc[d]
    PROVE  /\ \A t \in Tenants, n \in Names : LastFits(t, n)'
           /\ \A t \in Tenants \ {Dom(c)} : ToldFits(t)'
           /\ \A t \in Tenants, n \in Names :
                Dom(c) # t \/ trail' = trail => Told(t, n)' = Told(t, n)
<1>1. ASSUME NEW t \in Tenants, NEW n \in Names
      PROVE  LastFits(t, n)' /\ (Dom(c) # t \/ trail' = trail => Told(t, n)' = Told(t, n))
  <2>1. CASE trail' = trail
    BY <2>1 DEF TInv, LastFits, About, Told
  <2>2. CASE trail' = Appended(c)
    <3>1. LastFits(t, n)
      BY DEF TInv
    <3> QED
      BY <2>2, <3>1, ToldAppends, <2>1
  <2> QED
    BY <2>1, <2>2
<1>2. ASSUME NEW t \in Tenants \ {Dom(c)} PROVE ToldFits(t)'
  <2>1. ToldFits(t) /\ doc'[t] = doc[t]
    BY Sentinels DEF TInv
  <2>2. ASSUME NEW o \in Calls,
               (call[o].pc = "record" /\ Dom(o) = t) \/ (call[o].pc = "record" /\ Dom(o) = t)'
        PROVE  call'[o] = call[o]
    <3>1. CASE o = c
      BY <2>2
    <3> QED
      BY <3>1
  <2> QED
    BY <1>1, <2>1, <2>2, ToldStays
<1> QED
  BY <1>1, <1>2

\* A record that is written is the root's, or one of a process that has the log.
LEMMA AppendedFirst ==
    ASSUME KInv, TInv, NEW c \in Calls, Live(c), trail' = Appended(c), Logs(c),
           marks \subseteq marks'
    PROVE  FirstFits'
<1>1. /\ trail' # <<>> /\ trail'[1] = IF trail = <<>> THEN Entry(c) ELSE trail[1]
  BY AppendMeans
<1>2. CASE trail # <<>>
  BY <1>1, <1>2 DEF TInv, FirstFits, InitRecordFirst, Marked
<1>3. CASE trail = <<>> /\ Dom(c) = Root
  <2>1. call[c].req.op = "create"
    BY <1>3, RequestFields DEF KInv, PhaseFits, Dom
  <2> QED
    BY <1>1, <1>3, <2>1 DEF FirstFits, InitRecordFirst, Entry
<1>4. CASE trail = <<>> /\ Dom(c) # Root
  <2>1. Marked("fault", Root) \/ Marked("overtaken", Root)
    BY <1>4 DEF Logs, TInv, FirstFits
  <2> QED
    BY <1>1, <2>1 DEF FirstFits, InitRecordFirst, Marked
<1> QED
  BY <1>2, <1>3, <1>4

LEMMA StoredFirst ==
    ASSUME TInv, NEW c \in Calls, Live(c), call[c].pc # "record", UNCHANGED trail,
           marks \subseteq marks', \A o \in Calls \ {c} : call'[o] = call[o],
           Dom(c) # Root => doc'[Root] = doc[Root],
           \/ call'[c].pc = "record" /\ call'[c].req = call[c].req /\ call'[c].log = call[c].log
           \/ call'[c].pc = "done" /\ <<"fault", Dom(c)>> \in marks'
    PROVE  FirstFits'
<1>1. InitRecordFirst'
  BY DEF TInv, FirstFits, InitRecordFirst, Marked
<1>2. Stored(Root)' => trail' # <<>> \/ Marked("fault", Root)' \/ Unrecorded(Root)'
  <2>1. CASE Dom(c) = Root
    BY <2>1 DEF Unrecorded, Marked, Dom
  <2>2. CASE Dom(c) # Root
    <3>1. Unrecorded(Root) => Unrecorded(Root)'
      BY DEF Unrecorded, Dom
    <3> QED
      BY <2>2, <3>1 DEF TInv, FirstFits, Stored, Marked
  <2> QED
    BY <2>1, <2>2
<1>3. ASSUME NEW o \in Calls, Live(o)', call'[o].log, Dom(o)' # Root
      PROVE  trail' # <<>> \/ Marked("fault", Root)' \/ Marked("overtaken", Root)'
  <2>1. Live(o) /\ call[o].log /\ Dom(o) # Root
    BY <1>3 DEF Live, Dom
  <2> QED
    BY <2>1 DEF TInv, FirstFits, Marked
<1> QED
  BY <1>1, <1>2, <1>3 DEF FirstFits

\* A step that spoils its domain.
LEMMA SpoiltKeeps ==
    ASSUME KInv, TInv, NEW c \in Calls, Live(c), trail' = trail \/ trail' = Appended(c),
           Answer(c, "failed"), Mark("fault", Dom(c)), backend' = backend,
           \A d \in Domains \ {Dom(c)} : doc'[d] = doc[d], FirstFits'
    PROVE  TInv'
<1>1. /\ \A o \in Calls \ {c} : call'[o] = call[o]
      /\ call'[c].pc = "done" /\ call'[c].answer = "failed"
  BY AnswerMeans, EndedMeans DEF KInv
<1>2. marks \subseteq marks' /\ <<"fault", Dom(c)>> \in marks'
  BY DEF Mark
<1>3. \A o \in Calls : RecordedFits(o)'
  <2>1. RecordedFits(c)'
    BY <1>1 DEF RecordedFits
  <2> QED
    BY <1>1, <2>1, RecordedStays DEF TInv
<1>4. ASSUME NEW t \in Tenants PROVE ToldFits(t)'
  <2>1. CASE t = Dom(c)
    BY <1>2, <2>1 DEF ToldFits, Spoilt, MarkKinds, Marked
  <2>2. CASE t # Dom(c)
    BY <1>1, <1>2, <2>2, OthersToldStay
  <2> QED
    BY <2>1, <2>2
<1>5. \A t \in Tenants, n \in Names : LastFits(t, n)'
  BY <1>1, <1>2, OthersToldStay
<1> QED
  BY <1>3, <1>4, <1>5 DEF TInv

LEMMA PutTells == ASSUME KInv, TInv, NEW c \in Calls, Put(c) PROVE TInv'
<1>1. /\ Generated(c) /\ doc' = DocPut(c) /\ Goto(c, "record")
      /\ UNCHANGED <<backend, keys, trail, marks>> /\ Live(c) /\ call[c].pc # "record"
  BY DEF Put, Generated, Live
<1>2. /\ \A o \in Calls \ {c} : call'[o] = call[o]
      /\ call'[c].pc = "record" /\ call'[c].req = call[c].req
      /\ call'[c].log = call[c].log /\ call'[c].answer = call[c].answer
      /\ Dom(c)' = Dom(c)
  BY <1>1, GotoMeans DEF KInv, Dom
<1>3. /\ Dom(c) \in Domains /\ Pair(c) \in BOOLEAN
      /\ ~Stored(Dom(c)) \/ Clobbered(Dom(c))
      /\ call[c].req.op = "create" /\ call[c].answer = "none"
  BY <1>1, PutIsFirst DEF KInv, PhaseFits, Generated
<1>4. /\ doc'[Dom(c)] = NewDocument(c, Dom(c), Pair(c)) /\ doc'[Dom(c)] # None
      /\ \A d \in Domains \ {Dom(c)} : doc'[d] = doc[d]
  BY <1>1, PutMeans
<1>5. /\ \A t \in Tenants, n \in Names : LastFits(t, n)'
      /\ \A t \in Tenants \ {Dom(c)} : ToldFits(t)'
  BY <1>1, <1>2, <1>4, OthersToldStay
<1>6. ASSUME NEW t \in Tenants, t = Dom(c) PROVE ToldFits(t)'
  <2>1. CASE Spoilt(t)
    BY <1>1, <2>1 DEF ToldFits, Spoilt, Marked
  <2>2. CASE ~Spoilt(t)
    <3>1. ~Stored(t)
      BY <1>3, <1>6, <2>2 DEF Clobbered, Spoilt, MarkKinds
    <3>2. \A b \in Calls : ~(call[b].pc = "record" /\ Dom(b) = t)
      BY <3>1 DEF KInv, ReliesFits
    <3>3. \A b \in Calls : (call[b].pc = "record" /\ Dom(b) = t)' <=> b = c
      BY <1>2, <1>6, <3>2 DEF Dom
    <3>4. \A n \in Names : Profile(t, n)' = IF n = Default THEN c ELSE None
      BY <1>3, <1>4, <1>6, NewDocumentMeans, Sentinels DEF Profile, Stored
    <3>5. Unrecorded(t)'
      BY <3>3 DEF Unrecorded
    <3> QED
      BY <1>2, <1>3, <3>3, <3>4, <3>5 DEF ToldFits
  <2> QED
    BY <2>1, <2>2
<1>7. \A o \in Calls : RecordedFits(o)'
  <2>1. RecordedFits(c)'
    BY <1>2, <1>3 DEF RecordedFits
  <2> QED
    BY <1>1, <1>2, <2>1, RecordedStays DEF TInv
<1>8. FirstFits'
  <2>1. Dom(c) # Root => doc'[Root] = doc[Root]
    BY <1>4, Sentinels
  <2> QED
    BY <1>1, <1>2, <2>1, StoredFirst
<1> QED
  BY <1>5, <1>6, <1>7, <1>8 DEF TInv

LEMMA UpdateTells == ASSUME KInv, TInv, NEW c \in Calls, Update(c) PROVE TInv'
<1>1. /\ call[c].pc = "update" /\ Updatable(c) /\ doc' = DocUpdated(c) /\ Goto(c, "record")
      /\ UNCHANGED <<backend, keys, trail>> /\ Live(c)
      /\ IF Unrecorded(Dom(c)) THEN Mark("overtaken", Dom(c)) ELSE UNCHANGED marks
  BY DEF Update, Live
<1>2. /\ \A o \in Calls \ {c} : call'[o] = call[o]
      /\ call'[c].pc = "record" /\ call'[c].req = call[c].req
      /\ call'[c].log = call[c].log /\ call'[c].answer = call[c].answer
      /\ Dom(c)' = Dom(c)
  BY <1>1, GotoMeans DEF KInv, Dom
<1>3. /\ Dom(c) \in Domains \ {Root}
      /\ call[c].req.op \in {"set", "delete"} /\ call[c].answer = "none"
  BY <1>1, UpdateMeans, RequestFields DEF KInv, PhaseFits
<1>4. /\ doc'[Dom(c)] # None /\ doc[Dom(c)] # None
      /\ \A n \in Names : doc'[Dom(c)].profiles[n] =
                                IF n # call[c].req.name THEN doc[Dom(c)].profiles[n]
                                ELSE IF call[c].req.op = "set" THEN c ELSE None
      /\ \A d \in Domains \ {Dom(c)} : doc'[d] = doc[d]
  BY <1>1, UpdateMeans
<1>5. marks \subseteq marks' /\ (Unrecorded(Dom(c)) => <<"overtaken", Dom(c)>> \in marks')
  BY <1>1 DEF Mark
<1>6. /\ \A t \in Tenants, n \in Names : LastFits(t, n)' /\ Told(t, n)' = Told(t, n)
      /\ \A t \in Tenants \ {Dom(c)} : ToldFits(t)'
  BY <1>1, <1>2, <1>4, <1>5, OthersToldStay
<1>7. ASSUME NEW t \in Tenants, t = Dom(c) PROVE ToldFits(t)'
  <2>1. CASE Spoilt(t)'
    BY <2>1 DEF ToldFits
  <2>2. CASE ~Spoilt(t)'
    <3>1. ~Spoilt(t) /\ ~Unrecorded(t)
      BY <1>5, <1>7, <2>2 DEF Spoilt, MarkKinds, Marked
    <3>2. \A b \in Calls : (call[b].pc = "record" /\ Dom(b) = t)' <=> b = c
      BY <1>2, <1>7, <3>1 DEF Unrecorded, Dom
    <3>3. \A n \in Names : Told(t, n) = Profile(t, n)
      BY <3>1 DEF TInv, ToldFits
    <3>4. \A n \in Names :
            Profile(t, n)' = IF n # call[c].req.name THEN Told(t, n)
                             ELSE IF call[c].req.op = "set" THEN c ELSE None
      BY <1>4, <1>7, <3>3 DEF Profile, Stored
    <3>5. Unrecorded(t)'
      BY <3>2 DEF Unrecorded
    <3> QED
      BY <1>2, <1>3, <1>6, <3>2, <3>4, <3>5 DEF ToldFits
  <2> QED
    BY <2>1, <2>2
<1>8. \A o \in Calls : RecordedFits(o)'
  <2>1. RecordedFits(c)'
    BY <1>2, <1>3 DEF RecordedFits
  <2> QED
    BY <1>1, <1>2, <2>1, RecordedStays DEF TInv
<1>9. FirstFits'
  BY <1>1, <1>2, <1>3, <1>4, <1>5, Sentinels, StoredFirst
<1> QED
  BY <1>6, <1>7, <1>8, <1>9 DEF TInv

LEMMA RecordTells == ASSUME KInv, TInv, NEW c \in Calls, Record(c) PROVE TInv'
<1>1. /\ call[c].pc = "record" /\ Live(c) /\ Answer(c, "ok") /\ UNCHANGED <<backend, doc, keys>>
      /\ trail' = trail \/ trail' = Appended(c)
      /\ marks \subseteq marks'
      /\ Logs(c) => trail' = Appended(c)
      /\ ~Logs(c) => trail' = trail /\ <<"unlogged", Dom(c)>> \in marks'
  BY DEF Record, Live, Mark
<1>2. /\ \A o \in Calls \ {c} : call'[o] = call[o]
      /\ call'[c].pc = "done" /\ call'[c].answer = "ok" /\ call'[c].req = call[c].req
      /\ call'[c].cli = call[c].cli /\ call'[c].log = call[c].log
  BY <1>1, AnswerMeans, EndedMeans DEF KInv
<1>3. /\ \A t \in Tenants, n \in Names : LastFits(t, n)'
      /\ \A t \in Tenants \ {Dom(c)} : ToldFits(t)'
  BY <1>1, <1>2, OthersToldStay
<1>4. call[c].req.op \in {"create", "set", "delete"} /\ Dom(c) \in Domains
  BY <1>1, RequestFields DEF KInv, PhaseFits, Dom
<1>5. ASSUME NEW t \in Tenants, t = Dom(c) PROVE ToldFits(t)'
  <2>1. CASE Spoilt(t)'
    BY <2>1 DEF ToldFits
  <2>2. CASE ~Spoilt(t)'
    <3>1. ~Spoilt(t) /\ trail' = Appended(c)
      BY <1>1, <1>5, <2>2 DEF Spoilt, MarkKinds, Marked
    <3>2. \A b \in Calls : ~(call[b].pc = "record" /\ Dom(b) = t)'
      BY <1>1, <1>2, <1>5, <3>1 DEF TInv, ToldFits, Dom
    <3>3. ASSUME NEW n \in Names PROVE Told(t, n)' = Profile(t, n)'
      <4>1. Profile(t, n)' = Profile(t, n)
        BY <1>1 DEF Profile, Stored
      <4>2. Profile(t, n) = IF call[c].req.op = "create"
                            THEN IF n = Default THEN c ELSE None
                            ELSE IF n # call[c].req.name THEN Told(t, n)
                            ELSE IF call[c].req.op = "set" THEN c ELSE None
        BY <1>1, <1>5, <3>1 DEF TInv, ToldFits
      <4>3. Told(t, n)' = IF Dom(c) # t THEN Told(t, n)
                          ELSE IF call[c].req.op = "create"
                          THEN IF n = Default THEN c ELSE None
                          ELSE IF n # call[c].req.name THEN Told(t, n)
                          ELSE IF call[c].req.op = "delete" THEN None ELSE c
        <5>1. LastFits(t, n)
          BY DEF TInv
        <5> QED
          BY <1>1, <3>1, <5>1, ToldAppends
      <4> QED
        BY <1>4, <1>5, <4>1, <4>2, <4>3
    <3> QED
      BY <3>2, <3>3 DEF ToldFits
  <2> QED
    BY <2>1, <2>2
<1>6. RecordedFits(c)'
  <2>1. CASE Logs(c)
    <3>1. PICK e \in Nat : e \in DOMAIN trail' /\ trail'[e] = Entry(c)
      BY <1>1, <2>1, AppendMeans
    <3> QED
      BY <3>1 DEF RecordedFits, Recorded, Entry
  <2>2. CASE ~Logs(c)
    <3>1. ~call[c].log /\ Dom(c) # Root
      BY <2>2 DEF Logs
    <3>2. call[c].cli /\ Stored(Root)
      BY <1>1, <3>1 DEF KInv, PhaseFits, ReliesFits
    <3>3. backend = "storekey"
      BY <1>1, <3>1, <3>2 DEF KInv, LogFits, StoreTyped
    <3> QED
      BY <1>1, <1>2, <3>1, <3>2, <3>3 DEF RecordedFits, KInv, CallsTyped
  <2> QED
    BY <2>1, <2>2
<1>7. \A o \in Calls : RecordedFits(o)'
  BY <1>1, <1>2, <1>6, RecordedStays DEF TInv
<1>8. FirstFits'
  <2>1. CASE Logs(c)
    BY <1>1, <2>1, AppendedFirst
  <2>2. CASE ~Logs(c)
    <3>1. Dom(c) # Root /\ trail' = trail
      BY <1>1, <2>2 DEF Logs
    <3>2. Unrecorded(Root) => Unrecorded(Root)'
      BY <1>2, <3>1 DEF Unrecorded, Dom
    <3>3. ASSUME NEW o \in Calls, Live(o)' PROVE call'[o] = call[o]
      BY <1>2, <3>3 DEF Live
    <3> QED
      BY <1>1, <3>1, <3>2, <3>3 DEF TInv, FirstFits, InitRecordFirst, Marked, Stored,
         Live, Dom
  <2> QED
    BY <2>1, <2>2
<1> QED
  BY <1>3, <1>5, <1>7, <1>8 DEF TInv

LEMMA FailUnansweredTells == ASSUME KInv, TInv, NEW c \in Calls, FailUnanswered(c) PROVE TInv'
<1>1. /\ Answer(c, "failed") /\ Mark("fault", Dom(c)) /\ UNCHANGED backend
      /\ Live(c) /\ marks \subseteq marks' /\ <<"fault", Dom(c)>> \in marks'
  BY DEF FailUnanswered, Generating, Generated, Live, Mark
<1>2. /\ \A o \in Calls \ {c} : call'[o] = call[o]
      /\ call'[c].pc = "done"
  BY <1>1, AnswerMeans, EndedMeans DEF KInv
<1>3. CASE UNCHANGED <<doc, trail>>
  BY <1>1, <1>3, AnswerIsQuiet, QuietKeeps
<1>4. CASE /\ \/ Generated(c) /\ doc' = DocPut(c)
              \/ call[c].pc = "update" /\ Updatable(c) /\ doc' = DocUpdated(c)
           /\ UNCHANGED <<keys, trail>>
  <2>1. /\ \A d \in Domains \ {Dom(c)} : doc'[d] = doc[d]
        /\ call[c].pc # "record"
    BY <1>4, PutMeans, UpdateMeans DEF Generated
  <2>2. FirstFits'
    BY <1>1, <1>2, <1>4, <2>1, Sentinels, StoredFirst
  <2> QED
    BY <1>1, <1>4, <2>1, <2>2, SpoiltKeeps
<1>5. CASE Logs(c) /\ trail' = Appended(c) /\ UNCHANGED <<doc, keys>>
  <2>1. FirstFits'
    BY <1>1, <1>5, AppendedFirst
  <2> QED
    BY <1>1, <1>5, <2>1, SpoiltKeeps
<1> QED
  BY <1>3, <1>4, <1>5 DEF FailUnanswered

LEMMA InitTInv == Init => TInv
<1> SUFFICES ASSUME Init PROVE TInv
  OBVIOUS
<1> DEFINE first == [op |-> "create", dom |-> Root, name |-> Default, by |-> Before]
<1>1. /\ \A d \in Domains \ {Root} : doc[d] = None
      /\ Root \in Domains
      /\ (trail = <<>> /\ doc[Root] = None) \/ trail = <<first>>
      /\ \A c \in Calls : call[c] = NoCall
  BY Sentinels DEF Init
<1>2. \A c \in Calls : ~Live(c) /\ call[c].pc = "idle" /\ call[c].answer = "none"
  BY <1>1 DEF NoCall, Live
<1>3. \A i \in DOMAIN trail : trail[i] = first
  BY <1>1
<1>4. trail # <<>> => trail[1] = first
  BY <1>1
<1>5. FirstFits
  BY <1>1, <1>2, <1>4 DEF FirstFits, InitRecordFirst, Stored
<1>6. \A c \in Calls : RecordedFits(c)
  BY <1>2 DEF RecordedFits
<1>7. ASSUME NEW t \in Tenants, NEW n \in Names PROVE About(t, n) = {} /\ Told(t, n) = None
  <2>1. About(t, n) = {}
    BY <1>3, Sentinels DEF About
  <2> QED
    BY <2>1, ToldMeans
<1>8. ASSUME NEW t \in Tenants, NEW n \in Names PROVE Profile(t, n) = None
  BY <1>1, Sentinels DEF Profile, Stored
<1> QED
  BY <1>2, <1>5, <1>6, <1>7, <1>8 DEF TInv, LastFits, ToldFits

LEMMA NextTInv == KInv /\ TInv /\ [Next]_vars => TInv'
<1> SUFFICES ASSUME KInv, TInv, [Next]_vars PROVE TInv'
  OBVIOUS
<1>1. ASSUME NEW c \in Calls, RefusePair(c) \/ RefuseKey(c) PROVE Quiet
  BY <1>1, AnswerIsQuiet DEF RefusePair, RefuseKey, Generating, Live, Mark
<1>2. ASSUME NEW c \in Calls, GenerateInStore(c) PROVE Quiet
  BY <1>2, StoreKeyIsQuiet DEF GenerateInStore, Generating, Generates
<1>3. ASSUME NEW c \in Calls, WriteFile(c) PROVE Quiet
  BY <1>3, StoreKeyIsQuiet DEF WriteFile, KInv, PhaseFits, Generates
<1>4. ASSUME NEW c \in Calls, RefuseUpdate(c) PROVE Quiet
  BY <1>4, AnswerIsQuiet DEF RefuseUpdate, Live
<1>5. ASSUME NEW c \in Calls, FailTorn(c) PROVE Quiet
  <2>1. Live(c) /\ Cut({c}, {c})
    BY <1>5 DEF FailTorn, Live
  <2> QED
    BY <2>1, CutIsQuiet
<1>6. ASSUME NEW c \in Calls, Crash(c) PROVE Quiet
  <2> DEFINE ending == IF backend = "softkey" THEN {b \in Calls : Live(b)} ELSE {c}
  <2>1. /\ Live(c)
        /\ \E torn \in SUBSET {b \in ending : call[b].pc = "write"} : Cut(ending, torn)
    BY <1>6 DEF Crash
  <2>2. ending \in SUBSET Calls /\ \A b \in ending : Live(b)
    BY <2>1
  <2> HIDE DEF ending
  <2> QED
    BY <2>1, <2>2, CutIsQuiet
<1>7. ASSUME UNCHANGED vars PROVE Quiet
  BY <1>7 DEF vars, Quiet, Live
<1> QED
  BY <1>1, <1>2, <1>3, <1>4, <1>5, <1>6, <1>7, ArriveIsQuiet, CheckIsQuiet,
     FindNoFileIsQuiet, FailIsQuiet, QuietKeeps, PutTells, UpdateTells, RecordTells,
     FailUnansweredTells DEF Next, Step

LEMMA TInductive == Spec => [](KInv /\ TInv)
<1>1. Init => KInv /\ TInv
  BY InitKInv, InitTInv
<1>2. KInv /\ TInv /\ [Next]_vars => (KInv /\ TInv)'
  BY NextKInv, NextTInv
<1> QED
  BY <1>1, <1>2, PTL DEF Spec

\* A creation or a profile change that was answered is in the trail, unless a
\* command over MongoDB made it that opened without a root (env.go); and a root or
\* tenant whose creation was answered is the one that is stored (env.go, Init,
\* CreateTenant: the record follows the document, the answer the record).
THEOREM AnswersAreKept == Spec => []AnsweredIsKept
<1>1. ASSUME KInv, TInv, NEW c \in Calls, call[c].answer = "ok"
      PROVE  /\ Recorded(c) \/ (backend = "storekey" /\ call[c].cli /\ ~call[c].log)
             /\ call[c].req.op = "create" =>
                \/ Stored(Dom(c)) /\ doc[Dom(c)].by = c
                \/ Dom(c) # Root /\ Marked("clobbered", Dom(c))
  BY <1>1 DEF KInv, TInv, RecordedFits, ReliesFits, Clobbered
<1>2. KInv /\ TInv => AnsweredIsKept
  BY <1>1 DEF AnsweredIsKept
<1> QED
  BY <1>2, TInductive, PTL

\* The trail is well-formed, the root's creation is its first record, and a tenant's
\* profiles are those its records tell whenever none of its calls is running
\* (env.go, Init; profiles.go, SetProfile and DeleteProfile: stored, then recorded),
\* but for the failures and races TrailTells names.
THEOREM TrailIsTrue == Spec => []TrailTells
<1>1. ASSUME KInv PROVE TypeOK
  BY <1>1 DEF KInv, StoreTyped, CallsTyped, TypeOK, Records
<1>2. ASSUME TInv PROVE TrailTellsProfiles
  <2>1. ASSUME NEW t \in Tenants, ~Spoilt(t), \A c \in Calls : ~(Live(c) /\ Dom(c) = t),
               NEW n \in Names
        PROVE  Told(t, n) = Profile(t, n)
    <3>1. ~Unrecorded(t)
      BY <2>1 DEF Unrecorded, Live
    <3> QED
      BY <1>2, <2>1, <3>1 DEF TInv, ToldFits
  <2> QED
    BY <2>1 DEF TrailTellsProfiles, Spoilt, Profile
<1>3. KInv /\ TInv => TrailTells
  BY <1>1, <1>2 DEF TrailTells, TInv, FirstFits
<1> QED
  BY <1>3, TInductive, PTL
=============================================================================
