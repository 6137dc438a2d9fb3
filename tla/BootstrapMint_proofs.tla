------------------------ MODULE BootstrapMint_proofs ------------------------
(***************************************************************************)
(* Theorems about BootstrapMint, for every set of starts and tokens.       *)
(***************************************************************************)
EXTENDS BootstrapMint, TLAPS

\* A start between its temporary file and its insertion has its token there and
\* not in the store, and shares it with nobody.
Unsettled(s) ==
    pc[s] = "insert" =>
        /\ token[s] \in temps /\ token[s] # doc
        /\ \A r \in Starts : r # s => token[r] # token[s]

\* A start that installs, looks for or restores a file does so for the valid
\* key; the search is given up only when the file is in place.
Settled(s) ==
    /\ pc[s] \in {"install", "look", "search", "restore", "look again"} =>
           token[s] = doc /\ doc # Nothing
    /\ pc[s] = "look again" => path # Nothing

\* A loser's token is not that of the key, and a start without a token has none
\* to clean up.
Disposable(s) ==
    /\ pc[s] = "discard" => token[s] # doc
    /\ pc[s] = "mint" => token[s] = Nothing

\* A revocation removes the file alone, after it deleted the document.
Alone(s) ==
    pc[s] = "revoking" =>
        doc = Nothing /\ \A r \in Starts : pc[r] \in Over \cup {"revoking"}

Steady(s) == Unsettled(s) /\ Settled(s) /\ Disposable(s) /\ Alone(s)

\* Without failures, a temporary file has a start that will move or remove it,
\* and a key without its file a start that will install it.
Owned ==
    ~mangled =>
        /\ \A t \in temps : \E s \in Starts :
               pc[s] \in {"insert", "discard", "install"} /\ token[s] = t
        /\ doc # Nothing /\ path # doc =>
               \E s \in Starts : pc[s] = "install" /\ token[s] = doc

MInv ==
    /\ TypeOK
    /\ PlaintextKept
    /\ StartsSucceed
    /\ \A s \in Starts : Steady(s)
    /\ Owned

-----------------------------------------------------------------------------
\* The initial states of bootstrapKey have no token, file or document.
LEMMA InitInv == Init => MInv
  BY SentinelsAssumption
  DEF Init, MInv, TypeOK, PlaintextKept, StartsSucceed, Steady, Unsettled, Settled,
      Disposable, Alone, Owned, Phases, Over

\* Every call to the store or the file system preserves the invariant.
LEMMA StepInv == MInv /\ [Next]_vars => MInv'
  <1> SUFFICES ASSUME MInv, [Next]_vars PROVE MInv'
    OBVIOUS
  <1> USE SentinelsAssumption
          DEF TypeOK, Goto, store, files, Quiet, Phases, Over
  <1>1. ASSUME NEW s \in Starts, ScanKeys(s) PROVE MInv'
    <2>1. TypeOK'
      BY <1>1 DEF MInv, ScanKeys, Steady, Unsettled, Settled, Disposable, PlaintextKept
    <2>2. PlaintextKept'
      BY <1>1 DEF MInv, ScanKeys, PlaintextKept, Steady, Unsettled, Settled,
         Disposable, Alone
    <2>3. StartsSucceed'
      BY <1>1 DEF MInv, ScanKeys, StartsSucceed, PlaintextKept, Steady, Settled
    <2>4. ASSUME NEW r \in Starts PROVE Steady(r)'
      BY <1>1, ZenonT(60) DEF MInv, ScanKeys, Steady, Unsettled, Settled, Disposable, Alone,
         PlaintextKept
    <2>5. Owned'
      <3> SUFFICES ASSUME ~mangled' PROVE Owned'
        BY DEF Owned
      <3>0. ~mangled
        BY <1>1 DEF ScanKeys
      <3>1. ASSUME NEW t \in temps'
            PROVE  \E q \in Starts : pc'[q] \in {"insert", "discard", "install"} /\ token'[q] = t
        <4>1. CASE t \in temps
          <5>1. PICK q \in Starts : pc[q] \in {"insert", "discard", "install"} /\ token[q] = t
            BY <3>0, <4>1 DEF MInv, Owned
          <5> QED
            BY <5>1, <1>1 DEF MInv, ScanKeys, Steady, Unsettled, Settled, Disposable
        <4>2. CASE t \notin temps
          BY <4>2, <1>1, <3>1 DEF MInv, ScanKeys
        <4> QED
          BY <4>1, <4>2
      <3>2. ASSUME doc' # Nothing, path' # doc'
            PROVE  \E q \in Starts : pc'[q] = "install" /\ token'[q] = doc'
        <4>1. CASE doc' = doc /\ path' = path
          <5>1. PICK q \in Starts : pc[q] = "install" /\ token[q] = doc
            BY <3>0, <3>2, <4>1 DEF MInv, Owned
          <5> QED
            BY <5>1, <4>1, <3>2, <1>1 DEF MInv, ScanKeys, Steady, Settled
        <4>2. CASE ~(doc' = doc /\ path' = path)
          BY <4>2, <3>2, <1>1 DEF MInv, ScanKeys, Steady, Settled
        <4> QED
          BY <4>1, <4>2
      <3> QED
        BY <3>1, <3>2 DEF Owned
    <2> QED
      BY <2>1, <2>2, <2>3, <2>4, <2>5 DEF MInv
  <1>2. ASSUME NEW s \in Starts, Adopt(s) PROVE MInv'
    <2>1. TypeOK'
      BY <1>2 DEF MInv, Adopt, Steady, Unsettled, Settled, Disposable, PlaintextKept
    <2>2. PlaintextKept'
      BY <1>2 DEF MInv, Adopt, PlaintextKept, Steady, Unsettled, Settled, Disposable,
         Alone
    <2>3. StartsSucceed'
      BY <1>2 DEF MInv, Adopt, StartsSucceed, PlaintextKept, Steady, Settled
    <2>4. ASSUME NEW r \in Starts PROVE Steady(r)'
      BY <1>2 DEF MInv, Adopt, Steady, Unsettled, Settled, Disposable, Alone,
         PlaintextKept
    <2>5. Owned'
      BY <1>2 DEF MInv, Adopt, Owned, Steady, Unsettled, Settled, Alone, Disposable
    <2> QED
      BY <2>1, <2>2, <2>3, <2>4, <2>5 DEF MInv
  <1>3. ASSUME NEW s \in Starts, WriteTemp(s) PROVE MInv'
    <2>1. TypeOK'
      BY <1>3 DEF MInv, WriteTemp, Steady, Unsettled, Settled, Disposable, PlaintextKept
    <2>2. PlaintextKept'
      BY <1>3 DEF MInv, WriteTemp, PlaintextKept, Steady, Unsettled, Settled,
         Disposable, Alone
    <2>3. StartsSucceed'
      BY <1>3 DEF MInv, WriteTemp, StartsSucceed, PlaintextKept, Steady, Settled
    <2>4. ASSUME NEW r \in Starts PROVE Steady(r)'
      <3>1. PICK t \in Tokens \ minted : token' = [token EXCEPT ![s] = t] /\ temps' = temps \cup {t}
        BY <1>3 DEF WriteTemp
      <3>2. \A q \in Starts : token[q] # t
        BY <3>1 DEF MInv
      <3>3. doc # t
        BY <3>1 DEF MInv
      <3>4. Unsettled(r)'
        <4>1. CASE r = s
          <5>1. token'[s] = t /\ t \in temps' /\ doc' = doc
            BY <1>3, <3>1 DEF MInv, WriteTemp
          <5>2. \A q \in Starts : q # s => token'[q] # t
            BY <3>1, <3>2 DEF MInv
          <5> QED
            BY <4>1, <5>1, <5>2, <3>3 DEF Unsettled
        <4>2. CASE r # s
          BY <4>2, <1>3, <3>1, <3>2 DEF MInv, WriteTemp, Steady, Unsettled
        <4> QED
          BY <4>1, <4>2
      <3>5. Settled(r)' /\ Disposable(r)' /\ Alone(r)'
        BY <1>3, <3>1 DEF MInv, WriteTemp, Steady, Settled, Disposable, Alone
      <3> QED
        BY <3>4, <3>5 DEF Steady
    <2>5. Owned'
      <3> SUFFICES ASSUME ~mangled' PROVE Owned'
        BY DEF Owned
      <3>0. ~mangled
        BY <1>3 DEF WriteTemp
      <3>1. ASSUME NEW t \in temps'
            PROVE  \E q \in Starts : pc'[q] \in {"insert", "discard", "install"} /\ token'[q] = t
        <4>1. CASE t \in temps
          <5>1. PICK q \in Starts : pc[q] \in {"insert", "discard", "install"} /\ token[q] = t
            BY <3>0, <4>1 DEF MInv, Owned
          <5> QED
            BY <5>1, <1>3 DEF MInv, WriteTemp, Steady, Unsettled, Settled, Disposable
        <4>2. CASE t \notin temps
          BY <4>2, <1>3, <3>1 DEF MInv, WriteTemp
        <4> QED
          BY <4>1, <4>2
      <3>2. ASSUME doc' # Nothing, path' # doc'
            PROVE  \E q \in Starts : pc'[q] = "install" /\ token'[q] = doc'
        <4>1. CASE doc' = doc /\ path' = path
          <5>1. PICK q \in Starts : pc[q] = "install" /\ token[q] = doc
            BY <3>0, <3>2, <4>1 DEF MInv, Owned
          <5> QED
            BY <5>1, <4>1, <3>2, <1>3 DEF MInv, WriteTemp, Steady, Settled
        <4>2. CASE ~(doc' = doc /\ path' = path)
          BY <4>2, <3>2, <1>3 DEF MInv, WriteTemp, Steady, Settled
        <4> QED
          BY <4>1, <4>2
      <3> QED
        BY <3>1, <3>2 DEF Owned
    <2> QED
      BY <2>1, <2>2, <2>3, <2>4, <2>5 DEF MInv
  <1>4. ASSUME NEW s \in Starts, Insert(s) PROVE MInv'
    <2>1. TypeOK'
      BY <1>4 DEF MInv, Insert, Steady, Unsettled, Settled, Disposable, PlaintextKept
    <2>2. PlaintextKept'
      BY <1>4 DEF MInv, Insert, PlaintextKept, Steady, Unsettled, Settled, Disposable,
         Alone
    <2>3. StartsSucceed'
      BY <1>4 DEF MInv, Insert, StartsSucceed, PlaintextKept, Steady, Settled
    <2>4. ASSUME NEW r \in Starts PROVE Steady(r)'
      BY <1>4 DEF MInv, Insert, Steady, Unsettled, Settled, Disposable, Alone,
         PlaintextKept
    <2>5. Owned'
      <3> SUFFICES ASSUME ~mangled' PROVE Owned'
        BY DEF Owned
      <3>0. ~mangled
        BY <1>4 DEF Insert
      <3>1. ASSUME NEW t \in temps'
            PROVE  \E q \in Starts : pc'[q] \in {"insert", "discard", "install"} /\ token'[q] = t
        <4>1. CASE t \in temps
          <5>1. PICK q \in Starts : pc[q] \in {"insert", "discard", "install"} /\ token[q] = t
            BY <3>0, <4>1 DEF MInv, Owned
          <5> QED
            BY <5>1, <1>4 DEF MInv, Insert, Steady, Unsettled, Settled, Disposable
        <4>2. CASE t \notin temps
          BY <4>2, <1>4, <3>1 DEF MInv, Insert
        <4> QED
          BY <4>1, <4>2
      <3>2. ASSUME doc' # Nothing, path' # doc'
            PROVE  \E q \in Starts : pc'[q] = "install" /\ token'[q] = doc'
        <4>1. CASE doc' = doc /\ path' = path
          <5>1. PICK q \in Starts : pc[q] = "install" /\ token[q] = doc
            BY <3>0, <3>2, <4>1 DEF MInv, Owned
          <5> QED
            BY <5>1, <4>1, <3>2, <1>4 DEF MInv, Insert, Steady, Settled
        <4>2. CASE ~(doc' = doc /\ path' = path)
          BY <4>2, <3>2, <1>4 DEF MInv, Insert, Steady, Settled
        <4> QED
          BY <4>1, <4>2
      <3> QED
        BY <3>1, <3>2 DEF Owned
    <2> QED
      BY <2>1, <2>2, <2>3, <2>4, <2>5 DEF MInv
  <1>5. ASSUME NEW s \in Starts, Discard(s) PROVE MInv'
    <2>1. TypeOK'
      BY <1>5 DEF MInv, Discard, Steady, Unsettled, Settled, Disposable, PlaintextKept
    <2>2. PlaintextKept'
      BY <1>5 DEF MInv, Discard, PlaintextKept, Steady, Unsettled, Settled, Disposable,
         Alone
    <2>3. StartsSucceed'
      BY <1>5 DEF MInv, Discard, StartsSucceed, PlaintextKept, Steady, Settled
    <2>4. ASSUME NEW r \in Starts PROVE Steady(r)'
      BY <1>5 DEF MInv, Discard, Steady, Unsettled, Settled, Disposable, Alone,
         PlaintextKept
    <2>5. Owned'
      BY <1>5 DEF MInv, Discard, Owned, Steady, Unsettled, Settled, Alone, Disposable
    <2> QED
      BY <2>1, <2>2, <2>3, <2>4, <2>5 DEF MInv
  <1>6. ASSUME NEW s \in Starts, Install(s) PROVE MInv'
    <2>1. TypeOK'
      BY <1>6 DEF MInv, Install, MoveIntoPlace, Rename, Steady, Unsettled, Settled,
         Disposable, PlaintextKept
    <2>2. PlaintextKept'
      BY <1>6 DEF MInv, Install, MoveIntoPlace, Rename, PlaintextKept, Steady,
         Unsettled, Settled, Disposable, Alone
    <2>3. StartsSucceed'
      BY <1>6 DEF MInv, Install, MoveIntoPlace, Rename, StartsSucceed, PlaintextKept,
         Steady, Settled
    <2>4. ASSUME NEW r \in Starts PROVE Steady(r)'
      BY <1>6 DEF MInv, Install, MoveIntoPlace, Rename, Steady, Unsettled, Settled,
         Disposable, Alone, PlaintextKept
    <2>5. Owned'
      <3> SUFFICES ASSUME ~mangled' PROVE Owned'
        BY DEF Owned
      <3>0. ~mangled
        BY <1>6 DEF Install, MoveIntoPlace, Rename
      <3>1. ASSUME NEW t \in temps'
            PROVE  \E q \in Starts : pc'[q] \in {"insert", "discard", "install"} /\ token'[q] = t
        <4>1. CASE t \in temps
          <5>1. PICK q \in Starts : pc[q] \in {"insert", "discard", "install"} /\ token[q] = t
            BY <3>0, <4>1 DEF MInv, Owned
          <5> QED
            BY <5>1, <1>6 DEF MInv, Install, MoveIntoPlace, Rename, Steady, Unsettled,
               Settled, Disposable
        <4>2. CASE t \notin temps
          BY <4>2, <1>6, <3>1 DEF MInv, Install, MoveIntoPlace, Rename
        <4> QED
          BY <4>1, <4>2
      <3>2. ASSUME doc' # Nothing, path' # doc'
            PROVE  \E q \in Starts : pc'[q] = "install" /\ token'[q] = doc'
        <4>1. path' = token[s]
          <5>1. pc'[s] # "failed"
            BY <2>3 DEF StartsSucceed
          <5> QED
            BY <5>1, <1>6 DEF MInv, Install, MoveIntoPlace, Rename
        <4>2. token[s] = doc /\ doc' = doc
          BY <1>6 DEF MInv, Install, Steady, Settled
        <4> QED
          BY <4>1, <4>2, <3>2
      <3> QED
        BY <3>1, <3>2 DEF Owned
    <2> QED
      BY <2>1, <2>2, <2>3, <2>4, <2>5 DEF MInv
  <1>7. ASSUME NEW s \in Starts, ReadKey(s) PROVE MInv'
    <2>1. TypeOK'
      BY <1>7 DEF MInv, ReadKey, Steady, Unsettled, Settled, Disposable, PlaintextKept
    <2>2. PlaintextKept'
      BY <1>7 DEF MInv, ReadKey, PlaintextKept, Steady, Unsettled, Settled, Disposable,
         Alone
    <2>3. StartsSucceed'
      BY <1>7 DEF MInv, ReadKey, StartsSucceed, PlaintextKept, Steady, Settled
    <2>4. ASSUME NEW r \in Starts PROVE Steady(r)'
      BY <1>7 DEF MInv, ReadKey, Steady, Unsettled, Settled, Disposable, Alone,
         PlaintextKept
    <2>5. Owned'
      BY <1>7 DEF MInv, ReadKey, Owned, Steady, Unsettled, Settled, Alone, Disposable
    <2> QED
      BY <2>1, <2>2, <2>3, <2>4, <2>5 DEF MInv
  <1>8. ASSUME NEW s \in Starts, Look(s) PROVE MInv'
    <2>1. TypeOK'
      BY <1>8 DEF MInv, Look, Steady, Unsettled, Settled, Disposable, PlaintextKept
    <2>2. PlaintextKept'
      BY <1>8 DEF MInv, Look, PlaintextKept, Steady, Unsettled, Settled, Disposable,
         Alone
    <2>3. StartsSucceed'
      BY <1>8 DEF MInv, Look, StartsSucceed, PlaintextKept, Steady, Settled
    <2>4. ASSUME NEW r \in Starts PROVE Steady(r)'
      BY <1>8 DEF MInv, Look, Steady, Unsettled, Settled, Disposable, Alone,
         PlaintextKept
    <2>5. Owned'
      BY <1>8 DEF MInv, Look, Owned, Steady, Unsettled, Settled, Alone, Disposable
    <2> QED
      BY <2>1, <2>2, <2>3, <2>4, <2>5 DEF MInv
  <1>9. ASSUME NEW s \in Starts, Search(s) PROVE MInv'
    <2>1. TypeOK'
      BY <1>9 DEF MInv, Search, Steady, Unsettled, Settled, Disposable, PlaintextKept
    <2>2. PlaintextKept'
      BY <1>9 DEF MInv, Search, PlaintextKept, Steady, Unsettled, Settled, Disposable,
         Alone
    <2>3. StartsSucceed'
      BY <1>9 DEF MInv, Search, StartsSucceed, PlaintextKept, Steady, Settled
    <2>4. ASSUME NEW r \in Starts PROVE Steady(r)'
      BY <1>9 DEF MInv, Search, Steady, Unsettled, Settled, Disposable, Alone,
         PlaintextKept
    <2>5. Owned'
      BY <1>9 DEF MInv, Search, Owned, Steady, Unsettled, Settled, Alone, Disposable
    <2> QED
      BY <2>1, <2>2, <2>3, <2>4, <2>5 DEF MInv
  <1>10. ASSUME NEW s \in Starts, Restore(s) PROVE MInv'
    <2>1. TypeOK'
      BY <1>10 DEF MInv, Restore, MoveIntoPlace, Rename, Steady, Unsettled, Settled,
         Disposable, PlaintextKept
    <2>2. PlaintextKept'
      BY <1>10 DEF MInv, Restore, MoveIntoPlace, Rename, PlaintextKept, Steady,
         Unsettled, Settled, Disposable, Alone
    <2>3. StartsSucceed'
      BY <1>10 DEF MInv, Restore, MoveIntoPlace, Rename, StartsSucceed, PlaintextKept,
         Steady, Settled
    <2>4. ASSUME NEW r \in Starts PROVE Steady(r)'
      BY <1>10 DEF MInv, Restore, MoveIntoPlace, Rename, Steady, Unsettled, Settled,
         Disposable, Alone, PlaintextKept
    <2>5. Owned'
      BY <1>10, ZenonT(60) DEF MInv, Restore, MoveIntoPlace, Rename, Owned, Steady, Unsettled,
         Settled, Alone, Disposable
    <2> QED
      BY <2>1, <2>2, <2>3, <2>4, <2>5 DEF MInv
  <1>11. ASSUME NEW s \in Starts, LookAgain(s) PROVE MInv'
    <2>1. TypeOK'
      BY <1>11 DEF MInv, LookAgain, Steady, Unsettled, Settled, Disposable,
         PlaintextKept
    <2>2. PlaintextKept'
      BY <1>11 DEF MInv, LookAgain, PlaintextKept, Steady, Unsettled, Settled,
         Disposable, Alone
    <2>3. StartsSucceed'
      BY <1>11 DEF MInv, LookAgain, StartsSucceed, PlaintextKept, Steady, Settled
    <2>4. ASSUME NEW r \in Starts PROVE Steady(r)'
      BY <1>11 DEF MInv, LookAgain, Steady, Unsettled, Settled, Disposable, Alone,
         PlaintextKept
    <2>5. Owned'
      BY <1>11 DEF MInv, LookAgain, Owned, Steady, Unsettled, Settled, Alone, Disposable
    <2> QED
      BY <2>1, <2>2, <2>3, <2>4, <2>5 DEF MInv
  <1>12. ASSUME NEW s \in Starts, FailBeforeInsert(s) PROVE MInv'
    <2>1. TypeOK'
      BY <1>12 DEF MInv, FailBeforeInsert, Steady, Unsettled, Settled, Disposable,
         PlaintextKept
    <2>2. PlaintextKept'
      BY <1>12 DEF MInv, FailBeforeInsert, PlaintextKept, Steady, Unsettled, Settled,
         Disposable, Alone
    <2>3. StartsSucceed'
      BY <1>12 DEF MInv, FailBeforeInsert, StartsSucceed, PlaintextKept, Steady, Settled
    <2>4. ASSUME NEW r \in Starts PROVE Steady(r)'
      BY <1>12 DEF MInv, FailBeforeInsert, Steady, Unsettled, Settled, Disposable,
         Alone, PlaintextKept
    <2>5. Owned'
      BY <1>12 DEF MInv, FailBeforeInsert, Owned, Steady, Unsettled, Settled, Alone,
         Disposable
    <2> QED
      BY <2>1, <2>2, <2>3, <2>4, <2>5 DEF MInv
  <1>13. ASSUME NEW s \in Starts, RevokeMinted(s) PROVE MInv'
    <2>1. TypeOK'
      BY <1>13 DEF MInv, RevokeMinted, Steady, Unsettled, Settled, Disposable,
         PlaintextKept
    <2>2. PlaintextKept'
      BY <1>13 DEF MInv, RevokeMinted, PlaintextKept, Steady, Unsettled, Settled,
         Disposable, Alone
    <2>3. StartsSucceed'
      BY <1>13 DEF MInv, RevokeMinted, StartsSucceed, PlaintextKept, Steady, Settled
    <2>4. ASSUME NEW r \in Starts PROVE Steady(r)'
      BY <1>13 DEF MInv, RevokeMinted, Steady, Unsettled, Settled, Disposable, Alone,
         PlaintextKept
    <2>5. Owned'
      BY <1>13 DEF MInv, RevokeMinted, Owned, Steady, Unsettled, Settled, Alone,
         Disposable
    <2> QED
      BY <2>1, <2>2, <2>3, <2>4, <2>5 DEF MInv
  <1>14. ASSUME NEW s \in Starts, RemoveFile(s) PROVE MInv'
    <2>1. TypeOK'
      BY <1>14 DEF MInv, RemoveFile, Steady, Unsettled, Settled, Disposable,
         PlaintextKept
    <2>2. PlaintextKept'
      BY <1>14 DEF MInv, RemoveFile, PlaintextKept, Steady, Unsettled, Settled,
         Disposable, Alone
    <2>3. StartsSucceed'
      BY <1>14 DEF MInv, RemoveFile, StartsSucceed, PlaintextKept, Steady, Settled
    <2>4. ASSUME NEW r \in Starts PROVE Steady(r)'
      BY <1>14 DEF MInv, RemoveFile, Steady, Unsettled, Settled, Disposable, Alone,
         PlaintextKept
    <2>5. Owned'
      BY <1>14 DEF MInv, RemoveFile, Owned, Steady, Unsettled, Settled, Alone,
         Disposable
    <2> QED
      BY <2>1, <2>2, <2>3, <2>4, <2>5 DEF MInv
  <1>15. CASE CreateOperator
    <2>1. TypeOK'
      BY <1>15 DEF MInv, CreateOperator, Steady, Unsettled, Settled, Disposable,
         PlaintextKept
    <2>2. PlaintextKept'
      BY <1>15 DEF MInv, CreateOperator, PlaintextKept, Steady, Unsettled, Settled,
         Disposable, Alone
    <2>3. StartsSucceed'
      BY <1>15 DEF MInv, CreateOperator, StartsSucceed, PlaintextKept, Steady, Settled
    <2>4. ASSUME NEW r \in Starts PROVE Steady(r)'
      BY <1>15 DEF MInv, CreateOperator, Steady, Unsettled, Settled, Disposable, Alone,
         PlaintextKept
    <2>5. Owned'
      BY <1>15 DEF MInv, CreateOperator, Owned, Steady, Unsettled, Settled, Alone,
         Disposable
    <2> QED
      BY <2>1, <2>2, <2>3, <2>4, <2>5 DEF MInv
  <1>16. CASE RevokeOther
    <2>1. TypeOK'
      BY <1>16 DEF MInv, RevokeOther, Steady, Unsettled, Settled, Disposable,
         PlaintextKept
    <2>2. PlaintextKept'
      BY <1>16 DEF MInv, RevokeOther, PlaintextKept, Steady, Unsettled, Settled,
         Disposable, Alone
    <2>3. StartsSucceed'
      BY <1>16 DEF MInv, RevokeOther, StartsSucceed, PlaintextKept, Steady, Settled
    <2>4. ASSUME NEW r \in Starts PROVE Steady(r)'
      BY <1>16 DEF MInv, RevokeOther, Steady, Unsettled, Settled, Disposable, Alone,
         PlaintextKept
    <2>5. Owned'
      BY <1>16 DEF MInv, RevokeOther, Owned, Steady, Unsettled, Settled, Alone,
         Disposable
    <2> QED
      BY <2>1, <2>2, <2>3, <2>4, <2>5 DEF MInv
  <1>17. CASE Crash
    <2>1. TypeOK'
      BY <1>17 DEF MInv, Crash, Steady, Unsettled, Settled, Disposable, PlaintextKept
    <2>2. PlaintextKept'
      BY <1>17 DEF MInv, Crash, PlaintextKept, Steady, Unsettled, Settled, Disposable,
         Alone
    <2>3. StartsSucceed'
      BY <1>17 DEF MInv, Crash, StartsSucceed, PlaintextKept, Steady, Settled
    <2>4. ASSUME NEW r \in Starts PROVE Steady(r)'
      BY <1>17 DEF MInv, Crash, Steady, Unsettled, Settled, Disposable, Alone,
         PlaintextKept
    <2>5. Owned'
      BY <1>17 DEF MInv, Crash, Owned, Steady, Unsettled, Settled, Alone, Disposable
    <2> QED
      BY <2>1, <2>2, <2>3, <2>4, <2>5 DEF MInv
  <1>18. CASE Stop
    <2>1. TypeOK'
      BY <1>18 DEF MInv, Stop, Steady, Unsettled, Settled, Disposable, PlaintextKept
    <2>2. PlaintextKept'
      BY <1>18 DEF MInv, Stop, PlaintextKept, Steady, Unsettled, Settled, Disposable,
         Alone
    <2>3. StartsSucceed'
      BY <1>18 DEF MInv, Stop, StartsSucceed, PlaintextKept, Steady, Settled
    <2>4. ASSUME NEW r \in Starts PROVE Steady(r)'
      BY <1>18 DEF MInv, Stop, Steady, Unsettled, Settled, Disposable, Alone,
         PlaintextKept
    <2>5. Owned'
      BY <1>18 DEF MInv, Stop, Owned, Steady, Unsettled, Settled, Alone, Disposable
    <2> QED
      BY <2>1, <2>2, <2>3, <2>4, <2>5 DEF MInv
  <1>19. CASE LoseOperators
    <2>1. TypeOK'
      BY <1>19 DEF MInv, LoseOperators, Steady, Unsettled, Settled, Disposable,
         PlaintextKept
    <2>2. PlaintextKept'
      BY <1>19 DEF MInv, LoseOperators, PlaintextKept, Steady, Unsettled, Settled,
         Disposable, Alone
    <2>3. StartsSucceed'
      BY <1>19 DEF MInv, LoseOperators, StartsSucceed, PlaintextKept, Steady, Settled
    <2>4. ASSUME NEW r \in Starts PROVE Steady(r)'
      BY <1>19 DEF MInv, LoseOperators, Steady, Unsettled, Settled, Disposable, Alone,
         PlaintextKept
    <2>5. Owned'
      BY <1>19 DEF MInv, LoseOperators, Owned, Steady, Unsettled, Settled, Alone,
         Disposable
    <2> QED
      BY <2>1, <2>2, <2>3, <2>4, <2>5 DEF MInv
  <1>20. CASE UNCHANGED vars
    <2>1. TypeOK'
      BY <1>20 DEF MInv, vars, Steady, Unsettled, Settled, Disposable, PlaintextKept
    <2>2. PlaintextKept'
      BY <1>20 DEF MInv, vars, PlaintextKept, Steady, Unsettled, Settled, Disposable,
         Alone
    <2>3. StartsSucceed'
      BY <1>20 DEF MInv, vars, StartsSucceed, PlaintextKept, Steady, Settled
    <2>4. ASSUME NEW r \in Starts PROVE Steady(r)'
      BY <1>20 DEF MInv, vars, Steady, Unsettled, Settled, Disposable, Alone,
         PlaintextKept
    <2>5. Owned'
      BY <1>20 DEF MInv, vars, Owned, Steady, Unsettled, Settled, Alone, Disposable
    <2> QED
      BY <2>1, <2>2, <2>3, <2>4, <2>5 DEF MInv
  <1> QED
    BY <1>1, <1>2, <1>3, <1>4, <1>5, <1>6, <1>7, <1>8, <1>9, <1>10, <1>11, <1>12,
       <1>13, <1>14, <1>15, <1>16, <1>17, <1>18, <1>19, <1>20 DEF Next, Start

\* The invariant holds throughout.
LEMMA Invariance == Spec => []MInv
  BY InitInv, StepInv, PTL DEF Spec

-----------------------------------------------------------------------------
\* Type correctness; a token is never in two files (os.Rename, auth.go:315).
THEOREM TypeCorrect == Spec => []TypeOK
  <1>1. MInv => TypeOK
    BY DEF MInv
  <1> QED
    BY <1>1, Invariance, PTL

\* The plaintext of the valid minted key is in a file of the data directory at
\* every instant between two calls of mintBootstrapFile and recoverMintedFile.
THEOREM PlaintextNeverLost == Spec => []PlaintextKept
  <1>1. MInv => PlaintextKept
    BY DEF MInv
  <1> QED
    BY <1>1, Invariance, PTL

\* Overlapping calls of bootstrapKey never make each other fail or warn.
THEOREM OverlapSucceeds == Spec => []StartsSucceed
  <1>1. MInv => StartsSucceed
    BY DEF MInv
  <1> QED
    BY <1>1, Invariance, PTL

\* Without failures the key file holds the key when bootstrapKey is over.
THEOREM KeyFileInPlace == Spec => []FileInstalled
  <1>1. MInv => FileInstalled
    BY DEF MInv, Owned, FileInstalled, Quiet, Over
  <1> QED
    BY <1>1, Invariance, PTL

\* Without failures mintBootstrapFile leaves no temporary file behind.
THEOREM NothingLeftBehind == Spec => []NoTempLeft
  <1>1. MInv => NoTempLeft
    BY DEF MInv, Owned, NoTempLeft, Quiet, Over
  <1> QED
    BY <1>1, Invariance, PTL

\* Only the start that won the insert, or a recovery of its file, changes the key
\* file of a valid key.
THEOREM LosersDisturbNothing == Spec => PathFollowsKey
  <1>1. MInv /\ [Next]_vars => [doc' # Nothing /\ path' # path => path' = doc']_vars
    <2> SUFFICES ASSUME MInv, Next PROVE doc' # Nothing /\ path' # path => path' = doc'
      BY DEF vars
    <2> USE DEF MInv, Steady, Settled, Alone, store, files
    <2>1. ASSUME NEW s \in Starts, Install(s) \/ Restore(s)
          PROVE  path' # path => path' = doc'
      BY <2>1 DEF Install, Restore, MoveIntoPlace, Rename
    <2>2. ASSUME NEW s \in Starts, RemoveFile(s)
          PROVE  doc' = Nothing
      BY <2>2 DEF RemoveFile
    <2>3. ASSUME NEW s \in Starts,
                 \/ ScanKeys(s) \/ Adopt(s) \/ WriteTemp(s) \/ Insert(s) \/ Discard(s)
                 \/ ReadKey(s) \/ Look(s) \/ Search(s) \/ LookAgain(s)
                 \/ FailBeforeInsert(s) \/ RevokeMinted(s)
          PROVE  path' = path
      BY <2>3 DEF ScanKeys, Adopt, WriteTemp, Insert, Discard, ReadKey, Look, Search,
                  LookAgain, FailBeforeInsert, RevokeMinted
    <2>4. CASE CreateOperator \/ RevokeOther \/ Crash \/ Stop \/ LoseOperators
      BY <2>4 DEF CreateOperator, RevokeOther, Crash, Stop, LoseOperators
    <2> QED
      BY <2>1, <2>2, <2>3, <2>4 DEF Next, Start
  <1> QED
    BY <1>1, Invariance, PTL DEF Spec, PathFollowsKey

\* A start that finds a valid minted key does not end without its file in place
\* (recoverMintedFile).
THEOREM RecoveryInstalls == Spec => RecoverInstalls
  <1> DEFINE Ends(s) ==
        /\ pc[s] \in Recovering /\ pc'[s] \in {"serving", "alarmed", "failed"}
        /\ doc # Nothing
  <1>1. MInv /\ [Next]_vars => [\A s \in Starts : Ends(s) => path' # Nothing]_vars
    <2> SUFFICES ASSUME MInv, MInv', Next, NEW s \in Starts, Ends(s) PROVE path' # Nothing
      BY StepInv DEF vars
    <2> USE DEF Recovering, Goto, store, files
    <2>1. ASSUME NEW r \in Starts, Start(r), r # s PROVE FALSE
      BY <2>1 DEF MInv, TypeOK, Start, ScanKeys, Adopt, WriteTemp, Insert, Discard,
         Install, MoveIntoPlace, ReadKey, Look, Search, Restore, LookAgain
    <2>2. ASSUME Start(s) PROVE path' # Nothing
      <3>1. CASE ReadKey(s) \/ Search(s)
        BY <3>1 DEF MInv, TypeOK, ReadKey, Search
      <3>2. CASE Look(s)
        BY <3>2 DEF MInv, TypeOK, Look
      <3>3. CASE Restore(s)
        BY <3>3, SentinelsAssumption DEF MInv, TypeOK, Steady, Settled, Restore,
           MoveIntoPlace, Rename, PlaintextKept
      <3>4. CASE LookAgain(s)
        BY <3>4 DEF MInv, Steady, Settled, LookAgain
      <3>5. CASE \/ ScanKeys(s) \/ Adopt(s) \/ WriteTemp(s) \/ Insert(s) \/ Discard(s)
                 \/ Install(s)
        BY <3>5 DEF ScanKeys, Adopt, WriteTemp, Insert, Discard, Install
      <3> QED
        BY <2>2, <3>1, <3>2, <3>3, <3>4, <3>5 DEF Start
    <2>3. ASSUME NEW r \in Starts, FailBeforeInsert(r) \/ RevokeMinted(r) \/ RemoveFile(r)
          PROVE  FALSE
      BY <2>3 DEF MInv, TypeOK, Steady, Alone, Over, FailBeforeInsert, RevokeMinted,
         RemoveFile, Quiet
    <2>4. CASE CreateOperator \/ RevokeOther \/ Crash \/ Stop \/ LoseOperators
      BY <2>4 DEF MInv, TypeOK, CreateOperator, RevokeOther, Crash, Stop, LoseOperators
    <2> QED
      BY <2>1, <2>2, <2>3, <2>4 DEF Next
  <1> QED
    BY <1>1, Invariance, PTL DEF Spec, RecoverInstalls

-----------------------------------------------------------------------------
\* Overlapping calls of bootstrapKey end well, install the file and leave nothing
\* else behind.
THEOREM StartsEndClean == Spec => []CleanStarts
  BY TypeCorrect, OverlapSucceeds, KeyFileInPlace, NothingLeftBehind, PTL DEF
     CleanStarts

\* The file that bootstrapKey or recoverMintedFile puts in place stays as long as
\* its key is valid.
THEOREM KeyFileStays == Spec => KeyFileKept
  BY LosersDisturbNothing, RecoveryInstalls DEF KeyFileKept
=============================================================================
