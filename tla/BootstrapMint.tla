--------------------------- MODULE BootstrapMint ----------------------------
(***************************************************************************)
(* The operator key that a start over the embedded store mints             *)
(* (internal/api/auth.go, bootstrapKey): its document in the store, and    *)
(* the only copies of its plaintext, which are files in the data           *)
(* directory.                                                              *)
(*                                                                         *)
(* Every call to the store or to the file system is a step; the starts of  *)
(* one process overlap at will.  bbolt locks its file, so the process has  *)
(* the directory for itself, and it serves requests once its starts are    *)
(* over.  A crash ends every start and the server.  The store's            *)
(* transactions and os.Rename are atomic in a crash of the process.        *)
(*                                                                         *)
(* The audit records and the set of operators are in OperatorKeys.         *)
(***************************************************************************)
CONSTANTS
    Starts,
    Tokens,    \* the tokens that can be minted: bound of the model
    Nothing,   \* no file, no document, no token
    Stale      \* a file that holds none of the tokens, at the key file's path

ASSUME SentinelsAssumption ==
    Nothing \notin Tokens /\ Stale \notin Tokens /\ Nothing # Stale

VARIABLES
    doc,       \* the document of bootstrapMintedID: the token it has the hash of
    others,    \* the store holds another operator key
    path,      \* the file BootstrapKeyFileName
    temps,     \* the temporary files, one for each token
    minted,    \* the tokens drawn so far
    pc,        \* where each start is
    token,     \* the token a start has minted, or whose hash it has read
    mangled    \* a start has failed or the process has crashed

vars == <<doc, others, path, temps, minted, pc, token, mangled>>
store == <<doc, others>>
files == <<path, temps>>

Over == {"idle", "serving", "alarmed", "failed"}
Quiet == \A s \in Starts : pc[s] \in Over

Goto(s, phase) == pc' = [pc EXCEPT ![s] = phase]

Init ==
    /\ doc = Nothing
    /\ others = FALSE
    /\ path \in {Nothing, Stale}
    /\ temps = {}
    /\ minted = {}
    /\ pc = [s \in Starts |-> "idle"]
    /\ token = [s \in Starts |-> Nothing]
    /\ mangled = FALSE

-----------------------------------------------------------------------------
(* bootstrapKey: adopt, mint or look after the file.                       *)

ScanKeys(s) ==
    /\ pc[s] = "idle" /\ \A r \in Starts : pc[r] # "revoking"
    /\ token' = [token EXCEPT ![s] = Nothing]
    /\ IF doc # Nothing \/ others
       THEN Goto(s, "recover")
       ELSE Goto(s, "mint") \/ Goto(s, "adopt")
    /\ UNCHANGED <<store, files, minted, mangled>>

\* a key was supplied
Adopt(s) ==
    /\ pc[s] = "adopt"
    /\ others' = TRUE
    /\ Goto(s, "serving")
    /\ UNCHANGED <<doc, files, minted, token, mangled>>

WriteTemp(s) ==
    /\ pc[s] = "mint"
    /\ \E t \in Tokens \ minted :
        /\ token' = [token EXCEPT ![s] = t]
        /\ temps' = temps \cup {t}
        /\ minted' = minted \cup {t}
    /\ Goto(s, "insert")
    /\ UNCHANGED <<store, path, mangled>>

\* PutIfAbsent under the fixed id: one start wins
Insert(s) ==
    /\ pc[s] = "insert"
    /\ IF doc = Nothing
       THEN doc' = token[s] /\ Goto(s, "install")
       ELSE UNCHANGED doc /\ Goto(s, "discard")
    /\ UNCHANGED <<others, files, minted, token, mangled>>

\* Variant: the loser tidies up every temporary file.
DiscardEvery(s) ==
    /\ pc[s] = "discard"
    /\ temps' = {}
    /\ Goto(s, "serving")
    /\ UNCHANGED <<store, path, minted, token, mangled>>

Discard(s) ==
    /\ pc[s] = "discard"
    /\ temps' = temps \ {token[s]}
    /\ Goto(s, "serving")
    /\ UNCHANGED <<store, path, minted, token, mangled>>

\* Variant: the file is linked, which does not replace another one.
RenameByLink(t) ==
    /\ t \in temps
    /\ path' = IF path = Nothing THEN t ELSE path
    /\ temps' = temps \ {t}

\* os.Rename of the temporary file of t to the path of the key file
Rename(t) ==
    /\ t \in temps
    /\ path' = t
    /\ temps' = temps \ {t}

\* the file may be gone because another start has installed it
MoveIntoPlace(s) ==
    \/ Rename(token[s]) /\ Goto(s, "serving")
    \/ /\ token[s] \notin temps
       /\ Goto(s, IF path = token[s] THEN "serving" ELSE "failed")
       /\ UNCHANGED files

Install(s) ==
    /\ pc[s] = "install"
    /\ MoveIntoPlace(s)
    /\ UNCHANGED <<store, minted, token, mangled>>

-----------------------------------------------------------------------------
(* recoverMintedFile.                                                      *)

ReadKey(s) ==
    /\ pc[s] = "recover"
    /\ token' = [token EXCEPT ![s] = doc]
    /\ Goto(s, IF doc = Nothing THEN "serving" ELSE "look")
    /\ UNCHANGED <<store, files, minted, mangled>>

Look(s) ==
    /\ pc[s] = "look"
    /\ Goto(s, IF path # Nothing THEN "serving" ELSE "search")
    /\ UNCHANGED <<store, files, minted, token, mangled>>

\* Variant: the search ends at the first file that does not match.
SearchFirst(s) ==
    /\ pc[s] = "search"
    /\ \/ token[s] \in temps /\ Goto(s, "restore")
       \/ temps # {token[s]} /\ Goto(s, "look again")
    /\ UNCHANGED <<store, files, minted, token, mangled>>

\* the temporary file whose token has the hash that was read
Search(s) ==
    /\ pc[s] = "search"
    /\ Goto(s, IF token[s] \in temps THEN "restore" ELSE "look again")
    /\ UNCHANGED <<store, files, minted, token, mangled>>

Restore(s) ==
    /\ pc[s] = "restore"
    /\ MoveIntoPlace(s)
    /\ UNCHANGED <<store, minted, token, mangled>>

\* a warning that the file is missing, or none
LookAgain(s) ==
    /\ pc[s] = "look again"
    /\ Goto(s, IF path # Nothing THEN "serving" ELSE "alarmed")
    /\ UNCHANGED <<store, files, minted, token, mangled>>

-----------------------------------------------------------------------------
(* The server, after its starts.                                           *)

CreateOperator ==
    /\ Quiet /\ \E s \in Starts : pc[s] \in {"serving", "alarmed"}
    /\ others' = TRUE
    /\ UNCHANGED <<doc, files, minted, pc, token, mangled>>

\* the last operator key stays: OperatorKeys
RevokeOther ==
    /\ Quiet /\ \E s \in Starts : pc[s] \in {"serving", "alarmed"}
    /\ doc # Nothing
    /\ others' = FALSE
    /\ UNCHANGED <<doc, files, minted, pc, token, mangled>>

RevokeMinted(s) ==
    /\ Quiet /\ pc[s] \in {"serving", "alarmed"}
    /\ doc # Nothing /\ others
    /\ doc' = Nothing
    /\ Goto(s, "revoking")
    /\ UNCHANGED <<others, files, minted, token, mangled>>

RemoveFile(s) ==
    /\ pc[s] = "revoking"
    /\ path' = Nothing
    /\ Goto(s, "serving")
    /\ UNCHANGED <<store, temps, minted, token, mangled>>

-----------------------------------------------------------------------------
(* Failures.                                                               *)

\* the temporary file or the insertion fails: the start cleans up and ends
FailBeforeInsert(s) ==
    /\ pc[s] \in {"mint", "insert"}
    /\ temps' = temps \ {token[s]}
    /\ mangled' = TRUE
    /\ Goto(s, "idle")
    /\ UNCHANGED <<store, path, minted, token>>

\* the process ends, also after the failure of a start
Crash ==
    /\ pc # [s \in Starts |-> "idle"]
    /\ pc' = [s \in Starts |-> "idle"]
    /\ mangled' = TRUE
    /\ UNCHANGED <<store, files, minted, token>>

\* an orderly end: requests are answered first
Stop ==
    /\ Quiet /\ pc # [s \in Starts |-> "idle"]
    /\ pc' = [s \in Starts |-> "idle"]
    /\ UNCHANGED <<store, files, minted, token, mangled>>

\* every operator key is deleted behind the API's back
LoseOperators ==
    /\ \A s \in Starts : pc[s] = "idle"
    /\ doc' = Nothing /\ others' = FALSE
    /\ UNCHANGED <<files, minted, pc, token, mangled>>

-----------------------------------------------------------------------------
Start(s) ==
    \/ ScanKeys(s) \/ Adopt(s)
    \/ WriteTemp(s) \/ Insert(s) \/ Discard(s) \/ Install(s)
    \/ ReadKey(s) \/ Look(s) \/ Search(s) \/ Restore(s) \/ LookAgain(s)

Next ==
    \/ \E s \in Starts :
        Start(s) \/ FailBeforeInsert(s) \/ RevokeMinted(s) \/ RemoveFile(s)
    \/ CreateOperator \/ RevokeOther
    \/ Crash \/ Stop \/ LoseOperators

Spec == Init /\ [][Next]_vars

-----------------------------------------------------------------------------
Phases == Over \cup {"adopt", "mint", "insert", "discard", "install", "recover",
                     "look", "search", "restore", "look again", "revoking"}

(* A token is in one file at most: rename, not copy (auth.go:285).         *)
TypeOK ==
    /\ doc \in minted \cup {Nothing}
    /\ others \in BOOLEAN
    /\ path \in minted \cup {Nothing, Stale}
    /\ minted \subseteq Tokens
    /\ temps \subseteq minted \ {path}
    /\ pc \in [Starts -> Phases]
    /\ token \in [Starts -> minted \cup {Nothing}]
    /\ mangled \in BOOLEAN

(* While the minted key is valid, a file in the data directory holds its   *)
(* plaintext, whatever overlaps and wherever a start fails or the process  *)
(* ends: only its hash is stored anywhere else (auth.go:144).              *)
PlaintextKept == doc # Nothing => doc = path \/ doc \in temps

(* "renamed over the final path only by the starter that won the insert,   *)
(* so losers cannot disturb the winner's file" (auth.go:287): while a      *)
(* minted key is valid, its key file changes only to hold it.              *)
PathFollowsKey ==
    [][doc' # Nothing /\ path' # path => path' = doc']_vars

(* Once the starts are over, and none failed and the process never         *)
(* crashed, the key file holds the valid minted key, over a stale file too *)
(* (auth.go:289, "a pre-existing loose file ... at the path is replaced"). *)
FileInstalled == Quiet /\ ~mangled /\ doc # Nothing => path = doc

(* recoverMintedFile "repairs a crash between inserting the minted         *)
(* bootstrap key and installing its file" (auth.go:538): no start that     *)
(* found a valid minted key ends without a file at its path.               *)
Recovering == {"recover", "look", "search", "restore", "look again"}
RecoverInstalls ==
    [][\A s \in Starts :
        /\ pc[s] \in Recovering /\ pc'[s] \in {"serving", "alarmed", "failed"}
        /\ doc # Nothing
        => path' # Nothing]_vars

(* Overlapping starts do not fail each other, and none reports a key file  *)
(* missing that another one has just installed.                            *)
StartsSucceed == \A s \in Starts : pc[s] \notin {"failed", "alarmed"}

(* When no start failed and the process never crashed, no temporary file   *)
(* with a token outlives the starts (bootstrap_test.go: "temp files left   *)
(* behind").                                                               *)
NoTempLeft == Quiet /\ ~mangled => temps = {}

(* Overlapping starts end well and leave the key file and nothing else.    *)
CleanStarts == TypeOK /\ StartsSucceed /\ FileInstalled /\ NoTempLeft

(* The key file of a valid key is put in place and then left alone.        *)
KeyFileKept == PathFollowsKey /\ RecoverInstalls
=============================================================================
