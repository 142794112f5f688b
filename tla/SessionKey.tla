------------------------------ MODULE SessionKey ------------------------------
(***************************************************************************)
(* The key that seals every cookie and every profile (crypto.py,           *)
(* _load_key): the API, the scheduler and the workers start together on a  *)
(* data directory without a key, and each of them may publish the one that *)
(* all must use.  A process may stop between any two steps and start again *)
(* with nothing in memory.                                                 *)
(***************************************************************************)
EXTENDS Integers

CONSTANTS
  Starters,    \* the processes that call _load_key
  NoKey,       \* the file is absent, or the process has no key yet
  EmptyKey,    \* the file exists and is empty
  MaxRestarts  \* bound: restarts of processes

ASSUME KeyAssumption ==
  /\ NoKey \notin Starters /\ EmptyKey \notin Starters /\ NoKey # EmptyKey
  /\ MaxRestarts \in Nat

(* Fernet.generate_key never gives the same key twice: a key is known by   *)
(* the process that has drawn it.                                          *)
VARIABLES
  keyFile,   \* data/.session_key
  drafts,    \* the temporary files with a key in them, by process
  starting,  \* where each process is in _load_key
  keyOf,     \* _fernet: the key each process uses
  restarts   \* bound

keyVars == <<keyFile, drafts, starting, keyOf, restarts>>

Keys == Starters
KeySteps == {"stopped", "read", "write", "link", "unlink", "ready"}

SessionKeyTypes ==
  /\ keyFile \in Keys \cup {NoKey, EmptyKey}
  /\ drafts \subseteq Starters
  /\ starting \in [Starters -> KeySteps]
  /\ keyOf \in [Starters -> Keys \cup {NoKey, EmptyKey}]
  /\ restarts \in 0..MaxRestarts

SessionKeyInit ==
  /\ keyFile = NoKey /\ drafts = {}
  /\ starting = [p \in Starters |-> "stopped"]
  /\ keyOf = [p \in Starters |-> NoKey]
  /\ restarts = 0

(* Somebody has prepared an empty file in the data directory.              *)
TouchKeyFile ==
  /\ keyFile = NoKey /\ \A p \in Starters : starting[p] = "stopped"
  /\ keyFile' = EmptyKey
  /\ UNCHANGED <<drafts, starting, keyOf, restarts>>

StartUp(p) ==
  /\ starting[p] = "stopped"
  /\ starting' = [starting EXCEPT ![p] = "read"]
  /\ UNCHANGED <<keyFile, drafts, keyOf, restarts>>

FindKey(p) ==
  /\ starting[p] = "read" /\ keyFile \in Keys
  /\ keyOf' = [keyOf EXCEPT ![p] = keyFile]
  /\ starting' = [starting EXCEPT ![p] = "ready"]
  /\ UNCHANGED <<keyFile, drafts, restarts>>

(* In production the process refuses to start rather than draw a key.      *)
DrawKey(p) ==
  /\ starting[p] = "read" /\ keyFile \notin Keys
  /\ keyOf' = [keyOf EXCEPT ![p] = p]
  /\ starting' = [starting EXCEPT ![p] = "write"]
  /\ UNCHANGED <<keyFile, drafts, restarts>>

(* write, flush, fsync of a file of its own.                               *)
WriteDraft(p) ==
  /\ starting[p] = "write"
  /\ drafts' = drafts \cup {p}
  /\ starting' = [starting EXCEPT ![p] = "link"]
  /\ UNCHANGED <<keyFile, keyOf, restarts>>

(* Mutant: a publication that replaces the file of another process.        *)
PublishByReplace(p) ==
  /\ starting[p] = "link"
  /\ keyFile' = p
  /\ starting' = [starting EXCEPT ![p] = "unlink"]
  /\ UNCHANGED <<drafts, keyOf, restarts>>

(* os.link publishes the draft, or fails when a file is there already, and *)
(* the key is then the one that file holds.                                *)
Publish(p) ==
  /\ starting[p] = "link"
  /\ IF keyFile = NoKey
     THEN keyFile' = p /\ UNCHANGED keyOf
     ELSE keyOf' = [keyOf EXCEPT ![p] = keyFile] /\ UNCHANGED keyFile
  /\ starting' = [starting EXCEPT ![p] = "unlink"]
  /\ UNCHANGED <<drafts, restarts>>

(* An empty key is refused: RuntimeError.                                  *)
RemoveDraft(p) ==
  /\ starting[p] = "unlink"
  /\ drafts' = drafts \ {p}
  /\ starting' = [starting EXCEPT
       ![p] = IF keyOf[p] = EmptyKey THEN "stopped" ELSE "ready"]
  /\ keyOf' = [keyOf EXCEPT ![p] = IF @ = EmptyKey THEN NoKey ELSE @]
  /\ UNCHANGED <<keyFile, restarts>>

(* A stop leaves the draft it has not removed, under a name nobody reads.  *)
Restart(p) ==
  /\ starting[p] # "stopped" /\ restarts < MaxRestarts
  /\ restarts' = restarts + 1
  /\ starting' = [starting EXCEPT ![p] = "stopped"]
  /\ keyOf' = [keyOf EXCEPT ![p] = NoKey]
  /\ UNCHANGED <<keyFile, drafts>>

SessionKeyNext ==
  \/ TouchKeyFile
  \/ \E p \in Starters :
       \/ StartUp(p) \/ FindKey(p) \/ DrawKey(p) \/ WriteDraft(p)
       \/ Publish(p) \/ RemoveDraft(p) \/ Restart(p)

SessionKeySpec == SessionKeyInit /\ [][SessionKeyNext]_keyVars

-------------------------------------------------------------------------------
(* Whatever the order in which the processes start, stop and start again,  *)
(* those that are ready seal with one key, and it is the key of the file:  *)
(* what one of them has sealed the others can open, before and after any   *)
(* restart.                                                                *)
OneKey ==
  \A p \in Starters : starting[p] = "ready" => keyOf[p] = keyFile

===============================================================================
