------------------------------- MODULE Ledger -------------------------------
(***************************************************************************)
(* The run ledger of the reaper (crates/rightsize/src/reaper/ledger.rs):   *)
(* for every run the files runs/<id>.json, runs/<id>.sandboxes and         *)
(* runs/<id>.networks, and the operations that rewrite them under the      *)
(* process-wide WRITE_LOCK.                                                *)
(*                                                                         *)
(* An absent file and an empty one read the same (read_lines), so a file   *)
(* of lines is the set of its lines.  All Network objects of one process   *)
(* carry the same id, "rz-net-<run id>", so .networks holds at most one    *)
(* line and is a Boolean here.                                             *)
(***************************************************************************)
CONSTANTS Runs,      \* run ids, one per process incarnation
          Names,     \* sandbox names, each minted once (next_container_name)
          Nets,      \* Network objects of the programs
          NoOne      \* the lock holder when the lock is free

Actors == Names \cup Nets    \* the threads of control that hold the lock

ASSUME LedgerAssumption == NoOne \notin Actors

VARIABLES record,     \* record[r]: runs/<r>.json exists
          sandboxes,  \* sandboxes[r]: the lines of runs/<r>.sandboxes
          networks,   \* networks[r]: runs/<r>.networks lists the network id
          lock        \* lock[r]: who holds WRITE_LOCK in the process of r

ledgerVars == <<record, sandboxes, networks, lock>>

LedgerTypeOK ==
  /\ record \in [Runs -> BOOLEAN]
  /\ sandboxes \in [Runs -> SUBSET Names]
  /\ networks \in [Runs -> BOOLEAN]
  /\ lock \in [Runs -> Actors \cup {NoOne}]

LedgerInit ==
  /\ record = [r \in Runs |-> FALSE]
  /\ sandboxes = [r \in Runs |-> {}]
  /\ networks = [r \in Runs |-> FALSE]
  /\ lock = [r \in Runs |-> NoOne]

Unlocked(r) == lock[r] = NoOne

\* is_empty_locked, over the files as they are about to be written
IsEmpty(names, nets) == names = {} /\ ~nets

-----------------------------------------------------------------------------
(* Each of these takes the lock, rewrites one file by tmp + rename, and    *)
(* releases the lock.                                                      *)

WriteRecord(r) ==
  /\ Unlocked(r)
  /\ record' = [record EXCEPT ![r] = TRUE]
  /\ UNCHANGED <<sandboxes, networks, lock>>

AppendSandbox(r, n) ==
  /\ Unlocked(r)
  /\ sandboxes' = [sandboxes EXCEPT ![r] = @ \cup {n}]
  /\ UNCHANGED <<record, networks, lock>>

AppendNetwork(r) ==
  /\ Unlocked(r)
  /\ networks' = [networks EXCEPT ![r] = TRUE]
  /\ UNCHANGED <<record, sandboxes, lock>>

-----------------------------------------------------------------------------
(* The two removals keep the lock from the removal of the line to the      *)
(* deletion of the files: x holds it while the files are empty but not yet *)
(* deleted, and a crash may come between.                                  *)

\* Mutant of RemoveSandboxLine: emptiness is judged before the line goes
RemoveAfterCheck(r, n) ==
  /\ Unlocked(r)
  /\ sandboxes' = [sandboxes EXCEPT ![r] = @ \ {n}]
  /\ lock' = [lock EXCEPT ![r] = IF IsEmpty(sandboxes[r], networks[r])
                                 THEN n ELSE NoOne]
  /\ UNCHANGED <<record, networks>>

RemoveSandboxLine(r, n) ==
  /\ Unlocked(r)
  /\ sandboxes' = [sandboxes EXCEPT ![r] = @ \ {n}]
  /\ lock' = [lock EXCEPT ![r] = IF IsEmpty(sandboxes[r] \ {n}, networks[r])
                                 THEN n ELSE NoOne]
  /\ UNCHANGED <<record, networks>>

RemoveNetworkLine(r, x) ==
  /\ Unlocked(r)
  /\ networks' = [networks EXCEPT ![r] = FALSE]
  /\ lock' = [lock EXCEPT ![r] = IF IsEmpty(sandboxes[r], FALSE)
                                 THEN x ELSE NoOne]
  /\ UNCHANGED <<record, sandboxes>>

\* delete_files_locked
RemoveFiles(r) ==
  /\ record' = [record EXCEPT ![r] = FALSE]
  /\ sandboxes' = [sandboxes EXCEPT ![r] = {}]
  /\ networks' = [networks EXCEPT ![r] = FALSE]

\* the tail of remove_*_and_prune_if_empty: delete, then unlock
Prune(r, x) ==
  /\ lock[r] = x
  /\ RemoveFiles(r)
  /\ lock' = [lock EXCEPT ![r] = NoOne]

\* delete_files, called by a reaper in another process: it does not take the
\* lock of r's process
DeleteFiles(r) ==
  /\ RemoveFiles(r)
  /\ UNCHANGED lock

\* candidate_run_ids: only *.json names a candidate
CandidateRunIds == {r \in Runs : record[r]}
=============================================================================
