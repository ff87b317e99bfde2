---------------------------- MODULE Provisioner ----------------------------
(***************************************************************************)
(* The bootstrap of the msb toolchain                                      *)
(* (crates/rightsize-msb/src/provisioner.rs): calls of ensure_installed by *)
(* processes of one host, for one install directory.  A directory serves   *)
(* as the lock; whoever finds it older than STALE_LOCK_AGE takes it over.  *)
(* One action per system call on what the processes share; time passes     *)
(* between any two of them.                                                *)
(***************************************************************************)
EXTENDS Naturals

CONSTANTS Procs,      \* the calls, each in a process of its own
          None,       \* the lock directory does not exist
          StaleAge,   \* STALE_LOCK_AGE, in ticks
          WaitLimit   \* how long acquire polls, in ticks

ASSUME ProvisionerAssumption ==
  /\ None \notin Procs
  /\ StaleAge \in Nat \ {0}
  /\ WaitLimit \in Nat

Files == {"krun", "msb"}

VARIABLES at,        \* where each call stands
          lock,      \* who made the lock directory, or None
          age,       \* ticks since its mtime
          waited,    \* ticks each call has polled for the lock
          strays,    \* whether there is a temporary file that nobody will remove
          installed, \* the files in place: "none", "part" or "whole"
          contested  \* whether a lock was judged abandoned that a live process
                     \* held or another was taking over (history)

provisionVars == <<at, lock, age, waited, strays, installed, contested>>

Places == { "ensure", "acquire", "evict", "retake", "recheck",
            "getMsb", "getKrun", "moveKrun", "moveMsb", "fail", "unlock",
            "ready", "elsewhere", "failed", "dead" }

\* past acquire and before the guard's drop
Holding == {"recheck", "getMsb", "getKrun", "moveKrun", "moveMsb", "fail", "unlock"}
Waiting == {"acquire", "evict", "retake"}
Returned == {"ready", "elsewhere", "failed"}

ProvisionTypeOK ==
  /\ at \in [Procs -> Places]
  /\ lock \in Procs \cup {None}
  /\ age \in 0..StaleAge
  /\ waited \in [Procs -> 0..WaitLimit]
  /\ installed \in [Files -> {"none", "part", "whole"}]
  /\ strays \in BOOLEAN
  /\ contested \in BOOLEAN

ProvisionInit ==
  /\ at = [p \in Procs |-> "ensure"]
  /\ lock = None
  /\ age = 0
  /\ waited = [p \in Procs |-> 0]
  /\ strays = FALSE
  /\ installed = [f \in Files |-> "none"]
  /\ contested = FALSE

\* the deadline is local to acquire
Goto(p, l) ==
  /\ at' = [at EXCEPT ![p] = l]
  /\ waited' = [waited EXCEPT ![p] = IF l \in Waiting THEN @ ELSE 0]

IsInstalled == \A f \in Files : installed[f] # "none"

-----------------------------------------------------------------------------
(* ensure_installed_at, up to the lock                                     *)

\* MSB_PATH decides alone; then the platform, the files in place and
\* RIGHTSIZE_MSB_SKIP_DOWNLOAD
EnsureInstalled(p) ==
  /\ at[p] = "ensure"
  /\ \/ Goto(p, "elsewhere")
     \/ Goto(p, "failed")
     \/ IsInstalled /\ Goto(p, "ready")
     \/ ~IsInstalled /\ Goto(p, "acquire")
  /\ UNCHANGED <<lock, age, strays, installed, contested>>

-----------------------------------------------------------------------------
(* InstallLock                                                             *)

\* create_dir and touch
MakeLock(p, next) == lock' = p /\ age' = 0 /\ Goto(p, next)

\* Mutant of Poll: no deadline
PollForEver(p) == Goto(p, "acquire") /\ UNCHANGED age

\* the deadline, or a sleep and the next try
Poll(p) ==
  /\ Goto(p, IF waited[p] >= WaitLimit THEN "failed" ELSE "acquire")
  /\ UNCHANGED age

\* the directory is there: its age decides (were it removed before its metadata
\* is read, the call would only poll once more)
AgeSeen(p) ==
  \/ /\ age >= StaleAge
     /\ Goto(p, "evict")
     /\ contested' = (contested \/ \E q \in Procs : at[q] \in Holding \cup {"evict"})
     /\ UNCHANGED age
  \/ age < StaleAge /\ Poll(p) /\ UNCHANGED contested

\* Mutant of Acquire: create_dir_all, which does not mind that the directory exists
AcquireAnyway(p) ==
  /\ at[p] = "acquire"
  /\ MakeLock(p, "recheck")
  /\ UNCHANGED <<strays, installed, contested>>

\* create_dir fails for another reason than that the directory exists
CannotMake(p) == Goto(p, "failed") /\ UNCHANGED <<lock, age>>

Acquire(p) ==
  /\ at[p] = "acquire"
  /\ \/ lock = None /\ MakeLock(p, "recheck") /\ UNCHANGED contested
     \/ lock # None /\ AgeSeen(p) /\ UNCHANGED lock
     \/ CannotMake(p) /\ UNCHANGED contested
  /\ UNCHANGED <<strays, installed>>

\* remove_dir_all, whosever directory is there by now
Evict(p) ==
  /\ at[p] = "evict"
  /\ lock' = None
  /\ Goto(p, "retake")
  /\ UNCHANGED <<age, strays, installed, contested>>

Retake(p) ==
  /\ at[p] = "retake"
  /\ \/ lock = None /\ MakeLock(p, "recheck")
     \/ lock # None /\ Poll(p) /\ UNCHANGED lock
     \/ CannotMake(p)
  /\ UNCHANGED <<strays, installed, contested>>

\* Mutant of Unlock: a call that failed keeps the lock
UnlockWhenReady(p) ==
  /\ at[p] \in {"unlock", "fail"}
  /\ lock' = IF at[p] = "unlock" THEN None ELSE lock
  /\ Goto(p, IF at[p] = "unlock" THEN "ready" ELSE "failed")
  /\ UNCHANGED <<age, strays, installed, contested>>

\* the guard is dropped: the directory goes, whosever it is by now
Unlock(p) ==
  /\ at[p] \in {"unlock", "fail"}
  /\ lock' = None
  /\ Goto(p, IF at[p] = "unlock" THEN "ready" ELSE "failed")
  /\ UNCHANGED <<age, strays, installed, contested>>

-----------------------------------------------------------------------------
(* download_and_install                                                    *)

Quiet == UNCHANGED <<lock, age, contested>>

Recheck(p) ==
  /\ at[p] = "recheck"
  /\ Goto(p, IF IsInstalled THEN "unlock" ELSE "getMsb")
  /\ Quiet /\ UNCHANGED <<strays, installed>>

\* fetch_checksums and download_verified: a temporary file with verified
\* content, or none
DownloadMsb(p) ==
  /\ at[p] = "getMsb"
  /\ Goto(p, "getKrun") \/ Goto(p, "fail")
  /\ Quiet /\ UNCHANGED <<strays, installed>>

\* what fails here returns past the removal of the temporary files
DownloadKrun(p) ==
  /\ at[p] = "getKrun"
  /\ \/ Goto(p, "moveKrun") /\ UNCHANGED strays
     \/ Goto(p, "fail") /\ strays' = TRUE
  /\ Quiet /\ UNCHANGED installed

\* rename replaces what is there; if it fails both temporary files are removed
Move(p, f, from, to) ==
  /\ at[p] = from
  /\ \/ /\ Goto(p, to)
        /\ installed' = [installed EXCEPT ![f] = "whole"]
     \/ Goto(p, "fail") /\ UNCHANGED installed
  /\ Quiet /\ UNCHANGED strays

\* Mutant of Install: copied into place, not renamed
InstallByCopy(p) ==
  \/ /\ at[p] = "moveKrun" /\ Goto(p, "moveMsb")
     /\ installed' = [installed EXCEPT !["krun"] = "part"]
     /\ Quiet /\ UNCHANGED strays
  \/ /\ at[p] = "moveMsb" /\ Goto(p, "unlock")
     /\ installed' = [f \in Files |-> "whole"]
     /\ Quiet /\ UNCHANGED strays

\* the library first, the binary last
Install(p) ==
  \/ Move(p, "krun", "moveKrun", "moveMsb")
  \/ Move(p, "msb", "moveMsb", "unlock")

-----------------------------------------------------------------------------
(* Time and crashes                                                        *)

Bump(n, limit) == IF n < limit THEN n + 1 ELSE n

Tick ==
  /\ age' = IF lock = None THEN age ELSE Bump(age, StaleAge)
  /\ waited' = [p \in Procs |-> IF at[p] \in Waiting
                                 THEN Bump(waited[p], WaitLimit) ELSE waited[p]]
  /\ UNCHANGED <<at, lock, strays, installed, contested>>

\* killed: the lock directory and the temporary files stay
Die(p) ==
  /\ at[p] \notin Returned \cup {"dead"}
  /\ Goto(p, "dead")
  /\ \/ at[p] \notin {"getKrun", "moveKrun", "moveMsb"} /\ UNCHANGED strays
     \/ at[p] \in {"getMsb", "getKrun", "moveKrun", "moveMsb"} /\ strays' = TRUE
  /\ Quiet /\ UNCHANGED installed

\* ensure_installed is called once more, with temporary files of new names
EnsureAgain(p) ==
  /\ at[p] \in Returned
  /\ Goto(p, "ensure")
  /\ UNCHANGED <<lock, age, strays, installed, contested>>

Step(p) ==
  \/ EnsureInstalled(p)
  \/ Acquire(p) \/ Evict(p) \/ Retake(p) \/ Unlock(p)
  \/ Recheck(p) \/ DownloadMsb(p) \/ DownloadKrun(p) \/ Install(p)

ProvisionNext == Tick \/ \E p \in Procs : Step(p) \/ Die(p) \/ EnsureAgain(p)

ProvisionSpec == ProvisionInit /\ [][ProvisionNext]_provisionVars

\* Time goes on and a process polls on.  A holder may hang: a response body
\* is read without a timeout.
FairSpec ==
  /\ ProvisionSpec
  /\ WF_provisionVars(Tick)
  /\ \A p \in Procs : WF_provisionVars(Acquire(p) \/ Evict(p) \/ Retake(p))

-----------------------------------------------------------------------------
(* Correctness                                                             *)

Holders == {p \in Procs : at[p] \in Holding}

\* InstallLock: the directory is a mutex, also when the lock of a killed process
\* is taken over, unless a live holder has outstayed STALE_LOCK_AGE or two take
\* over at once (the residual race its doc comment names).
OneInstaller == ~contested => \A p, q \in Holders : p = q

\* Module docs, "binary-last atomic install": the binary's presence is "the
\* commit marker for a complete install".  Whoever died, failed, or installed
\* at the same time as another, it is never there without the library.
BinaryIsTheMarker == installed["msb"] # "none" => installed["krun"] # "none"

\* What ensure_installed has returned a path to is whole and stays so: no
\* concurrent, later or interrupted install takes it away or truncates it.
ReadyIsWhole ==
  \A p \in Procs : at[p] = "ready" => \A f \in Files : installed[f] = "whole"

\* A call that returned, successful or not, leaves no lock that only its age
\* could remove.
LockIsReleased == ~contested /\ lock # None => at[lock] \in Holding \cup {"dead"}

\* Nobody polls for ever, also if holders hang and others keep coming:
\* acquire gets the lock or gives up.
PollingEnds == \A p \in Procs : at[p] \in Waiting ~> at[p] \notin Waiting
=============================================================================
