----------------------------- MODULE Ownership -----------------------------
(***************************************************************************)
(* What the library promises about the sandboxes of a process, with no     *)
(* ledger, watchdog or sweep in sight: a sandbox comes up while its        *)
(* process is up, goes away once, by the process's own hand or, after the  *)
(* process has died, by somebody else's, and never comes back; after a     *)
(* crash nothing new comes up.  A keep_alive sandbox is its process's to   *)
(* remove and nobody else's.                                               *)
(***************************************************************************)
CONSTANTS Runs, Names, RunOf, KeepAlive

VARIABLES proc,     \* of a run: "unborn", "up" or "dead"
          status    \* of a sandbox: "absent", "live" or "over"

ownershipVars == <<proc, status>>

Init ==
  /\ proc = [r \in Runs |-> "unborn"]
  /\ status = [n \in Names |-> "absent"]

Boot(r) ==
  /\ proc[r] = "unborn"
  /\ proc' = [proc EXCEPT ![r] = "up"]
  /\ UNCHANGED status

Die(r) ==
  /\ proc[r] = "up"
  /\ proc' = [proc EXCEPT ![r] = "dead"]
  /\ status' = [n \in Names |-> IF RunOf[n] = r /\ status[n] = "absent"
                                THEN "over" ELSE status[n]]

ComeUp(n) ==
  /\ status[n] = "absent" /\ proc[RunOf[n]] = "up"
  /\ status' = [status EXCEPT ![n] = "live"]
  /\ UNCHANGED proc

\* removed by its owner, or given up before it came up
GoAway(n) ==
  /\ status[n] \in {"absent", "live"} /\ proc[RunOf[n]] = "up"
  /\ status' = [status EXCEPT ![n] = "over"]
  /\ UNCHANGED proc

Reap(n) ==
  /\ status[n] = "live" /\ proc[RunOf[n]] = "dead" /\ n \notin KeepAlive
  /\ status' = [status EXCEPT ![n] = "over"]
  /\ UNCHANGED proc

Next ==
  \/ \E r \in Runs : Boot(r) \/ Die(r)
  \/ \E n \in Names : ComeUp(n) \/ GoAway(n) \/ Reap(n)

Spec == Init /\ [][Next]_ownershipVars
=============================================================================
