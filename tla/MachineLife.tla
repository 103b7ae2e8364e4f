----------------------------- MODULE MachineLife -----------------------------
(***************************************************************************)
(* What syncMachine and Deprovision promise the rest of the provider: the  *)
(* machine of a request goes through these states only, each change being  *)
(* the effect of one of their calls, or of the guest.                      *)
(***************************************************************************)
CONSTANT Requests
VARIABLES
  want,     \* what Omni wants: "running", "teardown" or "gone"
  ready,    \* Omni was told that the machine is provisioned
  machine   \* "bare": a halted VM without its config drive

States == {"absent", "bare", "configured", "running", "paused"}
vars == <<want, ready, machine>>

Init ==
  /\ want = [r \in Requests |-> "running"]
  /\ ready = [r \in Requests |-> FALSE]
  /\ machine = [r \in Requests |-> "absent"]

Becomes(r, from, to) ==
  /\ machine[r] \in from
  /\ machine' = [machine EXCEPT ![r] = to]
  /\ UNCHANGED <<want, ready>>

(* Until the request is gone: what was under way when it was given up      *)
(* still takes effect.                                                     *)
Create(r) == want[r] # "gone" /\ Becomes(r, {"absent"}, "bare")
Configure(r) == want[r] # "gone" /\ Becomes(r, {"bare"}, "configured")
PowerOn(r) == want[r] # "gone" /\ Becomes(r, {"configured"}, "running")

(* Only a machine that has been configured is reported: it ran when it was *)
(* looked at, and its guest may have crashed since.                        *)
Report(r) ==
  /\ want[r] # "gone" /\ machine[r] \in {"configured", "running", "paused"}
  /\ ready' = [ready EXCEPT ![r] = TRUE]
  /\ UNCHANGED <<want, machine>>

GuestCrashes(r) == Becomes(r, {"running"}, "paused")
GuestDestroyed(r) == Becomes(r, {"paused"}, "configured")

TearDown(r) ==
  /\ want[r] = "running"
  /\ want' = [want EXCEPT ![r] = "teardown"]
  /\ UNCHANGED <<ready, machine>>

(* Nothing is taken apart before the request is given up, and nothing is   *)
(* deleted under a machine that runs.                                      *)
Stop(r) == want[r] = "teardown" /\ Becomes(r, {"running", "paused"}, "configured")
Strip(r) == want[r] = "teardown" /\ Becomes(r, {"configured"}, "bare")
Destroy(r) == want[r] = "teardown" /\ Becomes(r, {"bare"}, "absent")
Finish(r) ==
  /\ want[r] = "teardown" /\ machine[r] = "absent"
  /\ want' = [want EXCEPT ![r] = "gone"]
  /\ UNCHANGED <<ready, machine>>

Next == \E r \in Requests :
  \/ Create(r) \/ Configure(r) \/ PowerOn(r) \/ Report(r)
  \/ GuestCrashes(r) \/ GuestDestroyed(r)
  \/ TearDown(r) \/ Stop(r) \/ Strip(r) \/ Destroy(r) \/ Finish(r)

Spec == Init /\ [][Next]_vars
=============================================================================
