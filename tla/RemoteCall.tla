----------------------------- MODULE RemoteCall -----------------------------
(***************************************************************************)
(* What xoCall (internal/pkg/provider/xoclient.go) promises its callers: a *)
(* call is sent, and sent once more if its connection was lost; each time  *)
(* Xen Orchestra executes it at most once, perhaps after the caller gave   *)
(* up; an answer comes only after an execution.                            *)
(***************************************************************************)
EXTENDS Naturals

CONSTANT Callers

VARIABLES
  phase,    \* "idle", "sent" or "resent": how often the call was sent
  pending,  \* how many of the call's sendings may still execute
  executed  \* how many have

vars == <<phase, pending, executed>>

Init ==
  /\ phase = [c \in Callers |-> "idle"]
  /\ pending = [c \in Callers |-> 0]
  /\ executed = [c \in Callers |-> 0]

Send(c) ==
  /\ phase[c] = "idle"
  /\ phase' = [phase EXCEPT ![c] = "sent"]
  /\ pending' = [pending EXCEPT ![c] = 1]
  /\ executed' = [executed EXCEPT ![c] = 0]

(* Whether the lost sending still executes is not known.                   *)
Resend(c) ==
  /\ phase[c] = "sent"
  /\ phase' = [phase EXCEPT ![c] = "resent"]
  /\ pending' = [pending EXCEPT ![c] = @ + 1]
  /\ UNCHANGED executed

Execute(c) ==
  /\ pending[c] > 0
  /\ pending' = [pending EXCEPT ![c] = @ - 1]
  /\ executed' = [executed EXCEPT ![c] = @ + 1]
  /\ UNCHANGED phase

Answer(c) ==
  /\ phase[c] # "idle" /\ executed[c] > 0
  /\ phase' = [phase EXCEPT ![c] = "idle"]
  /\ UNCHANGED <<pending, executed>>

GiveUp(c) ==
  /\ phase[c] # "idle"
  /\ phase' = [phase EXCEPT ![c] = "idle"]
  /\ UNCHANGED <<pending, executed>>

Next == \E c \in Callers :
          Send(c) \/ Resend(c) \/ Execute(c) \/ Answer(c) \/ GiveUp(c)

Spec == Init /\ [][Next]_vars

(* At least once if it is answered, at most twice in any case.             *)
AtMostTwice == \A c \in Callers : executed[c] + pending[c] <= 2
=============================================================================
