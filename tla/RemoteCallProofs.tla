-------------------------- MODULE RemoteCallProofs --------------------------
(***************************************************************************)
(* What every caller of xoCall may rely on, whoever keeps RemoteCall.      *)
(***************************************************************************)
EXTENDS RemoteCall, TLAPS

(* While a call is under way its sendings are accounted for exactly; what  *)
(* a caller that gave up left behind never exceeds them.                   *)
Counted ==
  /\ phase \in [Callers -> {"idle", "sent", "resent"}]
  /\ pending \in [Callers -> Nat] /\ executed \in [Callers -> Nat]
  /\ \A c \in Callers : phase[c] = "sent" => executed[c] + pending[c] = 1
  /\ AtMostTwice

LEMMA CountedStep == Counted /\ [Next]_vars => Counted'
<1> SUFFICES ASSUME Counted, [Next]_vars PROVE Counted'
  OBVIOUS
<1> USE DEF Counted, AtMostTwice
<1>1. ASSUME NEW c \in Callers, Send(c) PROVE Counted'
  BY <1>1 DEF Send
<1>2. ASSUME NEW c \in Callers, Resend(c) PROVE Counted'
  BY <1>2 DEF Resend
<1>3. ASSUME NEW c \in Callers, Execute(c) PROVE Counted'
  BY <1>3 DEF Execute
<1>4. ASSUME NEW c \in Callers, Answer(c) \/ GiveUp(c) PROVE Counted'
  BY <1>4 DEF Answer, GiveUp
<1>5. CASE UNCHANGED vars
  BY <1>5 DEF vars
<1> QED  BY <1>1, <1>2, <1>3, <1>4, <1>5 DEF Next

(* A call is executed at most twice, counting the executions that are      *)
(* still to come.                                                          *)
THEOREM TwiceHolds == Spec => []AtMostTwice
<1>1. Init => Counted
  BY DEF Init, Counted, AtMostTwice
<1>2. Counted => AtMostTwice
  BY DEF Counted
<1> QED  BY <1>1, <1>2, CountedStep, PTL DEF Spec
=============================================================================
