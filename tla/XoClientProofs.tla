--------------------------- MODULE XoClientProofs ---------------------------
(***************************************************************************)
(* What holds of XoClient for every number of callers, of lost connections *)
(* and of failed redials.                                                  *)
(***************************************************************************)
EXTENDS XoClient, FiniteSetTheorems, TLAPS

LEMMA TypeStep == TypeOK /\ [Next]_vars => TypeOK'
<1> SUFFICES ASSUME TypeOK, [Next]_vars PROVE TypeOK'
  OBVIOUS
<1> USE XoClientAssumption DEF calls, conns, losses, Goes, Ends, Suspect
<1>1. ASSUME NEW c \in Callers, Get(c) PROVE TypeOK'
  BY <1>1 DEF TypeOK, Get
<1>2. ASSUME NEW c \in Callers, Executes(c) PROVE TypeOK'
  BY <1>2 DEF TypeOK, Executes
<1>3. ASSUME NEW c \in Callers, Answered(c) PROVE TypeOK'
  BY <1>3 DEF TypeOK, Answered
<1>4. ASSUME NEW c \in Callers, Closed(c) \/ Misread(c) PROVE TypeOK'
  <2>1. /\ pc[c] \in {"first", "second"} /\ pc[c] # "dial"
        /\ \/ pc' = [pc EXCEPT ![c] = "reconnect"] /\ result' = result
           \/ /\ pc' = [pc EXCEPT ![c] = "idle"]
              /\ result' = [result EXCEPT ![c] = "lost"]
        /\ UNCHANGED <<client, pending, executed, conns, writer, dead, closed, refused>>
    BY <1>4 DEF Closed, Misread, Loses
  <2>2. misread' = misread \/ misread' = misread \cup {client[c]}
    BY <1>4 DEF Closed, Misread
  <2>3. misread' \subseteq 1..dialed'
    <3>1. client[c] \in 1..dialed /\ misread \subseteq 1..dialed
      BY DEF TypeOK
    <3>2. misread' \subseteq 1..dialed
      BY <2>2, <3>1
    <3>3. dialed' = dialed
      BY <2>1
    <3> QED  BY <3>2, <3>3
  <2>4. /\ pc' \in [Callers -> {"idle", "first", "reconnect", "dial", "second"}]
        /\ result' \in [Callers -> {"none", "answered", "lost", "unrecognised"}]
    BY <2>1 DEF TypeOK
  <2>5. \A d \in Callers : pc'[d] = "dial" <=> pc[d] = "dial"
    BY <2>1 DEF TypeOK
  <2> QED  BY <2>1, <2>3, <2>4, <2>5 DEF TypeOK
<1>5. ASSUME NEW c \in Callers, Reuses(c) PROVE TypeOK'
  BY <1>5 DEF TypeOK, Reuses, Sends
<1>6. ASSUME NEW c \in Callers, Dials(c) PROVE TypeOK'
  BY <1>6 DEF TypeOK, Dials
<1>7. ASSUME NEW c \in Callers, Connected(c) PROVE TypeOK'
  <2>1. 1..dialed \subseteq 1..(dialed + 1) /\ dialed + 1 \in 1..(dialed + 1)
    BY DEF TypeOK
  <2>2. \A d \in Callers : writer' = d <=> pc'[d] = "dial"
    BY <1>7 DEF TypeOK, Connected, Sends
  <2> QED  BY <1>7, <2>1, <2>2 DEF TypeOK, Connected, Sends
<1>8. ASSUME NEW c \in Callers, Refused(c) PROVE TypeOK'
  BY <1>8 DEF TypeOK, Refused
<1>9. ASSUME NEW k \in 1..dialed, Dies(k) \/ Notices(k) PROVE TypeOK'
  BY <1>9 DEF TypeOK, Dies, Notices
<1>10. ASSUME NEW c \in Callers, Unrecognised(c) PROVE TypeOK'
  BY <1>10 DEF TypeOK, Unrecognised
<1>11. CASE UNCHANGED vars
  BY <1>11 DEF TypeOK, vars
<1> QED
  BY <1>1, <1>2, <1>3, <1>4, <1>5, <1>6, <1>7, <1>8, <1>9, <1>10, <1>11 DEF Next, Step

(* Every variable keeps its type, and only the caller that dials holds     *)
(* x.mu (xoclient.go:59-75).                                               *)
THEOREM TypeCorrect == Spec => []TypeOK
<1>1. Init => TypeOK
  BY XoClientAssumption DEF Init, TypeOK
<1> QED  BY <1>1, TypeStep, PTL DEF Spec

-----------------------------------------------------------------------------
(* What a caller knows of the connections.                                 *)

Replaced ==
  /\ current = dialed
  /\ OneDialPerLoss
  /\ \A c \in Callers : pc[c] \in {"reconnect", "dial"} => client[c] \in Suspect
  /\ \A c \in Callers : pc[c] = "dial" => client[c] = current
  /\ \A c \in Callers : pc[c] = "second" => \E j \in Suspect : j # client[c]
  /\ OneKnownLossIsInvisible

LEMMA ReplacedStep == TypeOK /\ Replaced /\ [Next]_vars => Replaced'
<1> SUFFICES ASSUME TypeOK, Replaced, [Next]_vars PROVE Replaced'
  OBVIOUS
<1> USE XoClientAssumption
    DEF calls, conns, losses, Goes, Ends, Suspect, Replaced, OneDialPerLoss,
        OneKnownLossIsInvisible
<1>1. ASSUME NEW c \in Callers, Get(c) \/ Answered(c) PROVE Replaced'
  BY <1>1 DEF TypeOK, Get, Answered
<1>2. ASSUME NEW c \in Callers, Executes(c) PROVE Replaced'
  BY <1>2 DEF TypeOK, Executes
<1>3. ASSUME NEW c \in Callers, Closed(c) PROVE Replaced'
  BY <1>3 DEF TypeOK, Closed, Loses
<1>4. ASSUME NEW c \in Callers, Misread(c) PROVE Replaced'
  BY <1>4 DEF TypeOK, Misread, Loses
<1>5. ASSUME NEW c \in Callers, Reuses(c) PROVE Replaced'
  BY <1>5 DEF TypeOK, Reuses, Sends
<1>6. ASSUME NEW c \in Callers, Dials(c) PROVE Replaced'
  BY <1>6 DEF TypeOK, Dials
<1>7. ASSUME NEW c \in Callers, Connected(c) PROVE Replaced'
  <2>1. client[c] = dialed /\ dialed \in Suspect /\ UNCHANGED <<dead, misread, refused>>
    BY <1>7 DEF Connected
  <2>2. dialed' = dialed + 1 /\ current' = dialed + 1 /\ dialed \in Nat
    BY <1>7 DEF Connected, TypeOK
  <2>3. \A k \in 1..(dialed' - 1) : k \in Suspect'
    BY <2>1, <2>2
  <2>4. \A d \in Callers : d # c => /\ pc'[d] = pc[d] /\ client'[d] = client[d]
                                    /\ pc[d] # "dial"
    BY <1>7 DEF Connected, Sends, TypeOK
  <2>5. pc'[c] = "second" /\ client'[c] = dialed + 1 /\ result' = result
    BY <1>7 DEF Connected, Sends, TypeOK
  <2> QED  BY <2>1, <2>2, <2>3, <2>4, <2>5
<1>8. ASSUME NEW c \in Callers, Refused(c) PROVE Replaced'
  BY <1>8 DEF TypeOK, Refused
<1>9. ASSUME NEW k \in 1..dialed, Dies(k) \/ Notices(k) PROVE Replaced'
  BY <1>9 DEF TypeOK, Dies, Notices
<1>10. ASSUME NEW c \in Callers, Unrecognised(c) PROVE Replaced'
  BY <1>10 DEF TypeOK, Unrecognised
<1>11. CASE UNCHANGED vars
  BY <1>11 DEF vars
<1> QED
  BY <1>1, <1>2, <1>3, <1>4, <1>5, <1>6, <1>7, <1>8, <1>9, <1>10, <1>11 DEF Next, Step

LEMMA ReplacedHolds == Spec => []Replaced
<1>1. Init => Replaced
  BY DEF Init, Replaced, OneDialPerLoss, OneKnownLossIsInvisible
<1> QED  BY <1>1, ReplacedStep, TypeCorrect, PTL DEF Spec

(* However many callers find a connection lost at the same time, it is     *)
(* replaced once; a live one only after a misread error.                   *)
THEOREM OneDialHolds == Spec => []OneDialPerLoss
<1>1. Replaced => OneDialPerLoss
  BY DEF Replaced
<1> QED  BY <1>1, ReplacedHolds, PTL

(* The loss of a single connection, reported by an error that              *)
(* isConnectionClosed knows, is never a caller's error, unless Xen         *)
(* Orchestra could not be reached again (xoclient.go:107-123).             *)
THEOREM OneKnownLossHolds == Spec => []OneKnownLossIsInvisible
<1>1. Replaced => OneKnownLossIsInvisible
  BY DEF Replaced
<1> QED  BY <1>1, ReplacedHolds, PTL

-----------------------------------------------------------------------------
(* That xoCall keeps what RemoteCall promises.                             *)

SentOnce(c) ==
  /\ pc[c] \in {"first", "reconnect", "dial"} => pending[c] \subseteq {client[c]}
  /\ pc[c] \in {"first", "second"} /\ client[c] \notin pending[c] => executed[c] > 0

Sent ==
  /\ pending \in [Callers -> SUBSET Nat]
  /\ \A c \in Callers : IsFiniteSet(pending[c]) /\ SentOnce(c)

(* A step of one caller leaves what was sent for the others as it is.      *)
LEMMA OthersSent ==
  ASSUME Sent, NEW c \in Callers,
         pending' \in [Callers -> SUBSET Nat],
         \A d \in Callers \ {c} : /\ pc'[d] = pc[d] /\ client'[d] = client[d]
                                  /\ pending'[d] = pending[d]
                                  /\ executed'[d] = executed[d],
         IsFiniteSet(pending'[c]), SentOnce(c)'
  PROVE  Sent'
  BY DEF Sent, SentOnce

LEMMA SentStep == TypeOK /\ Sent /\ [Next]_vars => Sent'
<1> SUFFICES ASSUME TypeOK, Sent, [Next]_vars PROVE Sent'
  OBVIOUS
<1> USE XoClientAssumption DEF calls, conns, losses, Goes, Ends
<1>1. ASSUME NEW c \in Callers, Get(c) PROVE Sent'
  <2>1. pending'[c] = {current} /\ client'[c] = current /\ pc'[c] = "first"
    BY <1>1 DEF Get, TypeOK, Sent
  <2>2. IsFiniteSet(pending'[c])
    BY <2>1, FS_Singleton
  <2>3. pending' \in [Callers -> SUBSET Nat] /\ SentOnce(c)'
    BY <1>1, <2>1 DEF Get, TypeOK, Sent, SentOnce
  <2> QED  BY <1>1, <2>2, <2>3, OthersSent DEF Get, TypeOK, Sent
<1>2. ASSUME NEW c \in Callers, Executes(c) PROVE Sent'
  <2>1. PICK k \in pending[c] : pending' = [pending EXCEPT ![c] = @ \ {k}]
    BY <1>2 DEF Executes
  <2>2. IsFiniteSet(pending'[c])
    BY <2>1, FS_RemoveElement DEF Sent
  <2>3. executed'[c] > 0 /\ pending'[c] \subseteq pending[c]
    BY <1>2, <2>1 DEF Executes, TypeOK, Sent
  <2>4. pending' \in [Callers -> SUBSET Nat] /\ SentOnce(c)'
    BY <1>2, <2>1, <2>3 DEF Executes, TypeOK, Sent, SentOnce
  <2> QED  BY <1>2, <2>1, <2>2, <2>4, OthersSent DEF Executes, TypeOK, Sent
<1>3. ASSUME NEW c \in Callers,
             \/ Answered(c) \/ Closed(c) \/ Misread(c) \/ Unrecognised(c)
             \/ Dials(c) \/ Refused(c)
      PROVE Sent'
  <2>1. UNCHANGED <<client, pending, executed>>
    BY <1>3 DEF Answered, Closed, Misread, Unrecognised, Loses, Dials, Refused
  <2>2. \/ pc' = [pc EXCEPT ![c] = "idle"]
        \/ pc[c] \in {"first", "reconnect"} /\ pc' = [pc EXCEPT ![c] = "reconnect"]
        \/ pc[c] \in {"first", "reconnect"} /\ pc' = [pc EXCEPT ![c] = "dial"]
    BY <1>3 DEF Answered, Closed, Misread, Unrecognised, Loses, Dials, Refused
  <2>3. SentOnce(c)'
    BY <2>1, <2>2 DEF TypeOK, Sent, SentOnce
  <2> QED  BY <2>1, <2>2, <2>3, OthersSent DEF TypeOK, Sent
<1>4. ASSUME NEW c \in Callers, Reuses(c) \/ Connected(c) PROVE Sent'
  <2>1. PICK k \in Nat : Sends(c, k)
    BY <1>4 DEF Reuses, Connected, TypeOK
  <2>2. pending'[c] = pending[c] \cup {k} /\ client'[c] = k /\ pc'[c] = "second"
    BY <2>1 DEF Sends, TypeOK, Sent
  <2>3. IsFiniteSet(pending'[c])
    BY <2>2, FS_AddElement DEF Sent
  <2>4. pending' \in [Callers -> SUBSET Nat] /\ SentOnce(c)'
    BY <2>1, <2>2 DEF Sends, Sent, SentOnce
  <2> QED  BY <2>1, <2>3, <2>4, OthersSent DEF Sends, TypeOK, Sent
<1>5. CASE UNCHANGED <<pc, client, pending, executed>>
  BY <1>5 DEF Sent, SentOnce
<1> QED
  BY <1>1, <1>2, <1>3, <1>4, <1>5 DEF Next, Step, Dies, Notices, vars

LEMMA SentHolds == Spec => []Sent
<1>1. Init => Sent
  BY FS_EmptySet DEF Init, Sent, SentOnce
<1> QED  BY <1>1, SentStep, TypeCorrect, PTL DEF Spec

(* Every step of xoCall and reconnect is a step of RemoteCall or changes   *)
(* nothing that it speaks of.                                              *)
LEMMA RemoteStep == TypeOK /\ Replaced /\ Sent /\ [Next]_vars => [Remote!Next]_(Remote!vars)
<1> SUFFICES ASSUME TypeOK, Replaced, Sent, [Next]_vars
             PROVE  Remote!Next \/ UNCHANGED Remote!vars
  BY DEF Remote!vars
<1> USE DEF calls, conns, losses, Goes, Ends, Phase
<1>1. ASSUME NEW c \in Callers, Get(c) PROVE Remote!Send(c)
  <2>1. pending'[c] = {current} /\ Cardinality({current}) = 1
    BY <1>1, FS_Singleton DEF Get, Sent
  <2> QED  BY <1>1, <2>1 DEF Get, TypeOK, Sent, Remote!Send
<1>2. ASSUME NEW c \in Callers, Executes(c) PROVE Remote!Execute(c)
  <2>1. PICK k \in pending[c] : pending' = [pending EXCEPT ![c] = @ \ {k}]
    BY <1>2 DEF Executes
  <2>2. /\ Cardinality(pending'[c]) = Cardinality(pending[c]) - 1
        /\ Cardinality(pending[c]) > 0
    <3>1. IsFiniteSet(pending[c]) /\ pending'[c] = pending[c] \ {k}
      BY <2>1 DEF Sent
    <3>2. Cardinality(pending[c] \ {k}) = Cardinality(pending[c]) - 1
      BY <3>1, FS_RemoveElement
    <3>3. Cardinality(pending[c]) \in Nat /\ Cardinality(pending[c]) # 0
      BY <3>1, FS_CardinalityType, FS_EmptySet
    <3> QED  BY <3>1, <3>2, <3>3
  <2> QED  BY <1>2, <2>1, <2>2 DEF Executes, TypeOK, Sent, Remote!Execute
<1>3. ASSUME NEW c \in Callers, Answered(c) PROVE Remote!Answer(c)
  BY <1>3 DEF Answered, TypeOK, Sent, SentOnce, Remote!Answer
<1>4. ASSUME NEW c \in Callers,
             \/ Closed(c) \/ Misread(c) \/ Unrecognised(c)
             \/ Dials(c) \/ Refused(c)
      PROVE  Remote!GiveUp(c) \/ UNCHANGED Remote!vars
  <2>1. UNCHANGED <<client, pending, executed>>
    BY <1>4 DEF Closed, Misread, Unrecognised, Loses, Dials, Refused
  <2>2. \/ pc[c] # "idle" /\ pc' = [pc EXCEPT ![c] = "idle"]
        \/ pc[c] \in {"first", "reconnect"} /\ pc' = [pc EXCEPT ![c] = "reconnect"]
        \/ pc[c] \in {"first", "reconnect"} /\ pc' = [pc EXCEPT ![c] = "dial"]
    BY <1>4 DEF Closed, Misread, Unrecognised, Loses, Dials, Refused
  <2> QED  BY <2>1, <2>2 DEF TypeOK, Remote!GiveUp, Remote!vars
<1>5. ASSUME NEW c \in Callers, Reuses(c) \/ Connected(c) PROVE Remote!Resend(c)
  <2>1. PICK k \in Nat : Sends(c, k) /\ k \notin pending[c] /\ pc[c] \in {"reconnect", "dial"}
    BY <1>5 DEF Reuses, Connected, TypeOK, Sent, SentOnce, Replaced
  <2>2. pending'[c] = pending[c] \cup {k}
    BY <2>1 DEF Sends, Sent
  <2>3. Cardinality(pending'[c]) = Cardinality(pending[c]) + 1
    <3>1. IsFiniteSet(pending[c])
      BY DEF Sent
    <3>2. Cardinality(pending[c] \cup {k}) = Cardinality(pending[c]) + 1
      BY <2>1, <3>1, FS_AddElement
    <3> QED  BY <2>2, <3>2
  <2> QED  BY <2>1, <2>2, <2>3 DEF Sends, TypeOK, Sent, Remote!Resend
<1>6. CASE UNCHANGED <<pc, pending, executed>>
  BY <1>6 DEF Remote!vars
<1> QED
  BY <1>1, <1>2, <1>3, <1>4, <1>5, <1>6 DEF Next, Step, Dies, Notices, vars, Remote!Next

(* xoCall with reconnect implements RemoteCall: a call is sent at most     *)
(* twice, each sending is executed at most once, and an answer comes only  *)
(* after an execution (xoclient.go:107-123).                               *)
THEOREM Implements == Spec => SendsAtMostTwice
<1>1. Init => Remote!Init
  BY FS_EmptySet DEF Init, Remote!Init, Phase
<1> QED
  BY <1>1, RemoteStep, TypeCorrect, ReplacedHolds, SentHolds, PTL
     DEF Spec, SendsAtMostTwice, Remote!Spec
=============================================================================
