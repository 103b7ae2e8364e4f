------------------------------ MODULE XoClient ------------------------------
(***************************************************************************)
(* xoCall and reconnect (internal/pkg/provider/xoclient.go): goroutines    *)
(* share one Xen Orchestra connection behind a read-write lock; a call     *)
(* whose error isConnectionClosed takes for the loss of the connection     *)
(* replaces it, unless another call already did, and is sent once more.    *)
(* The test goes by the error's text, so it errs both ways: Misread and    *)
(* Unrecognised.  Connections are numbered in the order they are made.     *)
(***************************************************************************)
EXTENDS Naturals, FiniteSets

CONSTANTS
  Callers,      \* goroutines that make one call after another
  NoCaller,
  MaxLosses,    \* how many errors that look like a lost connection (a bound)
  MaxRedials    \* how many attempts to connect may fail (a bound)

ASSUME XoClientAssumption ==
  /\ NoCaller \notin Callers
  /\ MaxLosses \in Nat /\ MaxRedials \in Nat

VARIABLES
  pc,        \* where a caller is in xoCall
  client,    \* the connection it holds
  pending,   \* the connections on which its call was sent and not executed
  executed,  \* how often its call was executed
  result,    \* how its last call ended
  current,   \* x.current
  writer,    \* who holds x.mu for writing, while connect() runs
  dialed,    \* how many connections were ever made
  dead,      \* the connections that died
  closed,    \* the dead ones whose end the SDK has noticed
  misread,   \* the live ones an error was mistaken for the loss of
  refused    \* how many attempts to connect failed

vars == <<pc, client, pending, executed, result, current, writer, dialed, dead,
          closed, misread, refused>>
calls == <<client, pending, executed, result>>
conns == <<current, dialed>>
losses == <<dead, closed, misread, refused>>

Suspect == dead \cup misread

Init ==
  /\ pc = [c \in Callers |-> "idle"]
  /\ client = [c \in Callers |-> 1]
  /\ pending = [c \in Callers |-> {}]
  /\ executed = [c \in Callers |-> 0]
  /\ result = [c \in Callers |-> "none"]
  /\ current = 1 /\ dialed = 1
  /\ writer = NoCaller
  /\ dead = {} /\ closed = {} /\ misread = {} /\ refused = 0

Goes(c, where) == pc' = [pc EXCEPT ![c] = where]
Ends(c, how) == Goes(c, "idle") /\ result' = [result EXCEPT ![c] = how]

(* get(), which waits while another caller dials.                          *)
Get(c) ==
  /\ pc[c] = "idle" /\ writer = NoCaller
  /\ Goes(c, "first")
  /\ client' = [client EXCEPT ![c] = current]
  /\ pending' = [pending EXCEPT ![c] = {current}]
  /\ executed' = [executed EXCEPT ![c] = 0]
  /\ result' = [result EXCEPT ![c] = "none"]
  /\ UNCHANGED <<conns, writer, losses>>

(* Xen Orchestra executes a sending of c's call, if it ever arrived.       *)
Executes(c) ==
  /\ \E k \in pending[c] : pending' = [pending EXCEPT ![c] = @ \ {k}]
  /\ executed' = [executed EXCEPT ![c] = @ + 1]
  /\ UNCHANGED <<pc, client, result, conns, writer, losses>>

(* The call returns, with a result or with Xen Orchestra's error.          *)
Answered(c) ==
  /\ pc[c] \in {"first", "second"}
  /\ client[c] \notin dead /\ client[c] \notin pending[c]
  /\ Ends(c, "answered")
  /\ UNCHANGED <<client, pending, executed, conns, writer, losses>>

(* Mutant: every loss is retried. *)
RetriesForever(c) ==
  /\ pc[c] \in {"first", "second"}
  /\ Goes(c, "reconnect")
  /\ UNCHANGED calls

(* The call's connection was lost: the first time it is replaced, the      *)
(* second time the loss is the call's error.                               *)
Loses(c) ==
  \/ /\ pc[c] = "first" /\ Goes(c, "reconnect")
     /\ UNCHANGED calls
  \/ /\ pc[c] = "second" /\ Ends(c, "lost")
     /\ UNCHANGED <<client, pending, executed>>

(* The call ends with jsonrpc2.ErrClosed or with one of the five texts     *)
(* isConnectionClosed knows.                                               *)
Closed(c) ==
  /\ client[c] \in dead
  /\ Loses(c)
  /\ UNCHANGED <<conns, writer, losses>>

(* It ends with an error of its transport that isConnectionClosed does not *)
(* know ("connection reset by peer", "i/o timeout", "EOF"), which is       *)
(* returned at once.  It is that of a lost socket, or of an upload's own   *)
(* HTTP connection; a call on a connection the SDK knows to be closed ends *)
(* with jsonrpc2.ErrClosed.                                                *)
Unrecognised(c) ==
  /\ pc[c] \in {"first", "second"} /\ client[c] \notin closed
  /\ Ends(c, "unrecognised")
  /\ UNCHANGED <<client, pending, executed, conns, writer, losses>>

(* f(fresh)                                                                *)
Sends(c, k) ==
  /\ Goes(c, "second")
  /\ client' = [client EXCEPT ![c] = k]
  /\ pending' = [pending EXCEPT ![c] = @ \cup {k}]
  /\ UNCHANGED <<executed, result>>

(* Mutant: the stale connection is used when another caller is dialing. *)
ReusesAny(c) ==
  /\ pc[c] = "reconnect"
  /\ Sends(c, current)
  /\ UNCHANGED <<conns, writer, losses>>

(* Another caller has replaced the connection already.                     *)
Reuses(c) ==
  /\ pc[c] = "reconnect" /\ writer = NoCaller
  /\ current # client[c]
  /\ Sends(c, current)
  /\ UNCHANGED <<conns, writer, losses>>

(* Mutant: the connection is replaced without a look at the current one. *)
AlwaysDials(c) ==
  /\ pc[c] = "reconnect" /\ writer = NoCaller
  /\ Goes(c, "dial") /\ writer' = c
  /\ UNCHANGED <<calls, conns, losses>>

Dials(c) ==
  /\ pc[c] = "reconnect" /\ writer = NoCaller
  /\ current = client[c]
  /\ Goes(c, "dial") /\ writer' = c
  /\ UNCHANGED <<calls, conns, losses>>

Connected(c) ==
  /\ pc[c] = "dial"
  /\ dialed' = dialed + 1 /\ current' = dialed + 1
  /\ Sends(c, dialed + 1)
  /\ writer' = NoCaller
  /\ UNCHANGED losses

(* Mutant: the lock is not released when connect() fails. *)
RefusedLocked(c) ==
  /\ pc[c] = "dial" /\ refused < MaxRedials
  /\ refused' = refused + 1
  /\ Ends(c, "lost")
  /\ UNCHANGED <<writer, client, pending, executed, conns, dead, closed, misread>>

(* connect() fails: the old connection stays, for the next caller to try.  *)
Refused(c) ==
  /\ pc[c] = "dial" /\ refused < MaxRedials
  /\ refused' = refused + 1
  /\ Ends(c, "lost")
  /\ writer' = NoCaller
  /\ UNCHANGED <<client, pending, executed, conns, dead, closed, misread>>

MayLose == Cardinality(dead) + Cardinality(misread) < MaxLosses

(* A socket dies, whether or not anybody is using it.                      *)
Dies(k) ==
  /\ MayLose /\ k \notin dead
  /\ dead' = dead \cup {k}
  /\ UNCHANGED <<pc, calls, conns, writer, closed, misread, refused>>

(* The SDK's reader sees the end of a dead socket: from then on every call *)
(* on it ends with jsonrpc2.ErrClosed.                                     *)
Notices(k) ==
  /\ k \in dead \ closed
  /\ closed' = closed \cup {k}
  /\ UNCHANGED <<pc, calls, conns, writer, dead, misread, refused>>

(* The HTTP connection of an upload breaks: its error ("unexpected EOF")   *)
(* reads like the loss of the socket, which is well.                       *)
Misread(c) ==
  /\ MayLose /\ client[c] \notin dead
  /\ misread' = misread \cup {client[c]}
  /\ Loses(c)
  /\ UNCHANGED <<conns, writer, dead, closed, refused>>

Step(c) ==
  \/ Get(c) \/ Answered(c) \/ Closed(c)
  \/ Reuses(c) \/ Dials(c) \/ Connected(c) \/ Refused(c)

Next ==
  \/ \E c \in Callers : Step(c) \/ Executes(c) \/ Misread(c) \/ Unrecognised(c)
  \/ \E k \in 1..dialed : Dies(k) \/ Notices(k)

Spec == Init /\ [][Next]_vars

(* Callers go on calling (Omni re-runs its reconciles), Xen Orchestra      *)
(* executes and answers, connect() returns, and the SDK notices the end of *)
(* a socket.  Nothing promises an error that isConnectionClosed knows.     *)
Fairness ==
  /\ \A c \in Callers : WF_vars(Step(c)) /\ WF_vars(Executes(c))
  /\ WF_vars(\E k \in 1..dialed : Notices(k))
FairSpec == Spec /\ Fairness

-----------------------------------------------------------------------------
(* Properties.                                                             *)

(* Every variable has its type; the writer is the caller that dials.       *)
TypeOK ==
  /\ pc \in [Callers -> {"idle", "first", "reconnect", "dial", "second"}]
  /\ client \in [Callers -> 1..dialed]
  /\ \A c \in Callers : pending[c] \subseteq 1..dialed
  /\ executed \in [Callers -> Nat]
  /\ result \in [Callers -> {"none", "answered", "lost", "unrecognised"}]
  /\ dialed \in Nat /\ current \in 1..dialed
  /\ dead \subseteq 1..dialed /\ closed \subseteq dead /\ misread \subseteq 1..dialed
  /\ refused \in Nat
  /\ \A c \in Callers : writer = c <=> pc[c] = "dial"
  /\ writer \in Callers \cup {NoCaller}

(* "A burst of concurrent failures produces one new connection rather than *)
(* one per caller" (xoclient.go:57): a connection is replaced once, and    *)
(* only after an error that said it was lost.                              *)
OneDialPerLoss == \A k \in 1..(dialed - 1) : k \in Suspect

(* "A dead connection is replaced and the failed call is retried once"     *)
(* (xoclient.go:30), where isConnectionClosed knows the error: no call     *)
(* fails with a loss it knows unless connecting failed or a second         *)
(* connection was lost too.  A loss it does not know is the call's error.  *)
OneKnownLossIsInvisible ==
  \A c \in Callers :
    result[c] = "lost" => refused > 0 \/ \E j, k \in Suspect : j # k

(* Every call returns: nobody waits for x.mu forever.                      *)
CallsReturn == \A c \in Callers : pc[c] # "idle" ~> pc[c] = "idle"

(* "Keeps a usable Xen Orchestra client available for the lifetime of the  *)
(* provider" (xoclient.go:18): a dead connection is replaced, however many *)
(* calls it ends with errors isConnectionClosed does not know.             *)
Recovers == current \in dead ~> current \notin dead

(* What the callers rely on: the call was sent at most twice, an answer    *)
(* means that it was executed, and a loss does not mean that it was not.   *)
Phase(c) == CASE pc[c] = "idle"   -> "idle"
              [] pc[c] = "second" -> "resent"
              [] OTHER            -> "sent"
Remote == INSTANCE RemoteCall WITH
  phase <- [c \in Callers |-> Phase(c)],
  pending <- [c \in Callers |-> Cardinality(pending[c])]
SendsAtMostTwice == Remote!Spec
=============================================================================
