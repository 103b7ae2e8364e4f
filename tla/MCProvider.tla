----------------------------- MODULE MCProvider -----------------------------
(* Instances of Provider for TLC.                                          *)
EXTENDS Provider, TLC

CONSTANTS r1, r2, n1, n2

SameImage == [r \in Requests |-> n1]

U == Startup!Unset
R == Startup!Right
V(t, s) == [text |-> t, space |-> s]

(* An environment as in the documentation, with a token or a password.     *)
Token == [OMNI_ENDPOINT |-> R, OMNI_SERVICE_ACCOUNT_KEY |-> R, XOA_ENDPOINT |-> R,
          XOA_HOST |-> U, XOA_TOKEN |-> R, XOA_USERNAME |-> U, XOA_PASSWORD |-> U]
Password == [Token EXCEPT !.XOA_TOKEN = U, !.XOA_USERNAME = R, !.XOA_PASSWORD = R]

(* Every value of one variable, in either; both of XOA_ENDPOINT's names;   *)
(* every combination of credentials.                                       *)
Values == {R, U, V("empty", "around"), V("wrong", "none"), V("right", "around"),
           V("right", "inside")}
Environments ==
  {[e EXCEPT ![x] = v] : e \in {Token, Password}, x \in Startup!Variables, v \in Values}
    \cup {[Token EXCEPT !.XOA_ENDPOINT = v, !.XOA_HOST = w] : v, w \in Values}
    \cup {[Token EXCEPT !.XOA_TOKEN = t, !.XOA_USERNAME = u, !.XOA_PASSWORD = p] :
            t, u, p \in {R, U, V("empty", "around"), V("wrong", "none")}}

(* Provider data that works, and everything one field makes of it.         *)
Good == [poolID |-> "known", srID |-> "known", networkID |-> "known",
         templateID |-> "empty", architecture |-> "amd64", cores |-> 1,
         memory |-> 2048, diskSize |-> 5]
Datas ==
  {[Good EXCEPT ![f] = i] : f \in {"poolID", "srID", "networkID", "templateID"}, i \in Ids}
    \cup {[Good EXCEPT !.architecture = a] : a \in {"empty", "amd64", "arm64"}}
    \cup {[Good EXCEPT !.cores = c] : c \in {-1, 0, 1}}
    \cup {[Good EXCEPT !.memory = m] : m \in {-1, 2047, 2048, MaxInt, MaxInt + 1}}
    \cup {[Good EXCEPT !.diskSize = s] : s \in {-1, 4, 5}}
GoodRequest == [idLength |-> 63, data |-> Good]
LongRequest == [idLength |-> 64, data |-> Good]
AllRequests == {[idLength |-> 63, data |-> d] : d \in Datas} \cup {LongRequest}

(* Requests of two kinds beside each other, in an environment that works.  *)
Pair(q1, q2) ==
  [env |-> Token, request |-> [r \in Requests |-> IF r = r1 THEN q1 ELSE q2]]

(* A good request beside a good one and beside one that is refused; any    *)
(* other beside one that is refused; and any environment, with requests    *)
(* that need no more of it than to be torn down.                           *)
AllDeployments ==
  {Pair(q, GoodRequest) : q \in {GoodRequest, LongRequest}}
    \cup {Pair(q, LongRequest) : q \in AllRequests}
    \cup {[env |-> e, request |-> [r \in Requests |-> LongRequest]] : e \in Environments}
=============================================================================
