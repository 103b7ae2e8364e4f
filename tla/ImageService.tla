---------------------------- MODULE ImageService ----------------------------
(***************************************************************************)
(* What ensureImage promises the rest of the provider: a template that a   *)
(* request is given was finished for its own image before it was given,    *)
(* and is never of another image.  Which build made it, how many were made *)
(* and who waited for them is left open.                                   *)
(***************************************************************************)
CONSTANTS
  Requests,
  Names,       \* cache names of images
  NameOf,      \* the cache name of a request's image
  TemplateIds,
  NoTemplate
VARIABLES
  finished,    \* the templates ever finished, each with the name of its image
  given        \* the template each request was given

vars == <<finished, given>>

Init == finished = {} /\ given = [r \in Requests |-> NoTemplate]

(* A template is of one image only. *)
Finish(n, t) ==
  /\ \A f \in finished : f.id # t
  /\ finished' = finished \cup {[name |-> n, id |-> t]}
  /\ UNCHANGED given

(* A request whose step is run again is given a template again. *)
Give(r) ==
  /\ \E f \in finished : f.name = NameOf[r] /\ given' = [given EXCEPT ![r] = f.id]
  /\ UNCHANGED finished

Next ==
  \/ \E n \in Names, t \in TemplateIds : Finish(n, t)
  \/ \E r \in Requests : Give(r)

Spec == Init /\ [][Next]_vars
=============================================================================
