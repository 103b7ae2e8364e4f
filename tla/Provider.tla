------------------------------ MODULE Provider ------------------------------
(***************************************************************************)
(* The provider as a whole: the process that starts, crashes and is        *)
(* started again (Startup), the four provision steps of a machine request  *)
(* (provision.go:78-143) and its teardown.  What is behind ensureImage is  *)
(* taken from its contract ImageService, which ImageCache implements, and  *)
(* what is behind syncMachine and Deprovision from MachineLife, which      *)
(* Machine implements.                                                     *)
(*                                                                         *)
(* Omni keeps, across restarts, the step a request is at and its State     *)
(* with the TemplateId; a step that fails leaves both as they were, and    *)
(* Omni runs it again.                                                     *)
(***************************************************************************)
EXTENDS ProviderData, FiniteSets

CONSTANTS
  Requests,     \* Omni machine request ids
  Names,        \* cache names of images
  NameOf,       \* the cache name of a request's installation medium
  TemplateIds,  \* ids Xen Orchestra hands to the templates of builds (a bound)
  Deployments,  \* the environments and provider data that are considered
  MaxFaults     \* faults in a behaviour (a bound)

NoTemplate == "none"
Manual == "manual"    \* the template in Xen Orchestra whose id is "known"

(* A request: the length of its id, and the provider data of its class.    *)
Request == [idLength : Nat, data : Data]

VARIABLES
  env, process,          \* of Startup
  request,               \* the requests, which nothing changes
  at,                    \* how many of its four steps Omni has seen succeed
  want, ready, machine,  \* of MachineLife
  finished,              \* of ImageService
  template,              \* State's TemplateId
  clone,                 \* the template that a request's VM was made from
  faults                 \* how many faults have happened

Startup == INSTANCE Startup
Life == INSTANCE MachineLife
Images == INSTANCE ImageService WITH given <- template

lives == <<want, ready, machine>>
images == <<finished, template>>
vars == <<env, process, request, at, lives, images, clone, faults>>

ASSUME ProviderAssumption ==
  /\ NameOf \in [Requests -> Names]
  /\ {NoTemplate, Manual} \cap TemplateIds = {}
  /\ \A d \in Deployments : /\ d.env \in [Startup!Variables -> Startup!Value]
                            /\ d.request \in [Requests -> Request]
  /\ MaxFaults \in Nat

Init ==
  /\ \E d \in Deployments : env = d.env /\ request = d.request
  /\ process = "down"
  /\ at = [r \in Requests |-> 0]
  /\ Life!Init
  /\ Images!Init
  /\ clone = [r \in Requests |-> NoTemplate]
  /\ faults = 0

Up == process = "up"
data(r) == applyDefaults(request[r].data)

Fault == faults < MaxFaults /\ faults' = faults + 1

-----------------------------------------------------------------------------
(* The provision steps: validateRequest, ensureTarget, ensureImage and     *)
(* syncMachine, in this order.                                             *)

Runs(r, i) == Up /\ want[r] = "running" /\ at[r] = i - 1
Succeeds(r, i) ==
  /\ at' = [at EXCEPT ![r] = i]
  /\ UNCHANGED <<env, process, request, lives, finished, clone>>

validateRequest(r) ==
  /\ Runs(r, 1)
  /\ request[r].idLength <= 63
  /\ Unmarshals(request[r].data)
  /\ validateProviderData(data(r))
  /\ Succeeds(r, 1)
  /\ UNCHANGED <<template, faults>>

(* The ids are looked up as they were given, untrimmed.                    *)
ensureTarget(r) ==
  /\ Runs(r, 2)
  /\ {data(r).poolID, data(r).srID, data(r).networkID} = {"known"}
  /\ Succeeds(r, 2)
  /\ UNCHANGED <<template, faults>>

Automatic(r) == data(r).templateID = "empty"

(* ensureTalosImage with a template_id, which must resolve to a template.  *)
ensureManualImage(r) ==
  /\ Runs(r, 3) /\ data(r).templateID = "known"
  /\ template' = [template EXCEPT ![r] = Manual]
  /\ Succeeds(r, 3)
  /\ UNCHANGED faults

(* Mutant: a build in progress is not waited for. *)
doesNotWait(r) ==
  /\ Runs(r, 3) /\ Automatic(r)
  /\ Images!Give(r) \/ UNCHANGED images
  /\ Succeeds(r, 3)
  /\ UNCHANGED faults

(* Mutant: the template is not looked up by the image's name. *)
ensureAnyImage(r) ==
  /\ Runs(r, 3) /\ Automatic(r)
  /\ \E f \in finished : template' = [template EXCEPT ![r] = f.id]
  /\ Succeeds(r, 3)
  /\ UNCHANGED faults

(* ensureTalosImage without one.  The process may die after TemplateId was *)
(* kept and before the step's success was: the step is then run again.     *)
ensureImage(r) ==
  /\ Runs(r, 3) /\ Automatic(r)
  /\ Images!Give(r)
  /\ \/ Succeeds(r, 3) /\ UNCHANGED faults
     \/ /\ Fault /\ Startup!Stop
        /\ UNCHANGED <<request, at, lives, clone>>

(* A build of the image n ends: the one that requests are waiting for, or, *)
(* after a failure or a restart, one that no tracker knows of.             *)
Finishes(n) ==
  LET free == TemplateIds \ {f.id : f \in finished}
  IN /\ free # {}
     /\ Images!Finish(n, CHOOSE t \in free : TRUE)
     /\ UNCHANGED <<env, process, request, at, lives, clone>>

BuildEnds(n) ==
  /\ \E r \in Requests : Runs(r, 3) /\ Automatic(r) /\ NameOf[r] = n
  /\ \A f \in finished : f.name # n
  /\ Finishes(n)
  /\ UNCHANGED faults

StrayBuildEnds(n) == Finishes(n) /\ Fault

(* What syncMachine's calls do to the VM.  createVM clones the template of *)
(* State, and refuses to without one.                                      *)
createVM(r) ==
  /\ template[r] # NoTemplate
  /\ Life!Create(r)
  /\ clone' = [clone EXCEPT ![r] = template[r]]
Prepares(r) ==
  /\ createVM(r) \/ ((Life!Configure(r) \/ Life!PowerOn(r)) /\ UNCHANGED clone)
  /\ UNCHANGED <<env, process, request, at, images>>

syncMachine(r) ==
  /\ Runs(r, 4) /\ ~ready[r]
  /\ \/ Prepares(r)
     \/ Life!Report(r) /\ UNCHANGED <<env, process, request, at, images, clone>>
  /\ UNCHANGED faults

(* A call of syncMachine takes effect after the process that made it died, *)
(* or after Omni gave the request up.                                      *)
Late(r) == at[r] = 3 /\ Prepares(r) /\ Fault

-----------------------------------------------------------------------------
(* Teardown, the process, and everybody else.                              *)

(* Mutant: what was never provisioned is not looked at. *)
DeprovisionReady(r) ==
  /\ Up /\ ready[r]
  /\ Life!Stop(r) \/ Life!Strip(r) \/ Life!Destroy(r) \/ Life!Finish(r)
  /\ UNCHANGED <<env, process, request, at, images, clone, faults>>

Deprovision(r) ==
  /\ Up
  /\ Life!Stop(r) \/ Life!Strip(r) \/ Life!Destroy(r) \/ Life!Finish(r)
  /\ UNCHANGED <<env, process, request, at, images, clone, faults>>

TearDown(r) ==
  /\ Life!TearDown(r)
  /\ UNCHANGED <<env, process, request, at, images, clone, faults>>

Guest(r) ==
  /\ \/ Life!GuestCrashes(r) /\ Fault
     \/ Life!GuestDestroyed(r) /\ UNCHANGED faults
  /\ UNCHANGED <<env, process, request, at, images, clone>>

Start == Startup!Start /\ UNCHANGED <<request, at, lives, images, clone, faults>>
Crash == Startup!Stop /\ Fault /\ UNCHANGED <<request, at, lives, images, clone>>

AllGone == (\A r \in Requests : want[r] = "gone") /\ UNCHANGED vars

Step(r) == \/ validateRequest(r) \/ ensureTarget(r) \/ ensureManualImage(r)
           \/ ensureImage(r) \/ syncMachine(r)

Next ==
  \/ Start \/ Crash
  \/ \E n \in Names : BuildEnds(n) \/ StrayBuildEnds(n)
  \/ \E r \in Requests :
       Step(r) \/ Late(r) \/ Deprovision(r) \/ TearDown(r) \/ Guest(r)
  \/ AllGone

Spec == Init /\ [][Next]_vars

(* The deployment restarts the process; Omni runs a step until it succeeds *)
(* and Deprovision until it does; a build that is waited for ends          *)
(* (ImageBecomesReady of ImageCache), syncMachine and Deprovision get on   *)
(* (ProvisioningCompletes and TeardownCompletes of Machine), and a paused  *)
(* domain is destroyed.                                                    *)
Fairness ==
  /\ WF_vars(Start)
  /\ \A n \in Names : WF_vars(BuildEnds(n))
  /\ \A r \in Requests :
       WF_vars(Step(r)) /\ WF_vars(Deprovision(r)) /\ WF_vars(Guest(r))
FairSpec == Spec /\ Fairness

-----------------------------------------------------------------------------
(* Properties.                                                             *)

Templates == TemplateIds \cup {Manual}

(* Every variable has its type; a request is at syncMachine only with a    *)
(* template, so that createVM's refusal of an empty one never loops.       *)
TypeOK ==
  /\ process \in {"down", "up"}
  /\ at \in [Requests -> 0..3]
  /\ want \in [Requests -> {"running", "teardown", "gone"}]
  /\ ready \in [Requests -> BOOLEAN]
  /\ machine \in [Requests -> Life!States]
  /\ finished \subseteq [name : Names, id : TemplateIds]
  /\ template \in [Requests -> Templates \cup {NoTemplate}]
  /\ clone \in [Requests -> Templates \cup {NoTemplate}]
  /\ faults \in 0..MaxFaults
  /\ \A r \in Requests : at[r] = 3 => template[r] # NoTemplate

Exist(r) == \A id \in {request[r].data.poolID, request[r].data.srID,
                       request[r].data.networkID} : id = "known"

(* "No VM is created until target validation succeeds" (architecture.md):  *)
(* whatever was restarted, re-run or executed late, a request has a VM     *)
(* only if the data it is made from, an architecture filled in included,   *)
(* is what the schema allows, and its targets exist.                       *)
CreatesOnlyAccepted ==
  \A r \in Requests :
    machine[r] # "absent" => /\ request[r].idLength <= 63
                             /\ SchemaAccepts(data(r))
                             /\ Exist(r)

(* A VM is made from the template its class names, or from one that was    *)
(* finished for its own image, also when the step that chose the template  *)
(* was cut off and run again.                                              *)
ClonesItsImage ==
  \A r \in Requests :
    machine[r] # "absent" =>
      \/ request[r].data.templateID = "known" /\ clone[r] = Manual
      \/ /\ request[r].data.templateID = "empty"
         /\ [name |-> NameOf[r], id |-> clone[r]] \in finished

RunsOnlyUsable == Startup!RunsOnlyUsable
StartsUp == Startup!StartsUp

Servable(r) ==
  /\ Startup!Usable
  /\ request[r].idLength <= 63
  /\ SchemaAccepts(request[r].data) /\ request[r].data.memory <= MaxInt
  /\ Exist(r) /\ request[r].data.templateID \in {"empty", "known"}

(* What the schema allows is served: under an environment that can work, a *)
(* request whose targets exist becomes ready, unless Omni gives it up or   *)
(* the pool has two templates of its image.                                *)
Several(n) == \E f, g \in finished : f.name = n /\ g.name = n /\ f # g
Served ==
  \A r \in Requests :
    Servable(r) /\ want[r] = "running"
      ~> ready[r] \/ want[r] # "running" \/ Several(NameOf[r])

(* Whatever a request was stuck at, it can be given up.                    *)
TornDown ==
  \A r \in Requests :
    Startup!Usable /\ want[r] = "teardown" ~> want[r] = "gone"
=============================================================================
