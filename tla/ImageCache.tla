----------------------------- MODULE ImageCache -----------------------------
(***************************************************************************)
(* ensureGoldenTemplate and the detached builds it starts                  *)
(* (internal/pkg/provider/image.go): concurrent machine requests share a   *)
(* per-process tracker, imageBuilds, of one imageBuild per cache name; the *)
(* goroutine of a build makes a template in Xen Orchestra in a sequence of *)
(* calls that may fail or be cut off by the death of the process.          *)
(***************************************************************************)
EXTENDS Naturals, FiniteSets

CONSTANTS
  Requests,    \* machine requests that run ensureImage
  Names,       \* cache names
  Pools,
  NameOf,      \* the cache name of a request's installation medium
  PoolOf,      \* the pool of a request's machine class
  Builds,      \* imageBuild objects, numbered; reused when garbage (a bound)
  FaultKinds,  \* which of AllFaultKinds may happen
  MaxFaults    \* how many of them may happen in a behaviour (a bound)

NoBuild == 0
AllFaultKinds == {"fail", "error", "lag", "crash", "delete"}

ASSUME ImageCacheAssumption ==
  /\ Requests # {}
  /\ NameOf \in [Requests -> Names] /\ PoolOf \in [Requests -> Pools]
  /\ Builds \subseteq Nat \ {0}
  /\ FaultKinds \subseteq AllFaultKinds
  /\ MaxFaults \in Nat

VARIABLES
  step,         \* where a request is in ensureImage; "ready" when it is over
  held,         \* the imageBuild it loaded or stored
  templateId,   \* pctx.State TemplateId: the build that made the template
  imageBuilds,  \* the tracker: the imageBuild of each cache name, if any
  build,        \* the imageBuild objects, with the pool their goroutine uses
  work,         \* the call a build's goroutine waits for
  lost,         \* builds whose process died; their last call may still execute
  image,        \* what each build has made in Xen Orchestra
  faults        \* how many faults of each kind have happened

vars == <<step, held, templateId, imageBuilds, build, work, lost, image, faults>>
tracker == <<imageBuilds, build>>
goroutines == <<work, lost>>

(* importGoldenTemplate's calls, in order, and what each leaves behind.    *)
After == [download |-> "upload", upload |-> "base", base |-> "create",
          create |-> "attach", attach |-> "convert", convert |-> "none"]
Stages == DOMAIN After
Makes(b) == CASE work[b] = "upload"  -> "vdi"
              [] work[b] = "create"  -> "seed"
              [] work[b] = "attach"  -> "disk"
              [] work[b] = "convert" -> "template"
              [] OTHER               -> image[b]
Executes(b) == image' = [image EXCEPT ![b] = Makes(b)]

BuildRecord == [name : Names, pool : Pools, state : {"pending", "done", "failed"},
                templateId : Builds \cup {NoBuild}]

Init ==
  /\ step = [r \in Requests |-> "ensure"]
  /\ held = [r \in Requests |-> NoBuild]
  /\ templateId = [r \in Requests |-> NoBuild]
  /\ imageBuilds = [n \in Names |-> NoBuild]
  /\ build = [b \in Builds |-> [name |-> CHOOSE n \in Names : TRUE,
                                pool |-> CHOOSE p \in Pools : TRUE,
                                state |-> "pending", templateId |-> NoBuild]]
  /\ work = [b \in Builds |-> "none"]
  /\ lost = {}
  /\ image = [b \in Builds |-> "none"]
  /\ faults = [k \in AllFaultKinds |-> 0]

(* Objects nothing refers to.                                              *)
Garbage == {b \in Builds :
              /\ work[b] = "none" /\ image[b] = "none"
              /\ \A r \in Requests : held[r] # b /\ templateId[r] # b
              /\ \A n \in Names : imageBuilds[n] # b}
Fresh == {b \in Garbage : \A c \in Garbage : b <= c}

Running(b) == work[b] # "none" /\ b \notin lost
Fault(k) ==
  /\ k \in FaultKinds
  /\ faults.fail + faults.error + faults.lag + faults.crash + faults.delete
       < MaxFaults
  /\ faults' = [faults EXCEPT ![k] = @ + 1]

-----------------------------------------------------------------------------
(* ensureGoldenTemplate, for a request.                                    *)

(* Mutant: Load, then Store, whatever was loaded. *)
Stores(r) ==
  /\ step[r] = "ensure"
  /\ \E b \in Fresh :
       /\ imageBuilds' = [imageBuilds EXCEPT ![NameOf[r]] = b]
       /\ build' = [build EXCEPT ![b] =
            [name |-> NameOf[r], pool |-> PoolOf[r], state |-> "pending",
             templateId |-> NoBuild]]
       /\ held' = [held EXCEPT ![r] = b]
  /\ step' = [step EXCEPT ![r] = "lookup"]
  /\ UNCHANGED <<templateId, goroutines, image, faults>>

(* LoadOrStore: the first request of a name goes on to look the template   *)
(* up, the others to the imageBuild it stored.                             *)
LoadOrStore(r) ==
  /\ step[r] = "ensure"
  /\ \/ /\ imageBuilds[NameOf[r]] = NoBuild
        /\ \E b \in Fresh :
             /\ imageBuilds' = [imageBuilds EXCEPT ![NameOf[r]] = b]
             /\ build' = [build EXCEPT ![b] =
                  [name |-> NameOf[r], pool |-> PoolOf[r], state |-> "pending",
                   templateId |-> NoBuild]]
             /\ held' = [held EXCEPT ![r] = b]
        /\ step' = [step EXCEPT ![r] = "lookup"]
     \/ /\ imageBuilds[NameOf[r]] # NoBuild
        /\ held' = [held EXCEPT ![r] = imageBuilds[NameOf[r]]]
        /\ step' = [step EXCEPT ![r] = "check"]
        /\ UNCHANGED tracker
  /\ UNCHANGED <<templateId, goroutines, image, faults>>

(* Mutant: the lookup is not by name. *)
AnyTemplates(n, p) == {b \in Builds : image[b] = "template" /\ build[b].pool = p}

Templates(n, p) == {b \in Builds : image[b] = "template"
                                     /\ build[b].name = n /\ build[b].pool = p}

(* GetTemplate's answer to r: the templates of the name in r's pool, or,   *)
(* while the session's object sync lags, fewer.                            *)
Answers(r, ts) ==
  LET all == Templates(NameOf[r], PoolOf[r])
  IN /\ step[r] = "lookup"
     /\ \/ ts = all /\ UNCHANGED faults
        \/ Fault("lag") /\ ts \in SUBSET all /\ ts # all

(* The imageBuild b is done, with template t.                              *)
Done(b, t) ==
  build' = [build EXCEPT ![b] = [build[b] EXCEPT !.state = "done", !.templateId = t]]

(* Step r returns: not ready yet, or an error.  Omni runs it again.        *)
Again(r) ==
  /\ step' = [step EXCEPT ![r] = "ensure"]
  /\ held' = [held EXCEPT ![r] = NoBuild]
Untrack(r) == imageBuilds' = [imageBuilds EXCEPT ![NameOf[r]] = NoBuild]
Checks(r) == step' = [step EXCEPT ![r] = "check"] /\ UNCHANGED held

LookupFindsOne(r) ==
  /\ \E t \in Builds : Answers(r, {t}) /\ Done(held[r], t)
  /\ Checks(r)
  /\ UNCHANGED <<templateId, imageBuilds, goroutines, image>>

LookupFindsMany(r) ==
  /\ \E ts \in SUBSET Builds : Answers(r, ts) /\ Cardinality(ts) > 1
  /\ Untrack(r) /\ Again(r)
  /\ UNCHANGED <<templateId, build, goroutines, image>>

LookupFails(r) ==
  /\ step[r] = "lookup" /\ Fault("error")
  /\ Untrack(r) /\ Again(r)
  /\ UNCHANGED <<templateId, build, goroutines, image>>

(* go p.buildGoldenTemplate(...)                                           *)
LookupFindsNone(r) ==
  /\ Answers(r, {})
  /\ work' = [work EXCEPT ![held[r]] = "download"]
  /\ Checks(r)
  /\ UNCHANGED <<templateId, tracker, lost, image>>

(* Mutant: a failed build stays in the tracker. *)
CheckKeepsFailed(r) ==
  /\ step[r] = "check" /\ build[held[r]].state = "failed"
  /\ Again(r)
  /\ UNCHANGED <<templateId, tracker, goroutines, image, faults>>

(* The delete is of whatever the name has in the tracker by now.           *)
CheckFailed(r) ==
  /\ step[r] = "check" /\ build[held[r]].state = "failed"
  /\ Untrack(r) /\ Again(r)
  /\ UNCHANGED <<templateId, build, goroutines, image, faults>>

CheckPending(r) ==
  /\ step[r] = "check" /\ build[held[r]].state = "pending"
  /\ Again(r)
  /\ UNCHANGED <<templateId, tracker, goroutines, image, faults>>

(* Mutant: the imageBuild is taken as done when it has no error. *)
CheckNotFailed(r) ==
  /\ step[r] = "check" /\ build[held[r]].state # "failed"
  /\ templateId' = [templateId EXCEPT ![r] = build[held[r]].templateId]
  /\ step' = [step EXCEPT ![r] = "ready"]
  /\ held' = [held EXCEPT ![r] = NoBuild]
  /\ UNCHANGED <<tracker, goroutines, image, faults>>

CheckDone(r) ==
  /\ step[r] = "check" /\ build[held[r]].state = "done"
  /\ templateId' = [templateId EXCEPT ![r] = build[held[r]].templateId]
  /\ step' = [step EXCEPT ![r] = "ready"]
  /\ held' = [held EXCEPT ![r] = NoBuild]
  /\ UNCHANGED <<tracker, goroutines, image, faults>>

-----------------------------------------------------------------------------
(* buildGoldenTemplate, for a build.                                       *)

(* A call but the last returns: the next one is made.                      *)
BuildAdvances(b) ==
  /\ Running(b) /\ work[b] # "convert"
  /\ Executes(b)
  /\ work' = [work EXCEPT ![b] = After[work[b]]]
  /\ UNCHANGED <<step, held, templateId, tracker, lost, faults>>

BuildSucceeds(b) ==
  /\ Running(b) /\ work[b] = "convert"
  /\ Executes(b)
  /\ work' = [work EXCEPT ![b] = "none"]
  /\ Done(b, b)
  /\ UNCHANGED <<step, held, templateId, imageBuilds, lost, faults>>

(* Mutant: the failure is logged and not recorded. *)
BuildFailsSilently(b) ==
  /\ Running(b) /\ Fault("fail")
  /\ Executes(b) \/ UNCHANGED image
  /\ work' = [work EXCEPT ![b] = "none"]
  /\ UNCHANGED <<step, held, templateId, tracker, lost>>

(* A call fails, which does not mean that Xen Orchestra did nothing.       *)
(* Nothing the build made is removed.                                      *)
BuildFails(b) ==
  /\ Running(b) /\ Fault("fail")
  /\ Executes(b) \/ UNCHANGED image
  /\ work' = [work EXCEPT ![b] = "none"]
  /\ build' = [build EXCEPT ![b].state = "failed"]
  /\ UNCHANGED <<step, held, templateId, imageBuilds, lost>>

-----------------------------------------------------------------------------
(* The process and everybody else.                                         *)

(* The tracker, the requests' steps and the builds die with the process.   *)
Crash ==
  /\ Fault("crash")
  /\ step' = [r \in Requests |-> IF step[r] = "ready" THEN "ready" ELSE "ensure"]
  /\ held' = [r \in Requests |-> NoBuild]
  /\ imageBuilds' = [n \in Names |-> NoBuild]
  /\ lost' = lost \cup {b \in Builds : Running(b)}
  /\ UNCHANGED <<templateId, build, work, image>>

(* The call a dead build was waiting for executes, or never will.          *)
LateCall(b) ==
  /\ b \in lost
  /\ Executes(b) \/ UNCHANGED image
  /\ work' = [work EXCEPT ![b] = "none"]
  /\ lost' = lost \ {b}
  /\ UNCHANGED <<step, held, templateId, tracker, faults>>

(* An operator removes a cached template (images-and-extensions.md).       *)
OperatorDeletes(b) ==
  /\ image[b] = "template" /\ Fault("delete")
  /\ image' = [image EXCEPT ![b] = "deleted"]
  /\ UNCHANGED <<step, held, templateId, tracker, goroutines>>

AllReady == (\A r \in Requests : step[r] = "ready") /\ UNCHANGED vars

EnsureImage(r) ==
  \/ LoadOrStore(r) \/ LookupFindsOne(r) \/ LookupFindsMany(r) \/ LookupFindsNone(r)
  \/ CheckFailed(r) \/ CheckPending(r) \/ CheckDone(r)

Build(b) == BuildAdvances(b) \/ BuildSucceeds(b)

Next ==
  \/ \E r \in Requests : EnsureImage(r) \/ LookupFails(r)
  \/ \E b \in Builds : Build(b) \/ BuildFails(b) \/ LateCall(b) \/ OperatorDeletes(b)
  \/ Crash
  \/ AllReady

Spec == Init /\ [][Next]_vars

(* Omni runs the step again until it returns nil; Xen Orchestra and the    *)
(* image factory answer; a dead build's call does not stay undecided.      *)
Fairness ==
  /\ \A r \in Requests : WF_vars(EnsureImage(r))
  /\ \A b \in Builds : WF_vars(Build(b)) /\ WF_vars(LateCall(b))
FairSpec == Spec /\ Fairness

-----------------------------------------------------------------------------
(* Properties.                                                             *)

(* Every variable has its type; a request in the middle of a call holds an *)
(* imageBuild, and one that returned ready has a template, as a build that *)
(* is done has: createVM never gets an empty id.                           *)
TypeOK ==
  /\ step \in [Requests -> {"ensure", "lookup", "check", "ready"}]
  /\ held \in [Requests -> Builds \cup {NoBuild}]
  /\ templateId \in [Requests -> Builds \cup {NoBuild}]
  /\ imageBuilds \in [Names -> Builds \cup {NoBuild}]
  /\ build \in [Builds -> BuildRecord]
  /\ work \in [Builds -> Stages \cup {"none"}]
  /\ lost \subseteq Builds
  /\ image \in [Builds -> {"none", "vdi", "seed", "disk", "template", "deleted"}]
  /\ faults \in [AllFaultKinds -> Nat]
  /\ \A r \in Requests :
       /\ step[r] \in {"lookup", "check"} => held[r] \in Builds
       /\ step[r] = "ready" => templateId[r] \in Builds
  /\ \A b \in Builds : build[b].state = "done" => build[b].templateId \in Builds

(* The template a request is given was made from its own image and was     *)
(* finished: "considered complete once the seed VM has been successfully   *)
(* converted" (compatibility.md).                                          *)
ReturnsItsImage ==
  \A r \in Requests :
    step[r] = "ready" => /\ build[templateId[r]].name = NameOf[r]
                         /\ image[templateId[r]] \in {"template", "deleted"}

Concurrent(n) ==
  \E b, c \in Builds : /\ b # c /\ Running(b) /\ Running(c)
                       /\ build[b].name = n /\ build[c].name = n

(* "Safe behavior during concurrent first-time requests within a single    *)
(* provider process" (development.md): a name is never built twice at the  *)
(* same time.                                                              *)
OneBuildPerImage == \A n \in Names : ~Concurrent(n)

(* It holds as long as no build has failed, whatever lookups answer, the   *)
(* operator deletes and crashes interrupt.                                 *)
OneBuildUntilOneFails == faults.fail = 0 => OneBuildPerImage

(* Requests running at the same time never end up with two templates of a  *)
(* name in a pool; it takes a failure, a crash or a lookup that lagged.    *)
DuplicatesNeedAFault ==
  \A n \in Names, p \in Pools :
    Cardinality(Templates(n, p)) > 1
      => faults.fail + faults.crash + faults.lag > 0

(* Nothing removes what a build that ended early has made.  It takes a     *)
(* failure or a crash to leave something, and one leaves no more than one  *)
(* VDI or seed VM of an image, whoever waited for it and whatever is built *)
(* anew.  (A second fault may find two builds running: OneBuildPerImage.)  *)
Leftovers(n) == {b \in Builds : /\ build[b].name = n /\ ~Running(b)
                               /\ image[b] \in {"vdi", "seed", "disk"}}
OneLeftoverPerFault ==
  faults.fail + faults.crash <= 1 =>
    \A n \in Names : Cardinality(Leftovers(n)) <= faults.fail + faults.crash

(* A cached template is looked up "in the configured pool"                 *)
(* (images-and-extensions.md): the one a request gets is in its pool.      *)
TemplateInPool ==
  \A r \in Requests : step[r] = "ready" => build[templateId[r]].pool = PoolOf[r]

(* What the requests, the tracker and the builds do as ImageService sees   *)
(* it: a template that was deleted was finished all the same.              *)
FinishedTemplates == {b \in Builds : image[b] \in {"template", "deleted"}}
Service == INSTANCE ImageService WITH
  TemplateIds <- Builds, NoTemplate <- NoBuild, given <- templateId,
  finished <- {[name |-> build[b].name, id |-> b] : b \in FinishedTemplates}

(* The tracker, the lookups, the builds and what crashes and late calls    *)
(* make of them implement ImageService: what a request is given was        *)
(* finished for its image before, and no template ever changes its image.  *)
ServesImages == Service!Spec

(* A failed build is "retried from scratch" (compatibility.md), and one a  *)
(* restart cut off too: every request gets its template, unless its pool   *)
(* has two of the name, which only an operator can resolve.                *)
ImageBecomesReady ==
  \A r \in Requests :
    []<>(step[r] = "ready" \/ Cardinality(Templates(NameOf[r], PoolOf[r])) > 1)
=============================================================================
