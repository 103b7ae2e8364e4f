------------------------------ MODULE Machine ------------------------------
(***************************************************************************)
(* The life of one Omni machine request in Xen Orchestra: the syncMachine  *)
(* provision step and Deprovision (internal/pkg/provider/provision.go),    *)
(* every call of theirs going through xoCall (xoclient.go), over a store   *)
(* of VMs and VDIs that calls, guests and abandoned calls change.          *)
(*                                                                         *)
(* A reconcile is a sequence of calls; job[r].pc is the call that request  *)
(* r is waiting for.  A call that changes the store executes when it       *)
(* returns, unless the connection or the process is lost while it is       *)
(* outstanding: then it is abandoned and may still execute later.  A call  *)
(* that reads the store does so when it returns; what it read is kept in   *)
(* the job and may be stale by the time it is used.                        *)
(***************************************************************************)
EXTENDS Naturals, FiniteSets

CONSTANTS
  Requests,    \* Omni machine request ids: the VM names the code looks up
  NoReq,
  VmIds,       \* ids Xen Orchestra hands to new VMs, in order   (a bound)
  VdiIds,      \* ids Xen Orchestra hands to new VDIs, in order  (a bound)
  FaultKinds,  \* which of AllFaultKinds may happen
  MaxFaults,   \* how many of them may happen in a behaviour (a bound)
  Prompt       \* TRUE: an abandoned call has executed or died before Xen
               \* Orchestra answers the next call of the same request

NoVm == 0
NoVdi == 0
AllFaultKinds == {"drop", "crash", "reject", "guest"}

ASSUME MachineAssumption ==
  /\ NoReq \notin Requests
  /\ VmIds \subseteq Nat \ {0} /\ VdiIds \subseteq Nat \ {0}
  /\ FaultKinds \subseteq AllFaultKinds
  /\ MaxFaults \in Nat
  /\ Prompt \in BOOLEAN

VARIABLES
  want,    \* what Omni wants of a request: "running", "teardown" or "gone"
  job,     \* the reconcile in progress of a request: its pc and its locals
  uuid,    \* pctx.State Uuid, kept by Omni across reconciles
  ready,   \* syncMachine has returned nil: Omni shows the machine provisioned
  vms,     \* Xen Orchestra's VMs
  vdis,    \* Xen Orchestra's VDIs
  late,    \* abandoned calls that may still execute
  faults   \* how many faults have happened

vars == <<want, job, uuid, ready, vms, vdis, late, faults>>
omni == <<want, uuid, ready>>
store == <<vms, vdis>>
env == <<late, faults>>

(* The calls of syncMachine and of Deprovision, in the order they are made. *)
SyncCalls == {"findVM", "vm.create", "vm.set", "getDisks", "disk.import",
              "vm.attachDisk", "vm.start"}
DeprovisionCalls == {"d.findVM", "vm.stop", "d.getVIFs", "vif.delete",
                     "d.getDisks", "vdi.delete", "vm.delete"}
(* The calls that change the store. *)
Mutating == {"vm.create", "vm.set", "disk.import", "vm.attachDisk", "vm.start",
             "vm.stop", "vif.delete", "vdi.delete", "vm.delete"}
(* The calls made on a VM that findVM, or vm.create, returned. *)
OnVm == (SyncCalls \cup DeprovisionCalls)
          \ {"findVM", "vm.create", "d.findVM"}

Powers == {"unused", "Halted", "Running", "Paused", "deleted"}
VmRecord == [name : Requests \cup {NoReq}, power : Powers,
             pinned : BOOLEAN, vif : BOOLEAN]
VdiRecord == [kind : {"unused", "boot", "cidata", "deleted"},
              owner : Requests \cup {NoReq}, at : VmIds \cup {NoVm}]
Job == [pc : {"idle"} \cup SyncCalls \cup DeprovisionCalls, again : BOOLEAN,
        vm : VmIds \cup {NoVm}, power : Powers, vdi : VdiIds \cup {NoVdi},
        disks : SUBSET VdiIds]
Abandoned == [req : Requests, pc : Mutating, vm : VmIds \cup {NoVm},
              vdi : VdiIds \cup {NoVdi}, n : Nat]

Idle == [pc |-> "idle", again |-> FALSE, vm |-> NoVm, power |-> "unused",
         vdi |-> NoVdi, disks |-> {}]

Init ==
  /\ want = [r \in Requests |-> "running"]
  /\ job = [r \in Requests |-> Idle]
  /\ uuid = [r \in Requests |-> NoVm]
  /\ ready = [r \in Requests |-> FALSE]
  /\ vms = [v \in VmIds |-> [name |-> NoReq, power |-> "unused",
                             pinned |-> FALSE, vif |-> FALSE]]
  /\ vdis = [d \in VdiIds |-> [kind |-> "unused", owner |-> NoReq, at |-> NoVm]]
  /\ late = {}
  /\ faults = 0

-----------------------------------------------------------------------------
(* Xen Orchestra: what a call finds and what it does.                      *)

Present(v) == v \in VmIds /\ vms[v].power \in {"Halted", "Running", "Paused"}
Named(r) == {v \in VmIds : Present(v) /\ vms[v].name = r}
DisksOf(v) == {d \in VdiIds : vdis[d].at = v}
ConfigDrives(v) == {d \in DisksOf(v) : vdis[d].kind = "cidata"}

(* Ids are never used again: the next one, if the pool is not full.        *)
FreeVms == {v \in VmIds : vms[v].power = "unused" /\
              \A w \in VmIds : w < v => vms[w].power # "unused"}
FreeVdis == {d \in VdiIds : vdis[d].kind = "unused" /\
              \A e \in VdiIds : e < d => vdis[e].kind # "unused"}

(* Whether a call is accepted.  A full pool refuses to create. *)
Accepts(o) ==
  CASE o.pc = "vm.create"     -> FreeVms # {} /\ FreeVdis # {}
    [] o.pc = "disk.import"   -> FreeVdis # {}
    [] o.pc = "vm.set"        -> Present(o.vm)
    [] o.pc = "vm.attachDisk" -> /\ Present(o.vm)
                                 /\ vdis[o.vdi].kind = "cidata"
                                 /\ vdis[o.vdi].at = NoVm
    [] o.pc = "vm.start"      -> Present(o.vm) /\ vms[o.vm].power = "Halted"
    [] o.pc = "vm.stop"       -> Present(o.vm) /\ vms[o.vm].power # "Halted"
    [] o.pc = "vif.delete"    -> /\ Present(o.vm) /\ vms[o.vm].vif
                                 /\ vms[o.vm].power = "Halted"
    [] o.pc = "vdi.delete"    -> /\ vdis[o.vdi].kind # "deleted"
                                 /\ vms[o.vm].power \in {"Halted", "deleted"}
    [] o.pc = "vm.delete"     -> Present(o.vm) /\ vms[o.vm].power = "Halted"
    [] OTHER                  -> FALSE

(* vm.create clones the template: a halted VM with its boot disk and VIF,  *)
(* and the template's memory range until the SDK's vm.set pins it.         *)
VmCreate(r, v, d) ==
  /\ vms' = [vms EXCEPT ![v] = [name |-> r, power |-> "Halted",
                                pinned |-> FALSE, vif |-> TRUE]]
  /\ vdis' = [vdis EXCEPT ![d] = [kind |-> "boot", owner |-> r, at |-> v]]

DiskImport(r, d) ==
  /\ vdis' = [vdis EXCEPT ![d] = [kind |-> "cidata", owner |-> r, at |-> NoVm]]
  /\ UNCHANGED vms

AttachDisk(v, d) == vdis' = [vdis EXCEPT ![d].at = v] /\ UNCHANGED vms

VdiDelete(d) ==
  /\ vdis' = [vdis EXCEPT ![d].kind = "deleted", ![d].at = NoVm]
  /\ UNCHANGED vms

(* vm.delete leaves a disk that was attached after the listing behind.     *)
VmDelete(v) ==
  /\ vms' = [vms EXCEPT ![v].power = "deleted"]
  /\ vdis' = [d \in VdiIds |-> IF vdis[d].at = v
                               THEN [vdis[d] EXCEPT !.at = NoVm] ELSE vdis[d]]

(* The call o, of a request or abandoned by one, executes.                 *)
Executes(o) ==
  /\ Accepts(o)
  /\ \/ /\ o.pc = "vm.create"
        /\ \E v \in FreeVms, d \in FreeVdis : VmCreate(o.req, v, d)
     \/ o.pc = "disk.import" /\ \E d \in FreeVdis : DiskImport(o.req, d)
     \/ o.pc = "vm.attachDisk" /\ AttachDisk(o.vm, o.vdi)
     \/ o.pc = "vdi.delete" /\ VdiDelete(o.vdi)
     \/ o.pc = "vm.delete" /\ VmDelete(o.vm)
     \/ /\ UNCHANGED vdis
        /\ \/ o.pc = "vm.set" /\ vms' = [vms EXCEPT ![o.vm].pinned = TRUE]
           \/ o.pc = "vm.start" /\ vms' = [vms EXCEPT ![o.vm].power = "Running"]
           \/ o.pc = "vm.stop" /\ vms' = [vms EXCEPT ![o.vm].power = "Halted"]
           \/ o.pc = "vif.delete" /\ vms' = [vms EXCEPT ![o.vm].vif = FALSE]

-----------------------------------------------------------------------------
(* How a job moves.                                                        *)

Call(r) == [req |-> r, pc |-> job[r].pc, vm |-> job[r].vm, vdi |-> job[r].vdi,
            n |-> faults]

(* Request r's call pc is answered.                                        *)
Returns(r, pc) ==
  /\ job[r].pc = pc
  /\ Prompt => \A o \in late : o.req # r

(* The next xoCall, with j's locals: a fresh call, not yet retried.        *)
Calls(r, pc, j) ==
  job' = [job EXCEPT ![r] = [j EXCEPT !.pc = pc, !.again = FALSE]]

Ends(r) == job' = [job EXCEPT ![r] = Idle]

(* Uuid is set from the VM that was found only when it is still empty.     *)
FoundUuid(r) == IF uuid[r] = NoVm THEN job[r].vm ELSE uuid[r]
StepEnds(r) == Ends(r) /\ uuid' = [uuid EXCEPT ![r] = FoundUuid(r)]

(* The step returns an error; State written by it may or may not be kept.  *)
StepFails(r) ==
  /\ Ends(r)
  /\ \/ UNCHANGED uuid
     \/ /\ job[r].pc \in {"getDisks", "disk.import", "vm.attachDisk", "vm.start"}
        /\ uuid' = [uuid EXCEPT ![r] = FoundUuid(r)]
  /\ UNCHANGED <<want, ready>>

-----------------------------------------------------------------------------
(* syncMachine.                                                            *)

(* findVM's answer: the VM's id, and its power state as it was then.       *)
Found(v) == [Idle EXCEPT !.vm = v, !.power = vms[v].power]

BeginSync(r) ==
  /\ want[r] = "running" /\ job[r].pc = "idle"
  /\ Calls(r, "findVM", Idle)
  /\ UNCHANGED <<omni, store, env>>

(* Mutant: the "vm == nil" branch is dropped. *)
FindsNoneFallsThrough(r) ==
  /\ Returns(r, "findVM") /\ Named(r) = {}
  /\ Calls(r, "getDisks", Idle)
  /\ UNCHANGED <<omni, store, env>>

(* Mutant: the lookup sees running VMs only. *)
FindsNoneRunning(r) ==
  /\ Returns(r, "findVM") /\ \A v \in Named(r) : vms[v].power # "Running"
  /\ Calls(r, "vm.create", Idle)
  /\ UNCHANGED <<omni, store, env>>

FindsNone(r) ==
  /\ Returns(r, "findVM") /\ Named(r) = {}
  /\ Calls(r, "vm.create", Idle)
  /\ UNCHANGED <<omni, store, env>>

FindsOne(r) ==
  /\ Returns(r, "findVM")
  /\ \E v \in VmIds :
       /\ Named(r) = {v}
       /\ Calls(r, "getDisks", Found(v))
  /\ UNCHANGED <<omni, store, env>>

(* More than one VM has the name: provisioning and deprovisioning both     *)
(* fail until somebody removes one.                                        *)
FindsMany(r) ==
  /\ Returns(r, "findVM") \/ Returns(r, "d.findVM")
  /\ \E v, w \in Named(r) : v # w
  /\ Ends(r)
  /\ UNCHANGED <<omni, store, env>>

(* CreateVm is two calls of one xoCall: the second keeps the first's       *)
(* attempt.                                                                *)
VmCreateReturns(r) ==
  /\ Returns(r, "vm.create")
  /\ \E v \in FreeVms, d \in FreeVdis :
       /\ VmCreate(r, v, d)
       /\ job' = [job EXCEPT ![r] = [job[r] EXCEPT !.pc = "vm.set", !.vm = v]]
  /\ UNCHANGED <<omni, env>>

VmSetReturns(r) ==
  /\ Returns(r, "vm.set")
  /\ Executes(Call(r))
  /\ Ends(r) /\ uuid' = [uuid EXCEPT ![r] = job[r].vm]
  /\ UNCHANGED <<want, ready, env>>

(* Mutant: the drive is uploaded without looking for one. *)
AlwaysUploads(r) ==
  /\ Returns(r, "getDisks")
  /\ Calls(r, "disk.import", job[r])
  /\ UNCHANGED <<omni, store, env>>

HasNoDrive(r) ==
  /\ Returns(r, "getDisks")
  /\ ConfigDrives(job[r].vm) = {}
  /\ Calls(r, "disk.import", job[r])
  /\ UNCHANGED <<omni, store, env>>

(* Mutant: the machine is powered on before its drive is looked for. *)
PowersOnFirst(r) ==
  /\ Returns(r, "getDisks")
  /\ job[r].power # "Running"
  /\ Calls(r, "vm.start", job[r])
  /\ UNCHANGED <<omni, store, env>>

(* Mutant: the step ends without powering the machine on. *)
NeverPowersOn(r) ==
  /\ Returns(r, "getDisks")
  /\ ConfigDrives(job[r].vm) # {} /\ job[r].power # "Running"
  /\ StepEnds(r)
  /\ UNCHANGED <<want, ready, store, env>>

HasDriveHalted(r) ==
  /\ Returns(r, "getDisks")
  /\ ConfigDrives(job[r].vm) # {} /\ job[r].power # "Running"
  /\ Calls(r, "vm.start", job[r])
  /\ UNCHANGED <<omni, store, env>>

(* Mutant: nothing is done, whatever the VM lacks. *)
Settles(r) ==
  /\ Returns(r, "getDisks")
  /\ StepEnds(r) /\ ready' = [ready EXCEPT ![r] = TRUE]
  /\ UNCHANGED <<want, store, env>>

HasDriveRunning(r) ==
  /\ Returns(r, "getDisks")
  /\ ConfigDrives(job[r].vm) # {} /\ job[r].power = "Running"
  /\ StepEnds(r) /\ ready' = [ready EXCEPT ![r] = TRUE]
  /\ UNCHANGED <<want, store, env>>

(* Mutant: the uploaded drive is left to the next reconcile to attach. *)
ImportsOnly(r) ==
  /\ Returns(r, "disk.import")
  /\ \E d \in FreeVdis : DiskImport(r, d)
  /\ StepEnds(r)
  /\ UNCHANGED <<want, ready, env>>

DiskImportReturns(r) ==
  /\ Returns(r, "disk.import")
  /\ \E d \in FreeVdis :
       /\ DiskImport(r, d)
       /\ Calls(r, "vm.attachDisk", [job[r] EXCEPT !.vdi = d])
  /\ UNCHANGED <<omni, env>>

(* Both end in a RetryInterval: the machine is looked at again in 5 s.     *)
AttachOrStartReturns(r) ==
  /\ Returns(r, "vm.attachDisk") \/ Returns(r, "vm.start")
  /\ Executes(Call(r))
  /\ StepEnds(r)
  /\ UNCHANGED <<want, ready, env>>

-----------------------------------------------------------------------------
(* Deprovision.                                                            *)

BeginDeprovision(r) ==
  /\ want[r] = "teardown" /\ job[r].pc = "idle"
  /\ Calls(r, "d.findVM", Idle)
  /\ UNCHANGED <<omni, store, env>>

(* Mutant: the lookup sees running VMs only. *)
DeprovisionFindsNoneRunning(r) ==
  /\ Returns(r, "d.findVM") /\ \A v \in Named(r) : vms[v].power # "Running"
  /\ Ends(r) /\ want' = [want EXCEPT ![r] = "gone"]
  /\ UNCHANGED <<uuid, ready, store, env>>

DeprovisionFindsNone(r) ==
  /\ Returns(r, "d.findVM") /\ Named(r) = {}
  /\ Ends(r) /\ want' = [want EXCEPT ![r] = "gone"]
  /\ UNCHANGED <<uuid, ready, store, env>>

(* Mutant: the lookup does not filter by name. *)
DeprovisionFindsAny(r) ==
  /\ Returns(r, "d.findVM")
  /\ \E v \in VmIds :
       /\ Present(v)
       /\ Calls(r, IF vms[v].power = "Running" THEN "vm.stop" ELSE "d.getVIFs",
                Found(v))
  /\ UNCHANGED <<omni, store, env>>

(* Mutant: a running VM is not stopped. *)
DeprovisionNeverStops(r) ==
  /\ Returns(r, "d.findVM")
  /\ \E v \in VmIds :
       /\ Named(r) = {v}
       /\ Calls(r, "d.getVIFs", Found(v))
  /\ UNCHANGED <<omni, store, env>>

(* Only a VM seen Running is stopped; a Paused one goes the same way as a  *)
(* halted one.                                                             *)
DeprovisionFindsOne(r) ==
  /\ Returns(r, "d.findVM")
  /\ \E v \in VmIds :
       /\ Named(r) = {v}
       /\ Calls(r, IF vms[v].power = "Running" THEN "vm.stop" ELSE "d.getVIFs",
                Found(v))
  /\ UNCHANGED <<omni, store, env>>

VmStopReturns(r) ==
  /\ Returns(r, "vm.stop")
  /\ Executes(Call(r)) /\ Ends(r)
  /\ UNCHANGED <<omni, env>>

GetVIFsReturns(r) ==
  /\ Returns(r, "d.getVIFs")
  /\ Calls(r, IF vms[job[r].vm].vif THEN "vif.delete" ELSE "d.getDisks", job[r])
  /\ UNCHANGED <<omni, store, env>>

VifDeleteReturns(r) ==
  /\ Returns(r, "vif.delete")
  /\ Executes(Call(r)) /\ Calls(r, "d.getDisks", job[r])
  /\ UNCHANGED <<omni, env>>

(* The loop over the listed disks, those of ds being left; then DeleteVm.  *)
NextDisk(r, ds) ==
  \/ ds = {} /\ Calls(r, "vm.delete", job[r])
  \/ \E d \in ds : Calls(r, "vdi.delete",
                         [job[r] EXCEPT !.vdi = d, !.disks = ds \ {d}])

GetDisksReturns(r) ==
  /\ Returns(r, "d.getDisks")
  /\ NextDisk(r, DisksOf(job[r].vm))
  /\ UNCHANGED <<omni, store, env>>

VdiDeleteReturns(r) ==
  /\ Returns(r, "vdi.delete")
  /\ Executes(Call(r)) /\ NextDisk(r, job[r].disks)
  /\ UNCHANGED <<omni, env>>

VmDeleteReturns(r) ==
  /\ Returns(r, "vm.delete")
  /\ Executes(Call(r)) /\ Ends(r)
  /\ UNCHANGED <<omni, env>>

-----------------------------------------------------------------------------
(* Errors, the lost connection, the lost process, and everybody else.      *)

Fault(k) == k \in FaultKinds /\ faults < MaxFaults /\ faults' = faults + 1

Waiting(r) == job[r].pc # "idle"
Abandon(S) == late' = late \cup {Call(r) : r \in S}
MayExecute(r) == job[r].pc \in Mutating

(* Xen Orchestra refuses the call.                                         *)
Refused(r) ==
  /\ MayExecute(r) /\ Returns(r, job[r].pc) /\ ~Accepts(Call(r))
  /\ StepFails(r)
  /\ UNCHANGED <<store, env>>

(* Any other error a call can end in without taking effect: a timeout of   *)
(* the SDK's wait, a full SR, an empty join config, a failed listing.      *)
Rejected(r) ==
  /\ Fault("reject") /\ Waiting(r)
  /\ StepFails(r)
  /\ UNCHANGED <<store, late>>

(* xoCall's second attempt: f from its first call.                         *)
Resends(r) ==
  /\ ~job[r].again
  /\ job' = [job EXCEPT ![r] = IF job[r].pc = "vm.set"
        THEN [job[r] EXCEPT !.again = TRUE, !.pc = "vm.create", !.vm = NoVm]
        ELSE [job[r] EXCEPT !.again = TRUE]]
  /\ UNCHANGED omni

(* The connection dies under the call.  xoCall redials and sends it again, *)
(* once; a failed redial, a second loss, or a loss isConnectionClosed does *)
(* not know, is the call's error.                                          *)
ConnectionLost(r) ==
  /\ Fault("drop") /\ Waiting(r)
  /\ UNCHANGED late \/ (MayExecute(r) /\ Abandon({r}))
  /\ Resends(r) \/ StepFails(r)
  /\ UNCHANGED store

(* The process dies: every job is lost, and its outstanding call with it.  *)
Crash ==
  /\ Fault("crash")
  /\ \E S \in SUBSET {r \in Requests : MayExecute(r)} : Abandon(S)
  /\ job' = [r \in Requests |-> Idle]
  /\ UNCHANGED <<omni, store>>

LateExecutes(o) ==
  /\ Executes(o)
  /\ late' = late \ {o}
  /\ UNCHANGED <<omni, job, faults>>

LateForgotten(o) ==
  /\ late' = late \ {o}
  /\ UNCHANGED <<omni, job, store, faults>>

(* Omni no longer wants the machine; the reconcile in progress finishes.   *)
TearDown(r) ==
  /\ want[r] = "running"
  /\ want' = [want EXCEPT ![r] = "teardown"]
  /\ UNCHANGED <<job, uuid, ready, store, env>>

(* A guest crash: XAPI pauses the domain for a dump, then destroys it.     *)
GuestCrashes(v) ==
  /\ Fault("guest") /\ vms[v].power = "Running"
  /\ vms' = [vms EXCEPT ![v].power = "Paused"]
  /\ UNCHANGED <<omni, job, vdis, late>>

GuestDestroyed(v) ==
  /\ vms[v].power = "Paused"
  /\ vms' = [vms EXCEPT ![v].power = "Halted"]
  /\ UNCHANGED <<omni, job, vdis, env>>

(* Every request is gone: nothing is left to do.                           *)
AllGone == (\A r \in Requests : want[r] = "gone") /\ UNCHANGED vars

Sync(r) ==
  \/ FindsNone(r) \/ FindsOne(r) \/ FindsMany(r)
  \/ VmCreateReturns(r) \/ VmSetReturns(r)
  \/ HasNoDrive(r) \/ HasDriveHalted(r) \/ HasDriveRunning(r)
  \/ DiskImportReturns(r) \/ AttachOrStartReturns(r)

Deprovision(r) ==
  \/ BeginDeprovision(r) \/ DeprovisionFindsNone(r) \/ DeprovisionFindsOne(r)
  \/ VmStopReturns(r) \/ GetVIFsReturns(r) \/ VifDeleteReturns(r)
  \/ GetDisksReturns(r) \/ VdiDeleteReturns(r) \/ VmDeleteReturns(r)

Next ==
  \/ \E r \in Requests : BeginSync(r) \/ Sync(r) \/ Deprovision(r) \/ Refused(r)
                         \/ Rejected(r) \/ ConnectionLost(r) \/ TearDown(r)
  \/ \E v \in VmIds : GuestCrashes(v) \/ GuestDestroyed(v)
  \/ \E o \in late : LateExecutes(o) \/ LateForgotten(o)
  \/ Crash
  \/ AllGone

Spec == Init /\ [][Next]_vars

(* Omni re-runs a request until its steps have all returned nil, and a     *)
(* teardown until Deprovision has; Xen Orchestra answers; an abandoned     *)
(* call does not stay undecided; a paused domain is destroyed.             *)
Worker(r) == (~ready[r] /\ BeginSync(r)) \/ Sync(r) \/ Deprovision(r) \/ Refused(r)
Fairness ==
  /\ \A r \in Requests : WF_vars(Worker(r))
  /\ \A v \in VmIds : WF_vars(GuestDestroyed(v))
  /\ WF_vars(\E o \in late : LateExecutes(o) \/ LateForgotten(o))
FairSpec == Spec /\ Fairness

-----------------------------------------------------------------------------
(* Properties.                                                             *)

(* Every variable has its type, and a call on a VM has a VM: a pointer     *)
(* findVM returned nil for is never used.                                  *)
TypeOK ==
  /\ want \in [Requests -> {"running", "teardown", "gone"}]
  /\ job \in [Requests -> Job]
  /\ \A r \in Requests : job[r].pc \in OnVm => job[r].vm \in VmIds
  /\ uuid \in [Requests -> VmIds \cup {NoVm}]
  /\ ready \in [Requests -> BOOLEAN]
  /\ vms \in [VmIds -> VmRecord]
  /\ vdis \in [VdiIds -> VdiRecord]
  /\ late \subseteq Abandoned
  /\ faults \in 0..MaxFaults

HasDrive(v) == \E d \in VdiIds : vdis[d].kind = "cidata" /\ vdis[d].at = v

(* A machine Omni wants is never powered on without its config drive       *)
(* ("Must happen before the first power-on", provision.go:181), whatever   *)
(* was retried, abandoned, re-run or executed late.                        *)
ConfiguredAtPowerOn ==
  \A v \in VmIds :
    vms[v].power = "Running" /\ want[vms[v].name] = "running" => HasDrive(v)

(* A call, outstanding or abandoned, works for the request that made it:   *)
(* the VM it is made on has its name and the VDI it is made on is one it   *)
(* created; and a call of Deprovision means that Omni gave the request up. *)
WorksForItsRequest(o) ==
  /\ o.pc \in OnVm => o.vm \in VmIds /\ vms[o.vm].name = o.req
  /\ o.pc \in {"vm.attachDisk", "vdi.delete"}
       => o.vdi \in VdiIds /\ vdis[o.vdi].owner = o.req
  /\ o.pc \in DeprovisionCalls => want[o.req] # "running"

JobOwned(r) ==
  /\ WorksForItsRequest(Call(r))
  /\ job[r].pc = "vdi.delete" => \A d \in job[r].disks : vdis[d].owner = r

StoreOwned ==
  /\ \A v \in VmIds : vms[v].power = "unused" <=> vms[v].name = NoReq
  /\ \A d \in VdiIds :
       /\ vdis[d].kind = "unused" <=> vdis[d].owner = NoReq
       /\ vdis[d].at # NoVm => /\ vdis[d].owner # NoReq
                               /\ vdis[d].owner = vms[vdis[d].at].name

(* Every call works for its request, and so do the disks still to be       *)
(* deleted; an attached disk belongs to the request its VM is named after, *)
(* and only ids that were handed out have a name or an owner.  This is     *)
(* what keeps the lookups by name, retries and late calls apart.           *)
Ownership ==
  /\ \A r \in Requests : JobOwned(r)
  /\ \A o \in late : WorksForItsRequest(o)
  /\ StoreOwned

(* A vm.start, outstanding or abandoned, for a machine Omni still wants is *)
(* on a VM whose drive is attached: the check made before it was sent      *)
(* cannot go stale.                                                        *)
StartsAreConfigured ==
  /\ \A r \in Requests : job[r].pc = "vm.start" /\ want[r] = "running"
                            => HasDrive(job[r].vm)
  /\ \A o \in late : o.pc = "vm.start" /\ want[o.req] = "running"
                            => HasDrive(o.vm)

(* Deprovision of one request never destroys what belongs to a request     *)
(* Omni still wants running: not its VM, not a disk attached to it.        *)
DestroysOnlyTornDown ==
  [][/\ \A v \in VmIds : Present(v) /\ vms'[v].power = "deleted"
                           => want[vms[v].name] # "running"
     /\ \A d \in VdiIds : vdis[d].at # NoVm /\ vdis'[d].at = NoVm
                           => want[vms[vdis[d].at].name] # "running"]_vars

(* A machine never has two config drives attached (configdrive_test.go is  *)
(* about recognising the one it has).                                      *)
OneConfigDrive == \A v \in VmIds : Cardinality(ConfigDrives(v)) <= 1

(* "The provider expects exactly one Xen Orchestra VM per Omni Machine     *)
(* Request name" (troubleshooting.md): its own calls never make a second.  *)
OneVmPerRequest == \A r \in Requests : Cardinality(Named(r)) <= 1

(* Once Omni was told a machine is deprovisioned, nothing of it is left:   *)
(* no VM of its name, no call that could make one, no reconcile.           *)
NothingLeftBehind ==
  \A r \in Requests :
    want[r] = "gone" => /\ Named(r) = {} /\ job[r].pc = "idle"
                        /\ \A d \in VdiIds : vdis[d].owner = r
                                               => vdis[d].at = NoVm

(* When Omni is told a machine is provisioned, exactly one VM has its      *)
(* name, that VM's id is the Uuid Omni keeps, and its drive is attached.   *)
ReadyNamesTheMachine ==
  [][\A r \in Requests : ready'[r] /\ ~ready[r]
       => \E v \in VmIds : Named(r) = {v} /\ HasDrive(v) /\ uuid'[r] = v]_vars

(* What a request's VM is to those who do not look at calls.               *)
Stage(r) ==
  IF Named(r) = {} THEN "absent"
  ELSE LET v == CHOOSE v \in Named(r) : TRUE
       IN IF Named(r) # {v} THEN "several"
          ELSE IF vms[v].power = "Halted"
          THEN IF HasDrive(v) THEN "configured" ELSE "bare"
          ELSE IF ~HasDrive(v) THEN "unconfigured"
          ELSE IF vms[v].power = "Running" THEN "running" ELSE "paused"

Life == INSTANCE MachineLife WITH machine <- [r \in Requests |-> Stage(r)]

(* syncMachine and Deprovision keep the contract the other steps rely on:  *)
(* a machine goes from state to state as MachineLife says.                 *)
KeepsLife == Life!Spec

(* "The fix pins dynamic-min = dynamic-max = static-max at creation"       *)
(* (compatibility.md): no machine runs with the template's memory range.   *)
MemoryPinnedAtPowerOn ==
  \A v \in VmIds : vms[v].power = "Running" => vms[v].pinned

(* "They are also not leaking" (troubleshooting.md): an uploaded drive is  *)
(* attached or about to be.  One that is lost, which nothing ever deletes, *)
(* was lost to a fault, and a fault costs a request one drive at most,     *)
(* whatever is re-run, abandoned or torn down afterwards.                  *)
AttachPending(d) ==
  \/ \E r \in Requests : job[r].pc = "vm.attachDisk" /\ job[r].vdi = d
  \/ \E o \in late : o.pc = "vm.attachDisk" /\ o.vdi = d
Strays(r) == {d \in VdiIds : /\ vdis[d].owner = r /\ vdis[d].kind = "cidata"
                             /\ vdis[d].at = NoVm /\ ~AttachPending(d)}
StraysNeedFaults == \A r \in Requests : Cardinality(Strays(r)) <= faults

(* A machine Omni no longer wants is eventually gone.                      *)
TeardownCompletes ==
  \A r \in Requests : want[r] = "teardown" ~> want[r] = "gone"

(* A machine Omni wants is eventually provisioned, or given up by Omni.    *)
ProvisioningCompletes ==
  \A r \in Requests : want[r] = "running" ~> (ready[r] \/ want[r] # "running")
=============================================================================
