--------------------------- MODULE MachineProofs ---------------------------
(***************************************************************************)
(* What holds of Machine for every set of requests, every pool size, every *)
(* kind and number of faults, and any lateness of abandoned calls.         *)
(***************************************************************************)
EXTENDS Machine, TLAPS

-----------------------------------------------------------------------------
(* Typing.                                                                 *)

(* Whatever call executes leaves a well-typed store.                       *)
LEMMA ExecutesTyped ==
  ASSUME TypeOK, NEW o, o.req \in Requests, Executes(o)
  PROVE  vms' \in [VmIds -> VmRecord] /\ vdis' \in [VdiIds -> VdiRecord]
<1>1. CASE o.pc = "vm.create" /\ \E v \in FreeVms, d \in FreeVdis : VmCreate(o.req, v, d)
  BY <1>1 DEF TypeOK, VmCreate, FreeVms, FreeVdis, VmRecord, VdiRecord, Powers
<1>2. CASE o.pc = "disk.import" /\ \E d \in FreeVdis : DiskImport(o.req, d)
  BY <1>2 DEF TypeOK, DiskImport, FreeVdis, VdiRecord
<1>3. CASE o.pc = "vm.attachDisk" /\ AttachDisk(o.vm, o.vdi)
  <2>1. o.vm \in VmIds
    BY <1>3 DEF Executes, Accepts, Present
  <2> QED  BY <1>3, <2>1 DEF TypeOK, AttachDisk, VdiRecord
<1>4. CASE o.pc = "vdi.delete" /\ VdiDelete(o.vdi)
  BY <1>4 DEF TypeOK, VdiDelete, VdiRecord
<1>5. CASE o.pc = "vm.delete" /\ VmDelete(o.vm)
  <2>1. vms' \in [VmIds -> VmRecord]
    BY <1>5 DEF TypeOK, VmDelete, VmRecord, Powers
  <2>2. \A d \in VdiIds : [vdis[d] EXCEPT !.at = NoVm] \in VdiRecord
    BY DEF TypeOK, VdiRecord
  <2>3. vdis' \in [VdiIds -> VdiRecord]
    BY <1>5, <2>2 DEF TypeOK, VmDelete
  <2> QED  BY <2>1, <2>3
<1>6. CASE /\ UNCHANGED vdis
           /\ \/ vms' = [vms EXCEPT ![o.vm].pinned = TRUE]
              \/ vms' = [vms EXCEPT ![o.vm].power = "Running"]
              \/ vms' = [vms EXCEPT ![o.vm].power = "Halted"]
              \/ vms' = [vms EXCEPT ![o.vm].vif = FALSE]
  <2>1. \A v \in VmIds : /\ [vms[v] EXCEPT !.pinned = TRUE] \in VmRecord
                         /\ [vms[v] EXCEPT !.power = "Running"] \in VmRecord
                         /\ [vms[v] EXCEPT !.power = "Halted"] \in VmRecord
                         /\ [vms[v] EXCEPT !.vif = FALSE] \in VmRecord
    BY DEF TypeOK, VmRecord, Powers
  <2>2. ASSUME vms' = [vms EXCEPT ![o.vm].pinned = TRUE]
        PROVE  vms' \in [VmIds -> VmRecord]
    BY <2>1, <2>2 DEF TypeOK
  <2>3. ASSUME vms' = [vms EXCEPT ![o.vm].power = "Running"]
        PROVE  vms' \in [VmIds -> VmRecord]
    BY <2>1, <2>3 DEF TypeOK
  <2>4. ASSUME vms' = [vms EXCEPT ![o.vm].power = "Halted"]
        PROVE  vms' \in [VmIds -> VmRecord]
    BY <2>1, <2>4 DEF TypeOK
  <2>5. ASSUME vms' = [vms EXCEPT ![o.vm].vif = FALSE]
        PROVE  vms' \in [VmIds -> VmRecord]
    BY <2>1, <2>5 DEF TypeOK
  <2>6. vdis' \in [VdiIds -> VdiRecord]
    BY <1>6 DEF TypeOK
  <2> QED  BY <1>6, <2>2, <2>3, <2>4, <2>5, <2>6
<1> QED  BY <1>1, <1>2, <1>3, <1>4, <1>5, <1>6 DEF Executes

(* A job that makes a call, or ends, stays well typed.                     *)
LEMMA CallsTyped ==
  ASSUME TypeOK, NEW r \in Requests, NEW pc \in SyncCalls \cup DeprovisionCalls,
         NEW j \in Job, pc \in OnVm => j.vm \in VmIds, Calls(r, pc, j)
  PROVE  /\ job' \in [Requests -> Job]
         /\ \A q \in Requests : job'[q].pc \in OnVm => job'[q].vm \in VmIds
BY DEF TypeOK, Calls, Job

LEMMA IdleTyped == Idle \in Job /\ Idle.pc \notin OnVm
BY DEF Idle, Job, Powers, OnVm, SyncCalls, DeprovisionCalls

LEMMA FoundTyped ==
  ASSUME TypeOK, NEW v \in VmIds
  PROVE  Found(v) \in Job /\ Found(v).vm = v /\ Found(v).power = vms[v].power
BY IdleTyped DEF TypeOK, Found, Job, VmRecord

LEMMA EndsTyped ==
  ASSUME TypeOK, NEW r \in Requests, Ends(r)
  PROVE  /\ job' \in [Requests -> Job]
         /\ \A q \in Requests : job'[q].pc \in OnVm => job'[q].vm \in VmIds
BY IdleTyped DEF TypeOK, Ends

LEMMA StepFailsTyped ==
  ASSUME TypeOK, NEW r \in Requests, StepFails(r)
  PROVE  /\ job' \in [Requests -> Job]
         /\ \A q \in Requests : job'[q].pc \in OnVm => job'[q].vm \in VmIds
         /\ uuid' \in [Requests -> VmIds \cup {NoVm}]
         /\ UNCHANGED <<want, ready>>
<1>1. Ends(r)  BY DEF StepFails
<1>2. uuid' \in [Requests -> VmIds \cup {NoVm}]
  BY DEF StepFails, TypeOK, FoundUuid, Job
<1> QED  BY <1>1, <1>2, EndsTyped DEF StepFails

LEMMA CallTyped ==
  ASSUME TypeOK, NEW r \in Requests
  PROVE  /\ Call(r).req = r /\ Call(r).pc = job[r].pc /\ Call(r).vm = job[r].vm
         /\ Call(r).vdi = job[r].vdi
         /\ MayExecute(r) => Call(r) \in Abandoned
BY DEF TypeOK, Call, MayExecute, Abandoned, Job

(* The actions of syncMachine.                                             *)
LEMMA SyncTyped ==
  ASSUME TypeOK, NEW r \in Requests, BeginSync(r) \/ Sync(r)
  PROVE  TypeOK'
<1> USE DEF omni, store, env
<1> DEFINE JobTyped ==
      /\ job' \in [Requests -> Job]
      /\ \A q \in Requests : job'[q].pc \in OnVm => job'[q].vm \in VmIds
<1>1. CASE BeginSync(r) \/ FindsNone(r)
  <2>1. Calls(r, "findVM", Idle) \/ Calls(r, "vm.create", Idle)
    BY <1>1 DEF BeginSync, FindsNone
  <2>2. JobTyped
    BY <2>1, CallsTyped, IdleTyped DEF SyncCalls, OnVm
  <2>3. UNCHANGED <<want, uuid, ready, vms, vdis, late, faults>>
    BY <1>1 DEF BeginSync, FindsNone
  <2> QED  BY <2>2, <2>3 DEF TypeOK
<1>2. CASE FindsOne(r)
  <2>1. PICK v \in VmIds :
          Calls(r, "getDisks", Found(v))
    BY <1>2 DEF FindsOne
  <2>2. Found(v) \in Job
    BY FoundTyped
  <2>3. Found(v).vm = v
    BY FoundTyped
  <2>4. JobTyped
    BY <2>1, <2>2, <2>3, CallsTyped DEF SyncCalls
  <2> QED  BY <1>2, <2>4 DEF TypeOK, FindsOne
<1>3. CASE FindsMany(r)
  BY <1>3, EndsTyped DEF TypeOK, FindsMany
<1>4. CASE VmCreateReturns(r)
  <2>1. PICK v \in FreeVms, d \in FreeVdis :
          /\ VmCreate(r, v, d)
          /\ job' = [job EXCEPT ![r] = [job[r] EXCEPT !.pc = "vm.set", !.vm = v]]
    BY <1>4 DEF VmCreateReturns
  <2>2. /\ [job[r] EXCEPT !.pc = "vm.set", !.vm = v] \in Job
        /\ [job[r] EXCEPT !.pc = "vm.set", !.vm = v].vm \in VmIds
    BY <2>1 DEF TypeOK, Job, FreeVms, SyncCalls
  <2>3. JobTyped
    BY <2>1, <2>2 DEF TypeOK
  <2>4. vms' \in [VmIds -> VmRecord] /\ vdis' \in [VdiIds -> VdiRecord]
    BY <2>1 DEF TypeOK, VmCreate, FreeVms, FreeVdis, VmRecord, VdiRecord, Powers
  <2> QED  BY <1>4, <2>3, <2>4 DEF TypeOK, VmCreateReturns
<1>5. CASE VmSetReturns(r)
  <2>1. uuid' \in [Requests -> VmIds \cup {NoVm}]
    BY <1>5 DEF VmSetReturns, TypeOK, Job
  <2> QED  BY <1>5, <2>1, ExecutesTyped, CallTyped, EndsTyped
              DEF TypeOK, VmSetReturns
<1>6. CASE HasNoDrive(r) \/ HasDriveHalted(r)
  <2>1. Calls(r, "disk.import", job[r]) \/ Calls(r, "vm.start", job[r])
    BY <1>6 DEF HasNoDrive, HasDriveHalted
  <2>2. job[r] \in Job /\ job[r].vm \in VmIds
    BY <1>6 DEF TypeOK, HasNoDrive, HasDriveHalted, Returns, OnVm, SyncCalls
  <2>3. JobTyped
    BY <2>1, <2>2, CallsTyped DEF SyncCalls
  <2> QED  BY <1>6, <2>3 DEF TypeOK, HasNoDrive, HasDriveHalted
<1>7. CASE HasDriveRunning(r)
  <2>1. uuid' \in [Requests -> VmIds \cup {NoVm}]
    BY <1>7 DEF HasDriveRunning, StepEnds, FoundUuid, TypeOK, Job
  <2> QED  BY <1>7, <2>1, EndsTyped DEF TypeOK, HasDriveRunning, StepEnds
<1>8. CASE DiskImportReturns(r)
  <2>1. PICK d \in FreeVdis :
          /\ DiskImport(r, d)
          /\ Calls(r, "vm.attachDisk", [job[r] EXCEPT !.vdi = d])
    BY <1>8 DEF DiskImportReturns
  <2>2. job[r] \in Job /\ job[r].vm \in VmIds /\ d \in VdiIds
    BY <1>8 DEF TypeOK, DiskImportReturns, Returns, OnVm, SyncCalls, FreeVdis
  <2>3. [job[r] EXCEPT !.vdi = d] \in Job /\ [job[r] EXCEPT !.vdi = d].vm \in VmIds
    BY <2>2 DEF Job
  <2>4. JobTyped
    BY <2>1, <2>3, CallsTyped DEF SyncCalls
  <2>5. vdis' \in [VdiIds -> VdiRecord]
    BY <2>1, <2>2 DEF TypeOK, DiskImport, VdiRecord
  <2> QED  BY <1>8, <2>1, <2>4, <2>5 DEF TypeOK, DiskImportReturns, DiskImport
<1>9. CASE AttachOrStartReturns(r)
  <2>1. uuid' \in [Requests -> VmIds \cup {NoVm}]
    BY <1>9 DEF AttachOrStartReturns, StepEnds, FoundUuid, TypeOK, Job
  <2> QED  BY <1>9, <2>1, ExecutesTyped, CallTyped, EndsTyped
              DEF TypeOK, AttachOrStartReturns, StepEnds
<1> QED  BY <1>1, <1>2, <1>3, <1>4, <1>5, <1>6, <1>7, <1>8, <1>9 DEF Sync
(* The actions of Deprovision.                                             *)
LEMMA NextDiskTyped ==
  ASSUME TypeOK, NEW r \in Requests, NEW ds \in SUBSET VdiIds,
         job[r].vm \in VmIds, NextDisk(r, ds)
  PROVE  /\ job' \in [Requests -> Job]
         /\ \A q \in Requests : job'[q].pc \in OnVm => job'[q].vm \in VmIds
<1>1. job[r] \in Job
  BY DEF TypeOK
<1>2. CASE Calls(r, "vm.delete", job[r])
  BY <1>1, <1>2, CallsTyped DEF DeprovisionCalls
<1>3. CASE \E d \in ds : Calls(r, "vdi.delete",
                              [job[r] EXCEPT !.vdi = d, !.disks = ds \ {d}])
  <2>1. PICK d \in ds : Calls(r, "vdi.delete",
                              [job[r] EXCEPT !.vdi = d, !.disks = ds \ {d}])
    BY <1>3
  <2>2. /\ [job[r] EXCEPT !.vdi = d, !.disks = ds \ {d}] \in Job
        /\ [job[r] EXCEPT !.vdi = d, !.disks = ds \ {d}].vm \in VmIds
    BY <1>1 DEF Job
  <2> QED  BY <2>1, <2>2, CallsTyped DEF DeprovisionCalls
<1> QED  BY <1>2, <1>3 DEF NextDisk

LEMMA DeprovisionTyped ==
  ASSUME TypeOK, NEW r \in Requests, Deprovision(r)
  PROVE  TypeOK'
<1> USE DEF omni, store, env
<1> DEFINE JobTyped ==
      /\ job' \in [Requests -> Job]
      /\ \A q \in Requests : job'[q].pc \in OnVm => job'[q].vm \in VmIds
<1>1. CASE BeginDeprovision(r)
  <2>1. JobTyped
    BY <1>1, CallsTyped, IdleTyped DEF BeginDeprovision, DeprovisionCalls, OnVm
  <2> QED  BY <1>1, <2>1 DEF TypeOK, BeginDeprovision
<1>2. CASE DeprovisionFindsNone(r)
  BY <1>2, EndsTyped DEF TypeOK, DeprovisionFindsNone
<1>3. CASE DeprovisionFindsOne(r)
  <2>1. PICK v \in VmIds, pc \in {"vm.stop", "d.getVIFs"} :
          Calls(r, pc, Found(v))
    BY <1>3 DEF DeprovisionFindsOne
  <2>2. Found(v) \in Job
    BY FoundTyped
  <2>3. Found(v).vm = v
    BY FoundTyped
  <2>4. JobTyped
    BY <2>1, <2>2, <2>3, CallsTyped DEF DeprovisionCalls
  <2> QED  BY <1>3, <2>4 DEF TypeOK, DeprovisionFindsOne
<1>4. CASE VmStopReturns(r) \/ VmDeleteReturns(r)
  BY <1>4, ExecutesTyped, CallTyped, EndsTyped
     DEF TypeOK, VmStopReturns, VmDeleteReturns
<1>5. CASE GetVIFsReturns(r) \/ VifDeleteReturns(r)
  <2>1. PICK pc \in {"vif.delete", "d.getDisks"} : Calls(r, pc, job[r])
    BY <1>5 DEF GetVIFsReturns, VifDeleteReturns
  <2>2. job[r] \in Job /\ job[r].vm \in VmIds
    BY <1>5 DEF TypeOK, GetVIFsReturns, VifDeleteReturns, Returns, OnVm,
                DeprovisionCalls
  <2>3. JobTyped
    BY <2>1, <2>2, CallsTyped DEF DeprovisionCalls
  <2> QED  BY <1>5, <2>3, ExecutesTyped, CallTyped
              DEF TypeOK, GetVIFsReturns, VifDeleteReturns
<1>6. CASE GetDisksReturns(r) \/ VdiDeleteReturns(r)
  <2>1. job[r] \in Job /\ job[r].vm \in VmIds
    BY <1>6 DEF TypeOK, GetDisksReturns, VdiDeleteReturns, Returns, OnVm,
                DeprovisionCalls
  <2>2. JobTyped
    BY <1>6, <2>1, NextDiskTyped DEF GetDisksReturns, VdiDeleteReturns, DisksOf, Job
  <2> QED  BY <1>6, <2>2, ExecutesTyped, CallTyped
              DEF TypeOK, GetDisksReturns, VdiDeleteReturns
<1> QED  BY <1>1, <1>2, <1>3, <1>4, <1>5, <1>6 DEF Deprovision

(* Errors, lost connections and processes, and everybody else.             *)
LEMMA AbandonTyped ==
  ASSUME TypeOK, NEW S, S \subseteq Requests, \A r \in S : MayExecute(r), Abandon(S)
  PROVE  late' \subseteq Abandoned
BY CallTyped DEF TypeOK, Abandon

LEMMA FaultTyped ==
  ASSUME TypeOK, NEW k, Fault(k)
  PROVE  faults' \in 0..MaxFaults
BY MachineAssumption DEF TypeOK, Fault

LEMMA ErrorsTyped ==
  ASSUME TypeOK, NEW r \in Requests, Refused(r) \/ Rejected(r) \/ ConnectionLost(r)
  PROVE  TypeOK'
<1> USE DEF store, env
<1>1. CASE Refused(r) \/ Rejected(r)
  <2>1. faults' \in 0..MaxFaults
    BY <1>1, FaultTyped DEF Refused, Rejected, TypeOK
  <2> QED  BY <1>1, <2>1, StepFailsTyped DEF TypeOK, Refused, Rejected
<1>2. CASE ConnectionLost(r)
  <2>1. late' \subseteq Abandoned
    BY <1>2, AbandonTyped DEF ConnectionLost, TypeOK
  <2>2. CASE Resends(r)
    <3>1. /\ [job[r] EXCEPT !.again = TRUE, !.pc = "vm.create", !.vm = NoVm] \in Job
          /\ [job[r] EXCEPT !.again = TRUE, !.pc = "vm.create", !.vm = NoVm].pc
               \notin OnVm
          /\ [job[r] EXCEPT !.again = TRUE] \in Job
          /\ [job[r] EXCEPT !.again = TRUE].pc = job[r].pc
          /\ [job[r] EXCEPT !.again = TRUE].vm = job[r].vm
      BY DEF TypeOK, Job, OnVm, SyncCalls
    <3>2. /\ job' \in [Requests -> Job]
          /\ \A q \in Requests : job'[q].pc \in OnVm => job'[q].vm \in VmIds
      BY <2>2, <3>1 DEF Resends, TypeOK
    <3> QED  BY <1>2, <2>1, <2>2, <3>2, FaultTyped
                DEF TypeOK, ConnectionLost, Resends, omni
  <2>3. CASE StepFails(r)
    BY <1>2, <2>1, <2>3, StepFailsTyped, FaultTyped DEF TypeOK, ConnectionLost
  <2> QED  BY <1>2, <2>2, <2>3 DEF ConnectionLost
<1> QED  BY <1>1, <1>2

LEMMA TypeStep == TypeOK /\ [Next]_vars => TypeOK'
<1> SUFFICES ASSUME TypeOK, [Next]_vars PROVE TypeOK'
  OBVIOUS
<1> USE DEF omni, store, env
<1>1. ASSUME NEW r \in Requests, TearDown(r) PROVE TypeOK'
  BY <1>1 DEF TypeOK, TearDown
<1>2. ASSUME NEW v \in VmIds, GuestCrashes(v) \/ GuestDestroyed(v) PROVE TypeOK'
  <2>1. \A p \in Powers : [vms[v] EXCEPT !.power = p] \in VmRecord
    BY DEF TypeOK, VmRecord
  <2>2. vms' \in [VmIds -> VmRecord]
    BY <1>2, <2>1 DEF TypeOK, GuestCrashes, GuestDestroyed, Powers
  <2>3. faults' \in 0..MaxFaults
    BY <1>2, FaultTyped DEF TypeOK, GuestCrashes, GuestDestroyed
  <2> QED  BY <1>2, <2>2, <2>3 DEF TypeOK, GuestCrashes, GuestDestroyed
<1>3. ASSUME NEW o \in late, LateExecutes(o) \/ LateForgotten(o) PROVE TypeOK'
  <2>1. o.req \in Requests
    BY DEF TypeOK, Abandoned
  <2> QED  BY <1>3, <2>1, ExecutesTyped DEF TypeOK, LateExecutes, LateForgotten
<1>4. CASE Crash
  BY <1>4, IdleTyped, AbandonTyped, FaultTyped DEF TypeOK, Crash
<1>5. CASE UNCHANGED vars
  BY <1>5 DEF TypeOK, vars
<1> QED
  BY <1>1, <1>2, <1>3, <1>4, <1>5, SyncTyped, DeprovisionTyped, ErrorsTyped
     DEF Next, AllGone

(* TypeOK holds of every machine, however calls are lost and repeated.     *)
THEOREM TypeCorrect == Spec => []TypeOK
<1>1. Init => TypeOK
  BY IdleTyped, MachineAssumption
     DEF Init, TypeOK, VmRecord, VdiRecord, Powers, Abandoned
<1> QED  BY <1>1, TypeStep, PTL DEF Spec
-----------------------------------------------------------------------------
(* Ownership.  A step keeps every name and owner that was given, and Omni  *)
(* never wants a machine again; what the calls of the others refer to is   *)
(* therefore untouched, and only the moving request's call is looked at.   *)

NamesKept ==
  /\ \A v \in VmIds : vms[v].power # "unused" => vms'[v].name = vms[v].name
  /\ \A d \in VdiIds : vdis[d].kind # "unused" => vdis'[d].owner = vdis[d].owner
WantKept == \A r \in Requests : want[r] # "running" => want'[r] # "running"

LEMMA StillWorks ==
  ASSUME TypeOK, StoreOwned, NamesKept, WantKept,
         NEW o, o.req \in Requests, WorksForItsRequest(o)
  PROVE  WorksForItsRequest(o)'
BY MachineAssumption DEF StoreOwned, NamesKept, WantKept, WorksForItsRequest

LEMMA CreateOwned ==
  ASSUME TypeOK, StoreOwned, NEW r \in Requests, NEW v \in FreeVms,
         NEW d \in FreeVdis, VmCreate(r, v, d)
  PROVE  NamesKept /\ StoreOwned' /\ vms'[v].name = r
<1>1. v \in VmIds /\ vms[v].power = "unused" /\ d \in VdiIds /\ vdis[d].kind = "unused"
  BY DEF FreeVms, FreeVdis
<1>2. /\ vms'[v] = [name |-> r, power |-> "Halted", pinned |-> FALSE, vif |-> TRUE]
      /\ \A w \in VmIds \ {v} : vms'[w] = vms[w]
      /\ vdis'[d] = [kind |-> "boot", owner |-> r, at |-> v]
      /\ \A e \in VdiIds \ {d} : vdis'[e] = vdis[e]
  BY <1>1 DEF TypeOK, VmCreate
<1>3. NamesKept /\ vms'[v].name = r
  BY <1>1, <1>2 DEF NamesKept
<1>4. \A e \in VdiIds : vdis[e].at # v
  BY <1>1, MachineAssumption DEF TypeOK, StoreOwned, NoVm
<1>5. \A e \in VdiIds \ {d} : vdis[e].at # NoVm => vdis[e].at \in VmIds \ {v}
  BY <1>4 DEF TypeOK, VdiRecord
<1>6. \A w \in VmIds : vms'[w].power = "unused" <=> vms'[w].name = NoReq
  BY <1>2, MachineAssumption DEF StoreOwned
<1>7. \A e \in VdiIds :
        /\ vdis'[e].kind = "unused" <=> vdis'[e].owner = NoReq
        /\ vdis'[e].at # NoVm => /\ vdis'[e].owner # NoReq
                                 /\ vdis'[e].owner = vms'[vdis'[e].at].name
  <2>1. ASSUME NEW e \in VdiIds \ {d}
        PROVE  /\ vdis'[e].kind = "unused" <=> vdis'[e].owner = NoReq
               /\ vdis'[e].at # NoVm => /\ vdis'[e].owner # NoReq
                                        /\ vdis'[e].owner = vms'[vdis'[e].at].name
    <3>1. vdis'[e] = vdis[e]
      BY <1>2
    <3>2. vdis[e].at # NoVm => vms'[vdis[e].at] = vms[vdis[e].at]
      BY <1>2, <1>5
    <3> QED  BY <3>1, <3>2 DEF StoreOwned
  <2> QED  BY <1>2, <1>3, <2>1, MachineAssumption
<1> QED  BY <1>3, <1>6, <1>7 DEF StoreOwned

LEMMA ImportOwned ==
  ASSUME TypeOK, StoreOwned, NEW r \in Requests, NEW d \in FreeVdis, DiskImport(r, d)
  PROVE  NamesKept /\ StoreOwned' /\ vdis'[d].owner = r
<1>1. d \in VdiIds /\ vdis[d].kind = "unused"
  BY DEF FreeVdis
<1>2. /\ vdis'[d] = [kind |-> "cidata", owner |-> r, at |-> NoVm]
      /\ \A e \in VdiIds \ {d} : vdis'[e] = vdis[e]
      /\ vms' = vms
  BY <1>1 DEF TypeOK, DiskImport
<1>3. NamesKept /\ vdis'[d].owner = r
  BY <1>1, <1>2 DEF NamesKept
<1>4. ASSUME NEW e \in VdiIds
      PROVE  /\ vdis'[e].kind = "unused" <=> vdis'[e].owner = NoReq
             /\ vdis'[e].at # NoVm => /\ vdis'[e].owner # NoReq
                                      /\ vdis'[e].owner = vms'[vdis'[e].at].name
  <2>1. CASE e = d
    BY <1>2, <2>1, MachineAssumption
  <2>2. CASE e # d
    BY <1>2, <2>2 DEF StoreOwned
  <2> QED  BY <2>1, <2>2
<1> QED  BY <1>2, <1>3, <1>4 DEF StoreOwned

LEMMA ExecutesOwned ==
  ASSUME TypeOK, StoreOwned, NEW o, o.req \in Requests, WorksForItsRequest(o),
         Executes(o)
  PROVE  NamesKept /\ StoreOwned'
<1>1. CASE o.pc = "vm.create" /\ \E v \in FreeVms, d \in FreeVdis : VmCreate(o.req, v, d)
  BY <1>1, CreateOwned
<1>2. CASE o.pc = "disk.import" /\ \E d \in FreeVdis : DiskImport(o.req, d)
  BY <1>2, ImportOwned
<1>3. CASE o.pc = "vm.attachDisk" /\ AttachDisk(o.vm, o.vdi)
  <2>1. /\ o.vdi \in VdiIds /\ vdis[o.vdi].owner = o.req /\ vdis[o.vdi].kind = "cidata"
        /\ o.vm \in VmIds /\ vms[o.vm].name = o.req
    BY <1>3 DEF WorksForItsRequest, OnVm, SyncCalls, Executes, Accepts
  <2>2. /\ vms' = vms
        /\ vdis'[o.vdi] = [vdis[o.vdi] EXCEPT !.at = o.vm]
        /\ \A e \in VdiIds \ {o.vdi} : vdis'[e] = vdis[e]
    BY <1>3, <2>1 DEF TypeOK, AttachDisk
  <2>3. /\ vdis'[o.vdi].owner = o.req /\ vdis'[o.vdi].kind = "cidata"
        /\ vdis'[o.vdi].at = o.vm
    BY <2>1, <2>2 DEF TypeOK, VdiRecord
  <2>4. NamesKept
    BY <2>1, <2>2, <2>3 DEF NamesKept
  <2>5. ASSUME NEW e \in VdiIds
        PROVE  /\ vdis'[e].kind = "unused" <=> vdis'[e].owner = NoReq
               /\ vdis'[e].at # NoVm => /\ vdis'[e].owner # NoReq
                                        /\ vdis'[e].owner = vms'[vdis'[e].at].name
    <3>1. CASE e = o.vdi
      BY <2>1, <2>2, <2>3, <3>1, MachineAssumption
    <3>2. CASE e # o.vdi
      BY <2>2, <3>2 DEF StoreOwned
    <3> QED  BY <3>1, <3>2
  <2> QED  BY <2>2, <2>4, <2>5 DEF StoreOwned
<1>4. CASE o.pc = "vdi.delete" /\ VdiDelete(o.vdi)
  <2>1. o.vdi \in VdiIds /\ vdis[o.vdi].owner = o.req
    BY <1>4 DEF WorksForItsRequest
  <2>2. /\ vms' = vms
        /\ vdis' = [vdis EXCEPT ![o.vdi] =
                      [[vdis[o.vdi] EXCEPT !.kind = "deleted"] EXCEPT !.at = NoVm]]
    BY <1>4, <2>1 DEF TypeOK, VdiDelete
  <2>3. /\ vdis'[o.vdi].owner = o.req /\ vdis'[o.vdi].kind = "deleted"
        /\ vdis'[o.vdi].at = NoVm
        /\ \A e \in VdiIds \ {o.vdi} : vdis'[e] = vdis[e]
    BY <2>1, <2>2 DEF TypeOK, VdiRecord
  <2> QED  BY <2>1, <2>2, <2>3, MachineAssumption DEF NamesKept, StoreOwned
<1>5. CASE o.pc = "vm.delete" /\ VmDelete(o.vm)
  <2>1. \A v \in VmIds : vms'[v].name = vms[v].name
    BY <1>5 DEF TypeOK, VmDelete, VmRecord
  <2>2. \A v \in VmIds : vms'[v].power = "unused" <=> vms[v].power = "unused"
    BY <1>5 DEF TypeOK, VmDelete, VmRecord, Executes, Accepts, Present
  <2>3. \A d \in VdiIds : /\ vdis'[d].owner = vdis[d].owner
                          /\ vdis'[d].kind = vdis[d].kind
                          /\ (vdis'[d].at = NoVm \/ vdis'[d].at = vdis[d].at)
    BY <1>5 DEF TypeOK, VmDelete, VdiRecord
  <2>4. \A d \in VdiIds : vdis[d].at \in VmIds \cup {NoVm}
    BY DEF TypeOK, VdiRecord
  <2>5. /\ vms \in [VmIds -> VmRecord] /\ vms' \in [VmIds -> VmRecord]
        /\ vdis \in [VdiIds -> VdiRecord] /\ vdis' \in [VdiIds -> VdiRecord]
    BY ExecutesTyped DEF TypeOK
  <2>6. NamesKept
    BY <2>1, <2>3, <2>5 DEF NamesKept, VmRecord, VdiRecord
  <2>7. ASSUME NEW d \in VdiIds, vdis'[d].at # NoVm
        PROVE  vdis'[d].owner # NoReq /\ vdis'[d].owner = vms'[vdis'[d].at].name
    BY <2>1, <2>3, <2>4, <2>5, <2>7 DEF StoreOwned, VmRecord, VdiRecord
  <2> QED  BY <2>1, <2>2, <2>3, <2>5, <2>6, <2>7 DEF StoreOwned, VmRecord, VdiRecord
<1>6. CASE /\ UNCHANGED vdis
           /\ \/ o.pc = "vm.set" /\ vms' = [vms EXCEPT ![o.vm].pinned = TRUE]
              \/ o.pc = "vm.start" /\ vms' = [vms EXCEPT ![o.vm].power = "Running"]
              \/ o.pc = "vm.stop" /\ vms' = [vms EXCEPT ![o.vm].power = "Halted"]
              \/ o.pc = "vif.delete" /\ vms' = [vms EXCEPT ![o.vm].vif = FALSE]
  <2>1. Present(o.vm)
    BY <1>6 DEF Executes, Accepts
  <2>2. ASSUME NEW v \in VmIds
        PROVE  /\ vms'[v].name = vms[v].name
               /\ vms'[v].power = "unused" <=> vms[v].power = "unused"
    <3>1. vms[v] \in VmRecord /\ vms \in [VmIds -> VmRecord]
      BY DEF TypeOK
    <3>2. /\ [vms[v] EXCEPT !.pinned = TRUE].name = vms[v].name
          /\ [vms[v] EXCEPT !.pinned = TRUE].power = vms[v].power
          /\ [vms[v] EXCEPT !.vif = FALSE].name = vms[v].name
          /\ [vms[v] EXCEPT !.vif = FALSE].power = vms[v].power
      BY <3>1 DEF VmRecord
    <3>3. \A p : /\ [vms[v] EXCEPT !.power = p].name = vms[v].name
                 /\ [vms[v] EXCEPT !.power = p].power = p
      BY <3>1 DEF VmRecord
    <3>4. CASE vms' = [vms EXCEPT ![o.vm].pinned = TRUE]
      BY <3>1, <3>2, <3>4
    <3>5. CASE vms' = [vms EXCEPT ![o.vm].power = "Running"]
      BY <2>1, <3>1, <3>3, <3>5 DEF Present
    <3>6. CASE vms' = [vms EXCEPT ![o.vm].power = "Halted"]
      BY <2>1, <3>1, <3>3, <3>6 DEF Present
    <3>7. CASE vms' = [vms EXCEPT ![o.vm].vif = FALSE]
      BY <3>1, <3>2, <3>7
    <3> QED  BY <1>6, <3>4, <3>5, <3>6, <3>7
  <2>3. \A d \in VdiIds : vdis[d].at \in VmIds \cup {NoVm}
    BY DEF TypeOK, VdiRecord
  <2> QED  BY <1>6, <2>2, <2>3 DEF NamesKept, StoreOwned
<1> QED  BY <1>1, <1>2, <1>3, <1>4, <1>5, <1>6 DEF Executes
LEMMA KeptOwned ==
  ASSUME TypeOK, Ownership, NamesKept, WantKept, StoreOwned',
         \A q \in Requests : job'[q] = job[q] \/ JobOwned(q)',
         \A o \in late' : o \in late \/ \E q \in Requests : o = Call(q)
  PROVE  Ownership'
<1>1. ASSUME NEW o \in late'
      PROVE  WorksForItsRequest(o)'
  <2>1. o.req \in Requests /\ WorksForItsRequest(o)
    BY CallTyped DEF Ownership, JobOwned, TypeOK, Abandoned
  <2> QED  BY <2>1, StillWorks DEF Ownership
<1>2. ASSUME NEW q \in Requests, job'[q] = job[q]
      PROVE  JobOwned(q)'
  <2>1. job'[q] = job[q] /\ job[q] \in Job
    BY <1>2 DEF TypeOK
  <2>2. WorksForItsRequest(Call(q))
    BY DEF Ownership, JobOwned
  <2>3. /\ job[q].pc \in OnVm => job[q].vm \in VmIds /\ vms[job[q].vm].name = q
        /\ job[q].pc \in {"vm.attachDisk", "vdi.delete"}
             => job[q].vdi \in VdiIds /\ vdis[job[q].vdi].owner = q
        /\ job[q].pc \in DeprovisionCalls => want[q] # "running"
    BY <2>2 DEF WorksForItsRequest, Call
  <2>4. /\ job'[q].pc \in OnVm => job'[q].vm \in VmIds /\ vms'[job'[q].vm].name = q
        /\ job'[q].pc \in {"vm.attachDisk", "vdi.delete"}
             => job'[q].vdi \in VdiIds /\ vdis'[job'[q].vdi].owner = q
        /\ job'[q].pc \in DeprovisionCalls => want'[q] # "running"
    BY <2>1, <2>3, MachineAssumption DEF Ownership, StoreOwned, NamesKept, WantKept
  <2>5. WorksForItsRequest(Call(q))'
    BY <2>4 DEF WorksForItsRequest, Call
  <2>6. job'[q].pc = "vdi.delete" => \A d \in job'[q].disks : vdis'[d].owner = q
    <3>1. \A d \in job[q].disks : d \in VdiIds
      BY <2>1 DEF Job
    <3>2. job[q].pc = "vdi.delete" => \A d \in job[q].disks : vdis[d].owner = q
      BY DEF Ownership, JobOwned
    <3>3. \A d \in VdiIds : vdis[d].owner = q => vdis'[d].owner = q
      BY MachineAssumption DEF Ownership, StoreOwned, NamesKept
    <3> QED  BY <2>1, <3>1, <3>2, <3>3
  <2> QED  BY <2>5, <2>6 DEF JobOwned
<1> QED  BY <1>1, <1>2 DEF Ownership

LEMMA OthersOwned ==
  ASSUME TypeOK, Ownership, NamesKept, WantKept, StoreOwned',
         NEW r \in Requests, \A q \in Requests \ {r} : job'[q] = job[q],
         JobOwned(r)', \A o \in late' : o \in late \/ o = Call(r)
  PROVE  Ownership'
BY KeptOwned

(* What the moving request's own job must satisfy, spelt out.              *)
LEMMA OwnJob ==
  ASSUME NEW r \in Requests,
         job'[r].pc \in OnVm => job'[r].vm \in VmIds /\ vms'[job'[r].vm].name = r,
         job'[r].pc \in {"vm.attachDisk", "vdi.delete"}
           => job'[r].vdi \in VdiIds /\ vdis'[job'[r].vdi].owner = r,
         job'[r].pc \in DeprovisionCalls => want'[r] # "running",
         job'[r].pc = "vdi.delete" => \A d \in job'[r].disks : vdis'[d].owner = r
  PROVE  JobOwned(r)'
BY DEF JobOwned, WorksForItsRequest, Call

LEMMA OwnJobNow ==
  ASSUME Ownership, NEW r \in Requests
  PROVE  /\ job[r].pc \in OnVm => job[r].vm \in VmIds /\ vms[job[r].vm].name = r
         /\ job[r].pc \in {"vm.attachDisk", "vdi.delete"}
              => job[r].vdi \in VdiIds /\ vdis[job[r].vdi].owner = r
         /\ job[r].pc \in DeprovisionCalls => want[r] # "running"
         /\ job[r].pc = "vdi.delete" => \A d \in job[r].disks : vdis[d].owner = r
BY DEF Ownership, JobOwned, WorksForItsRequest, Call

LEMMA StoreKept ==
  ASSUME StoreOwned, UNCHANGED store
  PROVE  NamesKept /\ StoreOwned'
BY DEF store, StoreOwned, NamesKept

LEMMA EndsOwned ==
  ASSUME TypeOK, NEW r \in Requests, Ends(r)
  PROVE  JobOwned(r)' /\ \A q \in Requests \ {r} : job'[q] = job[q]
<1>1. job'[r] = Idle /\ \A q \in Requests \ {r} : job'[q] = job[q]
  BY DEF TypeOK, Ends
<1> QED  BY <1>1, OwnJob DEF Idle, OnVm, SyncCalls, DeprovisionCalls
LEMMA CallsOwned ==
  ASSUME TypeOK, NEW r \in Requests, NEW pc, NEW j \in Job, Calls(r, pc, j)
  PROVE  /\ job'[r].pc = pc /\ job'[r].vm = j.vm /\ job'[r].vdi = j.vdi
         /\ job'[r].disks = j.disks
         /\ \A q \in Requests \ {r} : job'[q] = job[q]
<1>1. job'[r] = [j EXCEPT !.pc = pc, !.again = FALSE]
  BY DEF TypeOK, Calls
<1>2. \A q \in Requests \ {r} : job'[q] = job[q]
  BY DEF TypeOK, Calls
<1> QED  BY <1>1, <1>2 DEF Job

(* findVM's answer: the VM whose name is the request's.                    *)
LEMMA FoundOwned ==
  ASSUME TypeOK, NEW r \in Requests, NEW v \in VmIds, Named(r) = {v}, NEW pc,
         Calls(r, pc, Found(v)),
         UNCHANGED vms, pc \notin {"vm.attachDisk", "vdi.delete"},
         pc \in DeprovisionCalls => want'[r] # "running"
  PROVE  JobOwned(r)' /\ \A q \in Requests \ {r} : job'[q] = job[q]
<1>1. Found(v) \in Job /\ Found(v).vm = v
  BY FoundTyped
<1>2. vms[v].name = r
  BY DEF Named
<1>3. /\ job'[r].pc = pc /\ job'[r].vm = v
      /\ \A q \in Requests \ {r} : job'[q] = job[q]
  BY <1>1, CallsOwned
<1> QED  BY <1>2, <1>3, OwnJob

LEMMA SyncOwned ==
  ASSUME TypeOK, Ownership, NEW r \in Requests, BeginSync(r) \/ Sync(r)
  PROVE  Ownership'
<1> USE DEF omni, env
<1> DEFINE Others == \A q \in Requests \ {r} : job'[q] = job[q]
<1>0. WantKept /\ late' = late
  BY DEF WantKept, Sync, BeginSync, FindsNone, FindsOne, FindsMany, VmCreateReturns,
         VmSetReturns, HasNoDrive, HasDriveHalted, HasDriveRunning,
         DiskImportReturns, AttachOrStartReturns, StepEnds
<1>s. StoreOwned /\ job[r] \in Job
  BY DEF Ownership, TypeOK
<1>q. ASSUME NamesKept, StoreOwned', JobOwned(r)', Others
      PROVE  Ownership'
  BY <1>0, <1>q, OthersOwned
<1>1. CASE BeginSync(r) \/ FindsNone(r)
  <2>1. Calls(r, "findVM", Idle) \/ Calls(r, "vm.create", Idle)
    BY <1>1 DEF BeginSync, FindsNone
  <2>2. JobOwned(r)' /\ Others
    BY <2>1, CallsOwned, IdleTyped, OwnJob DEF OnVm, DeprovisionCalls
  <2> QED  BY <1>1, <1>q, <1>s, <2>2, StoreKept DEF BeginSync, FindsNone
<1>2. CASE FindsOne(r)
  <2>1. PICK v \in VmIds :
          /\ Named(r) = {v}
          /\ Calls(r, "getDisks", Found(v))
    BY <1>2 DEF FindsOne
  <2>2. UNCHANGED vms /\ "getDisks" \notin DeprovisionCalls
    BY <1>2 DEF FindsOne, store, DeprovisionCalls
  <2>3. JobOwned(r)' /\ Others
    BY <2>1, <2>2, FoundOwned
  <2> QED  BY <1>2, <1>q, <1>s, <2>3, StoreKept DEF FindsOne
<1>3. CASE FindsMany(r)
  BY <1>3, <1>q, <1>s, EndsOwned, StoreKept DEF FindsMany
<1>4. CASE VmCreateReturns(r)
  <2>1. PICK v \in FreeVms, d \in FreeVdis :
          /\ VmCreate(r, v, d)
          /\ job' = [job EXCEPT ![r] = [job[r] EXCEPT !.pc = "vm.set", !.vm = v]]
    BY <1>4 DEF VmCreateReturns
  <2>2. v \in VmIds /\ vms'[v].name = r /\ NamesKept /\ StoreOwned'
    BY <2>1, <1>s, CreateOwned DEF FreeVms
  <2>3. job'[r] = [job[r] EXCEPT !.pc = "vm.set", !.vm = v] /\ Others
    BY <2>1 DEF TypeOK
  <2>4. job'[r].pc = "vm.set" /\ job'[r].vm = v
    BY <2>3, <1>s DEF Job
  <2>5. JobOwned(r)'
    BY <2>2, <2>4, OwnJob DEF DeprovisionCalls
  <2> QED  BY <1>q, <2>2, <2>3, <2>5
<1>5. CASE VmSetReturns(r) \/ AttachOrStartReturns(r)
  <2>1. Executes(Call(r)) /\ Ends(r)
    BY <1>5 DEF VmSetReturns, AttachOrStartReturns, StepEnds
  <2>2. NamesKept /\ StoreOwned'
    BY <2>1, <1>s, ExecutesOwned, CallTyped DEF Ownership, JobOwned
  <2> QED  BY <1>q, <2>1, <2>2, EndsOwned
<1>6. CASE HasNoDrive(r) \/ HasDriveHalted(r)
  <2>1. /\ Calls(r, "disk.import", job[r]) \/ Calls(r, "vm.start", job[r])
        /\ job[r].pc = "getDisks" /\ UNCHANGED store
    BY <1>6 DEF HasNoDrive, HasDriveHalted, Returns
  <2>2. job[r].vm \in VmIds /\ vms[job[r].vm].name = r
    BY <2>1, OwnJobNow DEF OnVm, SyncCalls
  <2>3. JobOwned(r)' /\ Others
    BY <2>1, <2>2, <1>s, CallsOwned, OwnJob DEF DeprovisionCalls, store
  <2> QED  BY <2>1, <1>q, <1>s, <2>3, StoreKept
<1>7. CASE HasDriveRunning(r)
  BY <1>7, <1>q, <1>s, EndsOwned, StoreKept DEF HasDriveRunning, StepEnds
<1>8. CASE DiskImportReturns(r)
  <2>1. PICK d \in FreeVdis :
          /\ DiskImport(r, d)
          /\ Calls(r, "vm.attachDisk", [job[r] EXCEPT !.vdi = d])
    BY <1>8 DEF DiskImportReturns
  <2>2. d \in VdiIds /\ vdis'[d].owner = r /\ NamesKept /\ StoreOwned'
    BY <2>1, <1>s, ImportOwned DEF FreeVdis
  <2> DEFINE j == [job[r] EXCEPT !.vdi = d]
  <2>3. j \in Job /\ j.vdi = d /\ j.vm = job[r].vm /\ Calls(r, "vm.attachDisk", j)
    BY <1>s, <2>1, <2>2 DEF Job
  <2> HIDE DEF j
  <2>4. job[r].vm \in VmIds /\ vms[job[r].vm].name = r /\ vms' = vms
    BY <1>8, <2>1, OwnJobNow DEF DiskImportReturns, DiskImport, Returns, OnVm, SyncCalls
  <2>5. job'[r].pc = "vm.attachDisk" /\ job'[r].vm = job[r].vm /\ job'[r].vdi = d /\ Others
    BY <2>3, CallsOwned
  <2>6. JobOwned(r)'
    BY <2>2, <2>4, <2>5, OwnJob DEF DeprovisionCalls
  <2> QED  BY <1>q, <2>2, <2>5, <2>6
<1> QED  BY <1>1, <1>2, <1>3, <1>4, <1>5, <1>6, <1>7, <1>8 DEF Sync

LEMMA NextDiskOwned ==
  ASSUME TypeOK, NEW r \in Requests, NEW ds \in SUBSET VdiIds, NextDisk(r, ds),
         want'[r] # "running", job[r].vm \in VmIds, vms'[job[r].vm].name = r,
         \A d \in ds : vdis'[d].owner = r
  PROVE  JobOwned(r)' /\ \A q \in Requests \ {r} : job'[q] = job[q]
<1>1. job[r] \in Job
  BY DEF TypeOK
<1>2. CASE Calls(r, "vm.delete", job[r])
  BY <1>1, <1>2, CallsOwned, OwnJob
<1>3. CASE \E d \in ds : Calls(r, "vdi.delete",
                              [job[r] EXCEPT !.vdi = d, !.disks = ds \ {d}])
  <2>1. PICK d \in ds : Calls(r, "vdi.delete",
                              [job[r] EXCEPT !.vdi = d, !.disks = ds \ {d}])
    BY <1>3
  <2> DEFINE j == [job[r] EXCEPT !.vdi = d, !.disks = ds \ {d}]
  <2>2. /\ j \in Job /\ j.vdi = d /\ j.disks = ds \ {d} /\ j.vm = job[r].vm
        /\ Calls(r, "vdi.delete", j)
    BY <1>1, <2>1 DEF Job
  <2> HIDE DEF j
  <2>3. /\ job'[r].pc = "vdi.delete" /\ job'[r].vm = job[r].vm /\ job'[r].vdi = d
        /\ job'[r].disks = ds \ {d} /\ \A q \in Requests \ {r} : job'[q] = job[q]
    BY <2>2, CallsOwned
  <2> QED  BY <2>3, OwnJob
<1> QED  BY <1>2, <1>3 DEF NextDisk
LEMMA DeprovisionOwned ==
  ASSUME TypeOK, Ownership, NEW r \in Requests, Deprovision(r)
  PROVE  Ownership'
<1> USE DEF omni, env
<1> DEFINE Others == \A q \in Requests \ {r} : job'[q] = job[q]
<1>0. WantKept /\ late' = late
  BY DEF TypeOK, WantKept, Deprovision, BeginDeprovision, DeprovisionFindsNone,
         DeprovisionFindsOne, VmStopReturns, GetVIFsReturns, VifDeleteReturns,
         GetDisksReturns, VdiDeleteReturns, VmDeleteReturns
<1>s. StoreOwned /\ job[r] \in Job
  BY DEF Ownership, TypeOK
<1>q. ASSUME NamesKept, StoreOwned', JobOwned(r)', Others
      PROVE  Ownership'
  BY <1>0, <1>q, OthersOwned
<1>1. CASE BeginDeprovision(r)
  <2>1. job'[r].pc = "d.findVM" /\ Others
    BY <1>1, CallsOwned, IdleTyped DEF BeginDeprovision
  <2>2. JobOwned(r)'
    BY <1>1, <2>1, OwnJob DEF BeginDeprovision, OnVm
  <2> QED  BY <1>1, <1>q, <1>s, <2>1, <2>2, StoreKept DEF BeginDeprovision
<1>2. CASE DeprovisionFindsNone(r)
  BY <1>2, <1>q, <1>s, EndsOwned, StoreKept DEF DeprovisionFindsNone
<1>3. CASE DeprovisionFindsOne(r)
  <2>1. PICK v \in VmIds, pc \in {"vm.stop", "d.getVIFs"} :
          Named(r) = {v} /\ Calls(r, pc, Found(v))
    BY <1>3 DEF DeprovisionFindsOne
  <2>2. UNCHANGED <<vms, want>> /\ want[r] # "running"
    BY <1>3, OwnJobNow DEF DeprovisionFindsOne, store, Returns, DeprovisionCalls
  <2>3. JobOwned(r)' /\ Others
    BY <2>1, <2>2, FoundOwned
  <2> QED  BY <1>3, <1>q, <1>s, <2>3, StoreKept DEF DeprovisionFindsOne
<1>4. CASE VmStopReturns(r) \/ VmDeleteReturns(r)
  <2>1. Executes(Call(r)) /\ Ends(r)
    BY <1>4 DEF VmStopReturns, VmDeleteReturns
  <2>2. NamesKept /\ StoreOwned'
    BY <2>1, <1>s, ExecutesOwned, CallTyped DEF Ownership, JobOwned
  <2> QED  BY <1>q, <2>1, <2>2, EndsOwned
<1>5. CASE \/ GetVIFsReturns(r) \/ VifDeleteReturns(r)
           \/ GetDisksReturns(r) \/ VdiDeleteReturns(r)
  <2>1. UNCHANGED store \/ Executes(Call(r))
    BY <1>5 DEF GetVIFsReturns, VifDeleteReturns, GetDisksReturns, VdiDeleteReturns
  <2>2. NamesKept /\ StoreOwned'
    BY <2>1, <1>s, ExecutesOwned, CallTyped, StoreKept DEF Ownership, JobOwned
  <2>3. /\ job[r].pc \in {"d.getVIFs", "vif.delete", "d.getDisks", "vdi.delete"}
        /\ want' = want
    BY <1>5 DEF GetVIFsReturns, VifDeleteReturns, GetDisksReturns, VdiDeleteReturns,
                Returns
  <2>4. job[r].vm \in VmIds /\ vms[job[r].vm].name = r /\ want'[r] # "running"
    BY <2>3, OwnJobNow DEF OnVm, DeprovisionCalls
  <2>5. vms'[job[r].vm].name = r
    BY <2>2, <2>4, <1>s, MachineAssumption DEF NamesKept, StoreOwned
  <2>6. CASE GetVIFsReturns(r) \/ VifDeleteReturns(r)
    <3>1. PICK pc \in {"vif.delete", "d.getDisks"} : Calls(r, pc, job[r])
      BY <2>6 DEF GetVIFsReturns, VifDeleteReturns
    <3>2. job'[r].pc = pc /\ job'[r].vm = job[r].vm /\ Others
      BY <3>1, <1>s, CallsOwned
    <3>3. JobOwned(r)'
      BY <2>4, <2>5, <3>2, OwnJob
    <3> QED  BY <1>q, <2>2, <3>2, <3>3
  <2>7. CASE GetDisksReturns(r)
    <3>1. DisksOf(job[r].vm) \subseteq VdiIds /\ NextDisk(r, DisksOf(job[r].vm))
      BY <2>7 DEF GetDisksReturns, DisksOf
    <3>2. \A d \in DisksOf(job[r].vm) : vdis[d].owner = r /\ vdis'[d].owner = r
      BY <2>7, <2>4, <1>s, MachineAssumption
         DEF GetDisksReturns, store, DisksOf, StoreOwned, NoVm
    <3> QED  BY <1>q, <2>2, <2>4, <2>5, <3>1, <3>2, NextDiskOwned
  <2>8. CASE VdiDeleteReturns(r)
    <3>1. job[r].disks \subseteq VdiIds /\ NextDisk(r, job[r].disks)
      BY <2>8, <1>s DEF VdiDeleteReturns, Job
    <3>2. \A d \in job[r].disks : vdis[d].owner = r
      BY <2>8, OwnJobNow DEF VdiDeleteReturns, Returns
    <3>3. \A d \in job[r].disks : vdis'[d].owner = r
      BY <2>2, <3>1, <3>2, <1>s, MachineAssumption DEF NamesKept, StoreOwned
    <3> QED  BY <1>q, <2>2, <2>4, <2>5, <3>1, <3>3, NextDiskOwned
  <2> QED  BY <1>5, <2>6, <2>7, <2>8
<1> QED  BY <1>1, <1>2, <1>3, <1>4, <1>5 DEF Deprovision

LEMMA ErrorsOwned ==
  ASSUME TypeOK, Ownership, NEW r \in Requests,
         Refused(r) \/ Rejected(r) \/ ConnectionLost(r)
  PROVE  Ownership'
<1> DEFINE Others == \A q \in Requests \ {r} : job'[q] = job[q]
<1>1. /\ WantKept /\ UNCHANGED store
      /\ \A o \in late' : o \in late \/ o = Call(r)
  BY DEF Refused, Rejected, ConnectionLost, Resends, StepFails, Abandon, WantKept,
         omni, env
<1>2. NamesKept /\ StoreOwned'
  BY <1>1, StoreKept DEF Ownership
<1>3. CASE StepFails(r)
  BY <1>1, <1>2, <1>3, EndsOwned, OthersOwned DEF StepFails
<1>4. CASE Resends(r)
  <2>1. UNCHANGED <<vms, vdis, want>>
    BY <1>1, <1>4 DEF Resends, omni, store
  <2>2. /\ [job[r] EXCEPT !.again = TRUE, !.pc = "vm.create", !.vm = NoVm].pc
             = "vm.create"
        /\ [job[r] EXCEPT !.again = TRUE].pc = job[r].pc
        /\ [job[r] EXCEPT !.again = TRUE].vm = job[r].vm
        /\ [job[r] EXCEPT !.again = TRUE].vdi = job[r].vdi
        /\ [job[r] EXCEPT !.again = TRUE].disks = job[r].disks
    BY DEF TypeOK, Job
  <2>3. /\ Others
        /\ \/ job'[r].pc = "vm.create"
           \/ /\ job'[r].pc = job[r].pc /\ job'[r].vm = job[r].vm
              /\ job'[r].vdi = job[r].vdi /\ job'[r].disks = job[r].disks
    BY <1>4, <2>2 DEF Resends, TypeOK
  <2>4. JobOwned(r)'
    BY <2>1, <2>3, OwnJobNow, OwnJob DEF OnVm, DeprovisionCalls
  <2> QED  BY <1>1, <1>2, <2>3, <2>4, OthersOwned
<1> QED  BY <1>3, <1>4 DEF Refused, Rejected, ConnectionLost
LEMMA OwnershipStep == TypeOK /\ Ownership /\ [Next]_vars => Ownership'
<1> SUFFICES ASSUME TypeOK, Ownership, [Next]_vars PROVE Ownership'
  OBVIOUS
<1> USE DEF omni, env
<1>1. ASSUME NEW r \in Requests, TearDown(r) PROVE Ownership'
  <2>1. WantKept
    BY <1>1 DEF TypeOK, TearDown, WantKept
  <2> QED  BY <1>1, <2>1, StoreKept, KeptOwned DEF TearDown, Ownership
<1>2. ASSUME NEW v \in VmIds, GuestCrashes(v) \/ GuestDestroyed(v) PROVE Ownership'
  <2>1. /\ vms[v] \in VmRecord
        /\ \A p : /\ [vms[v] EXCEPT !.power = p].name = vms[v].name
                  /\ [vms[v] EXCEPT !.power = p].power = p
    BY DEF TypeOK, VmRecord
  <2>2. PICK p \in {"Paused", "Halted"} : vms' = [vms EXCEPT ![v].power = p]
    BY <1>2 DEF GuestCrashes, GuestDestroyed
  <2>3. \A w \in VmIds : /\ vms'[w].name = vms[w].name
                         /\ vms'[w].power = "unused" <=> vms[w].power = "unused"
    BY <1>2, <2>1, <2>2 DEF TypeOK, GuestCrashes, GuestDestroyed
  <2>4. \A d \in VdiIds : vdis[d].at \in VmIds \cup {NoVm}
    BY DEF TypeOK, VdiRecord
  <2>5. /\ UNCHANGED <<vdis, job, late, want>> /\ WantKept
    BY <1>2 DEF GuestCrashes, GuestDestroyed, WantKept
  <2>6. NamesKept /\ StoreOwned'
    BY <2>3, <2>4, <2>5 DEF NamesKept, StoreOwned, Ownership
  <2> QED  BY <2>5, <2>6, KeptOwned
<1>3. ASSUME NEW o \in late, LateExecutes(o) \/ LateForgotten(o) PROVE Ownership'
  <2>1. o.req \in Requests /\ WorksForItsRequest(o)
    BY DEF TypeOK, Abandoned, Ownership
  <2>2. NamesKept /\ StoreOwned'
    BY <1>3, <2>1, ExecutesOwned, StoreKept DEF LateExecutes, LateForgotten, Ownership
  <2>3. /\ UNCHANGED <<job, want>> /\ WantKept
        /\ \A p \in late' : p \in late
    BY <1>3 DEF LateExecutes, LateForgotten, WantKept
  <2> QED  BY <2>2, <2>3, KeptOwned
<1>4. CASE Crash
  <2>1. WantKept /\ UNCHANGED store
    BY <1>4 DEF Crash, WantKept
  <2>2. ASSUME NEW q \in Requests PROVE JobOwned(q)'
    BY <1>4, OwnJob DEF Crash, Idle, OnVm, SyncCalls, DeprovisionCalls
  <2>3. \A o \in late' : o \in late \/ \E q \in Requests : o = Call(q)
    BY <1>4 DEF Crash, Abandon
  <2> QED  BY <2>1, <2>2, <2>3, StoreKept, KeptOwned DEF Ownership
<1>5. CASE UNCHANGED vars
  <2>1. /\ WantKept /\ UNCHANGED store /\ late' = late
        /\ \A q \in Requests : job'[q] = job[q]
    BY <1>5 DEF vars, store, WantKept
  <2> QED  BY <2>1, StoreKept, KeptOwned DEF Ownership
<1> QED
  BY <1>1, <1>2, <1>3, <1>4, <1>5, SyncOwned, DeprovisionOwned, ErrorsOwned
     DEF Next, AllGone

(* Every call, outstanding or abandoned, works for the request that made   *)
(* it, on that request's VM and disks: retries, crashes and late calls     *)
(* never mix two machines up.                                              *)
THEOREM OwnershipHolds == Spec => []Ownership
<1>1. Init => Ownership
  BY DEF Init, Ownership, JobOwned, StoreOwned, WorksForItsRequest, Call, Idle, OnVm,
         SyncCalls, DeprovisionCalls
<1> QED  BY <1>1, OwnershipStep, TypeCorrect, PTL DEF Spec
-----------------------------------------------------------------------------
(* Power-on and destruction.  Only calls and guests change the store; by   *)
(* Ownership a call that takes a disk away belongs to a request Omni gave  *)
(* up, so the drive a vm.start was sent for is still there when it runs.   *)

GuestStep ==
  /\ UNCHANGED vdis
  /\ \E v \in VmIds, p \in {"Paused", "Halted"} : vms' = [vms EXCEPT ![v].power = p]

LEMMA StoreStep ==
  ASSUME TypeOK, [Next]_vars
  PROVE  \/ UNCHANGED store
         \/ GuestStep
         \/ \E r \in Requests : Executes(Call(r))
         \/ \E o \in late : Executes(o)
<1>1. ASSUME NEW r \in Requests, VmCreateReturns(r) PROVE Executes(Call(r))
  <2>1. PICK v \in FreeVms, d \in FreeVdis : VmCreate(r, v, d)
    BY <1>1 DEF VmCreateReturns
  <2>2. Call(r).pc = "vm.create" /\ Call(r).req = r
    BY <1>1 DEF VmCreateReturns, Returns, Call
  <2> QED  BY <2>1, <2>2 DEF Executes, Accepts
<1>2. ASSUME NEW r \in Requests, DiskImportReturns(r) PROVE Executes(Call(r))
  <2>1. PICK d \in FreeVdis : DiskImport(r, d)
    BY <1>2 DEF DiskImportReturns
  <2>2. Call(r).pc = "disk.import" /\ Call(r).req = r
    BY <1>2 DEF DiskImportReturns, Returns, Call
  <2> QED  BY <2>1, <2>2 DEF Executes, Accepts
<1>3. ASSUME NEW r \in Requests, BeginSync(r) \/ Sync(r)
      PROVE  UNCHANGED store \/ Executes(Call(r))
  BY <1>1, <1>2, <1>3
     DEF BeginSync, Sync, FindsNone, FindsOne, FindsMany, VmSetReturns, HasNoDrive,
         HasDriveHalted, HasDriveRunning, AttachOrStartReturns
<1>4. ASSUME NEW r \in Requests, Deprovision(r)
      PROVE  UNCHANGED store \/ Executes(Call(r))
  BY <1>4
     DEF Deprovision, BeginDeprovision, DeprovisionFindsNone, DeprovisionFindsOne,
         VmStopReturns, GetVIFsReturns, VifDeleteReturns, GetDisksReturns,
         VdiDeleteReturns, VmDeleteReturns
<1>5. ASSUME NEW r \in Requests,
             Refused(r) \/ Rejected(r) \/ ConnectionLost(r) \/ TearDown(r)
      PROVE  UNCHANGED store
  BY <1>5 DEF Refused, Rejected, ConnectionLost, TearDown
<1>6. ASSUME NEW v \in VmIds, GuestCrashes(v) \/ GuestDestroyed(v) PROVE GuestStep
  BY <1>6 DEF GuestCrashes, GuestDestroyed, GuestStep
<1>7. ASSUME NEW o \in late, LateExecutes(o) \/ LateForgotten(o)
      PROVE  UNCHANGED store \/ Executes(o)
  BY <1>7 DEF LateExecutes, LateForgotten
<1>8. Crash \/ UNCHANGED vars => UNCHANGED store
  BY DEF Crash, vars, store
<1> QED  BY <1>3, <1>4, <1>5, <1>6, <1>7, <1>8 DEF Next, AllGone

(* Omni never takes a teardown back.                                       *)
LEMMA WantStep ==
  ASSUME TypeOK, [Next]_vars
  PROVE  WantKept
<1> USE DEF omni
<1>1. ASSUME NEW r \in Requests, BeginSync(r) \/ Sync(r) PROVE want' = want
  BY <1>1 DEF Sync, BeginSync, FindsNone, FindsOne, FindsMany, VmCreateReturns,
         VmSetReturns, HasNoDrive, HasDriveHalted, HasDriveRunning,
         DiskImportReturns, AttachOrStartReturns
<1>2. ASSUME NEW r \in Requests, Deprovision(r) PROVE WantKept
  BY <1>2 DEF TypeOK, WantKept, Deprovision, BeginDeprovision, DeprovisionFindsNone,
         DeprovisionFindsOne, VmStopReturns, GetVIFsReturns, VifDeleteReturns,
         GetDisksReturns, VdiDeleteReturns, VmDeleteReturns
<1>3. ASSUME NEW r \in Requests, Refused(r) \/ Rejected(r) \/ ConnectionLost(r)
      PROVE  want' = want
  BY <1>3 DEF Refused, Rejected, ConnectionLost, Resends, StepFails
<1>4. ASSUME NEW r \in Requests, TearDown(r) PROVE WantKept
  BY <1>4 DEF TypeOK, TearDown, WantKept
<1>5. ASSUME NEW v \in VmIds, GuestCrashes(v) \/ GuestDestroyed(v) PROVE want' = want
  BY <1>5 DEF GuestCrashes, GuestDestroyed
<1>6. ASSUME NEW o \in late, LateExecutes(o) \/ LateForgotten(o) PROVE want' = want
  BY <1>6 DEF LateExecutes, LateForgotten
<1>7. Crash \/ UNCHANGED vars => want' = want
  BY DEF Crash, vars
<1> QED  BY <1>1, <1>2, <1>3, <1>4, <1>5, <1>6, <1>7 DEF Next, AllGone, WantKept

(* A call that takes a disk from a VM, or deletes a VM, is one of a        *)
(* request Omni gave up, and the VM has that request's name.               *)
LEMMA DestroysOwn ==
  ASSUME TypeOK, Ownership, NEW o, o.req \in Requests, WorksForItsRequest(o),
         Executes(o)
  PROVE  /\ \A v \in VmIds : Present(v) /\ vms'[v].power = "deleted"
                               => want[vms[v].name] # "running"
         /\ \A d \in VdiIds : vdis[d].at # NoVm /\ vdis'[d] # vdis[d]
                               => want[vms[vdis[d].at].name] # "running"
<1>1. CASE o.pc = "vm.create" /\ \E v \in FreeVms, d \in FreeVdis : VmCreate(o.req, v, d)
  <2>1. PICK v \in FreeVms, d \in FreeVdis : VmCreate(o.req, v, d)
    BY <1>1
  <2>2. \A w \in VmIds : Present(w) => vms'[w] = vms[w]
    BY <2>1 DEF TypeOK, VmCreate, FreeVms, Present
  <2>3. \A e \in VdiIds : vdis[e].at # NoVm => vdis'[e] = vdis[e]
    BY <2>1 DEF TypeOK, VmCreate, FreeVdis, Ownership, StoreOwned
  <2> QED  BY <2>2, <2>3 DEF Present
<1>2. CASE o.pc = "disk.import" /\ \E d \in FreeVdis : DiskImport(o.req, d)
  <2>1. PICK d \in FreeVdis : DiskImport(o.req, d)
    BY <1>2
  <2>2. \A e \in VdiIds : vdis[e].at # NoVm => vdis'[e] = vdis[e]
    BY <2>1 DEF TypeOK, DiskImport, FreeVdis, Ownership, StoreOwned
  <2> QED  BY <2>1, <2>2 DEF Present, DiskImport
<1>3. CASE o.pc = "vm.attachDisk" /\ AttachDisk(o.vm, o.vdi)
  <2>1. vdis[o.vdi].at = NoVm
    BY <1>3 DEF Executes, Accepts
  <2> QED  BY <1>3, <2>1 DEF TypeOK, AttachDisk, Present
<1>4. CASE o.pc = "vdi.delete" /\ VdiDelete(o.vdi)
  <2>1. o.vdi \in VdiIds /\ vdis[o.vdi].owner = o.req /\ want[o.req] # "running"
    BY <1>4 DEF WorksForItsRequest, DeprovisionCalls
  <2>2. \A d \in VdiIds : vdis[d].at # NoVm /\ vdis'[d] # vdis[d] => d = o.vdi
    BY <1>4 DEF TypeOK, VdiDelete
  <2> QED  BY <1>4, <2>1, <2>2 DEF VdiDelete, Ownership, StoreOwned, Present
<1>5. CASE o.pc = "vm.delete" /\ VmDelete(o.vm)
  <2>1. o.vm \in VmIds /\ vms[o.vm].name = o.req /\ want[o.req] # "running"
    BY <1>5 DEF WorksForItsRequest, OnVm, DeprovisionCalls
  <2>2. \A v \in VmIds : v # o.vm => vms'[v] = vms[v]
    BY <1>5 DEF TypeOK, VmDelete
  <2>3. \A d \in VdiIds : vdis[d].at # o.vm => vdis'[d] = vdis[d]
    BY <1>5 DEF TypeOK, VmDelete
  <2> QED  BY <2>1, <2>2, <2>3 DEF Present
<1>6. CASE /\ UNCHANGED vdis
           /\ \/ vms' = [vms EXCEPT ![o.vm].pinned = TRUE]
              \/ vms' = [vms EXCEPT ![o.vm].power = "Running"]
              \/ vms' = [vms EXCEPT ![o.vm].power = "Halted"]
              \/ vms' = [vms EXCEPT ![o.vm].vif = FALSE]
  <2>1. ASSUME NEW v \in VmIds, vms[v].power # "deleted"
        PROVE  vms'[v].power # "deleted"
    <3>1. vms[v] \in VmRecord /\ vms \in [VmIds -> VmRecord]
      BY DEF TypeOK
    <3>2. /\ [vms[v] EXCEPT !.pinned = TRUE].power = vms[v].power
          /\ [vms[v] EXCEPT !.vif = FALSE].power = vms[v].power
          /\ \A p : [vms[v] EXCEPT !.power = p].power = p
      BY <3>1 DEF VmRecord
    <3>3. CASE vms' = [vms EXCEPT ![o.vm].pinned = TRUE]
      BY <2>1, <3>1, <3>2, <3>3
    <3>4. CASE vms' = [vms EXCEPT ![o.vm].power = "Running"]
      BY <2>1, <3>1, <3>2, <3>4
    <3>5. CASE vms' = [vms EXCEPT ![o.vm].power = "Halted"]
      BY <2>1, <3>1, <3>2, <3>5
    <3>6. CASE vms' = [vms EXCEPT ![o.vm].vif = FALSE]
      BY <2>1, <3>1, <3>2, <3>6
    <3> QED  BY <1>6, <3>3, <3>4, <3>5, <3>6
  <2> QED  BY <1>6, <2>1 DEF Present
<1> QED  BY <1>1, <1>2, <1>3, <1>4, <1>5, <1>6 DEF Executes
DestroysTornDown ==
  /\ \A v \in VmIds : Present(v) /\ vms'[v].power = "deleted"
                        => want[vms[v].name] # "running"
  /\ \A d \in VdiIds : vdis[d].at # NoVm /\ vdis'[d].at = NoVm
                        => want[vms[vdis[d].at].name] # "running"

LEMMA GuestKeeps ==
  ASSUME TypeOK, GuestStep, NEW v \in VmIds
  PROVE  /\ vms'[v].name = vms[v].name
         /\ vms'[v].power \in {vms[v].power, "Paused", "Halted"}
<1>1. /\ vms[v] \in VmRecord
      /\ \A p : /\ [vms[v] EXCEPT !.power = p].name = vms[v].name
                /\ [vms[v] EXCEPT !.power = p].power = p
  BY DEF TypeOK, VmRecord
<1>2. PICK w \in VmIds, p \in {"Paused", "Halted"} : vms' = [vms EXCEPT ![w].power = p]
  BY DEF GuestStep
<1> QED  BY <1>1, <1>2 DEF TypeOK

LEMMA DestroyStep == TypeOK /\ Ownership /\ [Next]_vars => DestroysTornDown
<1> SUFFICES ASSUME TypeOK, Ownership, [Next]_vars PROVE DestroysTornDown
  OBVIOUS
<1>1. CASE UNCHANGED store
  BY <1>1 DEF store, DestroysTornDown, Present
<1>2. CASE GuestStep
  <2>1. \A v \in VmIds : Present(v) => vms'[v].power # "deleted"
    BY <1>2, GuestKeeps DEF Present
  <2> QED  BY <1>2, <2>1 DEF GuestStep, DestroysTornDown
<1>3. ASSUME NEW o, o.req \in Requests, WorksForItsRequest(o), Executes(o)
      PROVE  DestroysTornDown
  BY <1>3, DestroysOwn DEF DestroysTornDown
<1>4. \A r \in Requests : Call(r).req \in Requests /\ WorksForItsRequest(Call(r))
  BY CallTyped DEF Ownership, JobOwned
<1>5. \A o \in late : o.req \in Requests /\ WorksForItsRequest(o)
  BY DEF TypeOK, Abandoned, Ownership
<1> QED  BY <1>1, <1>2, <1>3, <1>4, <1>5, StoreStep

(* Whatever is retried, abandoned or late, a VM or an attached disk of a   *)
(* machine Omni wants is never destroyed.                                  *)
THEOREM NeverDestroysWanted == Spec => DestroysOnlyTornDown
<1>1. TypeOK /\ Ownership /\ [Next]_vars
        => [/\ \A v \in VmIds : Present(v) /\ vms'[v].power = "deleted"
                                  => want[vms[v].name] # "running"
            /\ \A d \in VdiIds : vdis[d].at # NoVm /\ vdis'[d].at = NoVm
                                  => want[vms[vdis[d].at].name] # "running"]_vars
  BY DestroyStep DEF DestroysTornDown
<1> QED  BY <1>1, TypeCorrect, OwnershipHolds, PTL DEF Spec, DestroysOnlyTornDown

(* The drive of a machine Omni still wants survives every step.            *)
LEMMA DriveKept ==
  ASSUME TypeOK, Ownership, [Next]_vars, NEW v \in VmIds, HasDrive(v),
         vms[v].name \in Requests, want[vms[v].name] = "running"
  PROVE  HasDrive(v)'
<1>1. PICK d \in VdiIds : vdis[d].kind = "cidata" /\ vdis[d].at = v
  BY DEF HasDrive
<1>2. vdis[d].at # NoVm
  BY <1>1, MachineAssumption DEF NoVm
<1>3. CASE vdis' = vdis
  BY <1>1, <1>3 DEF HasDrive
<1>4. ASSUME NEW o, o.req \in Requests, WorksForItsRequest(o), Executes(o)
      PROVE  HasDrive(v)'
  <2>1. vdis'[d] = vdis[d]
    BY <1>1, <1>2, <1>4, DestroysOwn
  <2> QED  BY <1>1, <2>1 DEF HasDrive
<1>5. \A r \in Requests : Call(r).req \in Requests /\ WorksForItsRequest(Call(r))
  BY CallTyped DEF Ownership, JobOwned
<1>6. \A o \in late : o.req \in Requests /\ WorksForItsRequest(o)
  BY DEF TypeOK, Abandoned, Ownership
<1> QED  BY <1>3, <1>4, <1>5, <1>6, StoreStep DEF GuestStep, store
(* A vm.start is sent only on a VM whose drive was just seen.              *)
LEMMA StartsStep ==
  ASSUME TypeOK, [Next]_vars, NEW q \in Requests, job'[q].pc = "vm.start"
  PROVE  /\ job'[q].vm = job[q].vm
         /\ \/ job[q].pc = "vm.start"
            \/ job[q].pc = "getDisks" /\ HasDrive(job[q].vm) /\ UNCHANGED store
<1> USE DEF omni
<1> DEFINE Goal == /\ job'[q].vm = job[q].vm
                   /\ \/ job[q].pc = "vm.start"
                      \/ /\ job[q].pc = "getDisks"
                         /\ HasDrive(job[q].vm) /\ UNCHANGED store
<1>0. job'[q] = job[q] => Goal
  OBVIOUS
<1>1. ASSUME NEW r \in Requests, NEW pc, NEW j \in Job, Calls(r, pc, j), pc # "vm.start"
      PROVE  Goal
  BY <1>0, <1>1, CallsOwned
<1>2. ASSUME NEW r \in Requests, Ends(r)
      PROVE  Goal
  <2>1. job'[r] = Idle /\ \A p \in Requests \ {r} : job'[p] = job[p]
    BY <1>2 DEF TypeOK, Ends
  <2> QED  BY <1>0, <2>1 DEF Idle
<1>3. ASSUME NEW r \in Requests, BeginSync(r) \/ Sync(r)
      PROVE  Goal
  <2>1. CASE BeginSync(r) \/ FindsNone(r)
    BY <1>1, <2>1, IdleTyped DEF BeginSync, FindsNone
  <2>2. CASE FindsOne(r)
    BY <1>1, <2>2, FoundTyped DEF FindsOne
  <2>3. CASE \/ FindsMany(r) \/ VmSetReturns(r) \/ HasDriveRunning(r)
             \/ AttachOrStartReturns(r)
    BY <1>2, <2>3 DEF FindsMany, VmSetReturns, HasDriveRunning, AttachOrStartReturns,
                      StepEnds
  <2>4. CASE VmCreateReturns(r)
    <3>1. PICK v \in FreeVms :
            job' = [job EXCEPT ![r] = [job[r] EXCEPT !.pc = "vm.set", !.vm = v]]
      BY <2>4 DEF VmCreateReturns
    <3>2. [job[r] EXCEPT !.pc = "vm.set", !.vm = v].pc = "vm.set"
      BY DEF TypeOK, Job
    <3>3. q # r
      BY <3>1, <3>2 DEF TypeOK
    <3> QED  BY <1>0, <3>1, <3>3 DEF TypeOK
  <2>5. CASE HasNoDrive(r)
    BY <1>1, <2>5 DEF HasNoDrive, TypeOK
  <2>6. CASE HasDriveHalted(r)
    <3>1. /\ Calls(r, "vm.start", job[r]) /\ job[r] \in Job
          /\ job[r].pc = "getDisks" /\ HasDrive(job[r].vm) /\ UNCHANGED store
      BY <2>6 DEF HasDriveHalted, Returns, TypeOK, HasDrive, ConfigDrives, DisksOf
    <3>2. job'[r].vm = job[r].vm /\ \A p \in Requests \ {r} : job'[p] = job[p]
      BY <3>1, CallsOwned
    <3> QED  BY <1>0, <3>1, <3>2
  <2>7. CASE DiskImportReturns(r)
    <3>1. PICK d \in FreeVdis : Calls(r, "vm.attachDisk", [job[r] EXCEPT !.vdi = d])
      BY <2>7 DEF DiskImportReturns
    <3> DEFINE j == [job[r] EXCEPT !.vdi = d]
    <3>2. j \in Job /\ Calls(r, "vm.attachDisk", j)
      BY <3>1 DEF FreeVdis, Job, TypeOK
    <3> HIDE DEF j
    <3> QED  BY <1>1, <3>2
  <2> QED  BY <1>3, <2>1, <2>2, <2>3, <2>4, <2>5, <2>6, <2>7 DEF Sync
<1>4. ASSUME NEW r \in Requests, Deprovision(r)
      PROVE  Goal
  <2>1. CASE BeginDeprovision(r)
    BY <1>1, <2>1, IdleTyped DEF BeginDeprovision
  <2>2. CASE DeprovisionFindsNone(r) \/ VmStopReturns(r) \/ VmDeleteReturns(r)
    BY <1>2, <2>2 DEF DeprovisionFindsNone, VmStopReturns, VmDeleteReturns
  <2>3. CASE DeprovisionFindsOne(r)
    <3>1. PICK v \in VmIds, pc \in {"vm.stop", "d.getVIFs"} : Calls(r, pc, Found(v))
      BY <2>3 DEF DeprovisionFindsOne
    <3> QED  BY <1>1, <3>1, FoundTyped
  <2>4. CASE GetVIFsReturns(r) \/ VifDeleteReturns(r)
    <3>1. PICK pc \in {"vif.delete", "d.getDisks"} : Calls(r, pc, job[r])
      BY <2>4 DEF GetVIFsReturns, VifDeleteReturns
    <3> QED  BY <1>1, <3>1 DEF TypeOK
  <2>5. CASE GetDisksReturns(r) \/ VdiDeleteReturns(r)
    <3>1. PICK ds \in SUBSET VdiIds : NextDisk(r, ds)
      BY <2>5 DEF GetDisksReturns, VdiDeleteReturns, DisksOf, TypeOK, Job
    <3>2. CASE Calls(r, "vm.delete", job[r])
      BY <1>1, <3>2 DEF TypeOK
    <3>3. ASSUME NEW d \in ds,
                 Calls(r, "vdi.delete", [job[r] EXCEPT !.vdi = d, !.disks = ds \ {d}])
          PROVE  Goal
      <4> DEFINE j == [job[r] EXCEPT !.vdi = d, !.disks = ds \ {d}]
      <4>1. j \in Job /\ Calls(r, "vdi.delete", j)
        BY <3>3 DEF Job, TypeOK
      <4> HIDE DEF j
      <4> QED  BY <1>1, <4>1
    <3> QED  BY <3>1, <3>2, <3>3 DEF NextDisk
  <2> QED  BY <1>4, <2>1, <2>2, <2>3, <2>4, <2>5 DEF Deprovision
<1>5. ASSUME NEW r \in Requests, Refused(r) \/ Rejected(r) \/ ConnectionLost(r)
      PROVE  Goal
  <2>1. CASE StepFails(r)
    BY <1>2, <2>1 DEF StepFails
  <2>2. CASE Resends(r)
    <3>1. /\ [job[r] EXCEPT !.again = TRUE, !.pc = "vm.create", !.vm = NoVm].pc
               = "vm.create"
          /\ [job[r] EXCEPT !.again = TRUE].pc = job[r].pc
          /\ [job[r] EXCEPT !.again = TRUE].vm = job[r].vm
      BY DEF TypeOK, Job
    <3> QED  BY <2>2, <3>1 DEF Resends, TypeOK
  <2> QED  BY <1>5, <2>1, <2>2 DEF Refused, Rejected, ConnectionLost
<1>6. CASE \/ \E r \in Requests : TearDown(r)
           \/ \E v \in VmIds : GuestCrashes(v) \/ GuestDestroyed(v)
           \/ \E o \in late : LateExecutes(o) \/ LateForgotten(o)
           \/ UNCHANGED vars
  BY <1>0, <1>6 DEF TearDown, GuestCrashes, GuestDestroyed, LateExecutes,
                    LateForgotten, vars
<1>7. CASE Crash
  BY <1>7 DEF Crash, Idle
<1> QED  BY <1>3, <1>4, <1>5, <1>6, <1>7 DEF Next, AllGone

LEMMA LateStep ==
  ASSUME TypeOK, [Next]_vars, NEW o \in late'
  PROVE  o \in late \/ \E q \in Requests : o = Call(q)
<1>1. ASSUME NEW r \in Requests, BeginSync(r) \/ Sync(r) \/ Deprovision(r) \/ Refused(r)
      PROVE  late' = late
  BY <1>1 DEF Sync, BeginSync, FindsNone, FindsOne, FindsMany, VmCreateReturns,
         VmSetReturns, HasNoDrive, HasDriveHalted, HasDriveRunning,
         DiskImportReturns, AttachOrStartReturns, Deprovision, BeginDeprovision,
         DeprovisionFindsNone, DeprovisionFindsOne, VmStopReturns, GetVIFsReturns,
         VifDeleteReturns, GetDisksReturns, VdiDeleteReturns, VmDeleteReturns,
         Refused, env
<1>2. ASSUME NEW r \in Requests, Rejected(r) \/ ConnectionLost(r) \/ TearDown(r)
      PROVE  o \in late \/ \E q \in Requests : o = Call(q)
  BY <1>2 DEF Rejected, ConnectionLost, TearDown, Abandon, env
<1>3. ASSUME NEW v \in VmIds, GuestCrashes(v) \/ GuestDestroyed(v) PROVE late' = late
  BY <1>3 DEF GuestCrashes, GuestDestroyed, env
<1>4. ASSUME NEW p \in late, LateExecutes(p) \/ LateForgotten(p) PROVE o \in late
  BY <1>4 DEF LateExecutes, LateForgotten
<1>5. Crash => o \in late \/ \E q \in Requests : o = Call(q)
  BY DEF Crash, Abandon
<1>6. UNCHANGED vars => late' = late
  BY DEF vars
<1> QED  BY <1>1, <1>2, <1>3, <1>4, <1>5, <1>6 DEF Next, AllGone

(* A VM begins to run only when a vm.start on it executes.                 *)
LEMMA RunsWhenStarted ==
  ASSUME TypeOK, NEW o, Executes(o), NEW v \in VmIds, vms'[v].power = "Running"
  PROVE  \/ vms[v].power = "Running"
         \/ o.pc = "vm.start" /\ o.vm = v /\ vdis' = vdis
<1>1. vms[v] \in VmRecord /\ vms \in [VmIds -> VmRecord]
  BY DEF TypeOK
<1>2. /\ [vms[v] EXCEPT !.pinned = TRUE].power = vms[v].power
      /\ [vms[v] EXCEPT !.vif = FALSE].power = vms[v].power
      /\ \A p : [vms[v] EXCEPT !.power = p].power = p
  BY <1>1 DEF VmRecord
<1>3. CASE o.pc = "vm.create"
  <2>1. PICK w \in FreeVms, d \in FreeVdis : VmCreate(o.req, w, d)
    BY <1>3 DEF Executes
  <2> QED  BY <1>1, <2>1 DEF VmCreate, FreeVms
<1>4. CASE UNCHANGED vms
  BY <1>4
<1>5. CASE VmDelete(o.vm)
  BY <1>1, <1>2, <1>5 DEF VmDelete
<1>6. CASE vms' = [vms EXCEPT ![o.vm].pinned = TRUE]
  BY <1>1, <1>2, <1>6
<1>7. CASE UNCHANGED vdis /\ o.pc = "vm.start" /\ vms' = [vms EXCEPT ![o.vm].power = "Running"]
  BY <1>1, <1>7
<1>8. CASE vms' = [vms EXCEPT ![o.vm].power = "Halted"]
  BY <1>1, <1>2, <1>8
<1>9. CASE vms' = [vms EXCEPT ![o.vm].vif = FALSE]
  BY <1>1, <1>2, <1>9
<1> QED
  BY <1>3, <1>4, <1>5, <1>6, <1>7, <1>8, <1>9
     DEF Executes, DiskImport, AttachDisk, VdiDelete

LEMMA NamesStep ==
  ASSUME TypeOK, Ownership, [Next]_vars
  PROVE  NamesKept
<1>1. CASE UNCHANGED store
  BY <1>1 DEF store, NamesKept
<1>2. CASE GuestStep
  BY <1>2, GuestKeeps DEF NamesKept, GuestStep
<1>3. \A r \in Requests : Executes(Call(r)) => NamesKept
  BY CallTyped, ExecutesOwned DEF Ownership, JobOwned
<1>4. \A o \in late : Executes(o) => NamesKept
  BY ExecutesOwned DEF Ownership, TypeOK, Abandoned
<1> QED  BY <1>1, <1>2, <1>3, <1>4, StoreStep

(* The drive of a VM whose request is still wanted after the step.         *)
LEMMA DriveStays ==
  ASSUME TypeOK, Ownership, [Next]_vars, NEW v \in VmIds, vms[v].name \in Requests,
         want'[vms[v].name] = "running"
  PROVE  /\ want[vms[v].name] = "running" /\ vms'[v].name = vms[v].name
         /\ HasDrive(v) => HasDrive(v)'
<1>1. want[vms[v].name] = "running"
  BY WantStep DEF WantKept, TypeOK
<1>2. vms[v].power # "unused"
  BY MachineAssumption DEF Ownership, StoreOwned
<1>3. vms'[v].name = vms[v].name
  BY <1>2, NamesStep DEF NamesKept
<1> QED  BY <1>1, <1>3, DriveKept

(* A call that Omni's wish still stands behind, now or before the step.    *)
LEMMA StartStays ==
  ASSUME TypeOK, Ownership, [Next]_vars, NEW o, o.req \in Requests,
         WorksForItsRequest(o), o.pc = "vm.start", want'[o.req] = "running"
  PROVE  /\ o.vm \in VmIds /\ want[o.req] = "running"
         /\ HasDrive(o.vm) => HasDrive(o.vm)'
<1>1. o.vm \in VmIds /\ vms[o.vm].name = o.req
  BY DEF WorksForItsRequest, OnVm, SyncCalls
<1> QED  BY <1>1, DriveStays

LEMMA StartsStay ==
  ASSUME TypeOK, Ownership, StartsAreConfigured, [Next]_vars
  PROVE  StartsAreConfigured'
<1>1. ASSUME NEW q \in Requests, job'[q].pc = "vm.start", want'[q] = "running",
             NEW v, v = job'[q].vm
      PROVE  HasDrive(v)'
  <2>1. job[q].pc \in OnVm
    BY <1>1, StartsStep DEF OnVm, SyncCalls
  <2>2. v = job[q].vm
    BY <1>1, StartsStep
  <2>3. v \in VmIds /\ vms[v].name = q
    BY <2>1, <2>2, CallTyped DEF Ownership, JobOwned, WorksForItsRequest
  <2>4. want[q] = "running" /\ (HasDrive(v) => HasDrive(v)')
    BY <1>1, <2>3, DriveStays
  <2>5. HasDrive(v)
    BY <1>1, <2>2, <2>4, StartsStep DEF StartsAreConfigured
  <2> QED  BY <2>4, <2>5
<1>2. ASSUME NEW o \in late', o.pc = "vm.start", want'[o.req] = "running"
      PROVE  HasDrive(o.vm)'
  <2>1. CASE o \in late
    <3>1. o.req \in Requests /\ WorksForItsRequest(o)
      BY <2>1 DEF TypeOK, Abandoned, Ownership
    <3> QED  BY <1>2, <2>1, <3>1, StartStays DEF StartsAreConfigured
  <2>2. ASSUME NEW q \in Requests, o = Call(q)
        PROVE  HasDrive(o.vm)'
    <3>1. /\ o.req = q /\ o.pc = job[q].pc /\ o.vm = job[q].vm
          /\ WorksForItsRequest(o)
      BY <2>2, CallTyped DEF Ownership, JobOwned
    <3> QED  BY <1>2, <3>1, StartStays DEF StartsAreConfigured
  <2> QED  BY <2>1, <2>2, LateStep
<1> QED  BY <1>1, <1>2 DEF StartsAreConfigured

LEMMA PowerOnStays ==
  ASSUME TypeOK, Ownership, StartsAreConfigured, ConfiguredAtPowerOn, [Next]_vars
  PROVE  ConfiguredAtPowerOn'
<1> SUFFICES ASSUME NEW v \in VmIds, vms'[v].power = "Running",
                    want'[vms'[v].name] = "running"
             PROVE  HasDrive(v)'
  BY DEF ConfiguredAtPowerOn
<1>1. CASE vms[v].power = "Running"
  <2>1. vms[v].name \in Requests
    BY <1>1 DEF TypeOK, VmRecord, Ownership, StoreOwned
  <2>2. vms'[v].name = vms[v].name
    BY <1>1, NamesStep DEF NamesKept
  <2> QED  BY <1>1, <2>1, <2>2, DriveStays DEF ConfiguredAtPowerOn
<1>2. ASSUME vms[v].power # "Running", NEW o, o.req \in Requests,
             WorksForItsRequest(o), Executes(o),
             o.pc = "vm.start" /\ want[o.req] = "running" => HasDrive(o.vm)
      PROVE  HasDrive(v)'
  <2>1. o.pc = "vm.start" /\ o.vm = v /\ vdis' = vdis
    BY <1>2, RunsWhenStarted
  <2>2. vms[v].name = o.req
    BY <1>2, <2>1 DEF WorksForItsRequest, OnVm, SyncCalls
  <2>3. vms[v].power # "unused"
    BY <1>2, <2>2, MachineAssumption DEF Ownership, StoreOwned
  <2>4. vms'[v].name = o.req
    BY <2>2, <2>3, NamesStep DEF NamesKept
  <2>5. want[o.req] = "running"
    BY <1>2, <2>4, WantStep DEF WantKept, TypeOK
  <2> QED  BY <1>2, <2>1, <2>5 DEF HasDrive
<1>3. CASE UNCHANGED store
  BY <1>1, <1>3 DEF store
<1>4. CASE GuestStep
  BY <1>1, <1>4, GuestKeeps
<1>5. ASSUME NEW r \in Requests, Executes(Call(r)), vms[v].power # "Running"
      PROVE  HasDrive(v)'
  <2>1. /\ Call(r).req = r /\ Call(r).pc = job[r].pc /\ Call(r).vm = job[r].vm
        /\ WorksForItsRequest(Call(r))
    BY CallTyped DEF Ownership, JobOwned
  <2> QED  BY <1>2, <1>5, <2>1 DEF StartsAreConfigured
<1>6. ASSUME NEW o \in late, Executes(o), vms[v].power # "Running"
      PROVE  HasDrive(v)'
  <2>1. o.req \in Requests /\ WorksForItsRequest(o)
    BY DEF TypeOK, Abandoned, Ownership
  <2> QED  BY <1>2, <1>6, <2>1 DEF StartsAreConfigured
<1> QED  BY <1>1, <1>3, <1>4, <1>5, <1>6, StoreStep

LEMMA PowerOnInit == Init => StartsAreConfigured /\ ConfiguredAtPowerOn
BY DEF Init, StartsAreConfigured, ConfiguredAtPowerOn, Idle

(* The drive a vm.start was sent for is still attached when it executes,   *)
(* however late: provision.go:184-204 needs no second look.                *)
THEOREM StartsHold == Spec => []StartsAreConfigured
<1>1. TypeOK /\ Ownership /\ StartsAreConfigured /\ [Next]_vars => StartsAreConfigured'
  BY StartsStay
<1>2. Init => StartsAreConfigured
  BY PowerOnInit
<1> QED  BY <1>1, <1>2, TypeCorrect, OwnershipHolds, PTL DEF Spec

(* A machine Omni wants is never powered on without its config drive.      *)
THEOREM PowerOnHolds == Spec => []ConfiguredAtPowerOn
<1>1. TypeOK /\ Ownership /\ StartsAreConfigured /\ ConfiguredAtPowerOn /\ [Next]_vars
        => ConfiguredAtPowerOn'
  BY PowerOnStays
<1>2. Init => ConfiguredAtPowerOn
  BY PowerOnInit
<1> QED  BY <1>1, <1>2, TypeCorrect, OwnershipHolds, StartsHold, PTL DEF Spec
=============================================================================
