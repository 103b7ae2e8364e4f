------------------------- MODULE MachineOnceProofs -------------------------
(***************************************************************************)
(* What holds of Machine when no connection is lost under a call and an    *)
(* abandoned call is decided before the next call of its request is        *)
(* answered: crashes, errors and guests remain.  For every set of requests *)
(* and every pool size.                                                    *)
(***************************************************************************)
EXTENDS MachineProofs, FiniteSetTheorems

-----------------------------------------------------------------------------
(* The kinds of step.  What a step does to the job of one request, to the  *)
(* abandoned calls and to the store, with what is known of it then.        *)

(* A reconcile begins. *)
Begins(q) ==
  /\ job[q].pc = "idle" /\ UNCHANGED <<omni, store, env>>
  /\ \/ want[q] = "running" /\ job'[q].pc = "findVM"
     \/ want[q] = "teardown" /\ job'[q].pc = "d.findVM"

(* It learns from findVM, or from getDisks, what to do next. *)
Learns(q) ==
  /\ UNCHANGED store
  /\ \/ /\ job[q].pc = "findVM" /\ Named(q) = {} /\ job'[q].pc = "vm.create"
     \/ /\ job'[q].vm \in VmIds /\ Named(q) = {job'[q].vm}
        /\ \/ job[q].pc = "findVM" /\ job'[q].pc = "getDisks"
           \/ job[q].pc = "d.findVM" /\ job'[q].pc \in {"vm.stop", "d.getVIFs"}
     \/ /\ job[q].pc = "getDisks" /\ job'[q].vm = job[q].vm
        /\ \/ ConfigDrives(job[q].vm) = {} /\ job'[q].pc = "disk.import"
           \/ HasDrive(job[q].vm) /\ job'[q].pc = "vm.start"

(* Its call created a VM or a disk, which the next call is about. *)
Creates(q) ==
  \/ /\ job[q].pc = "vm.create" /\ job'[q].pc = "vm.set" /\ job'[q].vm \in FreeVms
     /\ \E d \in FreeVdis : VmCreate(q, job'[q].vm, d)
  \/ /\ job[q].pc = "disk.import" /\ job'[q].pc = "vm.attachDisk"
     /\ job'[q].vm = job[q].vm
     /\ job'[q].vdi \in FreeVdis /\ DiskImport(q, job'[q].vdi)

(* It takes the machine apart. *)
TakesNext(q, ds) ==
  /\ job'[q].vm = job[q].vm
  /\ \/ ds = {} /\ job'[q].pc = "vm.delete"
     \/ /\ job'[q].pc = "vdi.delete" /\ job'[q].vdi \in ds
        /\ job'[q].disks = ds \ {job'[q].vdi}
TakesApart(q) ==
  \/ /\ job[q].pc \in {"d.getVIFs", "vif.delete"} /\ UNCHANGED vdis
     /\ job'[q].vm = job[q].vm /\ job'[q].pc \in {"vif.delete", "d.getDisks"}
  \/ /\ job[q].pc = "d.getDisks" /\ UNCHANGED store
     /\ TakesNext(q, DisksOf(job[q].vm))
  \/ /\ job[q].pc = "vdi.delete" /\ Executes(Call(q))
     /\ TakesNext(q, job[q].disks)

Moves(q) ==
  /\ Returns(q, job[q].pc) /\ UNCHANGED <<omni, env>>
  /\ Learns(q) \/ Creates(q) \/ TakesApart(q)

(* NextDisk, spelt out.                                                    *)
LEMMA TakesNextDisk ==
  ASSUME TypeOK, NEW r \in Requests, NEW ds \in SUBSET VdiIds, NextDisk(r, ds)
  PROVE  TakesNext(r, ds) /\ \A q \in Requests \ {r} : job'[q] = job[q]
<1>1. job[r] \in Job
  BY DEF TypeOK
<1>2. CASE ds = {} /\ Calls(r, "vm.delete", job[r])
  BY <1>1, <1>2, CallsOwned DEF TakesNext
<1>3. ASSUME NEW d \in ds,
             Calls(r, "vdi.delete", [job[r] EXCEPT !.vdi = d, !.disks = ds \ {d}])
      PROVE  TakesNext(r, ds) /\ \A q \in Requests \ {r} : job'[q] = job[q]
  <2> DEFINE j == [job[r] EXCEPT !.vdi = d, !.disks = ds \ {d}]
  <2>1. j \in Job /\ j.vm = job[r].vm /\ j.vdi = d /\ j.disks = ds \ {d}
    BY <1>1 DEF Job
  <2>2. Calls(r, "vdi.delete", j)
    BY <1>3
  <2> HIDE DEF j
  <2>3. /\ job'[r].pc = "vdi.delete" /\ job'[r].vm = job[r].vm /\ job'[r].vdi = d
        /\ job'[r].disks = ds \ {d}
        /\ \A q \in Requests \ {r} : job'[q] = job[q]
    BY <2>1, <2>2, CallsOwned
  <2> QED  BY <2>3 DEF TakesNext
<1> QED  BY <1>2, <1>3 DEF NextDisk

LEMMA EndsAlone ==
  ASSUME TypeOK, NEW r \in Requests, Ends(r)
  PROVE  job'[r] = Idle /\ \A q \in Requests \ {r} : job'[q] = job[q]
BY DEF TypeOK, Ends
(* What a step of syncMachine does to the job.                             *)
LEMMA SyncMoves ==
  ASSUME TypeOK, NEW r \in Requests, BeginSync(r) \/ Sync(r)
  PROVE  /\ job'[r] = Idle \/ Begins(r) \/ Moves(r)
         /\ \A q \in Requests \ {r} : job'[q] = job[q]
<1> DEFINE Others == \A q \in Requests \ {r} : job'[q] = job[q]
<1>0. job[r] \in Job /\ Idle \in Job
  BY IdleTyped DEF TypeOK
<1>1. CASE BeginSync(r)
  <2>1. Calls(r, "findVM", Idle)
    BY <1>1 DEF BeginSync
  <2>2. job'[r].pc = "findVM" /\ Others
    BY <1>0, <2>1, CallsOwned
  <2> QED  BY <1>1, <2>2 DEF BeginSync, Begins
<1>2. CASE FindsNone(r)
  <2>1. Calls(r, "vm.create", Idle)
    BY <1>2 DEF FindsNone
  <2>2. job'[r].pc = "vm.create" /\ Others
    BY <1>0, <2>1, CallsOwned
  <2>3. job[r].pc = "findVM" /\ Returns(r, job[r].pc) /\ Named(r) = {}
    BY <1>2 DEF FindsNone, Returns
  <2> QED  BY <1>2, <2>2, <2>3 DEF FindsNone, Moves, Learns
<1>3. CASE FindsOne(r)
  <2>1. PICK v \in VmIds : Named(r) = {v} /\ Calls(r, "getDisks", Found(v))
    BY <1>3 DEF FindsOne
  <2>2. job'[r].pc = "getDisks" /\ job'[r].vm = v /\ Others
    BY <2>1, FoundTyped, CallsOwned
  <2>3. job[r].pc = "findVM" /\ Returns(r, job[r].pc)
    BY <1>3 DEF FindsOne, Returns
  <2> QED  BY <1>3, <2>1, <2>2, <2>3 DEF FindsOne, Moves, Learns
<1>4. CASE VmCreateReturns(r)
  <2>1. PICK v \in FreeVms, d \in FreeVdis :
          /\ VmCreate(r, v, d)
          /\ job' = [job EXCEPT ![r] = [job[r] EXCEPT !.pc = "vm.set", !.vm = v]]
    BY <1>4 DEF VmCreateReturns
  <2>2. /\ [job[r] EXCEPT !.pc = "vm.set", !.vm = v].pc = "vm.set"
        /\ [job[r] EXCEPT !.pc = "vm.set", !.vm = v].vm = v
    BY <1>0 DEF Job
  <2>3. job'[r].pc = "vm.set" /\ job'[r].vm = v /\ Others
    BY <2>1, <2>2 DEF TypeOK
  <2>4. job[r].pc = "vm.create" /\ Returns(r, job[r].pc)
    BY <1>4 DEF VmCreateReturns, Returns
  <2> QED  BY <1>4, <2>1, <2>3, <2>4 DEF VmCreateReturns, Moves, Creates
<1>5. CASE HasNoDrive(r)
  <2>1. Calls(r, "disk.import", job[r])
    BY <1>5 DEF HasNoDrive
  <2>2. job'[r].pc = "disk.import" /\ job'[r].vm = job[r].vm /\ Others
    BY <1>0, <2>1, CallsOwned
  <2>3. /\ job[r].pc = "getDisks" /\ Returns(r, job[r].pc)
        /\ ConfigDrives(job[r].vm) = {}
    BY <1>5 DEF HasNoDrive, Returns
  <2> QED  BY <1>5, <2>2, <2>3 DEF HasNoDrive, Moves, Learns
<1>6. CASE HasDriveHalted(r)
  <2>1. Calls(r, "vm.start", job[r])
    BY <1>6 DEF HasDriveHalted
  <2>2. job'[r].pc = "vm.start" /\ job'[r].vm = job[r].vm /\ Others
    BY <1>0, <2>1, CallsOwned
  <2>3. job[r].pc = "getDisks" /\ Returns(r, job[r].pc) /\ HasDrive(job[r].vm)
    BY <1>6 DEF HasDriveHalted, Returns, HasDrive, ConfigDrives, DisksOf
  <2> QED  BY <1>6, <2>2, <2>3 DEF HasDriveHalted, Moves, Learns
<1>7. CASE DiskImportReturns(r)
  <2>1. PICK d \in FreeVdis : /\ DiskImport(r, d)
                              /\ Calls(r, "vm.attachDisk", [job[r] EXCEPT !.vdi = d])
    BY <1>7 DEF DiskImportReturns
  <2> DEFINE j == [job[r] EXCEPT !.vdi = d]
  <2>2. j \in Job /\ j.vm = job[r].vm /\ j.vdi = d /\ Calls(r, "vm.attachDisk", j)
    BY <1>0, <2>1 DEF FreeVdis, Job
  <2> HIDE DEF j
  <2>3. /\ job'[r].pc = "vm.attachDisk" /\ job'[r].vm = job[r].vm /\ job'[r].vdi = d
        /\ Others
    BY <2>2, CallsOwned
  <2>4. job[r].pc = "disk.import" /\ Returns(r, job[r].pc)
    BY <1>7 DEF DiskImportReturns, Returns
  <2> QED  BY <1>7, <2>1, <2>3, <2>4 DEF DiskImportReturns, Moves, Creates
<1>8. CASE \/ FindsMany(r) \/ VmSetReturns(r) \/ HasDriveRunning(r)
           \/ AttachOrStartReturns(r)
  BY <1>8, EndsAlone DEF FindsMany, VmSetReturns, HasDriveRunning,
                         AttachOrStartReturns, StepEnds
<1> QED  BY <1>1, <1>2, <1>3, <1>4, <1>5, <1>6, <1>7, <1>8 DEF Sync

(* What a step of Deprovision does to the job.                             *)
LEMMA DeprovisionMoves ==
  ASSUME TypeOK, NEW r \in Requests, Deprovision(r)
  PROVE  /\ job'[r] = Idle \/ Begins(r) \/ Moves(r)
         /\ \A q \in Requests \ {r} : job'[q] = job[q]
<1> DEFINE Others == \A q \in Requests \ {r} : job'[q] = job[q]
<1>0. job[r] \in Job /\ Idle \in Job
  BY IdleTyped DEF TypeOK
<1>1. CASE BeginDeprovision(r)
  <2>1. Calls(r, "d.findVM", Idle)
    BY <1>1 DEF BeginDeprovision
  <2>2. job'[r].pc = "d.findVM" /\ Others
    BY <1>0, <2>1, CallsOwned
  <2> QED  BY <1>1, <2>2 DEF BeginDeprovision, Begins
<1>2. CASE DeprovisionFindsNone(r) \/ VmStopReturns(r) \/ VmDeleteReturns(r)
  BY <1>2, EndsAlone DEF DeprovisionFindsNone, VmStopReturns, VmDeleteReturns
<1>3. CASE DeprovisionFindsOne(r)
  <2>1. PICK v \in VmIds, pc \in {"vm.stop", "d.getVIFs"} :
          Named(r) = {v} /\ Calls(r, pc, Found(v))
    BY <1>3 DEF DeprovisionFindsOne
  <2>2. job'[r].pc = pc /\ job'[r].vm = v /\ Others
    BY <2>1, FoundTyped, CallsOwned
  <2>3. job[r].pc = "d.findVM" /\ Returns(r, job[r].pc)
    BY <1>3 DEF DeprovisionFindsOne, Returns
  <2> QED  BY <1>3, <2>1, <2>2, <2>3 DEF DeprovisionFindsOne, Moves, Learns
<1>4. CASE GetVIFsReturns(r) \/ VifDeleteReturns(r)
  <2>1. PICK pc \in {"vif.delete", "d.getDisks"} : Calls(r, pc, job[r])
    BY <1>4 DEF GetVIFsReturns, VifDeleteReturns
  <2>2. job'[r].pc = pc /\ job'[r].vm = job[r].vm /\ Others
    BY <1>0, <2>1, CallsOwned
  <2>3. job[r].pc \in {"d.getVIFs", "vif.delete"} /\ Returns(r, job[r].pc)
    BY <1>4 DEF GetVIFsReturns, VifDeleteReturns, Returns
  <2>4. UNCHANGED vdis
    <3>1. CASE GetVIFsReturns(r)
      BY <3>1 DEF GetVIFsReturns, store
    <3>2. CASE VifDeleteReturns(r)
      <4>1. Executes(Call(r)) /\ Call(r).pc = "vif.delete"
        BY <3>2 DEF VifDeleteReturns, Returns, Call
      <4> QED  BY <4>1 DEF Executes
    <3> QED  BY <1>4, <3>1, <3>2
  <2>5. UNCHANGED <<omni, env>>
    BY <1>4 DEF GetVIFsReturns, VifDeleteReturns
  <2> QED  BY <2>2, <2>3, <2>4, <2>5 DEF Moves, TakesApart
<1>5. CASE GetDisksReturns(r)
  <2>1. job[r].pc = "d.getDisks" /\ Returns(r, job[r].pc)
    BY <1>5 DEF GetDisksReturns, Returns
  <2>2. TakesNext(r, DisksOf(job[r].vm)) /\ Others
    BY <1>5, TakesNextDisk DEF GetDisksReturns, DisksOf
  <2> QED  BY <1>5, <2>1, <2>2 DEF GetDisksReturns, Moves, TakesApart
<1>6. CASE VdiDeleteReturns(r)
  <2>1. job[r].pc = "vdi.delete" /\ Returns(r, job[r].pc) /\ Executes(Call(r))
    BY <1>6 DEF VdiDeleteReturns, Returns
  <2>2. TakesNext(r, job[r].disks) /\ Others
    BY <1>0, <1>6, TakesNextDisk DEF VdiDeleteReturns, Job
  <2> QED  BY <1>6, <2>1, <2>2 DEF VdiDeleteReturns, Moves, TakesApart
<1> QED  BY <1>1, <1>2, <1>3, <1>4, <1>5, <1>6 DEF Deprovision

(* An error ends the job, or sends its call again.                         *)
LEMMA ErrorMoves ==
  ASSUME TypeOK, NEW r \in Requests, Refused(r) \/ Rejected(r) \/ ConnectionLost(r)
  PROVE  /\ job'[r] = Idle \/ (ConnectionLost(r) /\ Resends(r))
         /\ \A q \in Requests \ {r} : job'[q] = job[q]
<1>1. CASE StepFails(r)
  BY <1>1, EndsAlone DEF StepFails
<1>2. CASE ConnectionLost(r) /\ Resends(r)
  BY <1>2 DEF TypeOK, Resends
<1> QED  BY <1>1, <1>2 DEF Refused, Rejected, ConnectionLost

(* What a step does to the job of q: nothing, the end of it, or one of the *)
(* moves above.                                                            *)
LEMMA JobMoves ==
  ASSUME TypeOK, [Next]_vars, NEW q \in Requests
  PROVE  \/ job'[q] = job[q]
         \/ job'[q] = Idle
         \/ Begins(q)
         \/ Moves(q)
         \/ ConnectionLost(q) /\ Resends(q)
<1>1. CASE \/ \E r \in Requests : TearDown(r)
           \/ \E v \in VmIds : GuestCrashes(v) \/ GuestDestroyed(v)
           \/ \E o \in late : LateExecutes(o) \/ LateForgotten(o)
           \/ UNCHANGED vars
  BY <1>1 DEF TearDown, GuestCrashes, GuestDestroyed, LateExecutes, LateForgotten,
              vars, omni
<1>2. CASE Crash
  BY <1>2 DEF Crash
<1>3. ASSUME NEW r \in Requests, BeginSync(r) \/ Sync(r)
      PROVE  job'[q] = job[q] \/ job'[q] = Idle \/ Begins(q) \/ Moves(q)
  BY <1>3, SyncMoves
<1>4. ASSUME NEW r \in Requests, Deprovision(r)
      PROVE  job'[q] = job[q] \/ job'[q] = Idle \/ Begins(q) \/ Moves(q)
  BY <1>4, DeprovisionMoves
<1>5. ASSUME NEW r \in Requests, Refused(r) \/ Rejected(r) \/ ConnectionLost(r)
      PROVE  \/ job'[q] = job[q] \/ job'[q] = Idle
             \/ ConnectionLost(q) /\ Resends(q)
  BY <1>5, ErrorMoves
<1> QED  BY <1>1, <1>2, <1>3, <1>4, <1>5 DEF Next, AllGone

(* Who changes the store: nobody, a guest, the answered call of a request, *)
(* or one abandoned call.                                                  *)
OnlyVm(v) == \A w \in VmIds \ {v} : vms'[w] = vms[w]
OnlyVdi(d) == \A e \in VdiIds \ {d} : vdis'[e] = vdis[e]
GuestMoves(v, from, to) ==
  /\ vms[v].power = from /\ vms'[v].power = to
  /\ vms'[v].name = vms[v].name /\ OnlyVm(v)
ByGuest ==
  /\ GuestStep /\ UNCHANGED <<omni, job, late>>
  /\ \E v \in VmIds : \/ GuestMoves(v, "Running", "Paused")
                      \/ GuestMoves(v, "Paused", "Halted")
ByJob(r) ==
  /\ Executes(Call(r)) /\ Returns(r, job[r].pc) /\ UNCHANGED <<want, ready, env>>
  /\ job'[r] = Idle \/ Moves(r)
  /\ \A q \in Requests \ {r} : job'[q] = job[q]
ByLate(o) ==
  Executes(o) /\ late' = late \ {o} /\ UNCHANGED <<omni, job, faults>>

LEMMA StoreMoves ==
  ASSUME TypeOK, [Next]_vars
  PROVE  \/ UNCHANGED store
         \/ ByGuest
         \/ \E r \in Requests : ByJob(r)
         \/ \E o \in late : ByLate(o)
<1> USE DEF omni
<1>0. \A r \in Requests : Executes(Call(r)) => ~Begins(r)
  BY CallTyped DEF Executes, Begins
<1>1. ASSUME NEW r \in Requests, BeginSync(r) \/ Sync(r)
      PROVE  UNCHANGED store \/ ByJob(r)
  <2>1. CASE VmCreateReturns(r)
    <3>1. PICK v \in FreeVms, d \in FreeVdis : VmCreate(r, v, d)
      BY <2>1 DEF VmCreateReturns
    <3>2. Call(r).pc = "vm.create" /\ Call(r).req = r /\ job[r].pc = "vm.create"
      BY <2>1 DEF VmCreateReturns, Returns, Call
    <3>3. Executes(Call(r)) /\ Returns(r, job[r].pc)
      BY <2>1, <3>1, <3>2 DEF Executes, Accepts, VmCreateReturns
    <3> QED  BY <1>0, <1>1, <2>1, <3>3, SyncMoves DEF ByJob, VmCreateReturns
  <2>2. CASE DiskImportReturns(r)
    <3>1. PICK d \in FreeVdis : DiskImport(r, d)
      BY <2>2 DEF DiskImportReturns
    <3>2. Call(r).pc = "disk.import" /\ Call(r).req = r /\ job[r].pc = "disk.import"
      BY <2>2 DEF DiskImportReturns, Returns, Call
    <3>3. Executes(Call(r)) /\ Returns(r, job[r].pc)
      BY <2>2, <3>1, <3>2 DEF Executes, Accepts, DiskImportReturns
    <3> QED  BY <1>0, <1>1, <2>2, <3>3, SyncMoves DEF ByJob, DiskImportReturns
  <2>3. CASE VmSetReturns(r) \/ AttachOrStartReturns(r)
    BY <1>0, <1>1, <2>3, SyncMoves DEF ByJob, VmSetReturns, AttachOrStartReturns, Returns
  <2> QED
    BY <1>1, <2>1, <2>2, <2>3
       DEF BeginSync, Sync, FindsNone, FindsOne, FindsMany, HasNoDrive,
           HasDriveHalted, HasDriveRunning
<1>2. ASSUME NEW r \in Requests, Deprovision(r)
      PROVE  UNCHANGED store \/ ByJob(r)
  <2>1. CASE \/ VmStopReturns(r) \/ VifDeleteReturns(r) \/ VdiDeleteReturns(r)
             \/ VmDeleteReturns(r)
    BY <1>0, <1>2, <2>1, DeprovisionMoves
       DEF ByJob, VmStopReturns, VifDeleteReturns, VdiDeleteReturns, VmDeleteReturns,
           Returns
  <2> QED
    BY <1>2, <2>1
       DEF Deprovision, BeginDeprovision, DeprovisionFindsNone, DeprovisionFindsOne,
           GetVIFsReturns, GetDisksReturns
<1>3. ASSUME NEW r \in Requests,
             Refused(r) \/ Rejected(r) \/ ConnectionLost(r) \/ TearDown(r)
      PROVE  UNCHANGED store
  BY <1>3 DEF Refused, Rejected, ConnectionLost, TearDown
<1>4. ASSUME NEW v \in VmIds, GuestCrashes(v) \/ GuestDestroyed(v) PROVE ByGuest
  <2>1. /\ vms \in [VmIds -> VmRecord]
        /\ \A p : /\ [vms[v] EXCEPT !.power = p].name = vms[v].name
                  /\ [vms[v] EXCEPT !.power = p].power = p
    BY DEF TypeOK, VmRecord
  <2>2. GuestStep /\ UNCHANGED <<omni, job, late>>
    BY <1>4 DEF GuestCrashes, GuestDestroyed, GuestStep, env
  <2>3. CASE GuestCrashes(v)
    <3>1. GuestMoves(v, "Running", "Paused")
      BY <2>1, <2>3 DEF GuestCrashes, GuestMoves, OnlyVm
    <3> QED  BY <2>2, <3>1 DEF ByGuest
  <2>4. CASE GuestDestroyed(v)
    <3>1. GuestMoves(v, "Paused", "Halted")
      BY <2>1, <2>4 DEF GuestDestroyed, GuestMoves, OnlyVm
    <3> QED  BY <2>2, <3>1 DEF ByGuest
  <2> QED  BY <1>4, <2>3, <2>4
<1>5. ASSUME NEW o \in late, LateExecutes(o) \/ LateForgotten(o)
      PROVE  UNCHANGED store \/ ByLate(o)
  BY <1>5 DEF LateExecutes, LateForgotten, ByLate
<1>6. Crash \/ UNCHANGED vars => UNCHANGED store
  BY DEF Crash, vars, store
<1> QED  BY <1>1, <1>2, <1>3, <1>4, <1>5, <1>6 DEF Next, AllGone

(* Calls are abandoned by a crash or a lost connection only.               *)
LEMMA LateMoves ==
  ASSUME TypeOK, [Next]_vars
  PROVE  \/ late' \subseteq late
         \/ Crash
         \/ \E r \in Requests : ConnectionLost(r)
<1>1. ASSUME NEW r \in Requests,
             \/ BeginSync(r) \/ Sync(r) \/ Deprovision(r) \/ Refused(r) \/ Rejected(r)
             \/ TearDown(r)
      PROVE  late' = late
  BY <1>1 DEF Sync, BeginSync, FindsNone, FindsOne, FindsMany, VmCreateReturns,
         VmSetReturns, HasNoDrive, HasDriveHalted, HasDriveRunning,
         DiskImportReturns, AttachOrStartReturns, Deprovision, BeginDeprovision,
         DeprovisionFindsNone, DeprovisionFindsOne, VmStopReturns, GetVIFsReturns,
         VifDeleteReturns, GetDisksReturns, VdiDeleteReturns, VmDeleteReturns,
         Refused, Rejected, TearDown, env
<1>2. ASSUME NEW v \in VmIds, GuestCrashes(v) \/ GuestDestroyed(v) PROVE late' = late
  BY <1>2 DEF GuestCrashes, GuestDestroyed, env
<1>3. ASSUME NEW o \in late, LateExecutes(o) \/ LateForgotten(o) PROVE late' \subseteq late
  BY <1>3 DEF LateExecutes, LateForgotten
<1>4. UNCHANGED vars => late' = late
  BY DEF vars
<1> QED  BY <1>1, <1>2, <1>3, <1>4 DEF Next, AllGone

(* The Uuid of q changes only to the VM its job is about.                  *)
LEMMA UuidMoves ==
  ASSUME TypeOK, [Next]_vars, NEW q \in Requests
  PROVE  \/ uuid'[q] = uuid[q]
         \/ uuid'[q] = job[q].vm /\ job[q].pc \in OnVm
<1> USE DEF omni
<1> DEFINE Goal == uuid'[q] = uuid[q] \/ (uuid'[q] = job[q].vm /\ job[q].pc \in OnVm)
<1>1. ASSUME NEW r \in Requests, job[r].pc \in OnVm,
             \/ uuid' = [uuid EXCEPT ![r] = FoundUuid(r)]
             \/ uuid' = [uuid EXCEPT ![r] = job[r].vm]
      PROVE  Goal
  BY <1>1 DEF TypeOK, FoundUuid
<1>2. uuid' = uuid => Goal
  OBVIOUS
<1>3. ASSUME NEW r \in Requests, BeginSync(r) \/ Sync(r)
      PROVE  Goal
  <2>1. CASE VmSetReturns(r) \/ HasDriveRunning(r) \/ AttachOrStartReturns(r)
    <3>1. job[r].pc \in OnVm
      BY <2>1 DEF VmSetReturns, HasDriveRunning, AttachOrStartReturns, Returns, OnVm,
                  SyncCalls
    <3> QED  BY <1>1, <2>1, <3>1 DEF VmSetReturns, HasDriveRunning,
                                     AttachOrStartReturns, StepEnds
  <2> QED
    BY <1>2, <1>3, <2>1
       DEF BeginSync, Sync, FindsNone, FindsOne, FindsMany, VmCreateReturns, HasNoDrive,
           HasDriveHalted, DiskImportReturns
<1>4. ASSUME NEW r \in Requests, Deprovision(r) \/ TearDown(r)
      PROVE  uuid' = uuid
  BY <1>4 DEF Deprovision, BeginDeprovision, DeprovisionFindsNone, DeprovisionFindsOne,
         VmStopReturns, GetVIFsReturns, VifDeleteReturns, GetDisksReturns,
         VdiDeleteReturns, VmDeleteReturns, TearDown
<1>5. ASSUME NEW r \in Requests, Refused(r) \/ Rejected(r) \/ ConnectionLost(r)
      PROVE  Goal
  <2>1. CASE StepFails(r)
    BY <1>1, <1>2, <2>1 DEF StepFails, OnVm, SyncCalls
  <2> QED  BY <1>2, <1>5, <2>1 DEF Refused, Rejected, ConnectionLost, Resends
<1>6. CASE \/ \E v \in VmIds : GuestCrashes(v) \/ GuestDestroyed(v)
           \/ \E o \in late : LateExecutes(o) \/ LateForgotten(o)
           \/ Crash \/ UNCHANGED vars
  BY <1>6 DEF GuestCrashes, GuestDestroyed, LateExecutes, LateForgotten, Crash, vars
<1> QED  BY <1>2, <1>3, <1>4, <1>5, <1>6 DEF Next, AllGone

(* What Omni wants of q changes by TearDown, and by the one answer that    *)
(* lets Deprovision end.                                                   *)
LEMMA WantMoves ==
  ASSUME TypeOK, [Next]_vars, NEW q \in Requests
  PROVE  \/ want'[q] = want[q]
         \/ want'[q] = "teardown" /\ TearDown(q)
         \/ want'[q] = "gone" /\ DeprovisionFindsNone(q)
<1> USE DEF omni
<1>1. ASSUME NEW r \in Requests,
             BeginSync(r) \/ Sync(r) \/ Refused(r) \/ Rejected(r) \/ ConnectionLost(r)
      PROVE  want' = want
  BY <1>1 DEF Sync, BeginSync, FindsNone, FindsOne, FindsMany, VmCreateReturns,
         VmSetReturns, HasNoDrive, HasDriveHalted, HasDriveRunning, DiskImportReturns,
         AttachOrStartReturns, Refused, Rejected, ConnectionLost, Resends, StepFails
<1>2. ASSUME NEW r \in Requests, Deprovision(r), ~DeprovisionFindsNone(r)
      PROVE  want' = want
  BY <1>2 DEF Deprovision, BeginDeprovision, DeprovisionFindsOne,
         VmStopReturns, GetVIFsReturns, VifDeleteReturns, GetDisksReturns,
         VdiDeleteReturns, VmDeleteReturns
<1>3. ASSUME NEW r \in Requests, DeprovisionFindsNone(r)
      PROVE  want'[q] = want[q] \/ (want'[q] = "gone" /\ DeprovisionFindsNone(q))
  BY <1>3 DEF TypeOK, DeprovisionFindsNone
<1>4. ASSUME NEW r \in Requests, TearDown(r)
      PROVE  want'[q] = want[q] \/ (want'[q] = "teardown" /\ TearDown(q))
  BY <1>4 DEF TypeOK, TearDown
<1>5. CASE \/ \E v \in VmIds : GuestCrashes(v) \/ GuestDestroyed(v)
           \/ \E o \in late : LateExecutes(o) \/ LateForgotten(o)
           \/ Crash \/ UNCHANGED vars
  BY <1>5 DEF GuestCrashes, GuestDestroyed, LateExecutes, LateForgotten, Crash, vars
<1> QED  BY <1>1, <1>2, <1>3, <1>4, <1>5 DEF Next, AllGone

-----------------------------------------------------------------------------
(* What a call does to the store, VM by VM and disk by disk.               *)

MakesVm(r, v, d) ==
  /\ vms[v].power = "unused" /\ vms[v].name = NoReq
  /\ vdis[d].kind = "unused" /\ vdis[d].owner = NoReq /\ vdis[d].at = NoVm
  /\ vms'[v].name = r /\ vms'[v].power = "Halted" /\ OnlyVm(v)
  /\ vdis'[d].kind = "boot" /\ vdis'[d].owner = r /\ vdis'[d].at = v /\ OnlyVdi(d)
MakesDrive(r, d) ==
  /\ vdis[d].kind = "unused" /\ vdis[d].owner = NoReq /\ vdis[d].at = NoVm
  /\ vdis'[d].kind = "cidata" /\ vdis'[d].owner = r /\ vdis'[d].at = NoVm
  /\ OnlyVdi(d) /\ UNCHANGED vms
Attaches(r, v, d) ==
  /\ Present(v) /\ vms[v].name = r
  /\ vdis[d].kind = "cidata" /\ vdis[d].owner = r /\ vdis[d].at = NoVm
  /\ vdis'[d].kind = "cidata" /\ vdis'[d].owner = r /\ vdis'[d].at = v
  /\ OnlyVdi(d) /\ UNCHANGED vms
DropsVdi(r, d) ==
  /\ vdis[d].owner = r
  /\ vdis'[d].kind = "deleted" /\ vdis'[d].owner = r /\ vdis'[d].at = NoVm
  /\ OnlyVdi(d) /\ UNCHANGED vms
DropsVm(r, v) ==
  /\ Present(v) /\ vms[v].name = r /\ vms[v].power = "Halted"
  /\ vms'[v].name = r /\ vms'[v].power = "deleted" /\ OnlyVm(v)
  /\ \A d \in VdiIds :
       /\ vdis'[d].kind = vdis[d].kind /\ vdis'[d].owner = vdis[d].owner
       /\ vdis'[d].at = IF vdis[d].at = v THEN NoVm ELSE vdis[d].at
SetsPower(r, v, from, to) ==
  /\ Present(v) /\ vms[v].name = r /\ vms[v].power \in from
  /\ vms'[v].name = r /\ vms'[v].power = to /\ OnlyVm(v)
  /\ UNCHANGED vdis
KeepsPower(r, v) ==
  /\ Present(v) /\ vms[v].name = r
  /\ vms'[v].name = r /\ vms'[v].power = vms[v].power /\ OnlyVm(v)
  /\ UNCHANGED vdis

Does(o) ==
  \/ o.pc = "vm.create" /\ \E v \in VmIds, d \in VdiIds : MakesVm(o.req, v, d)
  \/ o.pc = "disk.import" /\ \E d \in VdiIds : MakesDrive(o.req, d)
  \/ /\ o.pc = "vm.attachDisk" /\ o.vm \in VmIds /\ o.vdi \in VdiIds
     /\ Attaches(o.req, o.vm, o.vdi)
  \/ /\ o.pc = "vdi.delete" /\ o.vdi \in VdiIds /\ DropsVdi(o.req, o.vdi)
     /\ o.vm \in VmIds /\ vms[o.vm].power \in {"Halted", "deleted"}
  \/ o.pc = "vm.delete" /\ o.vm \in VmIds /\ DropsVm(o.req, o.vm)
  \/ o.pc = "vm.start" /\ o.vm \in VmIds /\ SetsPower(o.req, o.vm, {"Halted"}, "Running")
  \/ /\ o.pc = "vm.stop" /\ o.vm \in VmIds
     /\ SetsPower(o.req, o.vm, {"Running", "Paused"}, "Halted")
  \/ o.pc \in {"vm.set", "vif.delete"} /\ o.vm \in VmIds /\ KeepsPower(o.req, o.vm)

LEMMA CreateMakes ==
  ASSUME TypeOK, StoreOwned, NEW r \in Requests, NEW v \in FreeVms, NEW d \in FreeVdis,
         VmCreate(r, v, d)
  PROVE  v \in VmIds /\ d \in VdiIds /\ MakesVm(r, v, d)
<1>1. v \in VmIds /\ vms[v].power = "unused" /\ d \in VdiIds /\ vdis[d].kind = "unused"
  BY DEF FreeVms, FreeVdis
<1>2. vms[v].name = NoReq /\ vdis[d].owner = NoReq /\ vdis[d].at = NoVm
  BY <1>1 DEF StoreOwned
<1>3. /\ vms'[v] = [name |-> r, power |-> "Halted", pinned |-> FALSE, vif |-> TRUE]
      /\ OnlyVm(v) /\ OnlyVdi(d)
      /\ vdis'[d] = [kind |-> "boot", owner |-> r, at |-> v]
  BY <1>1 DEF TypeOK, VmCreate, OnlyVm, OnlyVdi
<1> QED  BY <1>1, <1>2, <1>3 DEF MakesVm

LEMMA ImportMakes ==
  ASSUME TypeOK, StoreOwned, NEW r \in Requests, NEW d \in FreeVdis, DiskImport(r, d)
  PROVE  d \in VdiIds /\ MakesDrive(r, d)
<1>1. d \in VdiIds /\ vdis[d].kind = "unused"
  BY DEF FreeVdis
<1>2. vdis[d].owner = NoReq /\ vdis[d].at = NoVm
  BY <1>1 DEF StoreOwned
<1>3. /\ vdis'[d] = [kind |-> "cidata", owner |-> r, at |-> NoVm]
      /\ OnlyVdi(d) /\ UNCHANGED vms
  BY <1>1 DEF TypeOK, DiskImport, OnlyVdi
<1> QED  BY <1>1, <1>2, <1>3 DEF MakesDrive

LEMMA WhatACallDoes ==
  ASSUME TypeOK, Ownership, NEW o, o.req \in Requests, WorksForItsRequest(o), Executes(o)
  PROVE  Does(o)
<1>0. /\ StoreOwned /\ Accepts(o)
      /\ vms \in [VmIds -> VmRecord] /\ vdis \in [VdiIds -> VdiRecord]
  BY DEF Ownership, Executes, TypeOK
<1>1. CASE o.pc = "vm.create" /\ \E v \in FreeVms, d \in FreeVdis : VmCreate(o.req, v, d)
  BY <1>0, <1>1, CreateMakes DEF Does
<1>2. CASE o.pc = "disk.import" /\ \E d \in FreeVdis : DiskImport(o.req, d)
  BY <1>0, <1>2, ImportMakes DEF Does
<1>3. CASE o.pc = "vm.attachDisk" /\ AttachDisk(o.vm, o.vdi)
  <2>1. /\ o.vdi \in VdiIds /\ vdis[o.vdi].owner = o.req /\ vdis[o.vdi].kind = "cidata"
        /\ vdis[o.vdi].at = NoVm /\ Present(o.vm)
        /\ o.vm \in VmIds /\ vms[o.vm].name = o.req
    BY <1>0, <1>3 DEF WorksForItsRequest, OnVm, SyncCalls, Accepts
  <2>2. /\ vdis'[o.vdi] = [vdis[o.vdi] EXCEPT !.at = o.vm]
        /\ OnlyVdi(o.vdi) /\ UNCHANGED vms
    BY <1>0, <1>3, <2>1 DEF AttachDisk, OnlyVdi
  <2>3. /\ vdis'[o.vdi].owner = o.req /\ vdis'[o.vdi].kind = "cidata"
        /\ vdis'[o.vdi].at = o.vm
    BY <1>0, <2>1, <2>2 DEF VdiRecord
  <2> QED  BY <1>3, <2>1, <2>2, <2>3 DEF Does, Attaches
<1>4. CASE o.pc = "vdi.delete" /\ VdiDelete(o.vdi)
  <2>1. /\ o.vdi \in VdiIds /\ vdis[o.vdi].owner = o.req /\ o.vm \in VmIds
        /\ vms[o.vm].power \in {"Halted", "deleted"}
    BY <1>0, <1>4 DEF WorksForItsRequest, OnVm, DeprovisionCalls, Accepts
  <2>2. /\ vdis'[o.vdi] = [[vdis[o.vdi] EXCEPT !.kind = "deleted"] EXCEPT !.at = NoVm]
        /\ OnlyVdi(o.vdi) /\ UNCHANGED vms
    BY <1>0, <1>4, <2>1 DEF VdiDelete, OnlyVdi
  <2>3. /\ vdis'[o.vdi].owner = o.req /\ vdis'[o.vdi].kind = "deleted"
        /\ vdis'[o.vdi].at = NoVm
    BY <1>0, <2>1, <2>2 DEF VdiRecord
  <2> QED  BY <1>4, <2>1, <2>2, <2>3 DEF Does, DropsVdi
<1>5. CASE o.pc = "vm.delete" /\ VmDelete(o.vm)
  <2>1. /\ o.vm \in VmIds /\ Present(o.vm) /\ vms[o.vm].name = o.req
        /\ vms[o.vm].power = "Halted"
    BY <1>0, <1>5 DEF WorksForItsRequest, OnVm, DeprovisionCalls, Accepts
  <2>2. /\ vms'[o.vm] = [vms[o.vm] EXCEPT !.power = "deleted"]
        /\ OnlyVm(o.vm)
    BY <1>0, <1>5, <2>1 DEF VmDelete, OnlyVm
  <2>3. vms'[o.vm].name = o.req /\ vms'[o.vm].power = "deleted"
    BY <1>0, <2>1, <2>2 DEF VmRecord
  <2>4. ASSUME NEW d \in VdiIds
        PROVE  /\ vdis'[d].kind = vdis[d].kind /\ vdis'[d].owner = vdis[d].owner
               /\ vdis'[d].at = IF vdis[d].at = o.vm THEN NoVm ELSE vdis[d].at
    BY <1>0, <1>5 DEF VmDelete, VdiRecord
  <2> QED  BY <1>5, <2>1, <2>2, <2>3, <2>4 DEF Does, DropsVm
<1>6. CASE /\ UNCHANGED vdis
           /\ \/ o.pc = "vm.set" /\ vms' = [vms EXCEPT ![o.vm].pinned = TRUE]
              \/ o.pc = "vm.start" /\ vms' = [vms EXCEPT ![o.vm].power = "Running"]
              \/ o.pc = "vm.stop" /\ vms' = [vms EXCEPT ![o.vm].power = "Halted"]
              \/ o.pc = "vif.delete" /\ vms' = [vms EXCEPT ![o.vm].vif = FALSE]
  <2>1. o.vm \in VmIds /\ Present(o.vm) /\ vms[o.vm].name = o.req
    BY <1>0, <1>6 DEF WorksForItsRequest, OnVm, SyncCalls, DeprovisionCalls, Accepts
  <2>2. /\ [vms[o.vm] EXCEPT !.pinned = TRUE].name = o.req
        /\ [vms[o.vm] EXCEPT !.pinned = TRUE].power = vms[o.vm].power
        /\ [vms[o.vm] EXCEPT !.vif = FALSE].name = o.req
        /\ [vms[o.vm] EXCEPT !.vif = FALSE].power = vms[o.vm].power
        /\ \A p : /\ [vms[o.vm] EXCEPT !.power = p].name = o.req
                  /\ [vms[o.vm] EXCEPT !.power = p].power = p
    BY <1>0, <2>1 DEF VmRecord
  <2>3. CASE o.pc = "vm.set" /\ vms' = [vms EXCEPT ![o.vm].pinned = TRUE]
    BY <1>0, <1>6, <2>1, <2>2, <2>3 DEF Does, KeepsPower, OnlyVm
  <2>4. CASE o.pc = "vm.start" /\ vms' = [vms EXCEPT ![o.vm].power = "Running"]
    BY <1>0, <1>6, <2>1, <2>2, <2>4 DEF Does, SetsPower, OnlyVm, Accepts
  <2>5. CASE o.pc = "vm.stop" /\ vms' = [vms EXCEPT ![o.vm].power = "Halted"]
    BY <1>0, <1>6, <2>1, <2>2, <2>5 DEF Does, SetsPower, OnlyVm, Accepts, Present
  <2>6. CASE o.pc = "vif.delete" /\ vms' = [vms EXCEPT ![o.vm].vif = FALSE]
    BY <1>0, <1>6, <2>1, <2>2, <2>6 DEF Does, KeepsPower, OnlyVm
  <2> QED  BY <1>6, <2>3, <2>4, <2>5, <2>6
<1> QED  BY <1>1, <1>2, <1>3, <1>4, <1>5, <1>6 DEF Executes

LEMMA StoreDoes ==
  ASSUME TypeOK, Ownership, [Next]_vars
  PROVE  \/ UNCHANGED store
         \/ ByGuest
         \/ \E r \in Requests : ByJob(r) /\ Does(Call(r))
         \/ \E o \in late : ByLate(o) /\ Does(o)
<1>1. \A r \in Requests : Call(r).req \in Requests /\ WorksForItsRequest(Call(r))
  BY CallTyped DEF Ownership, JobOwned
<1>2. \A o \in late : o.req \in Requests /\ WorksForItsRequest(o)
  BY DEF TypeOK, Abandoned, Ownership
<1>3. \A r \in Requests : ByJob(r) => Does(Call(r))
  BY <1>1, WhatACallDoes DEF ByJob
<1>4. \A o \in late : ByLate(o) => Does(o)
  BY <1>2, WhatACallDoes DEF ByLate
<1> QED  BY <1>3, <1>4, StoreMoves

LEMMA CallsApart == SyncCalls \cap DeprovisionCalls = {}
BY DEF SyncCalls, DeprovisionCalls

-----------------------------------------------------------------------------
(* Phases.  Whatever may fail, a request is never provisioned again once   *)
(* its deprovisioning began, Uuid is that of a VM of the request, and a    *)
(* disk is attached to a VM that exists.                                   *)

InPhase(q) ==
  /\ \A o \in late : o.req = q /\ o.pc \in DeprovisionCalls => job[q].pc \notin SyncCalls
  /\ \A v \in VmIds : vms[v].name = q /\ vms[v].power = "deleted"
                        => want[q] # "running" /\ job[q].pc \notin SyncCalls
UuidOwned(q) == uuid[q] # NoVm => vms[uuid[q]].name = q
AttachedToPresent == \A d \in VdiIds : vdis[d].at # NoVm => Present(vdis[d].at)
Phases ==
  /\ \A q \in Requests : InPhase(q) /\ UuidOwned(q)
  /\ AttachedToPresent

(* A job is one of syncMachine only while, or since, Omni wanted that.     *)
LEMMA StaysOutOfSync ==
  ASSUME TypeOK, [Next]_vars, NEW q \in Requests, job'[q].pc \in SyncCalls
  PROVE  job[q].pc \in SyncCalls \/ (job[q].pc = "idle" /\ want[q] = "running")
<1>1. CASE job'[q] = Idle
  BY <1>1 DEF Idle, SyncCalls
<1>2. CASE Begins(q)
  BY <1>2 DEF Begins, SyncCalls
<1>3. CASE Moves(q)
  BY <1>3 DEF Moves, Learns, Creates, TakesApart, TakesNext, SyncCalls
<1>4. CASE Resends(q)
  <2>1. \/ job[q].pc = "vm.set"
        \/ job'[q].pc = job[q].pc
    BY <1>4 DEF Resends, TypeOK, Job
  <2> QED  BY <2>1 DEF SyncCalls
<1> QED  BY <1>1, <1>2, <1>3, <1>4, JobMoves

(* A VM is deleted by a vm.delete for the request it is named after.       *)
LEMMA DeletedBy ==
  ASSUME TypeOK, NEW o, Does(o), NEW v \in VmIds, vms[v].power # "deleted",
         vms'[v].power = "deleted"
  PROVE  o.pc = "vm.delete" /\ vms[v].name = o.req
BY DEF Does, MakesVm, MakesDrive, Attaches, DropsVdi, DropsVm, SetsPower, KeepsPower,
       OnlyVm

LEMMA LateDoesOwn ==
  ASSUME TypeOK, Ownership, NEW o \in late
  PROVE  /\ o \in Abandoned /\ o.req \in Requests /\ WorksForItsRequest(o)
         /\ o.pc \in Mutating
         /\ o.pc \in DeprovisionCalls => want[o.req] # "running"
BY DEF TypeOK, Abandoned, Ownership, WorksForItsRequest

LEMMA InPhaseStep ==
  ASSUME TypeOK, Ownership, Phases, [Next]_vars, NEW q \in Requests
  PROVE  InPhase(q)'
<1>0. InPhase(q) /\ WantKept /\ NamesKept
  BY WantStep, NamesStep DEF Phases
<1>1. ASSUME NEW o \in late', o.req = q, o.pc \in DeprovisionCalls
      PROVE  job'[q].pc \notin SyncCalls
  <2>1. CASE o \in late
    <3>1. want[q] # "running" /\ job[q].pc \notin SyncCalls
      BY <1>0, <1>1, <2>1, LateDoesOwn DEF InPhase
    <3> QED  BY <3>1, StaysOutOfSync
  <2>2. ASSUME NEW r \in Requests, o = Call(r)
        PROVE  job'[q].pc \notin SyncCalls
    <3>1. r = q /\ job[q].pc \in DeprovisionCalls
      BY <1>1, <2>2, CallTyped
    <3> QED  BY <3>1, StaysOutOfSync, CallsApart DEF DeprovisionCalls
  <2> QED  BY <2>1, <2>2, LateStep
<1>2. ASSUME NEW v \in VmIds, vms'[v].name = q, vms'[v].power = "deleted"
      PROVE  want'[q] # "running" /\ job'[q].pc \notin SyncCalls
  <2>1. CASE vms[v].power = "deleted"
    <3>1. vms[v].name = q
      BY <1>0, <1>2, <2>1 DEF NamesKept
    <3>2. want[q] # "running" /\ job[q].pc \notin SyncCalls
      BY <1>0, <2>1, <3>1 DEF InPhase
    <3> QED  BY <1>0, <3>2, StaysOutOfSync DEF WantKept
  <2>2. CASE vms[v].power # "deleted"
    <3>1. UNCHANGED store => FALSE
      BY <1>2, <2>2 DEF store
    <3>2. ByGuest => FALSE
      BY <1>2, <2>2, GuestKeeps DEF ByGuest
    <3>3. ASSUME NEW o, Does(o)
          PROVE  o.pc = "vm.delete" /\ o.req = q
      <4>1. o.pc = "vm.delete" /\ vms[v].name = o.req
        BY <1>2, <2>2, <3>3, DeletedBy
      <4>2. vms'[v].name = o.req
        BY <3>3, <4>1, <1>2, <2>2 DEF Does, DropsVm, OnlyVm
      <4> QED  BY <1>2, <4>1, <4>2
    <3>4. ASSUME NEW r \in Requests, ByJob(r), Does(Call(r))
          PROVE  want'[q] # "running" /\ job'[q].pc \notin SyncCalls
      <4>1. r = q /\ job[q].pc = "vm.delete"
        BY <3>3, <3>4, CallTyped
      <4>2. want[q] # "running" /\ job[q].pc \in DeprovisionCalls
        BY <4>1, OwnJobNow DEF DeprovisionCalls
      <4> QED  BY <1>0, <4>1, <4>2, StaysOutOfSync, CallsApart DEF WantKept
    <3>5. ASSUME NEW o \in late, ByLate(o), Does(o)
          PROVE  want'[q] # "running" /\ job'[q].pc \notin SyncCalls
      <4>1. o.req = q /\ o.pc \in DeprovisionCalls
        BY <3>3, <3>5 DEF DeprovisionCalls
      <4>2. want[q] # "running" /\ job[q].pc \notin SyncCalls
        BY <1>0, <4>1, LateDoesOwn DEF InPhase
      <4> QED  BY <1>0, <4>2, StaysOutOfSync DEF WantKept
    <3> QED  BY <3>1, <3>2, <3>4, <3>5, StoreDoes
  <2> QED  BY <2>1, <2>2
<1> QED  BY <1>1, <1>2 DEF InPhase

LEMMA UuidOwnedStep ==
  ASSUME TypeOK, Ownership, Phases, [Next]_vars, NEW q \in Requests
  PROVE  UuidOwned(q)'
<1> SUFFICES ASSUME uuid'[q] # NoVm PROVE vms'[uuid'[q]].name = q
  BY DEF UuidOwned
<1>1. uuid'[q] \in VmIds /\ vms[uuid'[q]].name = q
  <2>1. CASE uuid'[q] = uuid[q]
    BY <2>1 DEF Phases, UuidOwned, TypeOK
  <2>2. CASE uuid'[q] = job[q].vm /\ job[q].pc \in OnVm
    BY <2>2, OwnJobNow
  <2> QED  BY <2>1, <2>2, UuidMoves
<1>2. vms[uuid'[q]].power # "unused"
  BY <1>1, MachineAssumption DEF Ownership, StoreOwned
<1> QED  BY <1>1, <1>2, NamesStep DEF NamesKept

LEMMA AttachedStep ==
  ASSUME TypeOK, Ownership, Phases, [Next]_vars
  PROVE  AttachedToPresent'
<1>0. AttachedToPresent /\ NoVm \notin VmIds
  BY MachineAssumption DEF Phases, NoVm
<1>1. CASE UNCHANGED store
  BY <1>0, <1>1 DEF store, AttachedToPresent, Present
<1>2. CASE ByGuest
  BY <1>0, <1>2, GuestKeeps DEF ByGuest, GuestStep, AttachedToPresent, Present
<1>3. ASSUME NEW o, Does(o), NEW d \in VdiIds, vdis'[d].at # NoVm
      PROVE  Present(vdis[d].at)'
  <2>1. CASE o.pc = "vm.create" /\ \E v \in VmIds, e \in VdiIds : MakesVm(o.req, v, e)
    <3>1. PICK v \in VmIds, e \in VdiIds : MakesVm(o.req, v, e)
      BY <2>1
    <3>2. CASE d = e
      BY <3>1, <3>2 DEF MakesVm, Present
    <3>3. CASE d # e
      <4>1. vdis'[d] = vdis[d] /\ Present(vdis[d].at)
        BY <1>0, <1>3, <3>1, <3>3 DEF MakesVm, OnlyVdi, AttachedToPresent
      <4>2. vdis[d].at # v
        BY <3>1, <4>1 DEF MakesVm, Present
      <4> QED  BY <3>1, <4>1, <4>2 DEF MakesVm, OnlyVm, Present
    <3> QED  BY <3>2, <3>3
  <2>2. CASE UNCHANGED vms /\ (vdis'[d].at = vdis[d].at \/ Present(vdis'[d].at))
    BY <1>0, <1>3, <2>2 DEF AttachedToPresent, Present
  <2>3. CASE o.pc = "vm.delete" /\ o.vm \in VmIds /\ DropsVm(o.req, o.vm)
    <3>1. vdis'[d].at = vdis[d].at /\ vdis[d].at # o.vm
      BY <1>3, <2>3 DEF DropsVm
    <3>2. Present(vdis[d].at)
      BY <1>0, <1>3, <3>1 DEF AttachedToPresent
    <3> QED  BY <2>3, <3>1, <3>2 DEF DropsVm, OnlyVm, Present
  <2>4. CASE /\ UNCHANGED vdis /\ o.vm \in VmIds /\ OnlyVm(o.vm)
             /\ vms'[o.vm].power \in {"Halted", "Running", "Paused"}
    <3>1. vdis'[d].at = vdis[d].at /\ Present(vdis[d].at)
      BY <1>0, <1>3, <2>4 DEF AttachedToPresent
    <3> QED  BY <2>4, <3>1 DEF OnlyVm, Present
  <2>5. o.pc = "disk.import" /\ (\E e \in VdiIds : MakesDrive(o.req, e))
          => UNCHANGED vms /\ vdis'[d].at = vdis[d].at
    BY <1>3 DEF MakesDrive, OnlyVdi
  <2>6. o.pc = "vm.attachDisk" /\ Attaches(o.req, o.vm, o.vdi)
          => UNCHANGED vms /\ (vdis'[d].at = vdis[d].at \/ Present(vdis'[d].at))
    BY <1>3 DEF Attaches, OnlyVdi
  <2>7. o.pc = "vdi.delete" /\ DropsVdi(o.req, o.vdi)
          => UNCHANGED vms /\ vdis'[d].at = vdis[d].at
    BY <1>3 DEF DropsVdi, OnlyVdi
  <2> QED
    BY <1>3, <2>1, <2>2, <2>3, <2>4, <2>5, <2>6, <2>7
       DEF Does, SetsPower, KeepsPower, Present
<1> QED  BY <1>1, <1>2, <1>3, StoreDoes DEF AttachedToPresent

LEMMA PhasesInit == Init => Phases
BY DEF Init, Phases, InPhase, UuidOwned, AttachedToPresent

LEMMA PhasesStep ==
  ASSUME TypeOK, Ownership, Phases, [Next]_vars
  PROVE  Phases'
BY InPhaseStep, UuidOwnedStep, AttachedStep DEF Phases

-----------------------------------------------------------------------------
(* One call at a time.  With Prompt and no lost connection, a request has  *)
(* an abandoned call only while it has no other: what a call was sent for  *)
(* is then still so when it executes, however late.                        *)

Calm == Prompt /\ "drop" \notin FaultKinds

Looking(q) == job[q].pc \in {"idle", "findVM", "d.findVM"}
OfRequest(q) == {o \in late : o.req = q}

OneCall(q) ==
  /\ OfRequest(q) # {} => Looking(q)
  /\ \A o, p \in OfRequest(q) : o = p

(* What r's call pc, on v, was sent for. *)
Fits(r, pc, v) ==
  /\ pc = "vm.create" => \A w \in VmIds : vms[w].name # r
  /\ pc \in {"disk.import", "vm.attachDisk"} => ConfigDrives(v) = {}
  /\ pc = "vm.start" => HasDrive(v)
  /\ pc = "vm.delete" => DisksOf(v) = {}
CallsFit(q) ==
  /\ Fits(q, job[q].pc, job[q].vm)
  /\ job[q].pc = "vdi.delete"
       => DisksOf(job[q].vm) \subseteq job[q].disks \cup {job[q].vdi}
  /\ \A o \in OfRequest(q) : Fits(q, o.pc, o.vm)

(* A request is given one VM in its whole life... *)
OneMachine(q) ==
  \A v, w \in VmIds : vms[v].name = q /\ vms[w].name = q => v = w
(* ... that has one drive at most, and has it when it is powered on. *)
Equipped(q) ==
  \A v \in VmIds : vms[v].name = q
    => /\ \A d, e \in ConfigDrives(v) : d = e
       /\ vms[v].power \in {"Running", "Paused"} => HasDrive(v)
Ended(q) ==
  want[q] = "gone" => job[q].pc = "idle" /\ Named(q) = {} /\ OfRequest(q) = {}

Once(q) == OneCall(q) /\ CallsFit(q) /\ OneMachine(q) /\ Equipped(q) /\ Ended(q)
AllOnce == \A q \in Requests : Once(q)

(* Steps that leave q's machine as it is, but for a guest.                 *)
SameMachine(q) ==
  \A v \in VmIds :
    /\ vms'[v].name = q <=> vms[v].name = q
    /\ vms[v].name = q
         => /\ Present(v)' <=> Present(v)
            /\ vms'[v].power \in {"Running", "Paused"}
                 => vms[v].power \in {"Running", "Paused"}
            /\ \A d \in VdiIds : /\ vdis'[d].at = v <=> vdis[d].at = v
                                 /\ vdis[d].at = v => vdis'[d].kind = vdis[d].kind

(* Steps that do not touch it at all.                                      *)
Untouched(q) ==
  \A v \in VmIds :
    /\ vms'[v].name = q <=> vms[v].name = q
    /\ vms[v].name = q
         => /\ vms'[v] = vms[v]
            /\ \A d \in VdiIds : /\ vdis'[d].at = v <=> vdis[d].at = v
                                 /\ vdis[d].at = v => vdis'[d].kind = vdis[d].kind

LEMMA OthersLeaveIt ==
  ASSUME TypeOK, Ownership, NEW o, o.req \in Requests, WorksForItsRequest(o), Does(o),
         NEW q \in Requests, q # o.req
  PROVE  Untouched(q) /\ SameMachine(q)
<1>0. /\ StoreOwned /\ NoVm \notin VmIds /\ q # NoReq
  BY MachineAssumption DEF Ownership, NoVm
<1>1. Untouched(q) => SameMachine(q)
  BY DEF SameMachine, Untouched, Present
<1> SUFFICES ASSUME NEW v \in VmIds
             PROVE  /\ vms'[v].name = q <=> vms[v].name = q
                    /\ vms[v].name = q
                         => /\ vms'[v] = vms[v]
                            /\ \A d \in VdiIds :
                                 /\ vdis'[d].at = v <=> vdis[d].at = v
                                 /\ vdis[d].at = v => vdis'[d].kind = vdis[d].kind
  BY <1>1 DEF Untouched
<1>2. CASE o.pc = "vm.create" /\ \E w \in VmIds, e \in VdiIds : MakesVm(o.req, w, e)
  <2>1. PICK w \in VmIds, e \in VdiIds : MakesVm(o.req, w, e)
    BY <1>2
  <2>2. CASE v = w
    BY <1>0, <2>1, <2>2 DEF MakesVm
  <2>3. CASE v # w
    BY <1>0, <2>1, <2>3 DEF MakesVm, OnlyVm, OnlyVdi
  <2> QED  BY <2>2, <2>3
<1>3. CASE o.pc = "disk.import" /\ \E e \in VdiIds : MakesDrive(o.req, e)
  BY <1>0, <1>3 DEF MakesDrive, OnlyVdi
<1>4. CASE Attaches(o.req, o.vm, o.vdi)
  BY <1>0, <1>4 DEF Attaches, OnlyVdi
<1>5. CASE DropsVdi(o.req, o.vdi)
  <2>1. vms[v].name = q => \A d \in VdiIds : vdis[d].at = v => vdis[d].owner = q
    BY <1>0 DEF StoreOwned
  <2> QED  BY <1>0, <1>5, <2>1 DEF DropsVdi, OnlyVdi
<1>6. CASE o.vm \in VmIds /\ DropsVm(o.req, o.vm)
  BY <1>0, <1>6 DEF DropsVm, OnlyVm
<1>7. CASE o.vm \in VmIds /\ UNCHANGED vdis /\ vms[o.vm].name = o.req
           /\ vms'[o.vm].name = o.req /\ OnlyVm(o.vm)
  BY <1>0, <1>7 DEF OnlyVm
<1> QED
  BY <1>2, <1>3, <1>4, <1>5, <1>6, <1>7 DEF Does, SetsPower, KeepsPower

(* Who changes q's machine: its own answered call, when it has no abandoned *)
(* one, or its one abandoned call.                                          *)
LEMMA WhoMoves ==
  ASSUME Calm, TypeOK, Ownership, [Next]_vars, NEW q \in Requests, OneCall(q)
  PROVE  \/ SameMachine(q)
         \/ ByJob(q) /\ Does(Call(q)) /\ OfRequest(q) = {}
         \/ \E o \in OfRequest(q) :
              ByLate(o) /\ Does(o) /\ Looking(q) /\ OfRequest(q)' = {}
<1>1. CASE UNCHANGED store
  BY <1>1 DEF store, SameMachine, Present
<1>2. CASE ByGuest
  <2>1. UNCHANGED vdis /\ \A v \in VmIds : vms'[v].name = vms[v].name
    BY <1>2, GuestKeeps DEF ByGuest, GuestStep
  <2>2. PICK w \in VmIds : \/ GuestMoves(w, "Running", "Paused")
                           \/ GuestMoves(w, "Paused", "Halted")
    BY <1>2 DEF ByGuest
  <2>3. ASSUME NEW v \in VmIds
        PROVE  /\ Present(v)' <=> Present(v)
               /\ vms'[v].power \in {"Running", "Paused"}
                    => vms[v].power \in {"Running", "Paused"}
    <3>1. CASE v = w
      BY <2>2, <3>1 DEF GuestMoves, Present
    <3>2. CASE v # w
      BY <2>2, <3>2 DEF GuestMoves, OnlyVm, Present
    <3> QED  BY <3>1, <3>2
  <2> QED  BY <2>1, <2>3 DEF SameMachine
<1>3. ASSUME NEW r \in Requests, ByJob(r), Does(Call(r))
      PROVE  SameMachine(q) \/ (ByJob(q) /\ Does(Call(q)) /\ OfRequest(q) = {})
  <2>1. CASE r = q
    BY <1>3, <2>1 DEF Calm, ByJob, Returns, OfRequest
  <2>2. CASE r # q
    <3>1. Call(r).req = r /\ WorksForItsRequest(Call(r))
      BY CallTyped DEF Ownership, JobOwned
    <3> QED  BY <1>3, <2>2, <3>1, OthersLeaveIt
  <2> QED  BY <2>1, <2>2
<1>4. ASSUME NEW o \in late, ByLate(o), Does(o)
      PROVE  \/ SameMachine(q)
             \/ /\ o \in OfRequest(q) /\ Looking(q) /\ OfRequest(q)' = {}
  <2>1. CASE o.req = q
    BY <1>4, <2>1 DEF OneCall, OfRequest, ByLate
  <2>2. CASE o.req # q
    BY <1>4, <2>2, LateDoesOwn, OthersLeaveIt
  <2> QED  BY <2>1, <2>2
<1> QED  BY <1>1, <1>2, <1>3, <1>4, StoreDoes

LEMMA NoDrops ==
  ASSUME Calm, [Next]_vars
  PROVE  \A r \in Requests : ~ConnectionLost(r)
BY DEF Calm, ConnectionLost, Fault

(* A new call is abandoned by a crash only, which ends every job.          *)
LEMMA CalmLate ==
  ASSUME Calm, TypeOK, [Next]_vars
  PROVE  \/ late' \subseteq late
         \/ /\ UNCHANGED store /\ job' = [r \in Requests |-> Idle]
            /\ \E S \in SUBSET {r \in Requests : MayExecute(r)} :
                 late' = late \cup {Call(r) : r \in S}
<1>1. late' \subseteq late \/ Crash
  BY NoDrops, LateMoves
<1> QED  BY <1>1 DEF Crash, Abandon

LEMMA OneCallStep ==
  ASSUME Calm, TypeOK, [Next]_vars, NEW q \in Requests, OneCall(q)
  PROVE  OneCall(q)'
<1>1. CASE late' \subseteq late
  <2>1. \A o \in OfRequest(q)' : o \in OfRequest(q)
    BY <1>1 DEF OfRequest
  <2>2. ASSUME OfRequest(q)' # {} PROVE Looking(q)'
    <3>1. Looking(q) /\ \E o \in late : o.req = q
      BY <2>1, <2>2 DEF OneCall, OfRequest
    <3>2. ~Moves(q)
      BY <3>1 DEF Moves, Returns, Calm
    <3>3. job'[q] = job[q] \/ job'[q] = Idle \/ Begins(q)
      BY <3>2, NoDrops, JobMoves
    <3> QED  BY <3>1, <3>3 DEF Looking, Idle, Begins
  <2> QED  BY <2>1, <2>2 DEF OneCall
<1>2. CASE /\ job' = [r \in Requests |-> Idle]
           /\ \E S \in SUBSET {r \in Requests : MayExecute(r)} :
                late' = late \cup {Call(r) : r \in S}
  <2>1. PICK S \in SUBSET {r \in Requests : MayExecute(r)} :
          late' = late \cup {Call(r) : r \in S}
    BY <1>2
  <2>2. Looking(q)'
    BY <1>2 DEF Looking, Idle
  <2>3. MayExecute(q) => OfRequest(q) = {}
    BY DEF OneCall, Looking, MayExecute, Mutating
  <2>4. \A o \in OfRequest(q)' : o \in OfRequest(q) \/ (o = Call(q) /\ MayExecute(q))
    BY <2>1, CallTyped DEF OfRequest
  <2> QED  BY <2>2, <2>3, <2>4 DEF OneCall
<1> QED  BY <1>1, <1>2, CalmLate

(* What a call was sent for stays so while the machine is left as it is.   *)
LEMMA FitsStays ==
  ASSUME NEW q \in Requests, SameMachine(q), NEW pc, NEW v,
         pc \in OnVm => v \in VmIds /\ vms[v].name = q, Fits(q, pc, v)
  PROVE  Fits(q, pc, v)'
<1>1. ASSUME v \in VmIds, vms[v].name = q
      PROVE  /\ ConfigDrives(v)' = ConfigDrives(v) /\ DisksOf(v)' = DisksOf(v)
             /\ HasDrive(v) => HasDrive(v)'
  BY <1>1 DEF SameMachine, ConfigDrives, DisksOf, HasDrive
<1>2. CASE pc \in {"disk.import", "vm.attachDisk", "vm.start", "vm.delete"}
  BY <1>1, <1>2 DEF Fits, OnVm, SyncCalls, DeprovisionCalls
<1>3. CASE pc = "vm.create"
  BY <1>3 DEF Fits, SameMachine
<1> QED  BY <1>2, <1>3 DEF Fits

(* A call is sent for what its job has just learnt or done.                *)
LEMMA MovesFit ==
  ASSUME Calm, TypeOK, Ownership, Phases, [Next]_vars, NEW q \in Requests, Once(q),
         Moves(q)
  PROVE  /\ Fits(q, job[q].pc, job[q].vm)'
         /\ (job[q].pc = "vdi.delete"
               => DisksOf(job[q].vm) \subseteq job[q].disks \cup {job[q].vdi})'
<1> DEFINE Goal == /\ Fits(q, job[q].pc, job[q].vm)'
                   /\ (job[q].pc = "vdi.delete"
                         => DisksOf(job[q].vm) \subseteq job[q].disks \cup {job[q].vdi})'
<1>0. CallsFit(q)
  BY DEF Once
<1>1. ASSUME job'[q].pc \notin {"vm.create", "disk.import", "vm.attachDisk", "vm.start",
                                "vm.delete", "vdi.delete"}
      PROVE  Goal
  BY <1>1 DEF Fits
<1>2. CASE Learns(q)
  <2>1. vms' = vms /\ vdis' = vdis
    BY <1>2 DEF Learns, store
  <2>2. CASE job[q].pc = "findVM" /\ Named(q) = {} /\ job'[q].pc = "vm.create"
    <3>1. ASSUME NEW w \in VmIds, vms[w].name = q
          PROVE  FALSE
      <4>1. vms[w].power # "unused"
        BY <3>1, MachineAssumption DEF Ownership, StoreOwned
      <4>2. vms[w].power # "deleted"
        BY <2>2, <3>1 DEF Phases, InPhase, SyncCalls
      <4>3. Present(w)
        BY <4>1, <4>2 DEF TypeOK, VmRecord, Powers, Present
      <4> QED  BY <2>2, <3>1, <4>3 DEF Named
    <3> QED  BY <2>1, <2>2, <3>1 DEF Fits
  <2>3. CASE job[q].pc = "getDisks" /\ job'[q].vm = job[q].vm
    <3>1. CASE ConfigDrives(job[q].vm) = {} /\ job'[q].pc = "disk.import"
      BY <2>1, <2>3, <3>1 DEF Fits, ConfigDrives, DisksOf
    <3>2. CASE HasDrive(job[q].vm) /\ job'[q].pc = "vm.start"
      BY <2>1, <2>3, <3>2 DEF Fits, HasDrive
    <3> QED  BY <1>1, <1>2, <2>3, <3>1, <3>2 DEF Learns
  <2> QED  BY <1>1, <1>2, <2>2, <2>3 DEF Learns
<1>3. CASE Creates(q)
  <2>1. CASE /\ job[q].pc = "disk.import" /\ job'[q].pc = "vm.attachDisk"
             /\ job'[q].vm = job[q].vm
             /\ job'[q].vdi \in FreeVdis /\ DiskImport(q, job'[q].vdi)
    <3>1. MakesDrive(q, job'[q].vdi) /\ job'[q].vdi \in VdiIds
      BY <2>1, ImportMakes DEF Ownership
    <3>2. job[q].vm \in VmIds
      BY <2>1 DEF TypeOK, OnVm, SyncCalls
    <3>3. ConfigDrives(job[q].vm) = {}
      BY <1>0, <2>1 DEF CallsFit, Fits
    <3>4. \A d \in VdiIds : vdis'[d].at = job[q].vm => vdis'[d].kind # "cidata"
      BY <3>1, <3>2, <3>3, MachineAssumption
         DEF MakesDrive, OnlyVdi, ConfigDrives, DisksOf, NoVm
    <3> QED  BY <2>1, <3>4 DEF Fits, ConfigDrives, DisksOf
  <2> QED  BY <1>1, <1>3, <2>1 DEF Creates
<1>4. CASE TakesApart(q)
  <2>1. CASE job[q].pc = "d.getDisks" /\ UNCHANGED store /\ TakesNext(q, DisksOf(job[q].vm))
    <3>1. \A v : DisksOf(v)' = DisksOf(v)
      BY <2>1 DEF DisksOf, store
    <3> QED  BY <2>1, <3>1 DEF TakesNext, Fits, DisksOf
  <2>2. CASE job[q].pc = "vdi.delete" /\ Executes(Call(q)) /\ TakesNext(q, job[q].disks)
    <3>1. Does(Call(q)) /\ Call(q).pc = "vdi.delete" /\ Call(q).vdi = job[q].vdi
      BY <2>2, CallTyped, WhatACallDoes DEF Ownership, JobOwned
    <3>2. DropsVdi(Call(q).req, job[q].vdi)
      BY <3>1 DEF Does
    <3>3. job[q].vm \in VmIds
      BY <2>2 DEF TypeOK, OnVm, DeprovisionCalls
    <3>4. DisksOf(job[q].vm) \subseteq job[q].disks \cup {job[q].vdi}
      BY <1>0, <2>2 DEF CallsFit
    <3>5. ASSUME NEW d \in VdiIds, vdis'[d].at = job[q].vm
          PROVE  d \in job[q].disks
      <4>1. d # job[q].vdi
        BY <3>2, <3>3, <3>5, MachineAssumption DEF DropsVdi, NoVm
      <4>2. vdis'[d] = vdis[d]
        BY <3>2, <4>1 DEF DropsVdi, OnlyVdi
      <4> QED  BY <3>4, <3>5, <4>1, <4>2 DEF DisksOf
    <3>6. job'[q].vm = job[q].vm
      BY <2>2 DEF TakesNext
    <3> QED  BY <2>2, <3>5, <3>6 DEF TakesNext, Fits, DisksOf
  <2> QED  BY <1>1, <1>4, <2>1, <2>2 DEF TakesApart
<1> QED  BY <1>2, <1>3, <1>4 DEF Moves

LEMMA CallsFitStep ==
  ASSUME Calm, TypeOK, Ownership, Phases, [Next]_vars, NEW q \in Requests, Once(q)
  PROVE  CallsFit(q)'
<1> DEFINE JobFits == /\ Fits(q, job[q].pc, job[q].vm)'
                      /\ (job[q].pc = "vdi.delete"
                            => DisksOf(job[q].vm)
                                 \subseteq job[q].disks \cup {job[q].vdi})'
<1>0. CallsFit(q) /\ OneCall(q)
  BY DEF Once
<1>1. ASSUME job'[q].pc \in {"idle", "findVM", "d.findVM"}
      PROVE  JobFits
  BY <1>1 DEF Fits
<1>2. ASSUME SameMachine(q) PROVE JobFits
  <2>1. CASE job'[q] = job[q]
    <3>1. job[q].pc \in OnVm => job[q].vm \in VmIds /\ vms[job[q].vm].name = q
      BY OwnJobNow
    <3>2. Fits(q, job[q].pc, job[q].vm)
      BY <1>0 DEF CallsFit
    <3>3. \A pc, v : pc = job[q].pc /\ v = job[q].vm => Fits(q, pc, v)'
      BY <1>2, <3>1, <3>2, FitsStays
    <3>4. Fits(q, job[q].pc, job[q].vm)'
      BY <2>1, <3>3 DEF Fits, ConfigDrives, DisksOf, HasDrive
    <3>5. job[q].pc = "vdi.delete"
            => DisksOf(job[q].vm) \subseteq job[q].disks \cup {job[q].vdi}
      BY <1>0 DEF CallsFit
    <3>6. job[q].pc = "vdi.delete"
            => \A d \in VdiIds : vdis'[d].at = job[q].vm => vdis[d].at = job[q].vm
      BY <1>2, <3>1 DEF SameMachine, OnVm, DeprovisionCalls
    <3> QED  BY <2>1, <3>4, <3>5, <3>6 DEF DisksOf
  <2>2. CASE job'[q] = Idle \/ Begins(q)
    BY <1>1, <2>2 DEF Idle, Begins
  <2> QED  BY <2>1, <2>2, NoDrops, JobMoves, MovesFit
<1>3. ASSUME ByJob(q) PROVE JobFits
  BY <1>1, <1>3, MovesFit DEF ByJob, Idle
<1>4. ASSUME NEW o \in OfRequest(q), ByLate(o), Looking(q)
      PROVE  JobFits
  BY <1>1, <1>4 DEF ByLate, Looking
<1>5. JobFits
  BY <1>0, <1>2, <1>3, <1>4, WhoMoves
<1>6. ASSUME NEW o \in OfRequest(q)'
      PROVE  Fits(q, o.pc, o.vm)'
  <2>0. o.req = q /\ o \in late'
    BY <1>6 DEF OfRequest
  <2>1. CASE late' \subseteq late
    <3>1. o \in OfRequest(q) /\ o \in late
      BY <2>0, <2>1 DEF OfRequest
    <3>2. Fits(q, o.pc, o.vm) /\ WorksForItsRequest(o)
      BY <1>0, <3>1, LateDoesOwn DEF CallsFit
    <3>3. SameMachine(q)
      BY <1>0, <1>6, <3>1, WhoMoves
    <3> QED  BY <2>0, <3>2, <3>3, FitsStays DEF WorksForItsRequest
  <2>2. CASE /\ UNCHANGED store
             /\ \E S \in SUBSET {r \in Requests : MayExecute(r)} :
                  late' = late \cup {Call(r) : r \in S}
    <3>1. o \in late \/ o = Call(q)
      BY <2>0, <2>2, CallTyped
    <3>2. Fits(q, o.pc, o.vm)
      BY <1>0, <2>0, <3>1, CallTyped DEF CallsFit, OfRequest
    <3> QED  BY <2>2, <3>2 DEF Fits, store, ConfigDrives, DisksOf, HasDrive
  <2> QED  BY <2>1, <2>2, CalmLate
<1> QED  BY <1>5, <1>6 DEF CallsFit

(* A call of q that does what it was sent for leaves q one VM, one drive,  *)
(* and the drive on what runs.                                             *)
LEMMA OwnCallKeeps ==
  ASSUME TypeOK, Ownership, Phases, NEW q \in Requests, OneMachine(q), Equipped(q),
         NEW o, o.req = q, WorksForItsRequest(o), Does(o), Fits(q, o.pc, o.vm)
  PROVE  OneMachine(q)' /\ Equipped(q)'
<1>0. NoVm \notin VmIds /\ q # NoReq
  BY MachineAssumption DEF NoVm
<1> DEFINE EquippedAt(v) == /\ \A d, e \in ConfigDrives(v) : d = e
                            /\ vms[v].power \in {"Running", "Paused"} => HasDrive(v)
<1>1. CASE o.pc = "vm.create" /\ \E v \in VmIds, e \in VdiIds : MakesVm(o.req, v, e)
  <2>1. PICK v \in VmIds, e \in VdiIds : MakesVm(q, v, e)
    BY <1>1
  <2>2. \A w \in VmIds : vms[w].name # q
    BY <1>1 DEF Fits
  <2>3. \A w \in VmIds : vms'[w].name = q => w = v
    BY <2>1, <2>2 DEF MakesVm, OnlyVm
  <2>4. \A d \in VdiIds : vdis[d].at # v
    BY <2>1, <1>0 DEF MakesVm, Phases, AttachedToPresent, Present
  <2>5. \A d \in VdiIds : vdis'[d].at = v => d = e
    BY <2>1, <2>4 DEF MakesVm, OnlyVdi
  <2>6. EquippedAt(v)'
    BY <2>1, <2>5 DEF MakesVm, ConfigDrives, DisksOf
  <2> QED  BY <2>3, <2>6 DEF OneMachine, Equipped
<1>2. CASE o.pc = "disk.import" /\ \E e \in VdiIds : MakesDrive(o.req, e)
  <2>1. PICK e \in VdiIds : MakesDrive(q, e)
    BY <1>2
  <2>2. vms' = vms /\ \A v \in VmIds, d \in VdiIds :
                        /\ vdis'[d].at = v <=> vdis[d].at = v
                        /\ vdis[d].at = v => vdis'[d].kind = vdis[d].kind
    BY <2>1, <1>0 DEF MakesDrive, OnlyVdi
  <2>3. \A v \in VmIds : /\ ConfigDrives(v)' = ConfigDrives(v)
                         /\ HasDrive(v)' <=> HasDrive(v)
    BY <2>2 DEF ConfigDrives, DisksOf, HasDrive
  <2> QED  BY <2>2, <2>3 DEF OneMachine, Equipped
<1>3. CASE /\ o.pc = "vm.attachDisk" /\ o.vm \in VmIds /\ o.vdi \in VdiIds
           /\ Attaches(o.req, o.vm, o.vdi)
  <2>1. vms' = vms /\ ConfigDrives(o.vm) = {} /\ vms[o.vm].name = q
    BY <1>3 DEF Attaches, Fits
  <2>2. \A v \in VmIds : vms[v].name = q => v = o.vm
    BY <1>3, <2>1 DEF OneMachine
  <2>3. \A d \in VdiIds : d \in ConfigDrives(o.vm)' => d = o.vdi
    BY <1>3, <2>1 DEF Attaches, OnlyVdi, ConfigDrives, DisksOf
  <2>4. HasDrive(o.vm)'
    BY <1>3 DEF Attaches, HasDrive
  <2>5. \A d, e \in ConfigDrives(o.vm)' : d = e
    BY <2>3 DEF ConfigDrives, DisksOf
  <2> QED  BY <2>1, <2>2, <2>4, <2>5 DEF OneMachine, Equipped
<1>4. CASE /\ o.pc = "vdi.delete" /\ o.vdi \in VdiIds /\ DropsVdi(o.req, o.vdi)
           /\ o.vm \in VmIds /\ vms[o.vm].power \in {"Halted", "deleted"}
  <2>1. vms' = vms /\ vms[o.vm].name = q
    BY <1>4 DEF DropsVdi, WorksForItsRequest, OnVm, DeprovisionCalls
  <2>2. \A v \in VmIds : vms[v].name = q => v = o.vm
    BY <1>4, <2>1 DEF OneMachine
  <2>3. \A d \in ConfigDrives(o.vm)' : d \in ConfigDrives(o.vm)
    BY <1>0, <1>4 DEF DropsVdi, OnlyVdi, ConfigDrives, DisksOf
  <2>4. \A d, e \in ConfigDrives(o.vm)' : d = e
    BY <1>4, <2>1, <2>3 DEF Equipped
  <2> QED  BY <1>4, <2>1, <2>2, <2>4 DEF OneMachine, Equipped
<1>5. CASE o.pc = "vm.delete" /\ o.vm \in VmIds /\ DropsVm(o.req, o.vm)
  <2>1. \A v \in VmIds : vms'[v].name = vms[v].name
    BY <1>5 DEF DropsVm, OnlyVm
  <2>2. \A v \in VmIds : vms[v].name = q => v = o.vm
    BY <1>5 DEF OneMachine, DropsVm
  <2>3. \A d \in VdiIds : vdis'[d].at # o.vm
    BY <1>0, <1>5 DEF DropsVm
  <2>4. EquippedAt(o.vm)'
    BY <1>5, <2>3 DEF DropsVm, ConfigDrives, DisksOf
  <2> QED  BY <2>1, <2>2, <2>4 DEF OneMachine, Equipped
<1>6. CASE /\ o.vm \in VmIds /\ UNCHANGED vdis /\ vms[o.vm].name = q
           /\ vms'[o.vm].name = q /\ OnlyVm(o.vm)
           /\ vms'[o.vm].power \in {"Running", "Paused"} => HasDrive(o.vm)
  <2>1. \A v \in VmIds : vms'[v].name = vms[v].name
    BY <1>6 DEF OnlyVm
  <2>2. \A v \in VmIds : vms[v].name = q => v = o.vm
    BY <1>6 DEF OneMachine
  <2>3. ConfigDrives(o.vm)' = ConfigDrives(o.vm) /\ (HasDrive(o.vm)' <=> HasDrive(o.vm))
    BY <1>6 DEF ConfigDrives, DisksOf, HasDrive
  <2>4. \A d, e \in ConfigDrives(o.vm) : d = e
    BY <1>6 DEF Equipped
  <2> QED  BY <1>6, <2>1, <2>2, <2>3, <2>4 DEF OneMachine, Equipped
<1>7. o.pc = "vm.start" /\ o.vm \in VmIds /\ SetsPower(o.req, o.vm, {"Halted"}, "Running")
        => /\ UNCHANGED vdis /\ vms[o.vm].name = q
           /\ vms'[o.vm].name = q /\ OnlyVm(o.vm) /\ HasDrive(o.vm)
  BY DEF SetsPower, Fits
<1>8. o.vm \in VmIds /\ SetsPower(o.req, o.vm, {"Running", "Paused"}, "Halted")
        => /\ UNCHANGED vdis /\ vms[o.vm].name = q /\ vms'[o.vm].name = q
           /\ OnlyVm(o.vm) /\ vms'[o.vm].power = "Halted"
  BY DEF SetsPower
<1>9. o.vm \in VmIds /\ KeepsPower(o.req, o.vm)
        => /\ UNCHANGED vdis /\ vms[o.vm].name = q /\ vms'[o.vm].name = q
           /\ OnlyVm(o.vm) /\ vms'[o.vm].power = vms[o.vm].power
           /\ vms[o.vm].power \in {"Running", "Paused"} => HasDrive(o.vm)
  BY DEF KeepsPower, Equipped
<1> QED
  BY <1>1, <1>2, <1>3, <1>4, <1>5, <1>6, <1>7, <1>8, <1>9 DEF Does

LEMMA MachineStep ==
  ASSUME Calm, TypeOK, Ownership, Phases, [Next]_vars, NEW q \in Requests, Once(q)
  PROVE  OneMachine(q)' /\ Equipped(q)'
<1>0. OneCall(q) /\ CallsFit(q) /\ OneMachine(q) /\ Equipped(q)
  BY DEF Once
<1>1. CASE SameMachine(q)
  <2>1. ASSUME NEW v \in VmIds, vms[v].name = q
        PROVE  /\ ConfigDrives(v)' = ConfigDrives(v) /\ (HasDrive(v)' <=> HasDrive(v))
               /\ vms'[v].power \in {"Running", "Paused"}
                    => vms[v].power \in {"Running", "Paused"}
    BY <1>1, <2>1 DEF SameMachine, ConfigDrives, DisksOf, HasDrive
  <2>2. \A v \in VmIds : vms'[v].name = q <=> vms[v].name = q
    BY <1>1 DEF SameMachine
  <2>3. OneMachine(q)'
    BY <1>0, <2>2 DEF OneMachine
  <2>4. ASSUME NEW v \in VmIds, vms'[v].name = q
        PROVE  /\ (\A d, e \in ConfigDrives(v) : d = e)'
               /\ (vms[v].power \in {"Running", "Paused"} => HasDrive(v))'
    <3>1. vms[v].name = q
      BY <2>2, <2>4
    <3>2. /\ \A d, e \in ConfigDrives(v) : d = e
          /\ vms[v].power \in {"Running", "Paused"} => HasDrive(v)
      BY <1>0, <3>1 DEF Equipped
    <3> QED  BY <2>1, <3>1, <3>2
  <2> QED  BY <2>3, <2>4 DEF Equipped
<1>2. CASE ByJob(q) /\ Does(Call(q))
  <2>1. /\ Call(q).req = q /\ Call(q).pc = job[q].pc /\ Call(q).vm = job[q].vm
        /\ WorksForItsRequest(Call(q))
    BY CallTyped DEF Ownership, JobOwned
  <2>2. Fits(q, Call(q).pc, Call(q).vm)
    BY <1>0, <2>1 DEF CallsFit
  <2> QED  BY <1>0, <1>2, <2>1, <2>2, OwnCallKeeps
<1>3. ASSUME NEW o \in OfRequest(q), Does(o)
      PROVE  OneMachine(q)' /\ Equipped(q)'
  <2>1. o \in late /\ o.req = q /\ Fits(q, o.pc, o.vm)
    BY <1>0 DEF OfRequest, CallsFit
  <2>2. WorksForItsRequest(o)
    BY <2>1, LateDoesOwn
  <2> QED  BY <1>0, <1>3, <2>1, <2>2, OwnCallKeeps
<1> QED  BY <1>0, <1>1, <1>2, <1>3, WhoMoves

LEMMA EndedStep ==
  ASSUME Calm, TypeOK, Ownership, Phases, [Next]_vars, NEW q \in Requests, Once(q)
  PROVE  Ended(q)'
<1> SUFFICES ASSUME want'[q] = "gone"
             PROVE  (job[q].pc = "idle" /\ Named(q) = {} /\ OfRequest(q) = {})'
  BY DEF Ended
<1>1. CASE want[q] = "gone"
  <2>1. job[q].pc = "idle" /\ Named(q) = {} /\ OfRequest(q) = {}
    BY <1>1 DEF Once, Ended
  <2>2. job'[q].pc = "idle"
    <3>1. ~Begins(q) /\ ~Moves(q)
      BY <1>1, <2>1 DEF Begins, Moves, Learns, Creates, TakesApart
    <3>2. job'[q] = job[q] \/ job'[q] = Idle
      BY <3>1, NoDrops, JobMoves
    <3> QED  BY <2>1, <3>2 DEF Idle
  <2>3. OfRequest(q)' = {}
    <3>1. ~MayExecute(q)
      BY <2>1 DEF MayExecute, Mutating
    <3>2. \A o \in late' : o.req = q => o \in late
      BY <3>1, CalmLate, CallTyped
    <3> QED  BY <2>1, <3>2 DEF OfRequest
  <2>4. Named(q)' = {}
    <3>1. ~Does(Call(q))
      BY <2>1, CallTyped DEF Does
    <3>2. SameMachine(q)
      BY <2>1, <3>1, WhoMoves DEF Once
    <3> QED  BY <2>1, <3>2 DEF SameMachine, Named
  <2> QED  BY <2>2, <2>3, <2>4
<1>2. CASE DeprovisionFindsNone(q)
  <2>1. Named(q) = {} /\ UNCHANGED <<vms, vdis, late>>
    BY <1>2 DEF DeprovisionFindsNone, store, env
  <2>2. OfRequest(q) = {}
    BY <1>2 DEF DeprovisionFindsNone, Returns, Calm, OfRequest
  <2>3. job'[q].pc = "idle"
    BY <1>2, EndsAlone DEF DeprovisionFindsNone, Idle
  <2> QED  BY <2>1, <2>2, <2>3 DEF Named, Present, OfRequest
<1> QED  BY <1>1, <1>2, WantMoves

LEMMA AllOnceInit == Init => AllOnce
BY MachineAssumption
   DEF Init, AllOnce, Once, OneCall, CallsFit, OneMachine, Equipped, Ended, OfRequest,
       Fits, Idle

LEMMA AllOnceStep ==
  ASSUME Calm, TypeOK, Ownership, Phases, AllOnce, [Next]_vars
  PROVE  AllOnce'
<1>1. ASSUME NEW q \in Requests PROVE Once(q)'
  <2>1. Once(q)
    BY DEF AllOnce
  <2> QED  BY <2>1, OneCallStep, CallsFitStep, MachineStep, EndedStep DEF Once
<1> QED  BY <1>1 DEF AllOnce

(* Whatever is lost or late: Deprovision is never followed by syncMachine, *)
(* Uuid is a VM's of the request, and disks are on VMs that exist.         *)
THEOREM PhasesHold == Spec => []Phases
<1>1. TypeOK /\ Ownership /\ Phases /\ [Next]_vars => Phases'
  BY PhasesStep
<1> QED  BY <1>1, PhasesInit, TypeCorrect, OwnershipHolds, PTL DEF Spec

(* Without lost connections and undecided calls, every call finds what it  *)
(* was sent for, and a request is given one VM in its whole life.          *)
THEOREM OnceHolds ==
  ASSUME Prompt, "drop" \notin FaultKinds
  PROVE  Spec => []AllOnce
<1>1. Calm
  BY DEF Calm
<1>2. TypeOK /\ Ownership /\ Phases /\ AllOnce /\ [Next]_vars => AllOnce'
  BY <1>1, AllOnceStep
<1> QED
  BY <1>2, AllOnceInit, TypeCorrect, OwnershipHolds, PhasesHold, PTL DEF Spec

(* A set whose members are all the same has at most one.                   *)
LEMMA AtMostOne ==
  ASSUME NEW S, \A x, y \in S : x = y
  PROVE  Cardinality(S) <= 1
<1>1. CASE S = {}
  <2>1. Cardinality(S) = 0
    BY <1>1, FS_EmptySet
  <2> QED  BY <2>1
<1>2. ASSUME NEW x \in S
      PROVE  Cardinality(S) <= 1
  <2>1. S = {x}
    OBVIOUS
  <2>2. Cardinality({x}) = 1
    BY FS_Singleton
  <2> QED  BY <2>1, <2>2
<1> QED  BY <1>1, <1>2

(* The provider's own calls never give a request a second VM               *)
(* (provision.go:138, troubleshooting.md): crashes and errors alone do not.*)
THEOREM OneVmHolds ==
  ASSUME Prompt, "drop" \notin FaultKinds
  PROVE  Spec => []OneVmPerRequest
<1>1. ASSUME AllOnce, NEW r \in Requests
      PROVE  Cardinality(Named(r)) <= 1
  <2>1. \A v, w \in Named(r) : v = w
    BY <1>1 DEF AllOnce, Once, OneMachine, Named
  <2> QED  BY <2>1, AtMostOne
<1>2. AllOnce => OneVmPerRequest
  BY <1>1 DEF OneVmPerRequest
<1> QED  BY <1>2, OnceHolds, PTL

(* A machine never gets a second config drive: the look at its disks       *)
(* before the upload (provision.go:189) is not stale when the drive is     *)
(* attached.                                                               *)
THEOREM OneDriveHolds ==
  ASSUME Prompt, "drop" \notin FaultKinds
  PROVE  Spec => []OneConfigDrive
<1>1. ASSUME TypeOK, Ownership, Phases, AllOnce, NEW v \in VmIds
      PROVE  Cardinality(ConfigDrives(v)) <= 1
  <2>1. \A d, e \in ConfigDrives(v) : d = e
    <3>1. CASE vms[v].name \in Requests
      BY <1>1, <3>1 DEF AllOnce, Once, Equipped
    <3>2. CASE vms[v].name = NoReq
      <4>1. \A d \in VdiIds : vdis[d].at # v
        BY <1>1, <3>2, MachineAssumption
           DEF Ownership, StoreOwned, Phases, AttachedToPresent, Present, NoVm
      <4> QED  BY <4>1 DEF ConfigDrives, DisksOf
    <3> QED  BY <1>1, <3>1, <3>2 DEF TypeOK, VmRecord
  <2> QED  BY <2>1, AtMostOne
<1>2. TypeOK /\ Ownership /\ Phases /\ AllOnce => OneConfigDrive
  BY <1>1 DEF OneConfigDrive
<1> QED
  BY <1>2, OnceHolds, PhasesHold, OwnershipHolds, TypeCorrect, PTL

(* When Deprovision has told Omni that a machine is gone, no VM of its     *)
(* name is left, no disk is attached for it, and nothing of it comes back. *)
THEOREM NothingLeftHolds ==
  ASSUME Prompt, "drop" \notin FaultKinds
  PROVE  Spec => []NothingLeftBehind
<1>1. ASSUME TypeOK, Ownership, Phases, AllOnce, NEW r \in Requests, want[r] = "gone"
      PROVE  /\ Named(r) = {} /\ job[r].pc = "idle"
             /\ \A d \in VdiIds : vdis[d].owner = r => vdis[d].at = NoVm
  <2>1. Named(r) = {} /\ job[r].pc = "idle"
    BY <1>1 DEF AllOnce, Once, Ended
  <2>2. ASSUME NEW d \in VdiIds, vdis[d].owner = r, vdis[d].at # NoVm
        PROVE  FALSE
    <3>1. Present(vdis[d].at) /\ vms[vdis[d].at].name = r
      BY <1>1, <2>2 DEF Phases, AttachedToPresent, Ownership, StoreOwned
    <3> QED  BY <2>1, <3>1 DEF Named, Present
  <2> QED  BY <2>1, <2>2
<1>2. TypeOK /\ Ownership /\ Phases /\ AllOnce => NothingLeftBehind
  BY <1>1 DEF NothingLeftBehind
<1> QED
  BY <1>2, OnceHolds, PhasesHold, OwnershipHolds, TypeCorrect, PTL

(* Omni is told that a machine is provisioned by one answer only.          *)
LEMMA ReadyMoves ==
  ASSUME TypeOK, [Next]_vars, NEW q \in Requests
  PROVE  ready'[q] = ready[q] \/ (ready'[q] = TRUE /\ HasDriveRunning(q))
<1> USE DEF omni
<1>1. ASSUME NEW r \in Requests, BeginSync(r) \/ Sync(r), ~HasDriveRunning(r)
      PROVE  ready' = ready
  BY <1>1 DEF BeginSync, Sync, FindsNone, FindsOne, FindsMany, VmCreateReturns,
         VmSetReturns, HasNoDrive, HasDriveHalted, DiskImportReturns,
         AttachOrStartReturns
<1>2. ASSUME NEW r \in Requests, HasDriveRunning(r)
      PROVE  ready'[q] = ready[q] \/ (ready'[q] = TRUE /\ HasDriveRunning(q))
  BY <1>2 DEF TypeOK, HasDriveRunning
<1>3. ASSUME NEW r \in Requests,
             Deprovision(r) \/ Refused(r) \/ Rejected(r) \/ ConnectionLost(r) \/ TearDown(r)
      PROVE  ready' = ready
  BY <1>3 DEF Deprovision, BeginDeprovision, DeprovisionFindsNone, DeprovisionFindsOne,
         VmStopReturns, GetVIFsReturns, VifDeleteReturns, GetDisksReturns,
         VdiDeleteReturns, VmDeleteReturns, Refused, Rejected, ConnectionLost, Resends,
         StepFails, TearDown
<1>4. CASE \/ \E v \in VmIds : GuestCrashes(v) \/ GuestDestroyed(v)
           \/ \E o \in late : LateExecutes(o) \/ LateForgotten(o)
           \/ Crash \/ UNCHANGED vars
  BY <1>4 DEF GuestCrashes, GuestDestroyed, LateExecutes, LateForgotten, Crash, vars
<1> QED  BY <1>1, <1>2, <1>3, <1>4 DEF Next, AllGone

(* The machine getDisks was answered for is the one of the request, though *)
(* findVM was answered before.                                             *)
LEMMA SettledMachine ==
  ASSUME TypeOK, Ownership, Phases, AllOnce, NEW q \in Requests, NEW v \in VmIds,
         vms[v].name = q, HasDrive(v)
  PROVE  Named(q) = {v}
<1>1. PICK d \in VdiIds : vdis[d].at = v
  BY DEF HasDrive
<1>2. Present(v)
  BY <1>1, MachineAssumption DEF Phases, AttachedToPresent, NoVm
<1>3. \A w \in Named(q) : w = v
  BY DEF AllOnce, Once, OneMachine, Named
<1> QED  BY <1>2, <1>3 DEF Named

(* When Omni is told that a machine is provisioned, exactly one VM has its *)
(* name, it has its drive, and its id is the Uuid Omni keeps: the Uuid set *)
(* by an earlier reconcile (provision.go:177) cannot be another VM's.      *)
THEOREM ReadyHolds ==
  ASSUME Prompt, "drop" \notin FaultKinds
  PROVE  Spec => ReadyNamesTheMachine
<1>1. ASSUME TypeOK, Ownership, Phases, AllOnce, [Next]_vars,
             NEW r \in Requests, ready'[r], ~ready[r]
      PROVE  \E v \in VmIds : Named(r) = {v} /\ HasDrive(v) /\ uuid'[r] = v
  <2>1. HasDriveRunning(r)
    BY <1>1, ReadyMoves
  <2>2. /\ job[r].pc = "getDisks" /\ HasDrive(job[r].vm)
        /\ uuid' = [uuid EXCEPT ![r] = FoundUuid(r)]
    BY <2>1 DEF HasDriveRunning, Returns, StepEnds, HasDrive, ConfigDrives, DisksOf
  <2>3. job[r].vm \in VmIds /\ vms[job[r].vm].name = r
    BY <1>1, <2>2, OwnJobNow DEF OnVm, SyncCalls
  <2>4. Named(r) = {job[r].vm}
    BY <1>1, <2>2, <2>3, SettledMachine
  <2>5. uuid[r] # NoVm => uuid[r] = job[r].vm
    <3>1. uuid[r] # NoVm => uuid[r] \in VmIds /\ vms[uuid[r]].name = r
      BY <1>1 DEF TypeOK, Phases, UuidOwned
    <3> QED  BY <1>1, <2>3, <3>1 DEF AllOnce, Once, OneMachine
  <2>6. uuid'[r] = job[r].vm
    BY <1>1, <2>2, <2>5 DEF TypeOK, FoundUuid
  <2> QED  BY <2>2, <2>3, <2>4, <2>6
<1>2. TypeOK /\ Ownership /\ Phases /\ AllOnce /\ [Next]_vars
        => [\A r \in Requests : ready'[r] /\ ~ready[r]
              => \E v \in VmIds : Named(r) = {v} /\ HasDrive(v) /\ uuid'[r] = v]_vars
  BY <1>1
<1> QED
  BY <1>2, OnceHolds, PhasesHold, OwnershipHolds, TypeCorrect, PTL
     DEF Spec, ReadyNamesTheMachine

-----------------------------------------------------------------------------
(* The contract of MachineLife.  A request's one VM is at a stage of its   *)
(* life, and every step is a step of that life or changes no stage.        *)

StageAt(v) ==
  IF vms[v].power = "Halted" THEN IF HasDrive(v) THEN "configured" ELSE "bare"
  ELSE IF vms[v].power = "Running" THEN "running" ELSE "paused"

StagesKnown ==
  \A q \in Requests :
    /\ Named(q) = {} => Stage(q) = "absent"
    /\ \A v \in VmIds : Present(v) /\ vms[v].name = q => Stage(q) = StageAt(v)

LEMMA StageForm == AllOnce => StagesKnown
<1> SUFFICES ASSUME AllOnce, NEW q \in Requests
             PROVE  /\ Named(q) = {} => Stage(q) = "absent"
                    /\ \A v \in VmIds : Present(v) /\ vms[v].name = q
                                          => Stage(q) = StageAt(v)
  BY DEF StagesKnown
<1>1. Named(q) = {} => Stage(q) = "absent"
  BY DEF Stage
<1>2. ASSUME NEW v \in VmIds, Present(v), vms[v].name = q
      PROVE  Stage(q) = StageAt(v)
  <2>1. Named(q) = {v}
    <3>1. \A w \in Named(q) : w = v
      BY <1>2 DEF AllOnce, Once, OneMachine, Named
    <3> QED  BY <1>2, <3>1 DEF Named
  <2>2. (CHOOSE w \in Named(q) : TRUE) = v
    BY <2>1
  <2>3. CASE vms[v].power = "Halted"
    BY <2>1, <2>2, <2>3 DEF Stage, StageAt
  <2>4. CASE vms[v].power # "Halted"
    <3>1. HasDrive(v)
      BY <1>2, <2>4 DEF Present, AllOnce, Once, Equipped
    <3> HIDE DEF HasDrive
    <3> QED  BY <2>1, <2>2, <2>4, <3>1 DEF Stage, StageAt
  <2> QED  BY <2>3, <2>4
<1> QED  BY <1>1, <1>2

(* What a step does to the stage of q.                                     *)
Stays(q) == Stage(q)' = Stage(q)
Passes(q, from, to) == Stage(q) \in from /\ Stage(q)' = to

LEMMA UntouchedStays ==
  ASSUME StagesKnown, StagesKnown', TypeOK, NEW q \in Requests, Untouched(q)
  PROVE  Stays(q)
<1>1. CASE Named(q) = {}
  <2>1. Named(q)' = {}
    BY <1>1 DEF Named, Untouched, Present
  <2> QED  BY <1>1, <2>1 DEF StagesKnown, Stays
<1>2. ASSUME NEW v \in VmIds, Present(v), vms[v].name = q
      PROVE  Stays(q)
  <2>1. /\ vms'[v] = vms[v] /\ Present(v)' /\ vms'[v].name = q
        /\ HasDrive(v)' <=> HasDrive(v)
    BY <1>2 DEF Untouched, Present, HasDrive
  <2>2. StageAt(v)' = StageAt(v)
    BY <2>1 DEF StageAt
  <2>3. Stage(q) = StageAt(v) /\ Stage(q)' = StageAt(v)'
    BY <1>2, <2>1 DEF StagesKnown
  <2> QED  BY <2>2, <2>3 DEF Stays
<1> QED  BY <1>1, <1>2 DEF Named

(* The stages an executing call takes its request's machine through.       *)
LEMMA CallPasses ==
  ASSUME TypeOK, Phases, AllOnce, StagesKnown, StagesKnown', NEW q \in Requests,
         NEW o, o.req = q, WorksForItsRequest(o), Does(o), Fits(q, o.pc, o.vm)
  PROVE  \/ Stays(q)
         \/ Passes(q, {"absent"}, "bare") \/ Passes(q, {"bare"}, "configured")
         \/ Passes(q, {"configured"}, "running")
         \/ /\ o.pc \in DeprovisionCalls
            /\ \/ Passes(q, {"running", "paused"}, "configured")
               \/ Passes(q, {"configured"}, "bare") \/ Passes(q, {"bare"}, "absent")
<1>0. /\ NoVm \notin VmIds /\ q # NoReq /\ OneMachine(q) /\ Equipped(q)
  BY MachineAssumption DEF NoVm, AllOnce, Once
<1> DEFINE At(v) == Present(v) /\ vms[v].name = q
<1>a. \A v \in VmIds : At(v) => Stage(q) = StageAt(v)
  BY DEF StagesKnown
<1>b. \A v \in VmIds : At(v)' => Stage(q)' = StageAt(v)'
  BY DEF StagesKnown
<1>1. CASE o.pc = "vm.create" /\ \E v \in VmIds, e \in VdiIds : MakesVm(o.req, v, e)
  <2>1. PICK v \in VmIds, e \in VdiIds : MakesVm(q, v, e)
    BY <1>1
  <2>2. Named(q) = {}
    BY <1>1 DEF Fits, Named
  <2>3. At(v)' /\ vms'[v].power = "Halted"
    BY <2>1 DEF MakesVm, Present
  <2>4. \A d \in VdiIds : vdis[d].at # v
    BY <1>0, <2>1 DEF MakesVm, Phases, AttachedToPresent, Present
  <2>5. ~HasDrive(v)'
    BY <2>1, <2>4 DEF MakesVm, OnlyVdi, HasDrive
  <2>6. Stage(q)' = "bare"
    BY <1>b, <2>3, <2>5 DEF StageAt
  <2> QED  BY <2>2, <2>6 DEF StagesKnown, Passes
<1>2. CASE o.pc = "disk.import" /\ \E e \in VdiIds : MakesDrive(o.req, e)
  <2>1. Untouched(q)
    BY <1>0, <1>2 DEF MakesDrive, OnlyVdi, Untouched
  <2> QED  BY <2>1, UntouchedStays
<1>3. CASE /\ o.pc = "vm.attachDisk" /\ o.vm \in VmIds /\ o.vdi \in VdiIds
           /\ Attaches(o.req, o.vm, o.vdi)
  <2>1. At(o.vm) /\ At(o.vm)' /\ vms'[o.vm].power = vms[o.vm].power
    BY <1>3 DEF Attaches, Present
  <2>2. ~HasDrive(o.vm) /\ HasDrive(o.vm)'
    BY <1>3 DEF Fits, Attaches, HasDrive, ConfigDrives, DisksOf
  <2>3. vms[o.vm].power = "Halted"
    BY <1>0, <1>3, <2>1, <2>2 DEF Equipped, Present
  <2>4. StageAt(o.vm) = "bare" /\ StageAt(o.vm)' = "configured"
    BY <2>1, <2>2, <2>3 DEF StageAt
  <2>5. Stage(q) = "bare" /\ Stage(q)' = "configured"
    BY <1>a, <1>b, <1>3, <2>1, <2>4
  <2> QED  BY <2>5 DEF Passes
<1>4. CASE /\ o.pc = "vdi.delete" /\ o.vdi \in VdiIds /\ DropsVdi(o.req, o.vdi)
           /\ o.vm \in VmIds /\ vms[o.vm].power \in {"Halted", "deleted"}
  <2>1. vms' = vms /\ vms[o.vm].name = q
    BY <1>4 DEF DropsVdi, WorksForItsRequest, OnVm, DeprovisionCalls
  <2>2. CASE vms[o.vm].power = "deleted"
    <3>1. Named(q) = {}
      BY <1>0, <1>4, <2>1, <2>2 DEF Named, OneMachine, Present
    <3>2. Named(q)' = {}
      BY <2>1, <3>1 DEF Named, Present
    <3> QED  BY <3>1, <3>2 DEF StagesKnown, Stays
  <2>3. CASE vms[o.vm].power = "Halted"
    <3>1. At(o.vm) /\ At(o.vm)'
      BY <1>4, <2>1, <2>3 DEF Present
    <3>2. HasDrive(o.vm)' => HasDrive(o.vm)
      <4>1. ASSUME NEW d \in VdiIds, vdis'[d].at = o.vm
            PROVE  vdis'[d] = vdis[d]
        BY <1>0, <1>4, <4>1 DEF DropsVdi, OnlyVdi
      <4>2. \A d \in VdiIds : vdis'[d].kind = "cidata" /\ vdis'[d].at = o.vm
              => vdis[d].kind = "cidata" /\ vdis[d].at = o.vm
        BY <4>1
      <4> QED  BY <4>2 DEF HasDrive
    <3>3. Stage(q) = StageAt(o.vm) /\ Stage(q)' = StageAt(o.vm)'
      BY <1>a, <1>b, <1>4, <3>1
    <3>4. StageAt(o.vm)' = StageAt(o.vm)
            \/ (StageAt(o.vm) = "configured" /\ StageAt(o.vm)' = "bare")
      BY <2>1, <2>3, <3>2 DEF StageAt
    <3> QED  BY <1>4, <3>3, <3>4 DEF Stays, Passes, DeprovisionCalls
  <2> QED  BY <1>4, <2>2, <2>3
<1>5. CASE o.pc = "vm.delete" /\ o.vm \in VmIds /\ DropsVm(o.req, o.vm)
  <2>1. At(o.vm) /\ vms[o.vm].power = "Halted" /\ ~HasDrive(o.vm)
    BY <1>5 DEF DropsVm, Fits, HasDrive, DisksOf
  <2>2. Named(q)' = {}
    BY <1>0, <1>5 DEF DropsVm, OnlyVm, OneMachine, Named, Present
  <2>3. Stage(q) = "bare"
    BY <1>a, <1>5, <2>1 DEF StageAt
  <2>4. Stage(q)' = "absent"
    BY <2>2 DEF StagesKnown
  <2> QED  BY <1>5, <2>3, <2>4 DEF Passes, DeprovisionCalls
<1>6. CASE /\ o.pc = "vm.start" /\ o.vm \in VmIds
           /\ SetsPower(o.req, o.vm, {"Halted"}, "Running")
  <2>1. /\ At(o.vm) /\ At(o.vm)' /\ HasDrive(o.vm)
        /\ vms[o.vm].power = "Halted" /\ vms'[o.vm].power = "Running"
    BY <1>6 DEF SetsPower, Fits, Present
  <2>2. Stage(q) = "configured" /\ Stage(q)' = "running"
    BY <1>a, <1>b, <1>6, <2>1 DEF StageAt
  <2> QED  BY <2>2 DEF Passes
<1>7. CASE /\ o.pc = "vm.stop" /\ o.vm \in VmIds
           /\ SetsPower(o.req, o.vm, {"Running", "Paused"}, "Halted")
  <2>1. /\ At(o.vm) /\ At(o.vm)' /\ vms[o.vm].power \in {"Running", "Paused"}
        /\ vms'[o.vm].power = "Halted" /\ vdis' = vdis
    BY <1>7 DEF SetsPower, Present
  <2>2. HasDrive(o.vm) /\ HasDrive(o.vm)'
    BY <1>0, <1>7, <2>1 DEF Equipped, HasDrive
  <2>3. StageAt(o.vm) \in {"running", "paused"} /\ StageAt(o.vm)' = "configured"
    BY <2>1, <2>2 DEF StageAt
  <2>4. Stage(q) \in {"running", "paused"} /\ Stage(q)' = "configured"
    BY <1>a, <1>b, <1>7, <2>1, <2>3
  <2> QED  BY <1>7, <2>4 DEF Passes, DeprovisionCalls
<1>8. CASE o.vm \in VmIds /\ KeepsPower(o.req, o.vm)
  <2>1. /\ At(o.vm) /\ At(o.vm)' /\ vms'[o.vm].power = vms[o.vm].power
        /\ HasDrive(o.vm)' <=> HasDrive(o.vm)
    BY <1>8 DEF KeepsPower, Present, HasDrive
  <2>2. StageAt(o.vm)' = StageAt(o.vm)
    BY <2>1 DEF StageAt
  <2> QED  BY <1>a, <1>b, <1>8, <2>1, <2>2 DEF Stays
<1> QED  BY <1>1, <1>2, <1>3, <1>4, <1>5, <1>6, <1>7, <1>8 DEF Does

(* Only the stage of q changes: that is a step of MachineLife.             *)
LEMMA OnlyStageMoves ==
  ASSUME NEW q \in Requests, NEW from, NEW to, Passes(q, from, to),
         \A r \in Requests \ {q} : Stays(r), UNCHANGED <<want, ready>>
  PROVE  Life!Becomes(q, from, to)
<1> DEFINE machine == [r \in Requests |-> Stage(r)]
<1>1. machine' = [r \in Requests |-> Stage(r)']
  OBVIOUS
<1>2. machine' = [machine EXCEPT ![q] = to]
  BY <1>1 DEF Passes, Stays
<1>3. machine[q] \in from
  BY DEF Passes
<1> QED  BY <1>2, <1>3 DEF Life!Becomes

LEMMA NoStageMoves ==
  ASSUME \A r \in Requests : Stays(r)
  PROVE  UNCHANGED [r \in Requests |-> Stage(r)]
<1>1. [r \in Requests |-> Stage(r)]' = [r \in Requests |-> Stage(r)']
  OBVIOUS
<1> QED  BY <1>1 DEF Stays

(* What Omni wants and shows changes by three steps only.                  *)
LEMMA OmniMoves ==
  ASSUME TypeOK, TypeOK', [Next]_vars
  PROVE  \/ UNCHANGED <<want, ready>>
         \/ \E q \in Requests : TearDown(q) \/ DeprovisionFindsNone(q) \/ HasDriveRunning(q)
<1> SUFFICES ASSUME \A q \in Requests : /\ ~TearDown(q) /\ ~DeprovisionFindsNone(q)
                                        /\ ~HasDriveRunning(q)
             PROVE  UNCHANGED <<want, ready>>
  OBVIOUS
<1>1. \A q \in Requests : want'[q] = want[q] /\ ready'[q] = ready[q]
  BY WantMoves, ReadyMoves
<1>2. want' = want
  BY <1>1 DEF TypeOK
<1>3. ready' = ready
  BY <1>1 DEF TypeOK
<1> QED  BY <1>2, <1>3

(* The call o of q is a step of q's life.                                  *)
LEMMA CallIsLife ==
  ASSUME TypeOK, Ownership, Phases, AllOnce, StagesKnown, StagesKnown',
         UNCHANGED <<want, ready>>,
         NEW o, o.req \in Requests, WorksForItsRequest(o), Does(o),
         Fits(o.req, o.pc, o.vm), want[o.req] # "gone"
  PROVE  Life!Next \/ UNCHANGED Life!vars
<1> DEFINE q == o.req
<1>1. \A r \in Requests \ {q} : Stays(r)
  BY OthersLeaveIt, UntouchedStays
<1>2. CASE Stays(q)
  BY <1>1, <1>2, NoStageMoves DEF Life!vars
<1>3. CASE \/ Passes(q, {"absent"}, "bare") \/ Passes(q, {"bare"}, "configured")
           \/ Passes(q, {"configured"}, "running")
  <2>1. Life!Create(q) \/ Life!Configure(q) \/ Life!PowerOn(q)
    BY <1>1, <1>3, OnlyStageMoves DEF Life!Create, Life!Configure, Life!PowerOn
  <2> QED  BY <2>1 DEF Life!Next
<1>4. CASE /\ o.pc \in DeprovisionCalls
           /\ \/ Passes(q, {"running", "paused"}, "configured")
              \/ Passes(q, {"configured"}, "bare") \/ Passes(q, {"bare"}, "absent")
  <2>1. want[q] = "teardown"
    BY <1>4 DEF WorksForItsRequest, TypeOK
  <2>2. Life!Stop(q) \/ Life!Strip(q) \/ Life!Destroy(q)
    BY <1>1, <1>4, <2>1, OnlyStageMoves DEF Life!Stop, Life!Strip, Life!Destroy
  <2> QED  BY <2>2 DEF Life!Next
<1> QED  BY <1>2, <1>3, <1>4, CallPasses

(* So is what the guest does.                                              *)
LEMMA GuestIsLife ==
  ASSUME TypeOK, Ownership, AllOnce, StagesKnown, StagesKnown', ByGuest
  PROVE  Life!Next
<1>1. UNCHANGED <<want, ready, vdis>>
  BY GuestKeeps DEF ByGuest, GuestStep, omni
<1>2. PICK v \in VmIds : GuestMoves(v, "Running", "Paused") \/ GuestMoves(v, "Paused", "Halted")
  BY DEF ByGuest
<1> DEFINE q == vms[v].name
<1>3. q \in Requests /\ Present(v) /\ Present(v)' /\ vms'[v].name = q
  BY <1>2 DEF TypeOK, VmRecord, Ownership, StoreOwned, GuestMoves, Present
<1>4. HasDrive(v) /\ HasDrive(v)'
  <2>1. HasDrive(v)
    BY <1>2, <1>3 DEF AllOnce, Once, Equipped, GuestMoves
  <2> QED  BY <1>1, <2>1 DEF HasDrive
<1>5. Stage(q) = StageAt(v) /\ Stage(q)' = StageAt(v)'
  BY <1>3 DEF StagesKnown
<1>6. \A r \in Requests \ {q} : Stays(r)
  BY <1>1, <1>2, <1>3, UntouchedStays DEF Untouched, GuestMoves, OnlyVm
<1>7. CASE GuestMoves(v, "Running", "Paused")
  <2>1. Passes(q, {"running"}, "paused")
    BY <1>4, <1>5, <1>7 DEF Passes, StageAt, GuestMoves
  <2>2. Life!GuestCrashes(q)
    BY <1>1, <1>3, <1>6, <2>1, OnlyStageMoves DEF Life!GuestCrashes
  <2> QED  BY <1>3, <2>2 DEF Life!Next
<1>8. CASE GuestMoves(v, "Paused", "Halted")
  <2>1. Passes(q, {"paused"}, "configured")
    BY <1>4, <1>5, <1>8 DEF Passes, StageAt, GuestMoves
  <2>2. Life!GuestDestroyed(q)
    BY <1>1, <1>3, <1>6, <2>1, OnlyStageMoves DEF Life!GuestDestroyed
  <2> QED  BY <1>3, <2>2 DEF Life!Next
<1> QED  BY <1>2, <1>7, <1>8

(* And so is what Omni is told, or decides.                                *)
LEMMA OmniIsLife ==
  ASSUME TypeOK, Ownership, Phases, AllOnce, StagesKnown, UNCHANGED store,
         NEW q \in Requests, TearDown(q) \/ DeprovisionFindsNone(q) \/ HasDriveRunning(q),
         \A r \in Requests : Stays(r)
  PROVE  Life!Next
<1> DEFINE machine == [r \in Requests |-> Stage(r)]
<1>1. UNCHANGED machine /\ machine[q] = Stage(q)
  BY NoStageMoves
<1> HIDE DEF machine
<1>2. CASE TearDown(q)
  <2>1. Life!TearDown(q)
    BY <1>1, <1>2 DEF TearDown, Life!TearDown, machine
  <2> QED  BY <2>1 DEF Life!Next
<1>3. CASE DeprovisionFindsNone(q)
  <2>1. job[q].pc = "d.findVM" /\ Named(q) = {}
    BY <1>3 DEF DeprovisionFindsNone, Returns
  <2>2. want[q] = "teardown"
    <3>1. want[q] # "running"
      BY <2>1 DEF Ownership, JobOwned, WorksForItsRequest, Call, DeprovisionCalls
    <3>2. want[q] # "gone"
      BY <2>1 DEF AllOnce, Once, Ended
    <3> QED  BY <3>1, <3>2 DEF TypeOK
  <2>3. machine[q] = "absent"
    BY <1>1, <2>1 DEF StagesKnown
  <2>4. Life!Finish(q)
    BY <1>1, <1>3, <2>2, <2>3 DEF DeprovisionFindsNone, Life!Finish, machine
  <2> QED  BY <2>4 DEF Life!Next
<1>4. CASE HasDriveRunning(q)
  <2>1. job[q].pc = "getDisks" /\ HasDrive(job[q].vm)
    BY <1>4 DEF HasDriveRunning, Returns, HasDrive, ConfigDrives, DisksOf
  <2>2. job[q].vm \in VmIds /\ vms[job[q].vm].name = q
    BY <2>1, OwnJobNow DEF OnVm, SyncCalls
  <2>3. Named(q) = {job[q].vm}
    BY <2>1, <2>2, SettledMachine
  <2>4. Stage(q) = StageAt(job[q].vm)
    BY <2>2, <2>3 DEF StagesKnown, Named
  <2>5. machine[q] \in {"configured", "running", "paused"}
    BY <1>1, <2>1, <2>4 DEF StageAt
  <2>6. want[q] # "gone"
    BY <2>1 DEF AllOnce, Once, Ended
  <2>7. Life!Report(q)
    BY <1>1, <1>4, <2>5, <2>6 DEF HasDriveRunning, Life!Report, machine
  <2> QED  BY <2>7 DEF Life!Next
<1> QED  BY <1>2, <1>3, <1>4

LEMMA LifeStep ==
  ASSUME Calm, TypeOK, TypeOK', Ownership, Phases, AllOnce, StagesKnown, StagesKnown',
         [Next]_vars
  PROVE  [Life!Next]_(Life!vars)
<1>1. CASE UNCHANGED store
  <2>1. \A q \in Requests : Stays(q)
    BY <1>1, UntouchedStays DEF Untouched, store
  <2>2. CASE UNCHANGED <<want, ready>>
    BY <2>1, <2>2, NoStageMoves DEF Life!vars
  <2>3. CASE \E q \in Requests : TearDown(q) \/ DeprovisionFindsNone(q) \/ HasDriveRunning(q)
    BY <1>1, <2>1, <2>3, OmniIsLife
  <2> QED  BY <2>2, <2>3, OmniMoves
<1>2. CASE ByGuest
  BY <1>2, GuestIsLife
<1>3. ASSUME NEW r \in Requests, ByJob(r), Does(Call(r))
      PROVE  Life!Next \/ UNCHANGED Life!vars
  <2>1. /\ Call(r).req = r /\ Call(r).pc = job[r].pc /\ Call(r).vm = job[r].vm
        /\ WorksForItsRequest(Call(r)) /\ UNCHANGED <<want, ready>>
    BY <1>3 DEF Call, Ownership, JobOwned, ByJob
  <2>2. Fits(r, job[r].pc, job[r].vm) /\ (want[r] = "gone" => job[r].pc = "idle")
    BY DEF AllOnce, Once, CallsFit, Ended
  <2>3. want[r] # "gone"
    BY <1>3, <2>1, <2>2 DEF Does
  <2> QED  BY <1>3, <2>1, <2>2, <2>3, CallIsLife
<1>4. ASSUME NEW o \in late, ByLate(o), Does(o)
      PROVE  Life!Next \/ UNCHANGED Life!vars
  <2>1. o.req \in Requests /\ WorksForItsRequest(o) /\ UNCHANGED <<want, ready>>
    BY <1>4 DEF TypeOK, Abandoned, Ownership, ByLate, omni
  <2>2. Fits(o.req, o.pc, o.vm) /\ want[o.req] # "gone"
    BY <2>1 DEF AllOnce, Once, CallsFit, Ended, OfRequest
  <2> QED  BY <1>4, <2>1, <2>2, CallIsLife
<1> QED  BY <1>1, <1>2, <1>3, <1>4, StoreDoes

(* syncMachine and Deprovision keep the contract of MachineLife: with one  *)
(* call at a time, every step of theirs, and of the guest, is a step of    *)
(* that contract, or one it does not see.                                  *)
THEOREM LifeKept ==
  ASSUME Prompt, "drop" \notin FaultKinds
  PROVE  Spec => KeepsLife
<1>1. Init => Life!Init
  <2>1. Init => \A r \in Requests : Stage(r) = "absent"
    BY DEF Init, Stage, Named, Present
  <2> QED  BY <2>1 DEF Init, Life!Init
<1>2. TypeOK /\ TypeOK' /\ Ownership /\ Phases /\ AllOnce /\ StagesKnown
        /\ StagesKnown' /\ [Next]_vars => [Life!Next]_(Life!vars)
  BY LifeStep DEF Calm
<1> QED
  BY <1>1, <1>2, StageForm, OnceHolds, PhasesHold, OwnershipHolds, TypeCorrect, PTL
     DEF Spec, KeepsLife, Life!Spec
=============================================================================
