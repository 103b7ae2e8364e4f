-------------------------- MODULE MachineStrayProofs -------------------------
(***************************************************************************)
(* What a fault may cost: an uploaded config drive that nothing attaches   *)
(* or deletes any more.  Whatever is lost, refused, repeated or late, a    *)
(* request loses at most one drive to each fault.                          *)
(***************************************************************************)
EXTENDS MachineOnceProofs

-----------------------------------------------------------------------------
(* The drives counted against the faults: those that are stray, those that *)
(* only an abandoned call may still attach, and those that a deletion of   *)
(* their VM under way has not seen.  Counted with them are the abandoned   *)
(* uploads: each may still become a drive nobody knows.                    *)

JobAttaches(q, d) == job[q].pc = "vm.attachDisk" /\ job[q].vdi = d
LateAttach(d) == \E o \in late : o.pc = "vm.attachDisk" /\ o.vdi = d
Listed(q, d) == job[q].pc = "vdi.delete" /\ (d = job[q].vdi \/ d \in job[q].disks)
JobOverlooks(q, d) ==
  job[q].pc \in {"vdi.delete", "vm.delete"} /\ vdis[d].at = job[q].vm /\ ~Listed(q, d)
LateOverlooks(q, d) == \E o \in OfRequest(q) : o.pc = "vm.delete" /\ o.vm = vdis[d].at
Lost(q) ==
  {d \in VdiIds :
     /\ vdis[d].owner = q /\ vdis[d].kind = "cidata"
     /\ \/ vdis[d].at = NoVm /\ (JobAttaches(q, d) => LateAttach(d))
        \/ vdis[d].at # NoVm /\ (JobOverlooks(q, d) \/ LateOverlooks(q, d))}
LateImports(q) == {o \in OfRequest(q) : o.pc = "disk.import"}

Paid(q) ==
  /\ IsFiniteSet(Lost(q)) /\ IsFiniteSet(LateImports(q))
  /\ Cardinality(Lost(q)) + Cardinality(LateImports(q)) <= faults
AllPaid == \A q \in Requests : Paid(q)

-----------------------------------------------------------------------------
(* The kinds of step, as far as drives are concerned.                      *)

Mishap == Crash \/ \E r \in Requests : Rejected(r) \/ ConnectionLost(r)

(* A mishap is a fault.  It ends q's job, or sends its call again, and     *)
(* abandons no other call of q.                                            *)
LEMMA MishapMoves ==
  ASSUME TypeOK, Mishap, NEW q \in Requests
  PROVE  /\ faults' = faults + 1 /\ UNCHANGED store
         /\ \A o \in OfRequest(q)' : o \in OfRequest(q) \/ o = Call(q)
         /\ \/ job'[q] = Idle
            \/ job'[q].pc = "vm.create"
            \/ /\ job'[q].pc = job[q].pc /\ job'[q].vm = job[q].vm
               /\ job'[q].vdi = job[q].vdi /\ job'[q].disks = job[q].disks
<1> DEFINE Resent == \/ job'[q].pc = "vm.create"
                     \/ /\ job'[q].pc = job[q].pc /\ job'[q].vm = job[q].vm
                        /\ job'[q].vdi = job[q].vdi /\ job'[q].disks = job[q].disks
<1>1. CASE Crash
  <2>1. job'[q] = Idle /\ faults' = faults + 1 /\ UNCHANGED store
    BY <1>1 DEF Crash, Fault
  <2>2. PICK S \in SUBSET {r \in Requests : MayExecute(r)} : Abandon(S)
    BY <1>1 DEF Crash
  <2>3. \A o \in OfRequest(q)' : o \in OfRequest(q) \/ o = Call(q)
    BY <2>2, CallTyped DEF Abandon, OfRequest
  <2> QED  BY <2>1, <2>3
<1>2. ASSUME NEW r \in Requests, Rejected(r)
      PROVE  /\ faults' = faults + 1 /\ UNCHANGED store /\ late' = late
             /\ job'[q] = Idle \/ Resent
  <2>1. Ends(r) /\ faults' = faults + 1 /\ UNCHANGED store /\ late' = late
    BY <1>2 DEF Rejected, Fault, StepFails
  <2> QED  BY <2>1, EndsAlone
<1>3. ASSUME NEW r \in Requests, ConnectionLost(r)
      PROVE  /\ faults' = faults + 1 /\ UNCHANGED store
             /\ \A o \in late' : o \in late \/ o = Call(r)
             /\ job'[q] = Idle \/ Resent
  <2>1. /\ faults' = faults + 1 /\ UNCHANGED store
        /\ \A o \in late' : o \in late \/ o = Call(r)
    BY <1>3 DEF ConnectionLost, Fault, Abandon
  <2>2. CASE StepFails(r)
    BY <2>1, <2>2, EndsAlone DEF StepFails
  <2>3. CASE Resends(r)
    BY <2>1, <2>3 DEF Resends, TypeOK, Job
  <2> QED  BY <1>3, <2>1, <2>2, <2>3 DEF ConnectionLost
<1>4. \A r \in Requests : Call(r).req = r
  BY DEF Call
<1> QED  BY <1>1, <1>2, <1>3, <1>4 DEF Mishap, OfRequest

(* Anything else abandons nothing.                                         *)
LEMMA NoMishap ==
  ASSUME TypeOK, [Next]_vars, ~Mishap, NEW q \in Requests
  PROVE  /\ late' \subseteq late
         /\ job'[q] = job[q] \/ job'[q] = Idle \/ Begins(q) \/ Moves(q)
BY LateMoves, JobMoves DEF Mishap

LEMMA FaultsGrow ==
  ASSUME TypeOK, [Next]_vars
  PROVE  faults' = faults \/ faults' = faults + 1
<1>1. ASSUME NEW r \in Requests,
             \/ BeginSync(r) \/ Sync(r) \/ Deprovision(r) \/ Refused(r) \/ TearDown(r)
      PROVE  faults' = faults
  BY <1>1 DEF Sync, BeginSync, FindsNone, FindsOne, FindsMany, VmCreateReturns,
         VmSetReturns, HasNoDrive, HasDriveHalted, HasDriveRunning,
         DiskImportReturns, AttachOrStartReturns, Deprovision, BeginDeprovision,
         DeprovisionFindsNone, DeprovisionFindsOne, VmStopReturns, GetVIFsReturns,
         VifDeleteReturns, GetDisksReturns, VdiDeleteReturns, VmDeleteReturns,
         Refused, TearDown, env
<1>2. ASSUME NEW r \in Requests, Rejected(r) \/ ConnectionLost(r)
      PROVE  faults' = faults + 1
  BY <1>2 DEF Rejected, ConnectionLost, Fault
<1>3. ASSUME NEW v \in VmIds, GuestCrashes(v) \/ GuestDestroyed(v)
      PROVE  faults' = faults \/ faults' = faults + 1
  BY <1>3 DEF GuestCrashes, GuestDestroyed, Fault, env
<1>4. ASSUME NEW o \in late, LateExecutes(o) \/ LateForgotten(o)
      PROVE  faults' = faults
  BY <1>4 DEF LateExecutes, LateForgotten
<1>5. CASE Crash \/ UNCHANGED vars
  BY <1>5 DEF Crash, Fault, vars
<1> QED  BY <1>1, <1>2, <1>3, <1>4, <1>5 DEF Next, AllGone

(* How the calls about a drive end when nothing goes wrong around them: an *)
(* uploaded drive goes on to be attached, an attached one is done, and     *)
(* Xen Orchestra may refuse either.                                        *)
LEMMA DriveCalls ==
  ASSUME TypeOK, [Next]_vars, ~Mishap, NEW q \in Requests,
         job[q].pc \in {"disk.import", "vm.attachDisk"}
  PROVE  \/ job'[q] = job[q]
         \/ job[q].pc = "disk.import" /\ job'[q].pc = "vm.attachDisk"
         \/ job[q].pc = "vm.attachDisk" /\ Executes(Call(q))
         \/ ~Accepts(Call(q)) /\ UNCHANGED store
<1>1. ASSUME NEW r \in Requests, r # q,
             BeginSync(r) \/ Sync(r) \/ Deprovision(r) \/ Refused(r)
      PROVE  job'[q] = job[q]
  BY <1>1, SyncMoves, DeprovisionMoves, ErrorMoves
<1>2. CASE BeginSync(q) \/ Sync(q)
  <2>1. DiskImportReturns(q) \/ AttachOrStartReturns(q)
    BY <1>2 DEF BeginSync, Sync, FindsNone, FindsOne, FindsMany, VmCreateReturns,
           VmSetReturns, HasNoDrive, HasDriveHalted, HasDriveRunning, Returns
  <2>2. CASE DiskImportReturns(q)
    <3>1. job[q].pc = "disk.import" /\ \E j : Calls(q, "vm.attachDisk", j)
      BY <2>2 DEF DiskImportReturns, Returns
    <3>2. job'[q].pc = "vm.attachDisk"
      <4>1. job[q] \in Job
        BY DEF TypeOK
      <4>2. PICK d \in VdiIds : Calls(q, "vm.attachDisk", [job[q] EXCEPT !.vdi = d])
        BY <2>2 DEF DiskImportReturns, FreeVdis
      <4>3. [job[q] EXCEPT !.vdi = d] \in Job
        BY <4>1 DEF Job
      <4> QED  BY <4>2, <4>3, CallsOwned
    <3> QED  BY <3>1, <3>2
  <2>3. CASE AttachOrStartReturns(q)
    BY <2>3 DEF AttachOrStartReturns, Returns
  <2> QED  BY <2>1, <2>2, <2>3
<1>3. CASE Deprovision(q)
  BY <1>3 DEF Deprovision, BeginDeprovision, DeprovisionFindsNone, DeprovisionFindsOne,
         VmStopReturns, GetVIFsReturns, VifDeleteReturns, GetDisksReturns,
         VdiDeleteReturns, VmDeleteReturns, Returns
<1>4. CASE Refused(q)
  BY <1>4 DEF Refused
<1>5. CASE \/ \E r \in Requests : TearDown(r)
           \/ \E v \in VmIds : GuestCrashes(v) \/ GuestDestroyed(v)
           \/ \E o \in late : LateExecutes(o) \/ LateForgotten(o)
           \/ UNCHANGED vars
  BY <1>5 DEF TearDown, GuestCrashes, GuestDestroyed, LateExecutes, LateForgotten,
              vars, omni
<1> QED  BY <1>1, <1>2, <1>3, <1>4, <1>5 DEF Next, AllGone, Mishap

-----------------------------------------------------------------------------
(* No step but a mishap, or an abandoned upload, makes a drive lost.       *)

SameDisk(d) ==
  /\ vdis'[d].kind = vdis[d].kind /\ vdis'[d].owner = vdis[d].owner
  /\ vdis'[d].at = vdis[d].at

(* A lost drive that the step left alone was lost, if q's job goes on to   *)
(* attach it where it did, and overlooks nothing it did not overlook.      *)
LEMMA LostBefore ==
  ASSUME NEW q \in Requests, NEW d \in Lost(q)', late' \subseteq late, SameDisk(d),
         JobAttaches(q, d) => JobAttaches(q, d)',
         JobOverlooks(q, d)' => JobOverlooks(q, d)
  PROVE  d \in Lost(q)
<1>1. LateAttach(d)' => LateAttach(d)
  BY DEF LateAttach
<1>2. LateOverlooks(q, d)' => LateOverlooks(q, d)
  BY DEF LateOverlooks, OfRequest, SameDisk
<1> QED  BY <1>1, <1>2 DEF Lost, SameDisk

(* The deletion of a VM lists every disk it has, and forgets only those it *)
(* deletes.                                                                *)
LEMMA MovesOverlook ==
  ASSUME TypeOK, Ownership, NEW q \in Requests, Moves(q), NEW d \in VdiIds, SameDisk(d),
         vdis[d].kind = "cidata"
  PROVE  ~JobAttaches(q, d) /\ (JobOverlooks(q, d)' => JobOverlooks(q, d))
<1>1. ~JobAttaches(q, d)
  BY DEF JobAttaches, Moves, Learns, Creates, TakesApart
<1>2. ASSUME JobOverlooks(q, d)' PROVE JobOverlooks(q, d)
  <2>1. /\ job'[q].pc \in {"vdi.delete", "vm.delete"} /\ vdis[d].at = job'[q].vm
        /\ ~Listed(q, d)'
    BY <1>2 DEF JobOverlooks, SameDisk
  <2>2. CASE job[q].pc = "d.getDisks" /\ TakesNext(q, DisksOf(job[q].vm))
    BY <2>1, <2>2 DEF TakesNext, DisksOf, Listed
  <2>3. CASE /\ job[q].pc = "vdi.delete" /\ Executes(Call(q))
             /\ TakesNext(q, job[q].disks)
    <3>1. vdis'[job[q].vdi].kind = "deleted"
      <4>1. VdiDelete(job[q].vdi)
        BY <2>3 DEF Executes, Call
      <4>2. job[q].vdi \in VdiIds
        BY <2>3, OwnJobNow
      <4> QED  BY <4>1, <4>2 DEF VdiDelete, TypeOK
    <3>2. d # job[q].vdi
      BY <3>1 DEF SameDisk
    <3> QED  BY <2>1, <2>3, <3>2 DEF TakesNext, Listed, JobOverlooks
  <2> QED
    BY <2>1, <2>2, <2>3 DEF Moves, Learns, Creates, TakesApart
<1> QED  BY <1>1, <1>2

(* The VM a drive is being attached to is there.                           *)
LEMMA SyncVmPresent ==
  ASSUME TypeOK, Ownership, Phases, NEW q \in Requests, job[q].pc = "vm.attachDisk"
  PROVE  /\ Present(job[q].vm) /\ job[q].vm \in VmIds /\ job[q].vm # NoVm
         /\ ~\E o \in OfRequest(q) : o.pc = "vm.delete"
<1>1. job[q].vm \in VmIds /\ vms[job[q].vm].name = q
  BY OwnJobNow DEF OnVm, SyncCalls
<1>2. vms[job[q].vm].power \notin {"unused", "deleted"}
  BY <1>1, MachineAssumption DEF Ownership, StoreOwned, Phases, InPhase, SyncCalls
<1>3. Present(job[q].vm)
  BY <1>1, <1>2 DEF TypeOK, VmRecord, Powers, Present
<1>4. ~\E o \in OfRequest(q) : o.pc = "vm.delete"
  BY DEF Phases, InPhase, OfRequest, SyncCalls, DeprovisionCalls
<1> QED  BY <1>1, <1>3, <1>4, MachineAssumption DEF NoVm

(* A step that leaves the drives alone.                                    *)
LEMMA QuietKeepsLost ==
  ASSUME TypeOK, Ownership, Phases, [Next]_vars, ~Mishap, NEW q \in Requests,
         UNCHANGED vdis, UNCHANGED store \/ job'[q] = job[q]
  PROVE  Lost(q)' \subseteq Lost(q)
<1> SUFFICES ASSUME NEW d \in Lost(q)' PROVE d \in Lost(q)
  OBVIOUS
<1>0. /\ late' \subseteq late /\ SameDisk(d) /\ d \in VdiIds
      /\ vdis[d].kind = "cidata" /\ vdis[d].owner = q
  BY NoMishap DEF SameDisk, Lost
<1>1. CASE job'[q] = job[q]
  BY <1>0, <1>1, LostBefore DEF JobAttaches, JobOverlooks, Listed
<1>2. CASE Begins(q)
  BY <1>0, <1>2, LostBefore DEF JobAttaches, JobOverlooks, Begins
<1>3. CASE Moves(q)
  BY <1>0, <1>3, MovesOverlook, LostBefore
<1>4. CASE job'[q] = Idle
  <2>1. ~JobOverlooks(q, d)'
    BY <1>4 DEF JobOverlooks, Idle
  <2>2. CASE ~JobAttaches(q, d)
    BY <1>0, <2>1, <2>2, LostBefore
  <2>3. CASE JobAttaches(q, d) /\ vdis[d].at # NoVm
    <3>1. LateOverlooks(q, d)'
      BY <1>0, <2>1, <2>3 DEF Lost, SameDisk
    <3>2. LateOverlooks(q, d)
      BY <1>0, <3>1 DEF LateOverlooks, OfRequest
    <3> QED  BY <1>0, <2>3, <3>2 DEF Lost
  <2>4. CASE JobAttaches(q, d) /\ vdis[d].at = NoVm
    <3>1. /\ Call(q).pc = "vm.attachDisk" /\ Call(q).vdi = d /\ Call(q).vm = job[q].vm
          /\ job[q].pc = "vm.attachDisk"
      BY <2>4 DEF JobAttaches, Call
    <3>2. Present(job[q].vm) /\ job[q].vm # NoVm
      BY <3>1, SyncVmPresent
    <3>3. Accepts(Call(q))
      BY <1>0, <2>4, <3>1, <3>2 DEF Accepts
    <3>4. ~Executes(Call(q))
      <4>1. Executes(Call(q)) => AttachDisk(job[q].vm, d)
        BY <3>1 DEF Executes
      <4>2. AttachDisk(job[q].vm, d) => vdis'[d].at = job[q].vm
        BY <1>0 DEF AttachDisk, TypeOK, VdiRecord
      <4> QED  BY <1>0, <2>4, <3>2, <4>1, <4>2 DEF SameDisk
    <3>5. job'[q] # job[q]
      BY <1>4, <3>1 DEF Idle
    <3> QED  BY <3>1, <3>3, <3>4, <3>5, DriveCalls
  <2> QED  BY <2>2, <2>3, <2>4
<1> QED  BY <1>1, <1>2, <1>3, <1>4, NoMishap

(* The calls of others change no drive of q.                               *)
LEMMA OthersKeepDrive ==
  ASSUME TypeOK, Ownership, NEW q \in Requests, NEW o, o.req \in Requests, o.req # q,
         Does(o), NEW d \in VdiIds, vdis'[d].owner = q
  PROVE  SameDisk(d)
<1>1. CASE o.pc = "vm.create" /\ \E v \in VmIds, e \in VdiIds : MakesVm(o.req, v, e)
  BY <1>1 DEF MakesVm, OnlyVdi, SameDisk
<1>2. CASE o.pc = "disk.import" /\ \E e \in VdiIds : MakesDrive(o.req, e)
  BY <1>2 DEF MakesDrive, OnlyVdi, SameDisk
<1>3. CASE o.vdi \in VdiIds /\ Attaches(o.req, o.vm, o.vdi)
  BY <1>3 DEF Attaches, OnlyVdi, SameDisk
<1>4. CASE o.vdi \in VdiIds /\ DropsVdi(o.req, o.vdi)
  BY <1>4 DEF DropsVdi, OnlyVdi, SameDisk
<1>5. CASE o.vm \in VmIds /\ DropsVm(o.req, o.vm)
  <2>1. vdis[d].owner = q
    BY <1>5 DEF DropsVm
  <2>2. vdis[d].at # o.vm
    <3>1. vms[o.vm].name = o.req /\ NoVm \notin VmIds
      BY <1>5, MachineAssumption DEF DropsVm, NoVm
    <3>2. vdis[d].at # NoVm => vdis[d].owner = vms[vdis[d].at].name
      BY DEF Ownership, StoreOwned
    <3> QED  BY <1>5, <2>1, <3>1, <3>2
  <2> QED  BY <1>5, <2>2 DEF DropsVm, SameDisk
<1>6. CASE UNCHANGED vdis
  BY <1>6 DEF SameDisk
<1> QED  BY <1>1, <1>2, <1>3, <1>4, <1>5, <1>6 DEF Does, SetsPower, KeepsPower

LEMMA OthersKeepLost ==
  ASSUME TypeOK, Ownership, [Next]_vars, ~Mishap, NEW q \in Requests,
         NEW o, o.req \in Requests, o.req # q, Does(o), job'[q] = job[q]
  PROVE  Lost(q)' \subseteq Lost(q)
<1> SUFFICES ASSUME NEW d \in Lost(q)' PROVE d \in Lost(q)
  OBVIOUS
<1>1. late' \subseteq late /\ SameDisk(d)
  BY NoMishap, OthersKeepDrive DEF Lost
<1>2. /\ JobAttaches(q, d) => JobAttaches(q, d)'
      /\ JobOverlooks(q, d)' => JobOverlooks(q, d)
  BY <1>1 DEF JobAttaches, JobOverlooks, Listed, SameDisk
<1> QED  BY <1>1, <1>2, LostBefore

(* What a call of q does to a drive of q that it does not leave alone.     *)
LEMMA ChangesDrive ==
  ASSUME TypeOK, Ownership, NEW q \in Requests, NEW o, o.req = q, Does(o),
         NEW d \in VdiIds, vdis'[d].kind = "cidata", ~SameDisk(d)
  PROVE  \/ o.pc = "disk.import" /\ MakesDrive(q, d)
         \/ /\ o.pc = "vm.attachDisk" /\ o.vdi = d /\ o.vm \in VmIds
            /\ Attaches(q, o.vm, d)
         \/ /\ o.pc = "vm.delete" /\ o.vm \in VmIds /\ vdis[d].at = o.vm
            /\ vdis[d].kind = "cidata" /\ vdis[d].owner = vdis'[d].owner
<1>1. CASE o.pc = "vm.create" /\ \E v \in VmIds, e \in VdiIds : MakesVm(o.req, v, e)
  BY <1>1 DEF MakesVm, OnlyVdi, SameDisk
<1>2. CASE o.pc = "disk.import" /\ \E e \in VdiIds : MakesDrive(o.req, e)
  BY <1>2 DEF MakesDrive, OnlyVdi, SameDisk
<1>3. CASE /\ o.pc = "vm.attachDisk" /\ o.vm \in VmIds /\ o.vdi \in VdiIds
           /\ Attaches(o.req, o.vm, o.vdi)
  BY <1>3 DEF Attaches, OnlyVdi, SameDisk
<1>4. CASE o.vdi \in VdiIds /\ DropsVdi(o.req, o.vdi)
  BY <1>4 DEF DropsVdi, OnlyVdi, SameDisk
<1>5. CASE o.pc = "vm.delete" /\ o.vm \in VmIds /\ DropsVm(o.req, o.vm)
  BY <1>5 DEF DropsVm, SameDisk
<1>6. CASE UNCHANGED vdis
  BY <1>6 DEF SameDisk
<1> QED  BY <1>1, <1>2, <1>3, <1>4, <1>5, <1>6 DEF Does, SetsPower, KeepsPower

(* An answered call of q loses no drive: the uploaded one is attached      *)
(* next, the attached one is on a VM nothing deletes, and a VM deleted     *)
(* with a drive on it was being deleted without knowing of that drive.     *)
LEMMA OwnCallKeepsLost ==
  ASSUME TypeOK, Ownership, Phases, [Next]_vars, ~Mishap, NEW q \in Requests,
         ByJob(q), Does(Call(q))
  PROVE  Lost(q)' \subseteq Lost(q)
<1> SUFFICES ASSUME NEW d \in Lost(q)' PROVE d \in Lost(q)
  OBVIOUS
<1>0. /\ late' \subseteq late /\ d \in VdiIds /\ vdis'[d].kind = "cidata"
      /\ vdis'[d].owner = q /\ (job'[q] = Idle \/ Moves(q))
      /\ Call(q).req = q /\ Call(q).pc = job[q].pc /\ Call(q).vm = job[q].vm
      /\ Call(q).vdi = job[q].vdi
  BY NoMishap, CallTyped DEF Lost, ByJob
<1>1. CASE SameDisk(d)
  <2>1. CASE Moves(q)
    BY <1>0, <1>1, <2>1, MovesOverlook, LostBefore DEF SameDisk
  <2>2. CASE job'[q] = Idle
    <3>1. ~JobOverlooks(q, d)'
      BY <2>2 DEF JobOverlooks, Idle
    <3>2. ~JobAttaches(q, d)
      <4>1. SUFFICES ASSUME JobAttaches(q, d) PROVE FALSE
        OBVIOUS
      <4>2. Attaches(q, job[q].vm, d)
        BY <1>0, <4>1 DEF JobAttaches, Does
      <4>3. job[q].vm # NoVm
        BY <4>1, SyncVmPresent DEF JobAttaches
      <4> QED  BY <1>1, <4>2, <4>3 DEF Attaches, SameDisk
    <3> QED  BY <1>0, <1>1, <3>1, <3>2, LostBefore
  <2> QED  BY <1>0, <2>1, <2>2
<1>2. CASE job[q].pc = "disk.import" /\ MakesDrive(q, d)
  <2>1. job'[q].pc = "vm.attachDisk"
    <3>1. job'[q] # job[q]
      BY <1>0, <1>2 DEF Idle, Moves, Learns, Creates, TakesApart
    <3>2. Accepts(Call(q))
      BY DEF ByJob, Executes
    <3> QED  BY <1>2, <3>1, <3>2, DriveCalls
  <2>2. Creates(q)
    BY <1>0, <1>2, <2>1 DEF Idle, Moves, Learns, TakesApart
  <2>3. job'[q].vdi \in FreeVdis /\ DiskImport(q, job'[q].vdi)
    BY <1>2, <2>2 DEF Creates
  <2>4. job'[q].vdi = d
    BY <1>2, <2>3 DEF MakesDrive, DiskImport, FreeVdis, TypeOK
  <2>5. LateAttach(d)'
    <3>1. vdis'[d].at = NoVm /\ JobAttaches(q, d)'
      BY <1>2, <2>1, <2>4 DEF MakesDrive, JobAttaches
    <3> QED  BY <3>1 DEF Lost
  <2>6. PICK o \in late : o.pc = "vm.attachDisk" /\ o.vdi = d
    BY <1>0, <2>5 DEF LateAttach
  <2>7. vdis[d].owner = o.req /\ o.req \in Requests
    BY <2>6, LateDoesOwn DEF WorksForItsRequest
  <2> QED  BY <1>2, <2>7, MachineAssumption DEF MakesDrive
<1>3. CASE /\ job[q].pc = "vm.attachDisk" /\ job[q].vm \in VmIds
           /\ Attaches(q, job[q].vm, d)
  <2>1. job'[q] = Idle
    BY <1>0, <1>3 DEF Moves, Learns, Creates, TakesApart
  <2>2. vdis'[d].at # NoVm /\ ~JobOverlooks(q, d)'
    BY <1>3, <2>1, SyncVmPresent DEF Attaches, JobOverlooks, Idle
  <2>3. LateOverlooks(q, d)'
    BY <2>2 DEF Lost
  <2>4. \E o \in OfRequest(q) : o.pc = "vm.delete"
    BY <1>0, <2>3 DEF LateOverlooks, OfRequest
  <2> QED  BY <1>3, <2>4, SyncVmPresent
<1>4. CASE /\ job[q].pc = "vm.delete" /\ job[q].vm \in VmIds /\ vdis[d].at = job[q].vm
           /\ vdis[d].kind = "cidata" /\ vdis[d].owner = q
  <2>1. JobOverlooks(q, d)
    BY <1>4 DEF JobOverlooks, Listed
  <2> QED  BY <1>0, <1>4, <2>1, MachineAssumption DEF Lost, NoVm
<1> QED  BY <1>0, <1>1, <1>2, <1>3, <1>4, ChangesDrive

(* Nor does an abandoned call, but for an upload: its drive is unknown.    *)
LEMMA LateKeepsLost ==
  ASSUME TypeOK, Ownership, Phases, [Next]_vars, ~Mishap, NEW q \in Requests,
         NEW o \in OfRequest(q), ByLate(o), Does(o)
  PROVE  \/ Lost(q)' \subseteq Lost(q)
         \/ /\ o.pc = "disk.import"
            /\ \E e \in VdiIds : Lost(q)' \subseteq Lost(q) \cup {e}
<1>0. o \in late /\ o.req = q /\ late' = late \ {o} /\ job' = job
  BY DEF ByLate, OfRequest
<1>1. ASSUME NEW d \in Lost(q)', ~(o.pc = "disk.import" /\ MakesDrive(q, d))
      PROVE  d \in Lost(q)
  <2>0. d \in VdiIds /\ vdis'[d].kind = "cidata" /\ vdis'[d].owner = q
    BY DEF Lost
  <2>1. CASE SameDisk(d)
    <3>1. /\ JobAttaches(q, d) => JobAttaches(q, d)'
          /\ JobOverlooks(q, d)' => JobOverlooks(q, d)
      BY <1>0, <2>1 DEF JobAttaches, JobOverlooks, Listed, SameDisk
    <3> QED  BY <1>0, <2>1, <3>1, LostBefore
  <2>2. CASE o.pc = "vm.attachDisk" /\ o.vdi = d /\ Attaches(q, o.vm, d)
    <3>1. LateAttach(d) /\ vdis[d].at = NoVm
      BY <1>0, <2>2 DEF LateAttach, Attaches
    <3> QED  BY <2>0, <2>2, <3>1 DEF Attaches, Lost
  <2>3. CASE /\ o.pc = "vm.delete" /\ o.vm \in VmIds /\ vdis[d].at = o.vm
             /\ vdis[d].kind = "cidata" /\ vdis[d].owner = vdis'[d].owner
    BY <2>0, <2>3, MachineAssumption DEF Lost, LateOverlooks, NoVm
  <2> QED  BY <1>0, <1>1, <2>0, <2>1, <2>2, <2>3, ChangesDrive
<1>2. CASE \A d \in VdiIds : ~(o.pc = "disk.import" /\ MakesDrive(q, d))
  BY <1>1, <1>2 DEF Lost
<1>3. ASSUME NEW e \in VdiIds, o.pc = "disk.import", MakesDrive(q, e)
      PROVE  Lost(q)' \subseteq Lost(q) \cup {e}
  <2>1. \A d \in VdiIds \ {e} : ~MakesDrive(q, d)
    BY <1>3, MachineAssumption DEF MakesDrive, OnlyVdi
  <2> QED  BY <1>1, <2>1 DEF Lost
<1> QED  BY <1>2, <1>3

-----------------------------------------------------------------------------
(* The count.  Every step leaves both sets of q as they were, or smaller;  *)
(* or adds one element to one of them, and is a fault; or lets an          *)
(* abandoned upload go, and adds one drive.                                *)

LEMMA MishapCosts ==
  ASSUME TypeOK, Mishap, NEW q \in Requests
  PROVE  /\ faults' = faults + 1
         /\ \/ /\ LateImports(q)' \subseteq LateImports(q)
               /\ \E d : Lost(q)' \subseteq Lost(q) \cup {d}
            \/ /\ Lost(q)' \subseteq Lost(q)
               /\ \E o : LateImports(q)' \subseteq LateImports(q) \cup {o}
<1>0. /\ faults' = faults + 1 /\ UNCHANGED vdis
      /\ \A o \in OfRequest(q)' : o \in OfRequest(q) \/ o = Call(q)
      /\ \/ job'[q] = Idle
         \/ job'[q].pc = "vm.create"
         \/ /\ job'[q].pc = job[q].pc /\ job'[q].vm = job[q].vm
            /\ job'[q].vdi = job[q].vdi /\ job'[q].disks = job[q].disks
  BY MishapMoves DEF store
<1>1. ASSUME NEW d \in Lost(q)', ~JobAttaches(q, d)
      PROVE  d \in Lost(q)
  <2>1. JobOverlooks(q, d)' => JobOverlooks(q, d)
    BY <1>0 DEF JobOverlooks, Listed, Idle
  <2>2. LateOverlooks(q, d)' => LateOverlooks(q, d) \/ JobOverlooks(q, d)
    BY <1>0, CallTyped DEF LateOverlooks, JobOverlooks, Listed
  <2> QED  BY <1>0, <1>1, <2>1, <2>2 DEF Lost
<1>2. CASE job[q].pc = "vm.attachDisk"
  <2>1. \A d \in Lost(q)' : d \in Lost(q) \/ d = job[q].vdi
    <3>1. ASSUME NEW d \in Lost(q)', d # job[q].vdi PROVE d \in Lost(q)
      BY <1>1, <3>1 DEF JobAttaches
    <3> QED  BY <3>1
  <2>2. LateImports(q)' \subseteq LateImports(q)
    BY <1>0, <1>2, CallTyped DEF LateImports
  <2> QED  BY <1>0, <2>1, <2>2
<1>3. CASE job[q].pc # "vm.attachDisk"
  <2>1. Lost(q)' \subseteq Lost(q)
    BY <1>1, <1>3 DEF JobAttaches
  <2>2. LateImports(q)' \subseteq LateImports(q) \cup {Call(q)}
    BY <1>0 DEF LateImports
  <2> QED  BY <1>0, <2>1, <2>2
<1> QED  BY <1>2, <1>3

LEMMA NoMishapCosts ==
  ASSUME TypeOK, Ownership, Phases, [Next]_vars, ~Mishap, NEW q \in Requests
  PROVE  \/ Lost(q)' \subseteq Lost(q) /\ LateImports(q)' \subseteq LateImports(q)
         \/ \E o \in LateImports(q) :
              /\ LateImports(q)' \subseteq LateImports(q) \ {o}
              /\ \E d : Lost(q)' \subseteq Lost(q) \cup {d}
<1>0. LateImports(q)' \subseteq LateImports(q)
  BY NoMishap DEF LateImports, OfRequest
<1>1. CASE UNCHANGED store
  BY <1>0, <1>1, QuietKeepsLost DEF store
<1>2. CASE ByGuest
  BY <1>0, <1>2, QuietKeepsLost DEF ByGuest, GuestStep
<1>3. ASSUME NEW r \in Requests, ByJob(r), Does(Call(r))
      PROVE  Lost(q)' \subseteq Lost(q)
  <2>1. CASE r = q
    BY <1>3, <2>1, OwnCallKeepsLost
  <2>2. CASE r # q
    <3>1. Call(r).req = r /\ job'[q] = job[q]
      BY <1>3, <2>2 DEF Call, ByJob
    <3> QED  BY <1>3, <2>2, <3>1, OthersKeepLost
  <2> QED  BY <2>1, <2>2
<1>4. ASSUME NEW o \in late, ByLate(o), Does(o)
      PROVE  \/ Lost(q)' \subseteq Lost(q)
             \/ /\ LateImports(q)' \subseteq LateImports(q) \ {o} /\ o \in LateImports(q)
                /\ \E d : Lost(q)' \subseteq Lost(q) \cup {d}
  <2>1. CASE o.req = q
    <3>1. o \in OfRequest(q) /\ late' = late \ {o}
      BY <1>4, <2>1 DEF OfRequest, ByLate
    <3>2. o.pc = "disk.import"
            => /\ LateImports(q)' \subseteq LateImports(q) \ {o} /\ o \in LateImports(q)
      BY <3>1 DEF LateImports, OfRequest
    <3> QED  BY <1>4, <3>1, <3>2, LateKeepsLost
  <2>2. CASE o.req # q
    <3>1. o.req \in Requests /\ job'[q] = job[q]
      BY <1>4, LateDoesOwn DEF ByLate
    <3> QED  BY <1>4, <2>2, <3>1, OthersKeepLost
  <2> QED  BY <2>1, <2>2
<1> QED  BY <1>0, <1>1, <1>2, <1>3, <1>4, StoreDoes

(* A set that gains one element at most.                                   *)
LEMMA GainsOne ==
  ASSUME NEW S, IsFiniteSet(S), NEW d, NEW T \in SUBSET (S \cup {d})
  PROVE  IsFiniteSet(T) /\ Cardinality(T) <= Cardinality(S) + 1
<1>1. /\ IsFiniteSet(S \cup {d}) /\ Cardinality(S) \in Nat
      /\ Cardinality(S \cup {d}) <= Cardinality(S) + 1
  <2>1. Cardinality(S) \in Nat
    BY FS_CardinalityType
  <2>2. /\ IsFiniteSet(S \cup {d})
        /\ Cardinality(S \cup {d}) = IF d \in S THEN Cardinality(S) ELSE Cardinality(S) + 1
    BY FS_AddElement
  <2> QED  BY <2>1, <2>2
<1>2. /\ IsFiniteSet(T) /\ Cardinality(T) <= Cardinality(S \cup {d})
      /\ Cardinality(T) \in Nat /\ Cardinality(S \cup {d}) \in Nat
  BY <1>1, FS_Subset, FS_CardinalityType
<1> QED  BY <1>1, <1>2

LEMMA LosesOne ==
  ASSUME NEW S, IsFiniteSet(S), NEW o \in S, NEW T \in SUBSET (S \ {o})
  PROVE  IsFiniteSet(T) /\ Cardinality(T) + 1 <= Cardinality(S)
<1>1. /\ IsFiniteSet(S \ {o}) /\ Cardinality(S) \in Nat
      /\ Cardinality(S \ {o}) = Cardinality(S) - 1
  BY FS_RemoveElement, FS_CardinalityType
<1>2. /\ IsFiniteSet(T) /\ Cardinality(T) <= Cardinality(S \ {o})
      /\ Cardinality(T) \in Nat /\ Cardinality(S \ {o}) \in Nat
  BY <1>1, FS_Subset, FS_CardinalityType
<1> QED  BY <1>1, <1>2

LEMMA PaidStep ==
  ASSUME TypeOK, Ownership, Phases, [Next]_vars, NEW q \in Requests, Paid(q)
  PROVE  Paid(q)'
<1> DEFINE L == Lost(q)
           I == LateImports(q)
<1>1. /\ IsFiniteSet(L) /\ IsFiniteSet(I) /\ Cardinality(L) \in Nat
      /\ Cardinality(I) \in Nat /\ Cardinality(L) + Cardinality(I) <= faults
      /\ faults \in Nat /\ (faults' = faults \/ faults' = faults + 1)
  BY FS_CardinalityType, FaultsGrow, MachineAssumption DEF Paid, TypeOK
<1> DEFINE Goal == /\ IsFiniteSet(L') /\ IsFiniteSet(I')
                   /\ Cardinality(L') + Cardinality(I') <= faults'
<1> HIDE DEF L, I
<1>2. ASSUME L' \subseteq L, I' \subseteq I PROVE Goal
  <2>1. /\ IsFiniteSet(L') /\ IsFiniteSet(I') /\ Cardinality(L') <= Cardinality(L)
        /\ Cardinality(I') <= Cardinality(I)
    BY <1>1, <1>2, FS_Subset
  <2>2. Cardinality(L') \in Nat /\ Cardinality(I') \in Nat
    BY <2>1, FS_CardinalityType
  <2> QED  BY <1>1, <2>1, <2>2
<1>3. ASSUME faults' = faults + 1, I' \subseteq I, NEW d, L' \subseteq L \cup {d}
      PROVE  Goal
  <2>1. /\ IsFiniteSet(L') /\ IsFiniteSet(I') /\ Cardinality(L') <= Cardinality(L) + 1
        /\ Cardinality(I') <= Cardinality(I)
    BY <1>1, <1>3, FS_Subset, GainsOne
  <2>2. Cardinality(L') \in Nat /\ Cardinality(I') \in Nat
    BY <2>1, FS_CardinalityType
  <2> QED  BY <1>1, <1>3, <2>1, <2>2
<1>4. ASSUME faults' = faults + 1, L' \subseteq L, NEW o, I' \subseteq I \cup {o}
      PROVE  Goal
  <2>1. /\ IsFiniteSet(L') /\ IsFiniteSet(I') /\ Cardinality(L') <= Cardinality(L)
        /\ Cardinality(I') <= Cardinality(I) + 1
    BY <1>1, <1>4, FS_Subset, GainsOne
  <2>2. Cardinality(L') \in Nat /\ Cardinality(I') \in Nat
    BY <2>1, FS_CardinalityType
  <2> QED  BY <1>1, <1>4, <2>1, <2>2
<1>5. ASSUME NEW o \in I, I' \subseteq I \ {o}, NEW d, L' \subseteq L \cup {d}
      PROVE  Goal
  <2>1. /\ IsFiniteSet(L') /\ IsFiniteSet(I') /\ Cardinality(L') <= Cardinality(L) + 1
        /\ Cardinality(I') + 1 <= Cardinality(I)
    BY <1>1, <1>5, GainsOne, LosesOne
  <2>2. Cardinality(L') \in Nat /\ Cardinality(I') \in Nat
    BY <2>1, FS_CardinalityType
  <2> QED  BY <1>1, <2>1, <2>2
<1>6. Goal
  <2>1. CASE Mishap
    BY <1>3, <1>4, <2>1, MishapCosts DEF L, I
  <2>2. CASE ~Mishap
    BY <1>2, <1>5, <2>2, NoMishapCosts DEF L, I
  <2> QED  BY <2>1, <2>2
<1> QED  BY <1>6 DEF Paid, L, I

LEMMA AllPaidInit == Init => AllPaid
<1> SUFFICES ASSUME Init, NEW q \in Requests PROVE Paid(q)
  BY DEF AllPaid
<1>1. Lost(q) = {}
  BY DEF Init, Lost
<1>2. LateImports(q) = {}
  BY DEF Init, LateImports, OfRequest
<1>3. Cardinality({}) = 0 /\ IsFiniteSet({})
  BY FS_EmptySet
<1> QED  BY <1>1, <1>2, <1>3 DEF Init, Paid

(* A drive nothing will ever attach or delete was lost to a fault, and     *)
(* each fault cost the request one drive at most, whatever was re-run,     *)
(* abandoned or torn down afterwards: nothing leaks without a fault.       *)
THEOREM StraysHold == Spec => []StraysNeedFaults
<1>1. TypeOK /\ Ownership /\ Phases /\ AllPaid /\ [Next]_vars => AllPaid'
  BY PaidStep DEF AllPaid
<1>2. ASSUME TypeOK, AllPaid, NEW r \in Requests
      PROVE  Cardinality(Strays(r)) <= faults
  <2>1. Paid(r) /\ faults \in Nat
    BY <1>2, MachineAssumption DEF AllPaid, TypeOK
  <2>2. Strays(r) \subseteq Lost(r)
    BY DEF Strays, AttachPending, Lost, JobAttaches
  <2>3. /\ IsFiniteSet(Strays(r)) /\ Cardinality(Strays(r)) <= Cardinality(Lost(r))
    BY <2>1, <2>2, FS_Subset DEF Paid
  <2>4. /\ Cardinality(Strays(r)) \in Nat /\ Cardinality(Lost(r)) \in Nat
        /\ Cardinality(LateImports(r)) \in Nat
    BY <2>1, <2>3, FS_CardinalityType DEF Paid
  <2> QED  BY <2>1, <2>3, <2>4 DEF Paid
<1>3. TypeOK /\ AllPaid => StraysNeedFaults
  BY <1>2 DEF StraysNeedFaults
<1> QED
  BY <1>1, <1>3, AllPaidInit, PhasesHold, OwnershipHolds, TypeCorrect, PTL DEF Spec
=============================================================================
