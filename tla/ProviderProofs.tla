--------------------------- MODULE ProviderProofs ---------------------------
(***************************************************************************)
(* What holds of Provider for every set of requests, images, environments  *)
(* and provider data, and for any number of faults.                        *)
(***************************************************************************)
EXTENDS Provider, TLAPS

(* What happens to the machines.                                           *)
LifeAct(r) ==
  \/ Life!Create(r) \/ Life!Configure(r) \/ Life!PowerOn(r) \/ Life!Report(r)
  \/ Life!GuestCrashes(r) \/ Life!GuestDestroyed(r) \/ Life!TearDown(r)
  \/ Life!Stop(r) \/ Life!Strip(r) \/ Life!Destroy(r) \/ Life!Finish(r)

LEMMA LifeTyped ==
  ASSUME TypeOK, NEW r \in Requests, LifeAct(r)
  PROVE  /\ want' \in [Requests -> {"running", "teardown", "gone"}]
         /\ ready' \in [Requests -> BOOLEAN]
         /\ machine' \in [Requests -> Life!States]
         /\ \A q \in Requests :
              machine'[q] # "absent" => machine[q] # "absent" \/ (q = r /\ Life!Create(r))
BY DEF TypeOK, LifeAct, Life!Create, Life!Configure, Life!PowerOn, Life!Report,
       Life!GuestCrashes, Life!GuestDestroyed, Life!TearDown, Life!Stop, Life!Strip,
       Life!Destroy, Life!Finish, Life!Becomes, Life!States

(* As far as the properties can tell, a step is one of these: the process  *)
(* starts or stops, a template is finished, one of a request's steps       *)
(* succeeds or has chosen a template, or a machine changes.                *)
ProcessStep ==
  /\ \/ Startup!Start \/ Startup!Stop
  /\ UNCHANGED <<env, request, at, want, ready, machine, finished, template, clone>>

TemplateStep ==
  /\ \E n \in Names, t \in TemplateIds : Images!Finish(n, t)
  /\ UNCHANGED <<env, process, request, at, want, ready, machine, template, clone>>

(* The template of r is the one its class names, or one of its image.      *)
Chosen(r, t, fs) ==
  \/ request[r].data.templateID = "known" /\ t = Manual
  \/ /\ request[r].data.templateID = "empty"
     /\ t \in TemplateIds /\ [name |-> NameOf[r], id |-> t] \in fs

StepEnds(r) ==
  /\ want[r] = "running"
  /\ \/ at' = at /\ process' = "down"
     \/ at' = [at EXCEPT ![r] = at[r] + 1] /\ process' = process
  /\ \/ /\ at[r] = 0 /\ template' = template
        /\ request[r].idLength <= 63 /\ validateProviderData(data(r))
     \/ at[r] = 1 /\ template' = template /\ Exist(r)
     \/ /\ at[r] = 2
        /\ \E t : Chosen(r, t, finished) /\ template' = [template EXCEPT ![r] = t]
  /\ UNCHANGED <<env, request, want, ready, machine, finished, clone>>

MachineStep(r) ==
  /\ LifeAct(r)
  /\ \/ UNCHANGED clone
     \/ /\ at[r] = 3 /\ Life!Create(r)
        /\ clone' = [clone EXCEPT ![r] = template[r]]
  /\ Life!Create(r) => at[r] = 3 /\ clone' = [clone EXCEPT ![r] = template[r]]
  /\ UNCHANGED <<env, process, request, at, finished, template>>

Typed == TypeOK /\ request \in [Requests -> Request]

LEMMA FaultTyped ==
  ASSUME TypeOK, Fault \/ UNCHANGED faults
  PROVE  faults' \in 0..MaxFaults
BY ProviderAssumption DEF TypeOK, Fault

LEMMA DataKept ==
  ASSUME Typed, NEW r \in Requests
  PROVE  LET d == request[r].data
         IN  /\ d \in Data /\ data(r) \in Data
             /\ data(r).poolID = d.poolID /\ data(r).srID = d.srID
             /\ data(r).networkID = d.networkID /\ data(r).templateID = d.templateID
<1>1. request[r].data \in Data
  BY DEF Typed, Request
<1> QED  BY <1>1 DEF data, applyDefaults, Data

LEMMA Steps4 ==
  ASSUME Typed, NEW r \in Requests,
         validateRequest(r) \/ ensureTarget(r) \/ ensureManualImage(r) \/ ensureImage(r)
  PROVE  StepEnds(r) /\ (Fault \/ UNCHANGED faults)
<1> USE DEF Runs, Succeeds, lives, images, Typed
<1>1. CASE validateRequest(r)
  BY <1>1 DEF validateRequest, StepEnds, TypeOK
<1>2. CASE ensureTarget(r)
  <2>1. Exist(r)
    BY <1>2, DataKept DEF ensureTarget, Exist
  <2> QED  BY <1>2, <2>1 DEF ensureTarget, StepEnds, TypeOK
<1>3. CASE ensureManualImage(r)
  <2>1. Chosen(r, Manual, finished)
    BY <1>3, DataKept DEF ensureManualImage, Chosen
  <2>2. at[r] = 2 /\ at' = [at EXCEPT ![r] = at[r] + 1] /\ UNCHANGED faults
    BY <1>3 DEF ensureManualImage
  <2>3. /\ want[r] = "running" /\ template' = [template EXCEPT ![r] = Manual]
        /\ UNCHANGED <<env, process, request, want, ready, machine, finished, clone>>
    BY <1>3 DEF ensureManualImage
  <2> QED  BY <2>1, <2>2, <2>3 DEF StepEnds
<1>4. CASE ensureImage(r)
  <2>1. PICK f \in finished : f.name = NameOf[r] /\ template' = [template EXCEPT ![r] = f.id]
    BY <1>4 DEF ensureImage, Images!Give
  <2>2. f \in [name : Names, id : TemplateIds]
    BY <2>1 DEF TypeOK
  <2>3. f = [name |-> NameOf[r], id |-> f.id]
    BY <2>1, <2>2
  <2>4. request[r].data.templateID = "empty"
    BY <1>4, DataKept DEF ensureImage, Automatic
  <2>5. Chosen(r, f.id, finished)
    BY <2>1, <2>2, <2>3, <2>4 DEF Chosen
  <2>6. UNCHANGED finished
    BY <1>4 DEF ensureImage, Images!Give
  <2>7. at[r] = 2 /\ want[r] = "running"
    BY <1>4 DEF ensureImage
  <2>8. /\ \/ at' = at /\ process' = "down" /\ Fault
           \/ at' = [at EXCEPT ![r] = at[r] + 1] /\ process' = process /\ UNCHANGED faults
        /\ UNCHANGED <<env, request, want, ready, machine, clone>>
    BY <1>4, <2>7 DEF ensureImage, Startup!Stop
  <2> QED  BY <2>1, <2>5, <2>6, <2>7, <2>8 DEF StepEnds
<1> QED  BY <1>1, <1>2, <1>3, <1>4

LEMMA Prepared ==
  ASSUME Typed, NEW r \in Requests, Prepares(r), at[r] = 3
  PROVE  MachineStep(r)
<1>1. (Life!Configure(r) \/ Life!PowerOn(r)) => ~Life!Create(r)
  BY DEF Life!Configure, Life!PowerOn, Life!Create, Life!Becomes
<1> QED
  BY <1>1 DEF Prepares, createVM, MachineStep, LifeAct, images

LEMMA NotCreated ==
  ASSUME Typed, NEW r \in Requests, LifeAct(r), ~Life!Create(r), UNCHANGED clone,
         UNCHANGED <<env, process, request, at, finished, template>>
  PROVE  MachineStep(r)
BY DEF MachineStep

LEMMA StepKinds ==
  ASSUME Typed, [Next]_vars
  PROVE  /\ \/ ProcessStep \/ TemplateStep \/ UNCHANGED vars
            \/ \E r \in Requests : StepEnds(r) \/ MachineStep(r)
         /\ faults' \in 0..MaxFaults
<1> USE DEF lives, images
<1>1. CASE Start \/ Crash
  BY <1>1, FaultTyped DEF Start, Crash, Startup!Start, Startup!Stop, ProcessStep, Typed
<1>2. ASSUME NEW n \in Names, BuildEnds(n) \/ StrayBuildEnds(n)
      PROVE  TemplateStep /\ faults' \in 0..MaxFaults
  BY <1>2, FaultTyped DEF BuildEnds, StrayBuildEnds, Finishes, TemplateStep, Typed,
       Images!Finish
<1>3. ASSUME NEW r \in Requests, Step(r)
      PROVE  (StepEnds(r) \/ MachineStep(r)) /\ faults' \in 0..MaxFaults
  <2>1. CASE syncMachine(r)
    <3>1. at[r] = 3 /\ UNCHANGED faults
      BY <2>1 DEF syncMachine, Runs
    <3>2. CASE Prepares(r)
      BY <3>1, <3>2, Prepared, FaultTyped DEF Typed
    <3>3. CASE ~Prepares(r)
      <4>1. Life!Report(r) /\ ~Life!Create(r)
        BY <2>1, <3>3
           DEF syncMachine, Life!Report, Life!Create, Life!Becomes, Typed, TypeOK
      <4> QED
        BY <2>1, <3>1, <3>3, <4>1, NotCreated, FaultTyped DEF syncMachine, LifeAct, Typed
    <3> QED  BY <3>2, <3>3
  <2> QED  BY <1>3, <2>1, Steps4, FaultTyped DEF Step, Typed
<1>4. ASSUME NEW r \in Requests, Late(r)
      PROVE  MachineStep(r) /\ faults' \in 0..MaxFaults
  BY <1>4, Prepared, FaultTyped DEF Late, Typed
<1>5. ASSUME NEW r \in Requests, Deprovision(r) \/ TearDown(r) \/ Guest(r)
      PROVE  MachineStep(r) /\ faults' \in 0..MaxFaults
  <2>1. LifeAct(r) /\ ~Life!Create(r)
    BY <1>5
       DEF Deprovision, TearDown, Guest, LifeAct, Life!Create, Life!Stop, Life!Strip,
           Life!Destroy, Life!Finish, Life!TearDown, Life!GuestCrashes,
           Life!GuestDestroyed, Life!Becomes, Typed, TypeOK
  <2> QED
    BY <1>5, <2>1, NotCreated, FaultTyped DEF Deprovision, TearDown, Guest, Typed
<1>6. CASE UNCHANGED vars
  BY <1>6 DEF vars, Typed, TypeOK
<1> QED
  BY <1>1, <1>2, <1>3, <1>4, <1>5, <1>6 DEF Next, AllGone

-----------------------------------------------------------------------------
LEMMA TypedStep == Typed /\ [Next]_vars => Typed'
<1> SUFFICES ASSUME Typed, [Next]_vars PROVE Typed'
  OBVIOUS
<1>0. faults' \in 0..MaxFaults
  BY StepKinds
<1>1. CASE ProcessStep
  BY <1>0, <1>1 DEF ProcessStep, Startup!Start, Startup!Stop, Typed, TypeOK
<1>2. CASE TemplateStep
  <2>1. finished' \subseteq [name : Names, id : TemplateIds]
    BY <1>2 DEF TemplateStep, Images!Finish, Typed, TypeOK
  <2> QED  BY <1>0, <1>2, <2>1 DEF TemplateStep, Typed, TypeOK
<1>3. ASSUME NEW r \in Requests, StepEnds(r) PROVE Typed'
  <2>1. /\ at' \in [Requests -> 0..3] /\ process' \in {"down", "up"}
        /\ \A q \in Requests : at'[q] = 3 => at[q] = 3 \/ (q = r /\ at[r] = 2)
    BY <1>3 DEF StepEnds, Typed, TypeOK
  <2>2. CASE template' = template /\ at[r] # 2
    BY <1>0, <1>3, <2>1, <2>2 DEF StepEnds, Typed, TypeOK
  <2>3. ASSUME NEW t, Chosen(r, t, finished), template' = [template EXCEPT ![r] = t]
        PROVE  Typed'
    <3>1. t \in Templates /\ t # NoTemplate
      BY <2>3, ProviderAssumption DEF Chosen, Templates, Manual, NoTemplate
    <3>2. /\ template' \in [Requests -> Templates \cup {NoTemplate}]
          /\ \A q \in Requests : at'[q] = 3 => template'[q] # NoTemplate
      BY <2>1, <2>3, <3>1 DEF Typed, TypeOK
    <3> QED  BY <1>0, <1>3, <2>1, <3>2 DEF StepEnds, Typed, TypeOK
  <2> QED  BY <1>3, <2>2, <2>3 DEF StepEnds
<1>4. ASSUME NEW r \in Requests, MachineStep(r) PROVE Typed'
  <2>1. clone' \in [Requests -> Templates \cup {NoTemplate}]
    BY <1>4 DEF MachineStep, Typed, TypeOK
  <2> QED  BY <1>0, <1>4, <2>1, LifeTyped DEF MachineStep, Typed, TypeOK
<1>5. CASE UNCHANGED vars
  BY <1>5 DEF vars, lives, images, Typed, TypeOK
<1> QED  BY <1>1, <1>2, <1>3, <1>4, <1>5, StepKinds

LEMMA TypedInit == Init => Typed
<1> SUFFICES ASSUME Init PROVE Typed
  OBVIOUS
<1>1. request \in [Requests -> Request]
  BY ProviderAssumption DEF Init
<1> QED
  BY <1>1, ProviderAssumption
     DEF Init, Typed, TypeOK, Life!Init, Images!Init, Life!States, Templates

(* Every variable keeps its type, and no request reaches syncMachine       *)
(* without a template (provision.go:129-138, 222).                         *)
THEOREM TypeCorrect == Spec => []TypeOK
<1>1. Typed => TypeOK
  BY DEF Typed
<1> QED  BY <1>1, TypedInit, TypedStep, PTL DEF Spec

-----------------------------------------------------------------------------
(* What a request has shown by getting to a step, and its VM by existing.  *)
Shown(r) ==
  /\ at[r] >= 1 => request[r].idLength <= 63 /\ SchemaAccepts(data(r))
  /\ at[r] >= 2 => Exist(r)
  /\ at[r] = 3 => Chosen(r, template[r], finished)
  /\ machine[r] # "absent" => at[r] = 3 /\ clone[r] = template[r]
AllShown == \A r \in Requests : Shown(r)

LEMMA Validated ==
  ASSUME Typed, NEW r \in Requests, validateProviderData(data(r))
  PROVE  SchemaAccepts(data(r))
<1>1. /\ data(r).poolID \notin Blank /\ data(r).srID \notin Blank
      /\ data(r).networkID \notin Blank
  BY DEF validateProviderData
<1>2. "empty" \notin {data(r).poolID, data(r).srID, data(r).networkID}
  BY <1>1 DEF Blank
<1> QED  BY <1>2 DEF validateProviderData, SchemaAccepts

LEMMA ShownStep == Typed /\ AllShown /\ [Next]_vars => AllShown'
<1> SUFFICES ASSUME Typed, AllShown, [Next]_vars, NEW q \in Requests PROVE Shown(q)'
  BY DEF AllShown
<1> USE DEF data
<1>0. Shown(q) /\ at[q] \in 0..3
  BY DEF AllShown, Typed, TypeOK
<1>1. CASE ProcessStep
  BY <1>0, <1>1 DEF ProcessStep, Shown, Exist, Chosen
<1>2. CASE TemplateStep
  <2>1. finished \subseteq finished'
    BY <1>2 DEF TemplateStep, Images!Finish
  <2> QED  BY <1>0, <1>2, <2>1 DEF TemplateStep, Shown, Exist, Chosen
<1>3. ASSUME NEW r \in Requests, StepEnds(r) PROVE Shown(q)'
  <2>1. UNCHANGED <<request, machine, finished, clone>> /\ at[r] \in 0..2
    BY <1>3 DEF StepEnds, Typed, TypeOK
  <2>2. CASE q # r
    <3>1. at'[q] = at[q] /\ template'[q] = template[q]
      BY <1>3, <2>2 DEF StepEnds, Typed, TypeOK
    <3> QED  BY <1>0, <2>1, <3>1 DEF Shown, Exist, Chosen
  <2>3. CASE q = r
    <3>1. machine[r] = "absent"
      BY <1>0, <2>1, <2>3 DEF Shown
    <3>2. at'[r] \in {at[r], at[r] + 1}
      BY <1>3 DEF StepEnds, Typed, TypeOK
    <3>3. CASE at[r] = 0
      <4>1. request[r].idLength <= 63 /\ SchemaAccepts(data(r))
        BY <1>3, <3>3, Validated DEF StepEnds
      <4> QED  BY <2>1, <2>3, <3>1, <3>2, <3>3, <4>1 DEF Shown
    <3>4. CASE at[r] = 1
      <4>1. Exist(r)
        BY <1>3, <3>4 DEF StepEnds
      <4> QED  BY <1>0, <2>1, <2>3, <3>1, <3>2, <3>4, <4>1 DEF Shown, Exist
    <3>5. CASE at[r] = 2
      <4>1. PICK t : Chosen(r, t, finished) /\ template' = [template EXCEPT ![r] = t]
        BY <1>3, <3>5 DEF StepEnds
      <4>2. template'[r] = t
        BY <4>1 DEF Typed, TypeOK
      <4> QED
        BY <1>0, <2>1, <2>3, <3>1, <3>2, <3>5, <4>1, <4>2 DEF Shown, Exist, Chosen
    <3> QED  BY <2>1, <3>3, <3>4, <3>5
  <2> QED  BY <2>2, <2>3
<1>4. ASSUME NEW r \in Requests, MachineStep(r) PROVE Shown(q)'
  <2>1. UNCHANGED <<request, at, finished, template>>
    BY <1>4 DEF MachineStep
  <2>2. machine'[q] # "absent" => at[q] = 3 /\ clone'[q] = template[q]
    BY <1>0, <1>4, LifeTyped DEF MachineStep, Shown, Typed, TypeOK
  <2> QED  BY <1>0, <2>1, <2>2 DEF Shown, Exist, Chosen
<1>5. CASE UNCHANGED vars
  BY <1>0, <1>5 DEF vars, lives, images, Shown, Exist, Chosen
<1> QED  BY <1>1, <1>2, <1>3, <1>4, <1>5, StepKinds

LEMMA ShownHolds == Spec => []AllShown
<1>1. Init => AllShown
  BY DEF Init, AllShown, Shown, Life!Init
<1> QED  BY <1>1, TypedInit, TypedStep, ShownStep, PTL DEF Spec

(* A VM exists only for targets that exist, and is made from data that the *)
(* schema allows, its architecture possibly filled in (provision.go:80-116,*)
(* helpers.go:15-55).                                                      *)
THEOREM CreatesOnlyAcceptedHolds == Spec => []CreatesOnlyAccepted
<1>1. AllShown => CreatesOnlyAccepted
  BY DEF AllShown, Shown, CreatesOnlyAccepted
<1> QED  BY <1>1, ShownHolds, PTL

(* A VM is made from a template of its own image, or the one its class     *)
(* names (provision.go:129-161, image.go:82-134).                          *)
THEOREM ClonesItsImageHolds == Spec => []ClonesItsImage
<1>1. AllShown => ClonesItsImage
  BY DEF AllShown, Shown, Chosen, ClonesItsImage
<1> QED  BY <1>1, ShownHolds, PTL

-----------------------------------------------------------------------------
LEMMA Trimmed ==
  ASSUME NEW v \in Startup!Value
  PROVE  /\ Startup!TrimSpace(v) \in Startup!Value
         /\ Startup!TrimSpace(v) = Startup!Right => Startup!Means(v) /\ v # Startup!Unset
         /\ Startup!TrimSpace(v) = Startup!Unset <=> v.text = "empty" /\ v.space # "inside"
BY DEF Startup!Value, Startup!TrimSpace, Startup!Right, Startup!Means, Startup!Unset

(* What the provider starts with is what the documentation calls usable.   *)
LEMMA StartIsUsable ==
  ASSUME env \in [Startup!Variables -> Startup!Value], Startup!Start
  PROVE  Startup!Usable
<1> DEFINE c == Startup!normalizeConfig(Startup!flags(env))
<1>1. /\ env.OMNI_ENDPOINT \in Startup!Value
      /\ env.OMNI_SERVICE_ACCOUNT_KEY \in Startup!Value
      /\ env.XOA_ENDPOINT \in Startup!Value /\ env.XOA_HOST \in Startup!Value
      /\ env.XOA_TOKEN \in Startup!Value /\ env.XOA_USERNAME \in Startup!Value
  BY DEF Startup!Variables
<1>2. /\ c.omniAPIEndpoint = Startup!TrimSpace(env.OMNI_ENDPOINT)
      /\ c.serviceAccountKey = Startup!stripWhitespace(env.OMNI_SERVICE_ACCOUNT_KEY)
      /\ c.xoaEndpoint
           = Startup!TrimSpace(Startup!firstNonEmpty(env.XOA_ENDPOINT, env.XOA_HOST))
      /\ c.xoaToken = Startup!TrimSpace(env.XOA_TOKEN)
      /\ c.xoaUsername = Startup!TrimSpace(env.XOA_USERNAME)
      /\ c.xoaPassword = env.XOA_PASSWORD
  BY DEF Startup!normalizeConfig, Startup!flags
<1>3. Startup!Checked(c) /\ Startup!Accepted(c)
  BY DEF Startup!Start
<1> HIDE DEF c
<1>4. /\ c.omniAPIEndpoint = Startup!Right /\ c.xoaEndpoint = Startup!Right
      /\ c.serviceAccountKey \in {Startup!Unset, Startup!Right}
      /\ Startup!Credentials(c) # {}
      /\ \A v \in Startup!Credentials(c) : v = Startup!Right
  BY <1>3 DEF Startup!Checked, Startup!Accepted
<1>5. Startup!Means(env.OMNI_ENDPOINT)
  BY <1>1, <1>2, <1>4, Trimmed
<1>6. env.OMNI_SERVICE_ACCOUNT_KEY.text # "wrong"
  BY <1>1, <1>2, <1>4
     DEF Startup!stripWhitespace, Startup!Value, Startup!Unset, Startup!Right
<1>7. IF Startup!IsSet(env.XOA_ENDPOINT) THEN Startup!Means(env.XOA_ENDPOINT)
      ELSE Startup!Means(env.XOA_HOST)
  BY <1>1, <1>2, <1>4, Trimmed DEF Startup!firstNonEmpty, Startup!IsSet
<1>8. Startup!LogsIn
  <2>1. CASE c.xoaToken # Startup!Unset
    <3>1. c.xoaToken = Startup!Right
      BY <1>4, <2>1 DEF Startup!Credentials
    <3>2. Startup!Means(env.XOA_TOKEN)
      BY <1>1, <1>2, <3>1, Trimmed
    <3> QED  BY <3>2 DEF Startup!LogsIn, Startup!Means
  <2>2. CASE c.xoaToken = Startup!Unset
    <3>1. env.XOA_TOKEN.text = "empty"
      BY <1>1, <1>2, <2>2, Trimmed
    <3>2. c.xoaUsername = Startup!Right /\ c.xoaPassword = Startup!Right
      BY <1>4, <2>2 DEF Startup!Credentials
    <3>3. Startup!Means(env.XOA_USERNAME) /\ env.XOA_PASSWORD = Startup!Right
      BY <1>1, <1>2, <3>2, Trimmed
    <3> QED  BY <3>1, <3>3 DEF Startup!LogsIn
  <2> QED  BY <2>1, <2>2
<1> QED  BY <1>5, <1>6, <1>7, <1>8 DEF Startup!Usable

(* The provider runs only with an environment it should, and no crash or   *)
(* restart changes that (main.go:62-104, 183-220).                         *)
THEOREM RunsOnlyUsableHolds == Spec => []RunsOnlyUsable
<1> DEFINE Inv == /\ env \in [Startup!Variables -> Startup!Value]
                  /\ RunsOnlyUsable
<1>1. Init => Inv
  BY ProviderAssumption DEF Init, RunsOnlyUsable, Startup!RunsOnlyUsable
<1>2. Typed /\ Inv /\ [Next]_vars => Inv'
  <2> SUFFICES ASSUME Typed, Inv, [Next]_vars PROVE Inv'
    OBVIOUS
  <2>1. env' = env /\ (process' = process \/ process' = "down" \/ Startup!Start)
    BY StepKinds
       DEF ProcessStep, TemplateStep, StepEnds, MachineStep, Startup!Stop, vars
  <2>2. Startup!Usable' <=> Startup!Usable
    BY <2>1 DEF Startup!Usable, Startup!LogsIn
  <2> QED
    BY <2>1, <2>2, StartIsUsable DEF RunsOnlyUsable, Startup!RunsOnlyUsable
<1> QED  BY <1>1, <1>2, TypedInit, TypedStep, PTL DEF Spec
=============================================================================
