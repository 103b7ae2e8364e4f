-------------------------- MODULE ImageCacheProofs --------------------------
(***************************************************************************)
(* What holds of ImageCache for every set of requests, names and pools,    *)
(* every number of imageBuild objects and every number of faults.          *)
(***************************************************************************)
EXTENDS ImageCache, FiniteSetTheorems, TLAPS

(* The stages and what follows them.                                       *)
LEMMA StagesTyped ==
  /\ Stages = {"download", "upload", "base", "create", "attach", "convert"}
  /\ \A s \in Stages : s # "convert" => After[s] \in Stages
BY DEF Stages, After

LEMMA MakesTyped ==
  ASSUME TypeOK, NEW b \in Builds
  PROVE  Makes(b) \in {"none", "vdi", "seed", "disk", "template", "deleted"}
BY DEF TypeOK, Makes

LEMMA FaultTyped ==
  ASSUME TypeOK, NEW k \in AllFaultKinds, Fault(k)
  PROVE  faults' \in [AllFaultKinds -> Nat] /\ faults'[k] > 0
         /\ \A i \in AllFaultKinds : i # k => faults'[i] = faults[i]
BY DEF TypeOK, Fault, AllFaultKinds

LEMMA AnswersTyped ==
  ASSUME TypeOK, NEW r \in Requests, NEW ts, Answers(r, ts)
  PROVE  /\ step[r] = "lookup" /\ ts \subseteq Templates(NameOf[r], PoolOf[r])
         /\ faults' \in [AllFaultKinds -> Nat] /\ faults'.fail = faults.fail
BY FaultTyped DEF TypeOK, Answers, AllFaultKinds

LEMMA DoneTyped ==
  ASSUME TypeOK, NEW b \in Builds, NEW t \in Builds, Done(b, t)
  PROVE  /\ build' \in [Builds -> BuildRecord]
         /\ \A c \in Builds : c # b => build'[c] = build[c]
         /\ build'[b].name = build[b].name /\ build'[b].pool = build[b].pool
         /\ build'[b].state = "done" /\ build'[b].templateId = t
<1> DEFINE new == [build[b] EXCEPT !.state = "done", !.templateId = t]
<1>0. PICK o \in BuildRecord : o = build[b]
  BY DEF TypeOK
<1>1. /\ new \in BuildRecord /\ new.name = build[b].name /\ new.pool = build[b].pool
      /\ new.state = "done" /\ new.templateId = t
  <2> DEFINE half == [o EXCEPT !.state = "done"]
  <2>1. /\ half \in BuildRecord /\ half.name = o.name /\ half.pool = o.pool
        /\ half.state = "done"
    BY DEF BuildRecord
  <2>2. new = [half EXCEPT !.templateId = t]
    BY <1>0
  <2> HIDE DEF half, new
  <2> QED  BY <1>0, <2>1, <2>2 DEF BuildRecord
<1>2. build' = [build EXCEPT ![b] = new]
  BY DEF Done
<1> HIDE DEF new
<1> QED  BY <1>1, <1>2 DEF TypeOK

-----------------------------------------------------------------------------
(* Typing.                                                                 *)

LEMMA TypeStep == TypeOK /\ [Next]_vars => TypeOK'
<1> SUFFICES ASSUME TypeOK, [Next]_vars PROVE TypeOK'
  OBVIOUS
<1> USE DEF tracker, goroutines
<1>1. ASSUME NEW r \in Requests, LoadOrStore(r) PROVE TypeOK'
  <2>1. CASE imageBuilds[NameOf[r]] = NoBuild
    <3>1. PICK b \in Fresh :
            /\ imageBuilds' = [imageBuilds EXCEPT ![NameOf[r]] = b]
            /\ build' = [build EXCEPT ![b] =
                 [name |-> NameOf[r], pool |-> PoolOf[r], state |-> "pending",
                  templateId |-> NoBuild]]
            /\ held' = [held EXCEPT ![r] = b]
            /\ step' = [step EXCEPT ![r] = "lookup"]
      BY <1>1, <2>1 DEF LoadOrStore
    <3>2. b \in Builds /\ NameOf[r] \in Names /\ PoolOf[r] \in Pools
      BY <3>1, ImageCacheAssumption DEF Fresh, Garbage
    <3>3. \A c \in Builds : c # b => build'[c] = build[c]
      BY <3>1, <3>2 DEF TypeOK
    <3>4. build'[b].state = "pending"
      BY <3>1, <3>2 DEF TypeOK
    <3>5. build' \in [Builds -> BuildRecord]
      BY <3>1, <3>2 DEF TypeOK, BuildRecord
    <3>6. UNCHANGED <<templateId, work, lost, image, faults>>
      BY <1>1 DEF LoadOrStore
    <3> QED  BY <3>1, <3>2, <3>3, <3>4, <3>5, <3>6 DEF TypeOK
  <2>2. CASE imageBuilds[NameOf[r]] # NoBuild
    <3>1. PICK b \in Builds : b = imageBuilds[NameOf[r]]
      BY <2>2, ImageCacheAssumption DEF TypeOK
    <3> QED  BY <1>1, <2>2, <3>1 DEF LoadOrStore, TypeOK
  <2> QED  BY <2>1, <2>2
<1>2. ASSUME NEW r \in Requests, LookupFindsOne(r) PROVE TypeOK'
  <2>1. PICK t \in Builds : Answers(r, {t}) /\ Done(held[r], t)
    BY <1>2 DEF LookupFindsOne
  <2>2. step[r] = "lookup" /\ faults' \in [AllFaultKinds -> Nat]
    BY <2>1, AnswersTyped
  <2>3. held[r] \in Builds
    BY <2>2 DEF TypeOK
  <2>4. /\ build' \in [Builds -> BuildRecord]
        /\ \A c \in Builds : c # held[r] => build'[c] = build[c]
        /\ build'[held[r]].templateId = t
    BY <2>1, <2>3, DoneTyped
  <2>5. UNCHANGED <<templateId, imageBuilds, work, lost, image, held>>
    BY <1>2 DEF LookupFindsOne, Checks
  <2> QED  BY <1>2, <2>2, <2>3, <2>4, <2>5 DEF LookupFindsOne, Checks, TypeOK
<1>3. ASSUME NEW r \in Requests, LookupFindsMany(r) \/ LookupFails(r) PROVE TypeOK'
  <2>1. faults' \in [AllFaultKinds -> Nat]
    BY <1>3, AnswersTyped, FaultTyped
       DEF LookupFindsMany, LookupFails, AllFaultKinds
  <2> QED
    BY <1>3, <2>1 DEF LookupFindsMany, LookupFails, Untrack, Again, TypeOK
<1>4. ASSUME NEW r \in Requests, LookupFindsNone(r) PROVE TypeOK'
  BY <1>4, AnswersTyped, StagesTyped DEF LookupFindsNone, Checks, TypeOK
<1>5. ASSUME NEW r \in Requests, CheckFailed(r) \/ CheckPending(r) PROVE TypeOK'
  BY <1>5 DEF CheckFailed, CheckPending, Untrack, Again, TypeOK
<1>6. ASSUME NEW r \in Requests, CheckDone(r) PROVE TypeOK'
  <2>1. build[held[r]].templateId \in Builds
    BY <1>6 DEF CheckDone, TypeOK
  <2> QED  BY <1>6, <2>1 DEF CheckDone, TypeOK
<1>7. ASSUME NEW b \in Builds, BuildAdvances(b) PROVE TypeOK'
  <2>1. work[b] \in Stages /\ After[work[b]] \in Stages
    BY <1>7, StagesTyped DEF BuildAdvances, Running, TypeOK
  <2> QED  BY <1>7, <2>1, MakesTyped DEF BuildAdvances, Executes, TypeOK
<1>8. ASSUME NEW b \in Builds, BuildSucceeds(b) PROVE TypeOK'
  <2>1. /\ build' \in [Builds -> BuildRecord]
        /\ \A c \in Builds : c # b => build'[c] = build[c]
        /\ build'[b].templateId = b
    BY <1>8, DoneTyped DEF BuildSucceeds
  <2> QED  BY <1>8, <2>1, MakesTyped DEF BuildSucceeds, Executes, TypeOK
<1>9. ASSUME NEW b \in Builds, BuildFails(b) PROVE TypeOK'
  <2>1. faults' \in [AllFaultKinds -> Nat]
    BY <1>9, FaultTyped DEF BuildFails, AllFaultKinds
  <2>2. build' \in [Builds -> BuildRecord]
    BY <1>9 DEF BuildFails, TypeOK, BuildRecord
  <2>3. /\ \A c \in Builds : c # b => build'[c] = build[c]
        /\ build'[b].state = "failed"
    BY <1>9 DEF BuildFails, TypeOK, BuildRecord
  <2> QED  BY <1>9, <2>1, <2>2, <2>3, MakesTyped DEF BuildFails, Executes, TypeOK
<1>10. CASE Crash
  <2>1. faults' \in [AllFaultKinds -> Nat]
    BY <1>10, FaultTyped DEF Crash, AllFaultKinds
  <2> QED  BY <1>10, <2>1 DEF Crash, TypeOK
<1>11. ASSUME NEW b \in Builds, LateCall(b) PROVE TypeOK'
  BY <1>11, MakesTyped DEF LateCall, Executes, TypeOK
<1>12. ASSUME NEW b \in Builds, OperatorDeletes(b) PROVE TypeOK'
  <2>1. faults' \in [AllFaultKinds -> Nat]
    BY <1>12, FaultTyped DEF OperatorDeletes, AllFaultKinds
  <2> QED  BY <1>12, <2>1 DEF OperatorDeletes, TypeOK
<1>13. CASE UNCHANGED vars
  BY <1>13 DEF vars, TypeOK
<1> QED
  BY <1>1, <1>2, <1>3, <1>4, <1>5, <1>6, <1>7, <1>8, <1>9, <1>10, <1>11, <1>12, <1>13
     DEF Next, EnsureImage, Build, AllReady

(* Every variable keeps its type; no request goes on with an empty         *)
(* template id (image.go:220-224, provision.go:222).                       *)
THEOREM TypeCorrect == Spec => []TypeOK
<1>1. Init => TypeOK
  <2>1. (CHOOSE n \in Names : TRUE) \in Names /\ (CHOOSE p \in Pools : TRUE) \in Pools
    BY ImageCacheAssumption
  <2> QED  BY <2>1 DEF Init, TypeOK, BuildRecord, AllFaultKinds
<1> QED  BY <1>1, TypeStep, PTL DEF Spec

-----------------------------------------------------------------------------
(* What the tracker and the requests refer to.                             *)

(* An imageBuild is tracked and held under its own name; the one a request *)
(* looks the template up for is its alone, and no build of it has begun.   *)
Entries ==
  /\ \A n \in Names : imageBuilds[n] # NoBuild => build[imageBuilds[n]].name = n
  /\ \A r \in Requests : step[r] \in {"lookup", "check"}
                           => build[held[r]].name = NameOf[r]
  /\ \A r \in Requests : step[r] = "lookup" => /\ work[held[r]] = "none"
                                               /\ image[held[r]] = "none"
  /\ \A r, q \in Requests :
       step[r] = "lookup" /\ step[q] = "lookup" /\ held[r] = held[q] => r = q

(* A finished template stays one, under the name it was built for.         *)
Finished ==
  /\ \A b \in Builds : image[b] \in {"template", "deleted"} => work[b] = "none"
  /\ \A b \in Builds :
       build[b].state = "done"
         => /\ build[build[b].templateId].name = build[b].name
            /\ image[build[b].templateId] \in {"template", "deleted"}
  /\ ReturnsItsImage

(* As long as no build has failed, every running build and every lookup is *)
(* the tracker's, so that LoadOrStore sees it.                             *)
Tracked ==
  faults.fail = 0 =>
    /\ \A b \in Builds : build[b].state # "failed"
    /\ \A b \in Builds : Running(b) => imageBuilds[build[b].name] = b
    /\ \A r \in Requests : step[r] = "lookup" => imageBuilds[NameOf[r]] = held[r]

LEMMA Stored ==
  ASSUME TypeOK, NEW r \in Requests, LoadOrStore(r), imageBuilds[NameOf[r]] = NoBuild
  PROVE  \E b \in Garbage :
           /\ imageBuilds' = [imageBuilds EXCEPT ![NameOf[r]] = b]
           /\ held' = [held EXCEPT ![r] = b]
           /\ step' = [step EXCEPT ![r] = "lookup"]
           /\ \A c \in Builds : c # b => build'[c] = build[c]
           /\ build'[b].name = NameOf[r] /\ build'[b].state = "pending"
           /\ build'[b].pool = PoolOf[r]
           /\ UNCHANGED <<templateId, work, lost, image, faults>>
<1>1. PICK b \in Fresh :
        /\ imageBuilds' = [imageBuilds EXCEPT ![NameOf[r]] = b]
        /\ build' = [build EXCEPT ![b] =
             [name |-> NameOf[r], pool |-> PoolOf[r], state |-> "pending",
              templateId |-> NoBuild]]
        /\ held' = [held EXCEPT ![r] = b]
        /\ step' = [step EXCEPT ![r] = "lookup"]
  BY DEF LoadOrStore
<1>2. b \in Garbage /\ b \in Builds
  BY <1>1 DEF Fresh, Garbage
<1>3. UNCHANGED <<templateId, work, lost, image, faults>>
  BY DEF LoadOrStore, goroutines
<1>4. \A c \in Builds : c # b => build'[c] = build[c]
  BY <1>1, <1>2 DEF TypeOK
<1>5. /\ build'[b].name = NameOf[r] /\ build'[b].state = "pending"
      /\ build'[b].pool = PoolOf[r]
  BY <1>1, <1>2 DEF TypeOK
<1> QED  BY <1>1, <1>2, <1>3, <1>4, <1>5

LEMMA Loaded ==
  ASSUME TypeOK, NEW r \in Requests, LoadOrStore(r), imageBuilds[NameOf[r]] # NoBuild
  PROVE  /\ step' = [step EXCEPT ![r] = "check"]
         /\ held' = [held EXCEPT ![r] = imageBuilds[NameOf[r]]]
         /\ imageBuilds[NameOf[r]] \in Builds
         /\ UNCHANGED <<tracker, templateId, goroutines, image, faults>>
BY ImageCacheAssumption DEF LoadOrStore, TypeOK

LEMMA FindsOne ==
  ASSUME TypeOK, NEW r \in Requests, LookupFindsOne(r)
  PROVE  \E t \in Builds :
           /\ Done(held[r], t) /\ image[t] = "template" /\ build[t].name = NameOf[r]
           /\ step[r] = "lookup" /\ step' = [step EXCEPT ![r] = "check"]
           /\ held[r] \in Builds /\ faults'.fail = faults.fail
           /\ UNCHANGED <<templateId, imageBuilds, work, lost, image, held>>
<1>1. PICK t \in Builds : Answers(r, {t}) /\ Done(held[r], t)
  BY DEF LookupFindsOne
<1>2. step[r] = "lookup" /\ t \in Templates(NameOf[r], PoolOf[r]) /\ faults'.fail = faults.fail
  BY <1>1, AnswersTyped
<1> QED
  BY <1>1, <1>2 DEF LookupFindsOne, Checks, goroutines, Templates, TypeOK

(* A lookup that found no usable answer, or a failed build, untracks.      *)
LEMMA Untracks ==
  ASSUME TypeOK, NEW r \in Requests,
         LookupFindsMany(r) \/ LookupFails(r) \/ CheckFailed(r)
  PROVE  /\ imageBuilds' = [imageBuilds EXCEPT ![NameOf[r]] = NoBuild]
         /\ step' = [step EXCEPT ![r] = "ensure"]
         /\ held' = [held EXCEPT ![r] = NoBuild]
         /\ faults'.fail = faults.fail
         /\ UNCHANGED <<templateId, build, work, lost, image>>
<1>1. faults'.fail = faults.fail
  BY AnswersTyped, FaultTyped
     DEF LookupFindsMany, LookupFails, CheckFailed, AllFaultKinds
<1> QED
  BY <1>1 DEF LookupFindsMany, LookupFails, CheckFailed, Untrack, Again, goroutines

LEMMA Executed ==
  ASSUME TypeOK, NEW b \in Builds, Executes(b) \/ UNCHANGED image
  PROVE  /\ \A c \in Builds : c # b => image'[c] = image[c]
         /\ image'[b] \in {image[b], Makes(b)}
BY DEF TypeOK, Executes

LEMMA Failed ==
  ASSUME TypeOK, NEW b \in Builds, BuildFails(b)
  PROVE  /\ \A c \in Builds : c # b => build'[c] = build[c]
         /\ build'[b].state = "failed" /\ build'[b].name = build[b].name
         /\ build'[b].pool = build[b].pool
         /\ faults'.fail > 0
<1>1. faults'.fail > 0
  BY FaultTyped DEF BuildFails, AllFaultKinds
<1> QED  BY <1>1 DEF BuildFails, TypeOK, BuildRecord

-----------------------------------------------------------------------------
LEMMA EntriesStep == TypeOK /\ Entries /\ [Next]_vars => Entries'
<1> SUFFICES ASSUME TypeOK, Entries, [Next]_vars PROVE Entries'
  OBVIOUS
<1> USE DEF tracker, goroutines
<1>0. NoBuild \notin Builds
  BY ImageCacheAssumption DEF NoBuild
<1>1. ASSUME NEW r \in Requests, LoadOrStore(r), imageBuilds[NameOf[r]] = NoBuild
      PROVE  Entries'
  <2>1. PICK b \in Garbage :
          /\ imageBuilds' = [imageBuilds EXCEPT ![NameOf[r]] = b]
          /\ held' = [held EXCEPT ![r] = b]
          /\ step' = [step EXCEPT ![r] = "lookup"]
          /\ \A c \in Builds : c # b => build'[c] = build[c]
          /\ build'[b].name = NameOf[r] /\ build'[b].state = "pending"
          /\ UNCHANGED <<templateId, work, lost, image, faults>>
    BY <1>1, Stored
  <2> QED  BY <2>1 DEF Entries, TypeOK, Garbage
<1>2. ASSUME NEW r \in Requests, LoadOrStore(r), imageBuilds[NameOf[r]] # NoBuild
      PROVE  Entries'
  <2>1. NameOf[r] \in Names
    BY ImageCacheAssumption
  <2> QED  BY <1>2, <2>1, Loaded DEF Entries, TypeOK
<1>3. ASSUME NEW r \in Requests, LookupFindsOne(r) PROVE Entries'
  <2>1. PICK t \in Builds :
          /\ Done(held[r], t) /\ image[t] = "template" /\ build[t].name = NameOf[r]
          /\ step[r] = "lookup" /\ step' = [step EXCEPT ![r] = "check"]
          /\ held[r] \in Builds /\ faults'.fail = faults.fail
          /\ UNCHANGED <<templateId, imageBuilds, work, lost, image, held>>
    BY <1>3, FindsOne
  <2>2. \A c \in Builds : build'[c].name = build[c].name
    BY <2>1, DoneTyped
  <2> QED  BY <2>1, <2>2, <1>0 DEF Entries, TypeOK
<1>4. ASSUME NEW r \in Requests,
             LookupFindsMany(r) \/ LookupFails(r) \/ CheckFailed(r)
      PROVE  Entries'
  BY <1>4, Untracks DEF Entries, TypeOK
<1>5. ASSUME NEW r \in Requests, LookupFindsNone(r) PROVE Entries'
  <2>1. step[r] = "lookup"
    BY <1>5, AnswersTyped DEF LookupFindsNone
  <2> QED  BY <1>5, <2>1 DEF LookupFindsNone, Checks, Entries, TypeOK
<1>6. ASSUME NEW r \in Requests, CheckPending(r) PROVE Entries'
  BY <1>6 DEF CheckPending, Again, Entries, TypeOK
<1>7. ASSUME NEW r \in Requests, CheckDone(r) PROVE Entries'
  BY <1>7 DEF CheckDone, Entries, TypeOK
<1>8. ASSUME NEW b \in Builds, BuildAdvances(b) PROVE Entries'
  <2>1. \A r \in Requests : step[r] = "lookup" => held[r] # b
    BY <1>8 DEF BuildAdvances, Running, Entries
  <2> QED  BY <1>8, <2>1, Executed DEF BuildAdvances, Entries, TypeOK
<1>9. ASSUME NEW b \in Builds, BuildSucceeds(b) PROVE Entries'
  <2>1. \A r \in Requests : step[r] = "lookup" => held[r] # b
    BY <1>9 DEF BuildSucceeds, Running, Entries
  <2>2. \A c \in Builds : build'[c].name = build[c].name
    BY <1>9, DoneTyped DEF BuildSucceeds
  <2> QED  BY <1>9, <1>0, <2>1, <2>2, Executed DEF BuildSucceeds, Entries, TypeOK
<1>10. ASSUME NEW b \in Builds, BuildFails(b) PROVE Entries'
  <2>1. \A r \in Requests : step[r] = "lookup" => held[r] # b
    BY <1>10 DEF BuildFails, Running, Entries
  <2>2. \A c \in Builds : build'[c].name = build[c].name
    BY <1>10, Failed
  <2> QED  BY <1>10, <1>0, <2>1, <2>2, Executed DEF BuildFails, Entries, TypeOK
<1>11. CASE Crash
  BY <1>11 DEF Crash, Entries, TypeOK
<1>12. ASSUME NEW b \in Builds, LateCall(b) PROVE Entries'
  <2>1. \A r \in Requests : step[r] = "lookup" => work[held[r]] = "none"
    BY DEF Entries
  <2>2. work[b] = "none" => Makes(b) = image[b]
    BY DEF Makes
  <2> QED  BY <1>12, <2>1, <2>2, Executed DEF LateCall, Entries, TypeOK
<1>13. ASSUME NEW b \in Builds, OperatorDeletes(b) PROVE Entries'
  BY <1>13 DEF OperatorDeletes, Entries, TypeOK
<1>14. CASE UNCHANGED vars
  BY <1>14 DEF vars, Entries
<1> QED
  BY <1>1, <1>2, <1>3, <1>4, <1>5, <1>6, <1>7, <1>8, <1>9, <1>10, <1>11, <1>12,
     <1>13, <1>14
     DEF Next, EnsureImage, Build, AllReady

LEMMA FinishedStep == TypeOK /\ Entries /\ Finished /\ [Next]_vars => Finished'
<1> SUFFICES ASSUME TypeOK, Entries, Finished, [Next]_vars PROVE Finished'
  OBVIOUS
<1> USE DEF tracker, goroutines
<1>1. ASSUME NEW r \in Requests, LoadOrStore(r), imageBuilds[NameOf[r]] = NoBuild
      PROVE  Finished'
  <2>1. PICK b \in Garbage :
          /\ imageBuilds' = [imageBuilds EXCEPT ![NameOf[r]] = b]
          /\ held' = [held EXCEPT ![r] = b]
          /\ step' = [step EXCEPT ![r] = "lookup"]
          /\ \A c \in Builds : c # b => build'[c] = build[c]
          /\ build'[b].name = NameOf[r] /\ build'[b].state = "pending"
          /\ UNCHANGED <<templateId, work, lost, image, faults>>
    BY <1>1, Stored
  <2>2. image[b] = "none" /\ \A q \in Requests : templateId[q] # b
    BY <2>1 DEF Garbage
  <2>3. \A c \in Builds : image[c] \in {"template", "deleted"} => build'[c] = build[c]
    BY <2>1, <2>2
  <2> QED  BY <2>1, <2>3 DEF Finished, ReturnsItsImage, TypeOK
<1>2. ASSUME NEW r \in Requests, LoadOrStore(r), imageBuilds[NameOf[r]] # NoBuild
      PROVE  Finished'
  BY <1>2, Loaded DEF Finished, ReturnsItsImage, TypeOK
<1>3. ASSUME NEW r \in Requests, LookupFindsOne(r) PROVE Finished'
  <2>1. PICK t \in Builds :
          /\ Done(held[r], t) /\ image[t] = "template" /\ build[t].name = NameOf[r]
          /\ step[r] = "lookup" /\ step' = [step EXCEPT ![r] = "check"]
          /\ held[r] \in Builds /\ faults'.fail = faults.fail
          /\ UNCHANGED <<templateId, imageBuilds, work, lost, image, held>>
    BY <1>3, FindsOne
  <2>2. build[held[r]].name = NameOf[r]
    BY <2>1 DEF Entries
  <2>3. /\ \A c \in Builds : c # held[r] => build'[c] = build[c]
        /\ \A c \in Builds : build'[c].name = build[c].name
        /\ build'[held[r]].templateId = t
    BY <2>1, DoneTyped
  <2> QED  BY <2>1, <2>2, <2>3 DEF Finished, ReturnsItsImage, TypeOK
<1>4. ASSUME NEW r \in Requests,
             LookupFindsMany(r) \/ LookupFails(r) \/ CheckFailed(r)
      PROVE  Finished'
  BY <1>4, Untracks DEF Finished, ReturnsItsImage, TypeOK
<1>5. ASSUME NEW r \in Requests, LookupFindsNone(r) PROVE Finished'
  <2>1. step[r] = "lookup" /\ image[held[r]] = "none"
    BY <1>5, AnswersTyped DEF LookupFindsNone, Entries
  <2> QED
    BY <1>5, <2>1 DEF LookupFindsNone, Checks, Finished, ReturnsItsImage, TypeOK
<1>6. ASSUME NEW r \in Requests, CheckPending(r) PROVE Finished'
  BY <1>6 DEF CheckPending, Again, Finished, ReturnsItsImage, TypeOK
<1>7. ASSUME NEW r \in Requests, CheckDone(r) PROVE Finished'
  <2>1. held[r] \in Builds /\ build[held[r]].name = NameOf[r]
    BY <1>7 DEF CheckDone, Entries, TypeOK
  <2> QED  BY <1>7, <2>1 DEF CheckDone, Finished, ReturnsItsImage, TypeOK
<1>8. ASSUME NEW b \in Builds, BuildAdvances(b) PROVE Finished'
  <2>1. image[b] \notin {"template", "deleted"}
    BY <1>8 DEF BuildAdvances, Running, Finished
  <2>2. Makes(b) \notin {"template", "deleted"}
    BY <1>8, <2>1 DEF BuildAdvances, Makes
  <2>3. /\ \A c \in Builds : c # b => image'[c] = image[c]
        /\ image'[b] \notin {"template", "deleted"}
    BY <1>8, <2>1, <2>2, Executed DEF BuildAdvances
  <2> QED
    BY <1>8, <2>1, <2>3 DEF BuildAdvances, Finished, ReturnsItsImage, TypeOK
<1>9. ASSUME NEW b \in Builds, BuildSucceeds(b) PROVE Finished'
  <2>1. /\ \A c \in Builds : c # b => image'[c] = image[c]
        /\ image'[b] = "template"
    BY <1>9 DEF BuildSucceeds, Executes, Makes, TypeOK
  <2>2. /\ \A c \in Builds : c # b => build'[c] = build[c]
        /\ \A c \in Builds : build'[c].name = build[c].name
        /\ build'[b].templateId = b
    BY <1>9, DoneTyped DEF BuildSucceeds
  <2> QED
    BY <1>9, <2>1, <2>2 DEF BuildSucceeds, Finished, ReturnsItsImage, TypeOK
<1>10. ASSUME NEW b \in Builds, BuildFails(b) PROVE Finished'
  <2>1. image[b] \notin {"template", "deleted"}
    BY <1>10 DEF BuildFails, Running, Finished
  <2>2. \A c \in Builds : c # b => image'[c] = image[c]
    BY <1>10, Executed DEF BuildFails
  <2>3. /\ \A c \in Builds : c # b => build'[c] = build[c]
        /\ \A c \in Builds : build'[c].name = build[c].name
        /\ build'[b].state = "failed"
    BY <1>10, Failed
  <2> QED
    BY <1>10, <2>1, <2>2, <2>3 DEF BuildFails, Finished, ReturnsItsImage, TypeOK
<1>11. CASE Crash
  BY <1>11 DEF Crash, Finished, ReturnsItsImage, TypeOK
<1>12. ASSUME NEW b \in Builds, LateCall(b) PROVE Finished'
  <2>1. /\ \A c \in Builds : c # b => image'[c] = image[c]
        /\ image'[b] \in {image[b], Makes(b)}
    BY <1>12, Executed DEF LateCall
  <2>2. image[b] \in {"template", "deleted"} => Makes(b) = image[b]
    BY DEF Finished, Makes
  <2> QED
    BY <1>12, <2>1, <2>2 DEF LateCall, Finished, ReturnsItsImage, TypeOK
<1>13. ASSUME NEW b \in Builds, OperatorDeletes(b) PROVE Finished'
  BY <1>13 DEF OperatorDeletes, Finished, ReturnsItsImage, TypeOK
<1>14. CASE UNCHANGED vars
  BY <1>14 DEF vars, Finished, ReturnsItsImage
<1> QED
  BY <1>1, <1>2, <1>3, <1>4, <1>5, <1>6, <1>7, <1>8, <1>9, <1>10, <1>11, <1>12,
     <1>13, <1>14
     DEF Next, EnsureImage, Build, AllReady

LEMMA TrackedStep == TypeOK /\ Entries /\ Tracked /\ [Next]_vars => Tracked'
<1> SUFFICES ASSUME TypeOK, Entries, Tracked, [Next]_vars PROVE Tracked'
  OBVIOUS
<1> USE DEF tracker, goroutines, Running
<1>0. NoBuild \notin Builds /\ \A r \in Requests : NameOf[r] \in Names
  BY ImageCacheAssumption DEF NoBuild
<1>1. ASSUME NEW r \in Requests, LoadOrStore(r), imageBuilds[NameOf[r]] = NoBuild
      PROVE  Tracked'
  <2>1. PICK b \in Garbage :
          /\ imageBuilds' = [imageBuilds EXCEPT ![NameOf[r]] = b]
          /\ held' = [held EXCEPT ![r] = b]
          /\ step' = [step EXCEPT ![r] = "lookup"]
          /\ \A c \in Builds : c # b => build'[c] = build[c]
          /\ build'[b].name = NameOf[r] /\ build'[b].state = "pending"
          /\ UNCHANGED <<templateId, work, lost, image, faults>>
    BY <1>1, Stored
  <2> QED  BY <1>0, <1>1, <2>1 DEF Tracked, TypeOK, Garbage, BuildRecord
<1>2. ASSUME NEW r \in Requests, LoadOrStore(r), imageBuilds[NameOf[r]] # NoBuild
      PROVE  Tracked'
  BY <1>2, Loaded DEF Tracked, TypeOK
<1>3. ASSUME NEW r \in Requests, LookupFindsOne(r) PROVE Tracked'
  <2>1. PICK t \in Builds :
          /\ Done(held[r], t) /\ image[t] = "template" /\ build[t].name = NameOf[r]
          /\ step[r] = "lookup" /\ step' = [step EXCEPT ![r] = "check"]
          /\ held[r] \in Builds /\ faults'.fail = faults.fail
          /\ UNCHANGED <<templateId, imageBuilds, work, lost, image, held>>
    BY <1>3, FindsOne
  <2>2. /\ \A c \in Builds : c # held[r] => build'[c] = build[c]
        /\ \A c \in Builds : build'[c].name = build[c].name
        /\ build'[held[r]].state = "done"
    BY <2>1, DoneTyped
  <2> QED  BY <2>1, <2>2 DEF Tracked, TypeOK
<1>4. ASSUME NEW r \in Requests,
             LookupFindsMany(r) \/ LookupFails(r) \/ CheckFailed(r), faults.fail = 0
      PROVE  Tracked'
  <2>1. step[r] = "lookup"
    BY <1>4, AnswersTyped
       DEF LookupFindsMany, LookupFails, CheckFailed, Tracked, TypeOK
  <2>2. /\ imageBuilds[NameOf[r]] = held[r] /\ held[r] \in Builds
        /\ build[held[r]].name = NameOf[r] /\ work[held[r]] = "none"
    BY <1>4, <2>1 DEF Tracked, Entries, TypeOK
  <2>3. \A q \in Requests : q # r /\ step[q] = "lookup" => NameOf[q] # NameOf[r]
    BY <1>4, <2>1 DEF Tracked, Entries
  <2>4. \A b \in Builds : Running(b) => build[b].name # NameOf[r]
    BY <1>4, <2>2 DEF Tracked
  <2>5. /\ imageBuilds' = [imageBuilds EXCEPT ![NameOf[r]] = NoBuild]
        /\ step' = [step EXCEPT ![r] = "ensure"]
        /\ held' = [held EXCEPT ![r] = NoBuild]
        /\ UNCHANGED <<build, work, lost>>
    BY <1>4, Untracks
  <2>6. \A n \in Names : n # NameOf[r] => imageBuilds'[n] = imageBuilds[n]
    BY <2>5 DEF TypeOK
  <2>7. \A b \in Builds : build[b].name \in Names
    BY DEF TypeOK, BuildRecord
  <2>8. \A b \in Builds : Running(b)' => imageBuilds'[build'[b].name] = b
    BY <1>4, <2>4, <2>5, <2>6, <2>7 DEF Tracked
  <2>9. ASSUME NEW q \in Requests, step'[q] = "lookup"
        PROVE  imageBuilds'[NameOf[q]] = held'[q]
    <3>1. q # r /\ step[q] = "lookup" /\ held'[q] = held[q]
      BY <2>5, <2>9 DEF TypeOK
    <3> QED  BY <1>0, <1>4, <2>3, <2>6, <3>1 DEF Tracked
  <2> QED  BY <1>4, <2>5, <2>8, <2>9 DEF Tracked
<1>5. ASSUME NEW r \in Requests, LookupFindsNone(r) PROVE Tracked'
  <2>1. step[r] = "lookup" /\ held[r] \in Builds /\ build[held[r]].name = NameOf[r]
        /\ faults'.fail = faults.fail
    BY <1>5, AnswersTyped DEF LookupFindsNone, Entries, TypeOK
  <2> QED  BY <1>5, <2>1 DEF LookupFindsNone, Checks, Tracked, TypeOK
<1>6. ASSUME NEW r \in Requests, CheckPending(r) PROVE Tracked'
  BY <1>6 DEF CheckPending, Again, Tracked, TypeOK
<1>7. ASSUME NEW r \in Requests, CheckDone(r) PROVE Tracked'
  BY <1>7 DEF CheckDone, Tracked, TypeOK
<1>8. ASSUME NEW b \in Builds, BuildAdvances(b) PROVE Tracked'
  BY <1>8 DEF BuildAdvances, Tracked, TypeOK
<1>9. ASSUME NEW b \in Builds, BuildSucceeds(b) PROVE Tracked'
  <2>1. /\ \A c \in Builds : c # b => build'[c] = build[c]
        /\ \A c \in Builds : build'[c].name = build[c].name
        /\ build'[b].state = "done"
    BY <1>9, DoneTyped DEF BuildSucceeds
  <2> QED  BY <1>9, <2>1 DEF BuildSucceeds, Tracked, TypeOK
<1>10. ASSUME NEW b \in Builds, BuildFails(b) PROVE Tracked'
  BY <1>10, Failed DEF Tracked
<1>11. CASE Crash
  <2>1. faults'.fail = faults.fail
    BY <1>11, FaultTyped DEF Crash, AllFaultKinds
  <2> QED  BY <1>11, <2>1 DEF Crash, Tracked, TypeOK
<1>12. ASSUME NEW b \in Builds, LateCall(b) PROVE Tracked'
  BY <1>12 DEF LateCall, Tracked, TypeOK
<1>13. ASSUME NEW b \in Builds, OperatorDeletes(b) PROVE Tracked'
  <2>1. faults'.fail = faults.fail
    BY <1>13, FaultTyped DEF OperatorDeletes, AllFaultKinds
  <2> QED  BY <1>13, <2>1 DEF OperatorDeletes, Tracked, TypeOK
<1>14. CASE UNCHANGED vars
  BY <1>14 DEF vars, Tracked
<1>15. faults.fail # 0 => Tracked'
  <2>1. \A k \in AllFaultKinds : Fault(k) => faults'.fail >= faults.fail
    BY DEF Fault, TypeOK, AllFaultKinds
  <2>2. \A r \in Requests : EnsureImage(r) => faults'.fail = faults.fail
    BY AnswersTyped
       DEF EnsureImage, LoadOrStore, LookupFindsOne, LookupFindsMany, LookupFindsNone,
           CheckFailed, CheckPending, CheckDone
  <2>3. faults'.fail >= faults.fail
    BY <2>1, <2>2
       DEF Next, LookupFails, Build, BuildAdvances, BuildSucceeds, BuildFails,
           LateCall, OperatorDeletes, Crash, AllReady, vars, TypeOK, AllFaultKinds
  <2> QED  BY <2>3 DEF Tracked, TypeOK, AllFaultKinds
<1> QED
  BY <1>1, <1>2, <1>3, <1>4, <1>5, <1>6, <1>7, <1>8, <1>9, <1>10, <1>11, <1>12,
     <1>13, <1>14, <1>15
     DEF Next, EnsureImage, Build, AllReady

LEMMA RefersInit == Init => Entries /\ Finished /\ Tracked
BY DEF Init, Entries, Finished, ReturnsItsImage, Tracked, Running

(* The template a request gets is one of its own image, and was finished:  *)
(* whatever failed, lagged, was deleted or cut off by a restart, and for   *)
(* any number of concurrent requests (image.go:163-225, 235-252).          *)
THEOREM ReturnsItsImageHolds == Spec => []ReturnsItsImage
<1>1. Finished => ReturnsItsImage
  BY DEF Finished
<1>2. Spec => []Entries
  BY RefersInit, EntriesStep, TypeCorrect, PTL DEF Spec
<1> QED  BY <1>1, <1>2, RefersInit, FinishedStep, TypeCorrect, PTL DEF Spec

(* Until a build fails, a name is never built twice at the same time: each *)
(* running build is the tracker's entry of its name (image.go:170-215).    *)
THEOREM OneBuildHolds == Spec => []OneBuildUntilOneFails
<1>1. Tracked => OneBuildUntilOneFails
  BY DEF Tracked, OneBuildUntilOneFails, OneBuildPerImage, Concurrent
<1>2. Spec => []Entries
  BY RefersInit, EntriesStep, TypeCorrect, PTL DEF Spec
<1> QED  BY <1>1, <1>2, RefersInit, TrackedStep, TypeCorrect, PTL DEF Spec

-----------------------------------------------------------------------------
(* ImageCache implements ImageService.                                     *)

Served == {[name |-> build[b].name, id |-> b] : b \in FinishedTemplates}

LEMMA Unserved ==
  ASSUME FinishedTemplates' = FinishedTemplates,
         \A b \in FinishedTemplates : build'[b].name = build[b].name
  PROVE  Served' = Served
BY DEF Served

(* The execution of a call of the build b finishes a template or none.     *)
LEMMA Serves ==
  ASSUME TypeOK, Finished, NEW b \in Builds, Executes(b) \/ UNCHANGED image,
         work[b] # "none", UNCHANGED templateId,
         \A c \in Builds : build'[c].name = build[c].name
  PROVE  [Service!Next]_(Service!vars)
<1>1. /\ \A c \in Builds : c # b => image'[c] = image[c]
      /\ image'[b] \in {image[b], Makes(b)}
  BY Executed
<1>2. b \notin FinishedTemplates
  BY DEF Finished, FinishedTemplates
<1>3. FinishedTemplates \subseteq Builds /\ FinishedTemplates' \subseteq Builds
  BY DEF FinishedTemplates
<1>4. CASE image'[b] \in {"template", "deleted"}
  <2>1. FinishedTemplates' = FinishedTemplates \cup {b}
    BY <1>1, <1>2, <1>4 DEF FinishedTemplates
  <2>2. Served' = Served \cup {[name |-> build[b].name, id |-> b]}
    BY <1>3, <2>1 DEF Served
  <2>3. \A f \in Served : f.id # b
    BY <1>2 DEF Served
  <2>4. build[b].name \in Names
    BY DEF TypeOK, BuildRecord
  <2> QED
    BY <2>2, <2>3, <2>4 DEF Service!Next, Service!Finish, Served
<1>5. CASE image'[b] \notin {"template", "deleted"}
  <2>1. FinishedTemplates' = FinishedTemplates
    BY <1>1, <1>2, <1>5 DEF FinishedTemplates
  <2>2. Served' = Served
    BY <1>3, <2>1, Unserved
  <2> QED  BY <2>2 DEF Service!vars, Served
<1> QED  BY <1>4, <1>5

LEMMA ServesStep ==
  ASSUME TypeOK, Entries, Finished, [Next]_vars
  PROVE  [Service!Next]_(Service!vars)
<1> USE DEF tracker, goroutines
<1>0. FinishedTemplates \subseteq Builds
  BY DEF FinishedTemplates
<1>1. ASSUME NEW r \in Requests, LoadOrStore(r), imageBuilds[NameOf[r]] = NoBuild
      PROVE  Served' = Served /\ UNCHANGED templateId
  <2>1. PICK b \in Garbage :
          /\ imageBuilds' = [imageBuilds EXCEPT ![NameOf[r]] = b]
          /\ held' = [held EXCEPT ![r] = b]
          /\ step' = [step EXCEPT ![r] = "lookup"]
          /\ \A c \in Builds : c # b => build'[c] = build[c]
          /\ build'[b].name = NameOf[r] /\ build'[b].state = "pending"
          /\ UNCHANGED <<templateId, work, lost, image, faults>>
    BY <1>1, Stored
  <2>2. b \notin FinishedTemplates /\ FinishedTemplates' = FinishedTemplates
    BY <2>1 DEF Garbage, FinishedTemplates
  <2> QED  BY <1>0, <2>1, <2>2, Unserved
<1>2. ASSUME NEW r \in Requests, LoadOrStore(r), imageBuilds[NameOf[r]] # NoBuild
      PROVE  Served' = Served /\ UNCHANGED templateId
  BY <1>2, Loaded DEF Served, FinishedTemplates
<1>3. ASSUME NEW r \in Requests, LookupFindsOne(r)
      PROVE  Served' = Served /\ UNCHANGED templateId
  <2>1. PICK t \in Builds :
          /\ Done(held[r], t) /\ image[t] = "template" /\ build[t].name = NameOf[r]
          /\ step[r] = "lookup" /\ step' = [step EXCEPT ![r] = "check"]
          /\ held[r] \in Builds /\ faults'.fail = faults.fail
          /\ UNCHANGED <<templateId, imageBuilds, work, lost, image, held>>
    BY <1>3, FindsOne
  <2>2. \A c \in Builds : build'[c].name = build[c].name
    BY <2>1, DoneTyped
  <2>3. FinishedTemplates' = FinishedTemplates
    BY <2>1 DEF FinishedTemplates
  <2> QED  BY <1>0, <2>1, <2>2, <2>3, Unserved
<1>4. ASSUME NEW r \in Requests,
             LookupFindsMany(r) \/ LookupFails(r) \/ CheckFailed(r)
      PROVE  Served' = Served /\ UNCHANGED templateId
  BY <1>4, Untracks DEF Served, FinishedTemplates
<1>5. ASSUME NEW r \in Requests, LookupFindsNone(r) \/ CheckPending(r)
      PROVE  Served' = Served /\ UNCHANGED templateId
  BY <1>5 DEF LookupFindsNone, CheckPending, Served, FinishedTemplates
<1>6. ASSUME NEW r \in Requests, CheckDone(r) PROVE Service!Next
  <2>1. /\ step[r] = "check" /\ held[r] \in Builds /\ build[held[r]].state = "done"
        /\ build[held[r]].name = NameOf[r]
    BY <1>6 DEF CheckDone, Entries, TypeOK
  <2> DEFINE t == build[held[r]].templateId
  <2>2. t \in FinishedTemplates /\ build[t].name = NameOf[r]
    BY <2>1 DEF Finished, FinishedTemplates, TypeOK
  <2>3. /\ templateId' = [templateId EXCEPT ![r] = t] /\ UNCHANGED <<build, image>>
    BY <1>6 DEF CheckDone
  <2>4. Served' = Served /\ [name |-> NameOf[r], id |-> t] \in Served
    BY <2>2, <2>3 DEF Served, FinishedTemplates
  <2> HIDE DEF t
  <2> QED  BY <2>3, <2>4 DEF Service!Next, Service!Give, Served
<1>7. ASSUME NEW b \in Builds, BuildAdvances(b)
      PROVE  [Service!Next]_(Service!vars)
  BY <1>7, Serves DEF BuildAdvances, Running
<1>8. ASSUME NEW b \in Builds, BuildSucceeds(b)
      PROVE  [Service!Next]_(Service!vars)
  <2>1. \A c \in Builds : build'[c].name = build[c].name
    BY <1>8, DoneTyped DEF BuildSucceeds
  <2> QED  BY <1>8, <2>1, Serves DEF BuildSucceeds, Running
<1>9. ASSUME NEW b \in Builds, BuildFails(b)
      PROVE  [Service!Next]_(Service!vars)
  <2>1. \A c \in Builds : build'[c].name = build[c].name
    BY <1>9, Failed
  <2> QED  BY <1>9, <2>1, Serves DEF BuildFails, Running
<1>10. ASSUME Crash PROVE Served' = Served /\ UNCHANGED templateId
  BY <1>10 DEF Crash, Served, FinishedTemplates
<1>11. ASSUME NEW b \in Builds, LateCall(b)
       PROVE  [Service!Next]_(Service!vars)
  <2>1. CASE work[b] = "none"
    <3>1. UNCHANGED <<image, build, templateId>>
      BY <1>11, <2>1 DEF LateCall, Executes, Makes, TypeOK
    <3> QED  BY <3>1 DEF Service!vars, FinishedTemplates
  <2> QED  BY <1>11, <2>1, Serves DEF LateCall
<1>12. ASSUME NEW b \in Builds, OperatorDeletes(b)
       PROVE  Served' = Served /\ UNCHANGED templateId
  <2>1. FinishedTemplates' = FinishedTemplates /\ UNCHANGED <<build, templateId>>
    BY <1>12 DEF OperatorDeletes, FinishedTemplates, TypeOK
  <2> QED  BY <2>1 DEF Served
<1>13. ASSUME UNCHANGED vars PROVE Served' = Served /\ UNCHANGED templateId
  BY <1>13 DEF vars, Served, FinishedTemplates
<1>14. Served' = Served /\ UNCHANGED templateId => UNCHANGED Service!vars
  BY DEF Served, Service!vars
<1> QED
  BY <1>1, <1>2, <1>3, <1>4, <1>5, <1>6, <1>7, <1>8, <1>9, <1>10, <1>11, <1>12,
     <1>13, <1>14
     DEF Next, EnsureImage, Build, AllReady

(* The tracker, the detached builds, crashes and late calls implement the  *)
(* image service: what a request is given was finished for its own image,  *)
(* and a template is of one image for good (image.go:163-252).             *)
THEOREM ServesImagesHolds == Spec => ServesImages
<1>1. Init => Service!Init
  BY DEF Init, Service!Init, FinishedTemplates
<1>2. Spec => []Entries
  BY RefersInit, EntriesStep, TypeCorrect, PTL DEF Spec
<1>3. Spec => []Finished
  BY <1>2, RefersInit, FinishedStep, TypeCorrect, PTL DEF Spec
<1> QED
  BY <1>1, <1>2, <1>3, TypeCorrect, ServesStep, PTL
     DEF Spec, ServesImages, Service!Spec

-----------------------------------------------------------------------------
(* What faults leave: a build that ended early is the only one of its name *)
(* to have left something, and without a fault a template has no twin.     *)

Toll == faults.fail + faults.crash
SameBuild(b) == build'[b].name = build[b].name /\ build'[b].pool = build[b].pool

(* What no fault that costs does to the builds: nothing, but for reusing   *)
(* an object nothing refers to.                                            *)
Quiet ==
  /\ UNCHANGED <<work, lost, image>> /\ \A b \in Builds \ Garbage : SameBuild(b)
  /\ Toll' = Toll /\ faults'.lag >= faults.lag

LEMMA FaultCounts ==
  ASSUME TypeOK, NEW k \in AllFaultKinds, Fault(k)
  PROVE  /\ k = "fail" \/ k = "crash" => Toll' = Toll + 1
         /\ k # "fail" /\ k # "crash" => Toll' = Toll
         /\ faults'.lag >= faults.lag /\ (k = "lag" => faults'.lag > 0)
BY DEF TypeOK, Fault, AllFaultKinds, Toll

LEMMA AnswerCounts ==
  ASSUME TypeOK, NEW r \in Requests, NEW ts, Answers(r, ts)
  PROVE  /\ Toll' = Toll /\ faults'.lag >= faults.lag
         /\ faults'.lag = 0 => ts = Templates(NameOf[r], PoolOf[r])
<1>1. faults.lag \in Nat
  BY DEF TypeOK, AllFaultKinds
<1>2. CASE ts = Templates(NameOf[r], PoolOf[r]) /\ UNCHANGED faults
  BY <1>1, <1>2 DEF Toll
<1>3. CASE Fault("lag")
  BY <1>1, <1>3, FaultCounts DEF AllFaultKinds
<1> QED  BY <1>2, <1>3 DEF Answers

LEMMA ImageSteps ==
  ASSUME TypeOK, Entries, [Next]_vars
  PROVE  \/ Quiet
         \/ \E r \in Requests : LookupFindsNone(r)
         \/ \E b \in Builds : \/ BuildAdvances(b) \/ BuildSucceeds(b) \/ BuildFails(b)
                              \/ LateCall(b) \/ OperatorDeletes(b)
         \/ Crash
<1> USE DEF tracker, goroutines
<1>0. faults.lag \in Nat
  BY DEF TypeOK, AllFaultKinds
<1>1. ASSUME NEW r \in Requests, LoadOrStore(r) PROVE Quiet
  <2>1. CASE imageBuilds[NameOf[r]] = NoBuild
    <3>1. PICK b \in Garbage : /\ \A c \in Builds : c # b => build'[c] = build[c]
                               /\ UNCHANGED <<templateId, work, lost, image, faults>>
      BY <1>1, <2>1, Stored
    <3> QED  BY <1>0, <3>1 DEF Quiet, SameBuild, Toll
  <2>2. CASE imageBuilds[NameOf[r]] # NoBuild
    BY <1>0, <1>1, <2>2, Loaded DEF Quiet, SameBuild, Toll
  <2> QED  BY <2>1, <2>2
<1>2. ASSUME NEW r \in Requests, LookupFindsOne(r) PROVE Quiet
  <2>1. PICK t \in Builds :
          /\ Done(held[r], t) /\ held[r] \in Builds
          /\ UNCHANGED <<templateId, imageBuilds, work, lost, image, held>>
    BY <1>2, FindsOne
  <2>2. \A c \in Builds : SameBuild(c)
    BY <2>1, DoneTyped DEF SameBuild
  <2>3. Toll' = Toll /\ faults'.lag >= faults.lag
    BY <1>2, AnswerCounts DEF LookupFindsOne
  <2> QED  BY <2>1, <2>2, <2>3 DEF Quiet
<1>3. ASSUME NEW r \in Requests,
             LookupFindsMany(r) \/ LookupFails(r) \/ CheckFailed(r)
      PROVE  Quiet
  <2>1. UNCHANGED <<build, work, lost, image>>
    BY <1>3, Untracks
  <2>2. CASE LookupFindsMany(r)
    BY <2>1, <2>2, AnswerCounts DEF LookupFindsMany, Quiet, SameBuild
  <2>3. CASE LookupFails(r)
    BY <2>1, <2>3, FaultCounts DEF LookupFails, Quiet, SameBuild, AllFaultKinds
  <2>4. CASE CheckFailed(r)
    BY <1>0, <2>1, <2>4 DEF CheckFailed, Quiet, SameBuild, Toll
  <2> QED  BY <1>3, <2>2, <2>3, <2>4
<1>4. ASSUME NEW r \in Requests, CheckPending(r) \/ CheckDone(r) PROVE Quiet
  BY <1>0, <1>4 DEF CheckPending, CheckDone, Quiet, SameBuild, Toll
<1>5. UNCHANGED vars => Quiet
  BY <1>0 DEF vars, Quiet, SameBuild, Toll
<1> QED
  BY <1>1, <1>2, <1>3, <1>4, <1>5 DEF Next, EnsureImage, Build, AllReady

(* What has ended early, or may still take effect, of a name.              *)
Partial == {"vdi", "seed", "disk"}
Broken(n) == {b \in Builds : /\ build[b].name = n /\ ~Running(b)
                             /\ b \in lost \/ image[b] \in Partial}
Interrupted ==
  /\ \A b \in lost : work[b] # "none"
  /\ Toll = 0 => \A n \in Names : Broken(n) = {}
  /\ Toll <= 1 => \A n \in Names : \A b, c \in Broken(n) : b = c

(* Nothing is broken that was not.                                         *)
LEMMA NothingNewBroken ==
  ASSUME Interrupted, Toll' = Toll, \A b \in lost' : work'[b] # "none",
         \A n \in Names : Broken(n)' \subseteq Broken(n)
  PROVE  Interrupted'
BY DEF Interrupted

LEMMA InterruptedStep ==
  ASSUME TypeOK, Entries, Tracked, Interrupted, [Next]_vars
  PROVE  Interrupted'
<1> USE DEF tracker, goroutines
<1>0. /\ \A b \in lost : work[b] # "none" /\ lost \subseteq Builds
      /\ faults.fail \in Nat /\ faults.crash \in Nat
  BY DEF Interrupted, TypeOK, AllFaultKinds
<1>1. CASE Quiet
  <2>1. \A b \in Garbage : b \notin Broken(build[b].name)' /\ b \notin lost
                             /\ image[b] = "none"
    BY <1>0, <1>1 DEF Garbage, Broken, Quiet, Partial
  <2>2. \A n \in Names : Broken(n)' \subseteq Broken(n)
    BY <1>1, <2>1 DEF Broken, Running, Quiet, SameBuild, Partial
  <2> QED  BY <1>0, <1>1, <2>2, NothingNewBroken DEF Quiet
<1>2. ASSUME NEW r \in Requests, LookupFindsNone(r) PROVE Interrupted'
  <2>1. step[r] = "lookup" /\ Toll' = Toll
    BY <1>2, AnswersTyped, AnswerCounts DEF LookupFindsNone
  <2>2. held[r] \in Builds /\ work[held[r]] = "none" /\ held[r] \notin lost
    BY <1>0, <2>1 DEF TypeOK, Entries
  <2>3. /\ work' = [work EXCEPT ![held[r]] = "download"]
        /\ UNCHANGED <<build, lost, image>>
    BY <1>2 DEF LookupFindsNone
  <2>4. \A n \in Names : Broken(n)' \subseteq Broken(n)
    BY <2>2, <2>3 DEF Broken, Running, TypeOK
  <2>5. \A b \in lost' : work'[b] # "none"
    BY <1>0, <2>2, <2>3 DEF TypeOK
  <2> QED  BY <2>1, <2>4, <2>5, NothingNewBroken
<1>3. ASSUME NEW b \in Builds, BuildAdvances(b) PROVE Interrupted'
  <2>1. /\ b \notin lost /\ work' = [work EXCEPT ![b] = After[work[b]]]
        /\ After[work[b]] # "none" /\ UNCHANGED <<build, lost, faults>>
        /\ \A c \in Builds : c # b => image'[c] = image[c]
    BY <1>3, StagesTyped, Executed DEF BuildAdvances, Running, TypeOK
  <2>2. \A n \in Names : Broken(n)' \subseteq Broken(n)
    BY <2>1 DEF Broken, Running, TypeOK
  <2>3. \A c \in lost' : work'[c] # "none"
    BY <1>0, <2>1 DEF TypeOK
  <2> QED  BY <2>1, <2>2, <2>3, NothingNewBroken DEF Toll
<1>4. ASSUME NEW b \in Builds, BuildSucceeds(b) PROVE Interrupted'
  <2>1. /\ b \notin lost /\ work' = [work EXCEPT ![b] = "none"]
        /\ UNCHANGED <<lost, faults>> /\ image'[b] = "template"
        /\ \A c \in Builds : c # b => image'[c] = image[c]
    BY <1>4, Executed DEF BuildSucceeds, Running, Executes, Makes, TypeOK
  <2>2. \A c \in Builds : build'[c].name = build[c].name
    BY <1>4, DoneTyped DEF BuildSucceeds
  <2>3. \A n \in Names : Broken(n)' \subseteq Broken(n)
    BY <2>1, <2>2 DEF Broken, Running, TypeOK, Partial
  <2>4. \A c \in lost' : work'[c] # "none"
    BY <1>0, <2>1 DEF TypeOK
  <2> QED  BY <2>1, <2>3, <2>4, NothingNewBroken DEF Toll
<1>5. ASSUME NEW b \in Builds, BuildFails(b) PROVE Interrupted'
  <2>1. /\ b \notin lost /\ work' = [work EXCEPT ![b] = "none"]
        /\ UNCHANGED lost /\ \A c \in Builds : c # b => image'[c] = image[c]
    BY <1>5, Executed DEF BuildFails, Running
  <2>2. /\ \A c \in Builds : build'[c].name = build[c].name
        /\ Toll' = Toll + 1
    BY <1>5, Failed, FaultCounts DEF BuildFails, AllFaultKinds
  <2>3. \A c \in lost' : work'[c] # "none"
    BY <1>0, <2>1 DEF TypeOK
  <2>4. CASE Toll = 0
    <3>1. \A n \in Names : \A c \in Broken(n)' : c = b
      BY <2>1, <2>2, <2>4 DEF Broken, Running, TypeOK, Interrupted
    <3>2. Toll' = 1
      BY <2>2, <2>4
    <3>3. \A n \in Names : \A c, d \in Broken(n)' : c = d
      BY <3>1
    <3> QED  BY <2>3, <3>2, <3>3 DEF Interrupted
  <2>5. CASE Toll # 0
    <3>1. Toll' # 0 /\ ~(Toll' <= 1)
      BY <1>0, <2>2, <2>5 DEF Toll
    <3> QED  BY <2>3, <3>1 DEF Interrupted
  <2> QED  BY <2>4, <2>5
<1>6. CASE Crash
  <2>1. /\ lost' = lost \cup {b \in Builds : Running(b)} /\ Toll' = Toll + 1
        /\ UNCHANGED <<build, work, image>>
    BY <1>6, FaultCounts DEF Crash, AllFaultKinds
  <2>2. \A c \in lost' : work'[c] # "none"
    BY <1>0, <2>1 DEF Running
  <2>3. CASE Toll = 0
    <3>1. \A n \in Names : \A c \in Broken(n)' : Running(c) /\ build[c].name = n
      BY <2>1, <2>3 DEF Broken, Running, Interrupted
    <3>2. \A b, c \in Builds : Running(b) /\ Running(c) /\ build[b].name = build[c].name
                                 => b = c
      BY <1>0, <2>3 DEF Tracked, Toll
    <3>3. \A n \in Names : \A b, c \in Broken(n)' : b \in Builds /\ c \in Builds
      BY DEF Broken
    <3>4. \A n \in Names : \A b, c \in Broken(n)' : b = c
      BY <3>1, <3>2, <3>3
    <3>5. Toll' = 1
      BY <2>1, <2>3
    <3> QED  BY <2>2, <3>4, <3>5 DEF Interrupted
  <2>4. CASE Toll # 0
    <3>1. Toll' # 0 /\ ~(Toll' <= 1)
      BY <1>0, <2>1, <2>4 DEF Toll
    <3> QED  BY <2>2, <3>1 DEF Interrupted
  <2> QED  BY <2>3, <2>4
<1>7. ASSUME NEW b \in Builds, LateCall(b) PROVE Interrupted'
  <2>1. /\ b \in lost /\ work' = [work EXCEPT ![b] = "none"] /\ lost' = lost \ {b}
        /\ UNCHANGED <<build, faults>>
        /\ \A c \in Builds : c # b => image'[c] = image[c]
    BY <1>7, Executed DEF LateCall
  <2>2. \A n \in Names : Broken(n)' \subseteq Broken(n)
    BY <2>1 DEF Broken, Running, TypeOK
  <2>3. \A c \in lost' : work'[c] # "none"
    BY <1>0, <2>1 DEF TypeOK
  <2> QED  BY <2>1, <2>2, <2>3, NothingNewBroken DEF Toll
<1>8. ASSUME NEW b \in Builds, OperatorDeletes(b) PROVE Interrupted'
  <2>1. /\ image' = [image EXCEPT ![b] = "deleted"] /\ UNCHANGED <<build, work, lost>>
        /\ Toll' = Toll
    BY <1>8, FaultCounts DEF OperatorDeletes, AllFaultKinds
  <2>2. \A n \in Names : Broken(n)' \subseteq Broken(n)
    BY <2>1 DEF Broken, Running, TypeOK, Partial
  <2> QED  BY <1>0, <2>1, <2>2, NothingNewBroken
<1> QED
  BY <1>1, <1>2, <1>3, <1>4, <1>5, <1>6, <1>7, <1>8, ImageSteps

(* A build that failed, or that a crash cut off, leaves one VDI or seed VM *)
(* of its image behind at most, whoever waited for it and whatever is      *)
(* built anew.                                                             *)
THEOREM OneLeftoverHolds == Spec => []OneLeftoverPerFault
<1>1. Init => Interrupted
  BY DEF Init, Interrupted, Broken, Partial
<1>2. Spec => []Entries
  BY RefersInit, EntriesStep, TypeCorrect, PTL DEF Spec
<1>3. Spec => []Tracked
  BY <1>2, RefersInit, TrackedStep, TypeCorrect, PTL DEF Spec
<1>4. ASSUME TypeOK, Interrupted, Toll <= 1, NEW n \in Names
      PROVE  Cardinality(Leftovers(n)) <= Toll
  <2>0. Toll \in Nat /\ Cardinality({}) = 0
    BY <1>4, FS_EmptySet DEF Toll, TypeOK, AllFaultKinds
  <2>1. Leftovers(n) \subseteq Broken(n)
    BY DEF Leftovers, Broken, Partial
  <2>2. CASE Leftovers(n) = {}
    BY <2>0, <2>2
  <2>3. CASE Leftovers(n) # {}
    <3>1. Toll = 1
      BY <1>4, <2>0, <2>1, <2>3 DEF Interrupted
    <3>2. PICK b : Leftovers(n) = {b}
      BY <1>4, <2>1, <2>3 DEF Interrupted
    <3>3. Cardinality({b}) = 1
      BY FS_Singleton
    <3> QED  BY <3>1, <3>2, <3>3
  <2> QED  BY <2>2, <2>3
<1>5. TypeOK /\ Interrupted => OneLeftoverPerFault
  BY <1>4 DEF OneLeftoverPerFault, Toll
<1>6. Spec => []Interrupted
  BY <1>1, <1>2, <1>3, InterruptedStep, TypeCorrect, PTL DEF Spec
<1> QED  BY <1>5, <1>6, TypeCorrect, PTL

-----------------------------------------------------------------------------
(* A build is of the pool whose templates were looked up for it.           *)
PoolHeld ==
  \A r \in Requests : step[r] = "lookup" => build[held[r]].pool = PoolOf[r]

LEMMA PoolHeldStep ==
  ASSUME TypeOK, PoolHeld, [Next]_vars
  PROVE  PoolHeld'
<1> USE DEF tracker, goroutines
<1> DEFINE Same == /\ \A b \in Builds : build'[b].pool = build[b].pool
                   /\ \A r \in Requests : step'[r] = "lookup"
                        => step[r] = "lookup" /\ held'[r] = held[r]
<1>0. Same => PoolHeld'
  BY DEF PoolHeld, TypeOK
<1>1. ASSUME NEW r \in Requests, LoadOrStore(r), imageBuilds[NameOf[r]] = NoBuild
      PROVE  PoolHeld'
  <2>1. PICK b \in Garbage :
          /\ held' = [held EXCEPT ![r] = b]
          /\ step' = [step EXCEPT ![r] = "lookup"]
          /\ \A c \in Builds : c # b => build'[c] = build[c]
          /\ build'[b].pool = PoolOf[r]
    BY <1>1, Stored
  <2> QED  BY <2>1 DEF PoolHeld, TypeOK, Garbage
<1>2. ASSUME NEW r \in Requests, LoadOrStore(r), imageBuilds[NameOf[r]] # NoBuild
      PROVE  Same
  BY <1>2, Loaded DEF TypeOK
<1>3. ASSUME NEW r \in Requests, LookupFindsOne(r) PROVE Same
  <2>1. PICK t \in Builds :
          /\ Done(held[r], t) /\ step' = [step EXCEPT ![r] = "check"]
          /\ held[r] \in Builds /\ UNCHANGED held
    BY <1>3, FindsOne
  <2>2. \A c \in Builds : build'[c].pool = build[c].pool
    BY <2>1, DoneTyped
  <2> QED  BY <2>1, <2>2 DEF TypeOK
<1>4. ASSUME NEW r \in Requests,
             LookupFindsMany(r) \/ LookupFails(r) \/ CheckFailed(r)
      PROVE  Same
  BY <1>4, Untracks DEF TypeOK
<1>5. ASSUME NEW r \in Requests, LookupFindsNone(r) \/ CheckPending(r) \/ CheckDone(r)
      PROVE  Same
  BY <1>5 DEF LookupFindsNone, CheckPending, CheckDone, Checks, Again, TypeOK
<1>6. ASSUME NEW b \in Builds, BuildSucceeds(b) PROVE Same
  <2>1. \A c \in Builds : build'[c].pool = build[c].pool
    BY <1>6, DoneTyped DEF BuildSucceeds
  <2> QED  BY <1>6, <2>1 DEF BuildSucceeds
<1>7. ASSUME NEW b \in Builds, BuildFails(b) PROVE Same
  <2>1. \A c \in Builds : build'[c].pool = build[c].pool
    BY <1>7, Failed
  <2> QED  BY <1>7, <2>1 DEF BuildFails
<1>8. ASSUME NEW b \in Builds, BuildAdvances(b) \/ LateCall(b) \/ OperatorDeletes(b)
      PROVE  Same
  BY <1>8 DEF BuildAdvances, LateCall, OperatorDeletes
<1>9. ASSUME Crash PROVE Same
  BY <1>9 DEF Crash, TypeOK
<1>10. ASSUME UNCHANGED vars PROVE Same
  BY <1>10 DEF vars
<1> HIDE DEF Same
<1> QED
  BY <1>0, <1>1, <1>2, <1>3, <1>4, <1>5, <1>6, <1>7, <1>8, <1>9, <1>10
     DEF Next, EnsureImage, Build, AllReady

(* No call is left undecided, a running build is the first of its name in  *)
(* its pool, and templates of one name in one pool are one and the same.   *)
Unmatched == \A b \in Builds : Running(b) => Templates(build[b].name, build[b].pool) = {}
AtMostOne == \A n \in Names, p \in Pools : \A t, u \in Templates(n, p) : t = u
NoTwins == Toll + faults.lag = 0 => lost = {} /\ Unmatched /\ AtMostOne

LEMMA NoneBefore ==
  ASSUME NEW a \in Nat, NEW b \in Nat, NEW c \in Nat, b >= c, a + b = 0
  PROVE  a = 0 /\ b = 0 /\ c = 0 /\ a + c = 0
OBVIOUS

(* Fewer templates and no more running builds have no more twins.          *)
LEMMA NoMoreTwins ==
  ASSUME NoTwins, Toll' + faults'.lag = 0 => Toll + faults.lag = 0,
         lost = {} => lost' = {},
         \A b \in Builds : Running(b)' => Running(b) /\ SameBuild(b),
         \A n, p : Templates(n, p)' \subseteq Templates(n, p)
  PROVE  NoTwins'
<1>1. CASE Toll' + faults'.lag = 0
  <2>1. lost = {} /\ Unmatched /\ AtMostOne
    BY <1>1 DEF NoTwins
  <2>2. Unmatched'
    BY <2>1 DEF Unmatched, SameBuild
  <2>3. AtMostOne'
    BY <2>1 DEF AtMostOne
  <2> QED  BY <2>1, <2>2, <2>3 DEF NoTwins
<1>2. CASE Toll' + faults'.lag # 0
  BY <1>2 DEF NoTwins
<1> QED  BY <1>1, <1>2

LEMMA NoTwinsStep ==
  ASSUME TypeOK, Entries, Finished, Tracked, PoolHeld, NoTwins, [Next]_vars
  PROVE  NoTwins'
<1> USE DEF tracker, goroutines
<1>0. /\ Toll \in Nat /\ faults.lag \in Nat /\ faults.fail \in Nat
      /\ faults.crash \in Nat /\ (Toll = 0 <=> faults.fail = 0 /\ faults.crash = 0)
  BY DEF TypeOK, AllFaultKinds, Toll
<1>1. CASE Quiet
  <2>1. \A b \in Builds : Running(b)' => Running(b) /\ SameBuild(b)
    BY <1>1 DEF Running, Quiet, Garbage
  <2>2. \A n, p : Templates(n, p)' \subseteq Templates(n, p)
    BY <1>1 DEF Templates, Quiet, Garbage, SameBuild
  <2>3. Toll' + faults'.lag = 0 => Toll + faults.lag = 0
    <3>1. faults'.lag \in Nat
      BY TypeStep DEF TypeOK, AllFaultKinds
    <3>2. Toll' = Toll /\ faults'.lag >= faults.lag
      BY <1>1 DEF Quiet
    <3> QED  BY <1>0, <3>1, <3>2, NoneBefore
  <2>4. lost = {} => lost' = {}
    BY <1>1 DEF Quiet
  <2> QED  BY <2>1, <2>2, <2>3, <2>4, NoMoreTwins
<1>2. ASSUME NEW r \in Requests, LookupFindsNone(r), Toll' + faults'.lag = 0
      PROVE  NoTwins'
  <2>1. /\ Answers(r, {}) /\ step[r] = "lookup"
        /\ work' = [work EXCEPT ![held[r]] = "download"]
        /\ UNCHANGED <<build, lost, image>>
    BY <1>2, AnswersTyped DEF LookupFindsNone
  <2>2. /\ held[r] \in Builds /\ build[held[r]].name = NameOf[r]
        /\ build[held[r]].pool = PoolOf[r]
    BY <2>1 DEF TypeOK, Entries, PoolHeld
  <2>3. Toll' = Toll /\ faults'.lag \in Nat /\ faults'.lag >= faults.lag
    BY <2>1, TypeStep, AnswerCounts DEF TypeOK, AllFaultKinds
  <2>4. Toll = 0 /\ faults.lag = 0 /\ faults'.lag = 0
    BY <1>0, <1>2, <2>3, NoneBefore
  <2>5. Templates(NameOf[r], PoolOf[r]) = {}
    BY <2>1, <2>4, AnswerCounts
  <2>6. lost = {} /\ Unmatched /\ AtMostOne
    BY <2>4 DEF NoTwins
  <2>7. \A n, p : Templates(n, p)' = Templates(n, p)
    BY <2>1 DEF Templates
  <2>8. \A b \in Builds : b # held[r] => (Running(b)' <=> Running(b))
    BY <2>1, <2>2 DEF Running, TypeOK
  <2>9. Unmatched'
    BY <2>1, <2>2, <2>5, <2>6, <2>7, <2>8 DEF Unmatched
  <2>10. AtMostOne'
    BY <2>6, <2>7 DEF AtMostOne
  <2> QED  BY <2>1, <2>6, <2>9, <2>10 DEF NoTwins
<1>3. ASSUME NEW b \in Builds, BuildAdvances(b) PROVE NoTwins'
  <2>1. /\ UNCHANGED <<build, lost, faults>> /\ Running(b) /\ work[b] # "convert"
        /\ work' = [work EXCEPT ![b] = After[work[b]]]
        /\ \A c \in Builds : c # b => image'[c] = image[c]
        /\ image'[b] \in {image[b], Makes(b)}
    BY <1>3, Executed DEF BuildAdvances
  <2>2. image'[b] # "template"
    BY <2>1 DEF Makes, Finished, Running, TypeOK
  <2>3. \A c \in Builds : Running(c)' => Running(c) /\ SameBuild(c)
    BY <2>1 DEF Running, SameBuild, TypeOK
  <2>4. \A n, p : Templates(n, p)' \subseteq Templates(n, p)
    BY <2>1, <2>2 DEF Templates
  <2>5. Toll' = Toll /\ UNCHANGED faults
    BY <2>1 DEF Toll
  <2> QED  BY <2>1, <2>3, <2>4, <2>5, NoMoreTwins
<1>4. ASSUME NEW b \in Builds, BuildSucceeds(b), Toll' + faults'.lag = 0
      PROVE  NoTwins'
  <2>1. /\ UNCHANGED <<lost, faults>> /\ Running(b)
        /\ work' = [work EXCEPT ![b] = "none"]
        /\ \A c \in Builds : c # b => image'[c] = image[c]
    BY <1>4, Executed DEF BuildSucceeds
  <2>2. \A c \in Builds : SameBuild(c)
    BY <1>4, DoneTyped DEF BuildSucceeds, SameBuild
  <2>3. Toll = 0 /\ faults.lag = 0
    BY <1>0, <1>4, <2>1 DEF Toll
  <2>4. lost = {} /\ Unmatched /\ AtMostOne
    BY <2>3 DEF NoTwins
  <2>5. \A n, p : Templates(n, p)' \subseteq Templates(n, p) \cup {b}
    BY <2>1, <2>2 DEF Templates, SameBuild
  <2>6. \A n, p : n # build[b].name \/ p # build[b].pool
                    => Templates(n, p)' \subseteq Templates(n, p)
    BY <2>1, <2>2 DEF Templates, SameBuild
  <2>7. Templates(build[b].name, build[b].pool) = {}
    BY <2>1, <2>4 DEF Unmatched
  <2>8. AtMostOne'
    BY <2>4, <2>5, <2>6, <2>7 DEF AtMostOne
  <2>9. \A c \in Builds : Running(c)' => c # b /\ Running(c)
    BY <2>1 DEF Running, TypeOK
  <2>10. \A c \in Builds : Running(c) /\ build[c].name = build[b].name => c = b
    BY <1>0, <2>1, <2>3 DEF Tracked
  <2>11. Unmatched'
    <3>1. SUFFICES ASSUME NEW c \in Builds, Running(c)'
                   PROVE  Templates(build[c].name, build[c].pool)' = {}
      BY DEF Unmatched
    <3>2. c # b /\ Running(c) /\ build[c].name # build[b].name
      BY <2>9, <2>10, <3>1
    <3>3. Templates(build[c].name, build[c].pool) = {}
      BY <2>4, <3>2 DEF Unmatched
    <3> QED  BY <2>2, <2>6, <3>2, <3>3 DEF SameBuild
  <2> QED  BY <2>1, <2>4, <2>8, <2>11 DEF NoTwins
<1>5. ASSUME NEW b \in Builds, BuildFails(b) PROVE Toll' + faults'.lag # 0
  <2>1. Toll' = Toll + 1 /\ faults'.lag \in Nat
    BY <1>5, FaultCounts, TypeStep DEF BuildFails, AllFaultKinds, TypeOK
  <2> QED  BY <1>0, <2>1
<1>6. ASSUME Crash PROVE Toll' + faults'.lag # 0
  <2>1. Toll' = Toll + 1 /\ faults'.lag \in Nat
    BY <1>6, FaultCounts, TypeStep DEF Crash, AllFaultKinds, TypeOK
  <2> QED  BY <1>0, <2>1
<1>7. ASSUME NEW b \in Builds, LateCall(b) PROVE Toll' + faults'.lag # 0
  <2>1. lost # {} /\ Toll' = Toll /\ faults'.lag = faults.lag
    BY <1>7 DEF LateCall, Toll
  <2>2. Toll + faults.lag # 0
    BY <2>1 DEF NoTwins
  <2> QED  BY <2>1, <2>2
<1>8. ASSUME NEW b \in Builds, OperatorDeletes(b) PROVE NoTwins'
  <2>1. /\ image' = [image EXCEPT ![b] = "deleted"] /\ UNCHANGED <<build, work, lost>>
        /\ Toll' = Toll /\ faults'.lag = faults.lag
    BY <1>8, FaultCounts, FaultTyped DEF OperatorDeletes, AllFaultKinds
  <2>2. \A c \in Builds : Running(c)' => Running(c) /\ SameBuild(c)
    BY <2>1 DEF Running, SameBuild
  <2>3. \A n, p : Templates(n, p)' \subseteq Templates(n, p)
    BY <2>1 DEF Templates, TypeOK
  <2> QED  BY <2>1, <2>2, <2>3, NoMoreTwins
<1>9. Toll' + faults'.lag # 0 => NoTwins'
  BY DEF NoTwins
<1> QED
  BY <1>1, <1>2, <1>3, <1>4, <1>5, <1>6, <1>7, <1>8, <1>9, ImageSteps

(* Without a failed build, a crash or a lagging lookup, whatever requests  *)
(* run at the same time, an image has at most one template in a pool.      *)
THEOREM DuplicatesHold == Spec => []DuplicatesNeedAFault
<1>1. Init => PoolHeld /\ NoTwins
  <2> SUFFICES ASSUME Init PROVE PoolHeld /\ NoTwins
    OBVIOUS
  <2>1. PoolHeld /\ lost = {} /\ Unmatched
    BY DEF Init, PoolHeld, Unmatched, Running
  <2>2. AtMostOne
    BY DEF Init, AtMostOne, Templates
  <2> QED  BY <2>1, <2>2 DEF NoTwins
<1>2. Spec => []Entries
  BY RefersInit, EntriesStep, TypeCorrect, PTL DEF Spec
<1>3. Spec => []Finished
  BY <1>2, RefersInit, FinishedStep, TypeCorrect, PTL DEF Spec
<1>4. Spec => []Tracked
  BY <1>2, RefersInit, TrackedStep, TypeCorrect, PTL DEF Spec
<1>5. Spec => []PoolHeld
  BY <1>1, PoolHeldStep, TypeCorrect, PTL DEF Spec
<1>6. Spec => []NoTwins
  BY <1>1, <1>2, <1>3, <1>4, <1>5, NoTwinsStep, TypeCorrect, PTL DEF Spec
<1>7. ASSUME TypeOK, NoTwins PROVE DuplicatesNeedAFault
  <2>1. SUFFICES ASSUME NEW n \in Names, NEW p \in Pools,
                        ~(faults.fail + faults.crash + faults.lag > 0)
                 PROVE  ~(Cardinality(Templates(n, p)) > 1)
    BY DEF DuplicatesNeedAFault
  <2>2. Toll + faults.lag = 0
    BY <1>7, <2>1 DEF Toll, TypeOK, AllFaultKinds
  <2>3. \A t, u \in Templates(n, p) : t = u
    BY <1>7, <2>2 DEF NoTwins, AtMostOne
  <2>4. Templates(n, p) = {} \/ \E t : Templates(n, p) = {t}
    BY <2>3
  <2>5. Cardinality({}) = 0 /\ \A t : Cardinality({t}) = 1
    BY FS_EmptySet, FS_Singleton
  <2>6. Cardinality(Templates(n, p)) \in {0, 1}
    BY <2>4, <2>5
  <2> QED  BY <2>6
<1> QED  BY <1>6, <1>7, TypeCorrect, PTL
=============================================================================
