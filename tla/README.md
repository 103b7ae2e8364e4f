# A verification project for omni-infra-provider-xoa

The provider turns Sidero Omni's machine requests into virtual machines of an
XCP-ng pool, through Xen Orchestra (XO). It is a single process, started by
`cmd/omni-infra-provider-xoa/main.go`, that hands a `Provisioner` to Omni's
infrastructure-provider library. The library runs, for every machine request
and concurrently, the provision steps `validateRequest`, `ensureTarget`,
`ensureImage`, `syncMachine` in order until all have returned nil, runs a step
again when it returns a `RetryInterval` or an error, and runs `Deprovision` in
the same way once the request is given up. Everything the provider knows it
learns from XO by name; what it keeps is a tracker of image builds in memory
and a small `State` record (Uuid, TemplateId) that Omni stores.

## Inventory

| Part | State | Operations | What is hard | What makes it correct |
|---|---|---|---|---|
| `provision.go`, `syncMachine` and `Deprovision` | the VMs and VDIs of XO, `State.Uuid`; locals: the VM `findVM` returned | `findVM`, `createVM`, `ensureConfigDrive`, power-on; stop, delete VIFs, disks, VM | each is a sequence of calls that are not atomic together; the process may die between two; a call may be sent twice, or executed after it was given up; guests crash | one VM per request, configured before its first power-on; a teardown leaves nothing and touches nobody else's; both complete |
| `image.go`, `ensureGoldenTemplate` and the build goroutines | `imageBuilds`, the `imageBuild` objects, the templates of XO | `LoadOrStore`, lookup, start a build, check it, drop a failed one; download, upload, create, attach, convert | requests that share an entry, builds detached from the request that started them, restarts, XO's cache lagging, operators deleting templates | a request gets a finished template of its own image; an image is built once; a failed build is retried |
| `xoclient.go` | `current`, the lock `mu` | `get`, `xoCall`, `reconnect`, `isConnectionClosed` | many callers find the same connection dead; dialing holds the lock; a dead connection says nothing about the call | one new connection per loss; one loss, where its error is recognised, is invisible; a call is sent at most twice; nobody waits forever |
| `cidata.go` | none | geometry loop, FAT16 image, long names | the FAT's size depends on the clusters it leaves; field widths, offsets and limits at the boundaries | the loop ends with a consistent layout; a driver finds every file by its long name; only what does not fit is refused |
| `helpers.go`, `data/` | none | defaults, validation | the same bounds in the schema, the checks and the defaults | the checks and the schema agree |
| `provision.go`, the steps | the step Omni is at, `State.TemplateId` | `validateRequest`, `ensureTarget`, `ensureImage` | each runs until it succeeds, and again after a crash; what it checked is used much later | no VM without valid data, existing targets and a template of its image; what is valid is served; anything can be given up |
| `main.go` | none after startup | flags, normalisation, service-account check, credentials, dial, run | values with stray whitespace; two sources of credentials; the process is started again whenever it ends | it starts whenever its environment can work, and only then |
| `api/`, `resources/`, `meta/` | the `State` record's type | generated code and declarations | - | - |

The parts interact by calls: the steps call `ensureTalosImage`, which shares
`imageBuilds` with its goroutines; every XO call of every part goes through one
`xoClient`; the steps of one request never run concurrently with each other,
those of different requests do.

`PROJECT.json` lists the components with their status, and under `hazards` each
of these difficulties at the line where it bites.

## Modules

| Module | Models | State and actions |
|---|---|---|
| `Machine` | `syncMachine`, `createVM`, `ensureConfigDrive`, `findVM`, `Deprovision`, and `xoCall` as they see it | `job[r]` is the reconcile of request r: the call it waits for, and its Go locals; one action per return of a call, named after the call and the branch the code takes; `vms` and `vdis` are XO; `late` holds abandoned calls |
| `ImageCache` | `ensureGoldenTemplate`, `buildGoldenTemplate`, `importGoldenTemplate` | `imageBuilds` is the `sync.Map`; `build[b]` an `imageBuild`, `work[b]` the call its goroutine waits for, `image[b]` what it has made in XO; `step` and `held` where a request is and the object it loaded |
| `RemoteCall` | what `xoCall` promises its callers | `phase`, `pending`, `executed` |
| `XoClient` | `get`, `xoCall`, `reconnect`, `isConnectionClosed` | `pc[c]` per goroutine; connections are numbered; `dead` and `closed` are those that died and those the SDK knows to have; `writer` holds `x.mu` while it dials |
| `MachineLife` | what `syncMachine` and `Deprovision` promise the other steps | `want`, `ready` and a machine that is absent, bare, configured, running or paused |
| `ImageService` | what `ensureImage` promises | the templates finished, the template each request was given |
| `ConfigDrive` | `computeCidataGeometry`, `buildCidataImage` and the writers | `spf` through the loop; per file `nextCluster`, `dirIndex`; `fat` and `img`, a function from byte offsets to what was written there; then, as operators, a driver that knows only `img` |
| `Startup` | `main.go` | the environment, and whether the process is up |
| `ProviderData` | `helpers.go`, `data.go`, `schema.json` | operators on a class's data |
| `Provider` | `ProvisionSteps` and the whole | `at[r]`, the steps Omni has seen succeed; the variables of `Startup`, `MachineLife` and `ImageService`; `clone[r]`, what the VM was made from |
| `MCMachine`, `MCImageCache`, `MCConfigDrive`, `MCProvider` | - | the instances TLC checks |
| `MachineProofs`, `MachineOnceProofs`, `MachineStrayProofs`, `ImageCacheProofs`, `XoClientProofs`, `RemoteCallProofs`, `ConfigDriveProofs`, `ProviderProofs` | - | the theorems |

`XoClient` refines `RemoteCall` (`SendsAtMostTwice`, with the mapping `Remote`);
`Machine` relies on what `RemoteCall` says: `Resends` is its `Resend`, `late`
holds the sendings that were given up. `ImageCache` refines `ImageService`
(`ServesImages`) and `Machine`, while no connection is lost, `MachineLife`
(`KeepsLife`, by the mapping `Stage`). `Provider` is the composition: it
INSTANCEs `Startup` and EXTENDS `ProviderData`, and takes what is behind
`ensureImage`, `syncMachine` and `Deprovision` from the two contracts, so that
what holds of it holds of the parts put together. The contracts are safety
only; the progress `Provider` assumes of each is a liveness property of the
module that keeps it (see Fairness).

### What the models abstract

*Machine.* A call that changes XO does so at the moment it returns, unless its
connection or its process is lost while it is outstanding; then it goes to
`late` and may execute at any later time, or never. A call that reads does so
when it returns, and the job keeps what it read. `Prompt = TRUE` removes the
longest delays: an abandoned call has executed or died before XO answers the
next call of the same request (XO works on what it has received while the
provider takes seconds to come back). With `Prompt = FALSE` nothing is assumed.
`CreateVm` is two calls in one `xoCall` (the SDK's `vm.create` and its follow-up
`vm.set`), so its retry starts with `vm.create` again. A VM has one boot disk
and one VIF, as `createVM` asks for. Ids are handed out in order and never
again. XO refuses to delete the VIF, a disk or the body of a VM that is not
halted, to start one that runs and to attach a disk that is attached.
`vm.delete` leaves a disk that was attached after the listing, since the loop
deletes what it listed. When a step returns an error Omni may or may not keep
what the step wrote to `State`: both are allowed. In `Machine` a lost
connection is per request; who redials is `XoClient`'s subject. Operators'
actions on VMs are not modelled, nor machines of other programs.

*ImageCache.* The five XO calls of a build are stages in a row; the download is
one stage. A failed call may have taken effect. The `imageBuild` objects are
numbered and one is reused only when nothing refers to it and it left nothing in
XO. The empty-answer case of the lookup is the SDK's `NotFound`. The SDK call's
answer may lag behind a finished template (`lag`). Templates are identified by
the build that made them.

*ConfigDrive.* An offset of the image holds one thing: the boot sector, a copy of
the FAT, a directory entry, or one cluster's share of a file. A share is named
by its file and its number, so that a wrong order or a wrong cluster shows. The
fields that Go writes as 8 or 16 bits are taken modulo their width, as are
cluster numbers. `lfnChecksum` is a function of the short name, and the model
keeps that name in its place; two short names with one checksum would not be
told apart by a real driver either. The dimensions are constants in the source
and parameters here, because the source's comment promises that they may be
changed. The source keeps `neededSectors` in a local; a round of the loop is one
`Grow`.

*Startup, ProviderData, Provider.* A value of the environment is what the code
can tell of it: its text without whitespace is nothing, right or wrong, and it
has whitespace nowhere, around or inside. An id is nothing, blank, known to XO,
known but padded, or unknown; XO refuses to resolve anything but a known one.
The empty string is called "empty". A field that a class leaves out is what Go
unmarshals it to, an empty string or 0, and `SchemaAccepts` refuses it as the
schema does, which requires it. The code serves one such class, whose
architecture is missing: `applyDefaults` (`helpers.go:51-55`) makes it "amd64" before
the checks, although the schema refuses it (`schema.json:35-39`, `48-56`) and
`configuration.md:49` calls it required there, against "Data and schema.json must
remain in sync" (`data.go:15`). So `CreatesOnlyAccepted` speaks of the data with
that default filled in, which is what the VM is made from, and would not hold of
the data as given; `Served` asks only for what the schema accepts as given.
Whether XO's objects exist does not change while a request is provisioned, nor
does its class's data. Omni keeps, across
restarts, the step a request is at and its `State`; a step that was cut off
after it wrote `TemplateId` may or may not have left it. Values on the command
line and the TLS switches are not modelled. `StrayBuildEnds` are the templates
that abandoned builds still finish; operators' deletions are `ImageCache`'s.

*XoClient.* A connection may die at any time; a call sent on it may or may not be
executed, at any time (`pending`). What xoCall makes of an error depends on
`isConnectionClosed`, which knows `jsonrpc2.ErrClosed` and five texts, and is
wrong either way. `misread` are the errors that only look like a lost
connection, such as the upload's "unexpected EOF" (`Misread`). `Unrecognised` are
the losses it does not know, such as "connection reset by peer", "i/o timeout" or
a bare "EOF": the caller gets the error, nothing is replaced and nothing is sent
again. So a single loss can be seen by a caller, although `xoclient_test.go:57`
wants a dead connection replaced "without the caller seeing an error"; only one
with a known error (`Closed`) is invisible. Once the SDK has noticed that a socket
is gone (`Notices`), every call on it ends with `jsonrpc2.ErrClosed`, which
`xoclient.go:20-26` reports; until then a dead connection may return any number
of unknown errors. In `Machine` such a loss is the `ConnectionLost` whose step fails
without a resend; its call may still execute (`late`). A caller may read the
current connection between the failure of another's call and its `reconnect`.

## Runs

The larger runs (`machine_safe`, `machine_faults`, `image_cache_safe`, `xo_client`,
`provider`) take one to two minutes on two workers, the others seconds.

| Run | Bounds | What it shows |
|---|---|---|
| `machine_safe` | 2 requests, 2 VMs, 4 VDIs, 2 faults of crash, failed call, guest crash; `Prompt` | as long as no connection is lost, one VM per request, one drive per VM, nothing left after teardown, ready only with the right Uuid, and a request has no more stray uploads than there were faults |
| `machine_faults` | the same, 1 fault of lost connection, crash, guest crash, no `Prompt` | what survives retried and arbitrarily late calls: configured before power-on, no teardown of the wanted, as many strays as faults at most, and the invariants of the proofs |
| `machine_live` | 1 request, 4 faults, `Prompt`, fairness | provisioning and teardown complete, and every step is a step of `MachineLife` |
| `image_cache_safe` | 3 requests, 2 images, 4 builds, 1 fault of any kind | the right and finished template, one build per image until one fails, one leftover VDI or seed VM per fault, and the refinement of `ImageService` |
| `image_cache_live` | 2 requests, 1 image, 5 builds, 2 faults, fairness | every request gets its template, or its pool has two of the name |
| `xo_client` | 2 callers, 3 losses, 1 failed redial, fairness | the lock is always released, one dial per loss, no caller sees a single loss whose error is known, recovery whatever the errors say, and the refinement of `RemoteCall` |
| `config_drive` | the source's drive (512 B sectors, 24576 of them) and 76 small ones (64 B sectors; 8-12, 36-42 and 70-76 of them, 1 or 2 per cluster, 4 or 8 root entries), 6 sizes for each of the 3 files | the geometry is consistent and found in two rounds, a driver reads everything back, refusals are exact, the loops end |
| `provider` | 2 requests, 4 templates, 2 faults, 141 environments, 28 kinds of request, fairness | no VM without targets, the right template, and data that are valid once the default is filled in; the process comes up whenever its environment can work, and only then; what the schema allows is served; everything can be torn down |
| `machine_retried_create` | 1 request, 1 lost connection | violated: the retry of `vm.create` makes a second VM of the name |
| `machine_unpinned` | 1 request, 1 crash | violated: a VM whose `vm.set` never ran is adopted and powered on |
| `image_cache_pools` | 2 requests, 2 pools, no fault | violated: the other pool's template is handed out |
| `image_cache_stale_holder` | 2 requests, 1 failed build | violated: a stale holder deletes the retry's entry and the image is built twice at once |

The four violated runs are real disagreements between the documents and the
code; `findings` quotes both. Where a weaker statement does hold, a passing run
checks it: `OneVmPerRequest` without lost connections, `OneBuildUntilOneFails`,
`DuplicatesNeedAFault` for the templates that builds leave, `OneKnownLossIsInvisible`
and `Recovers` for lost connections, `CreatesOnlyAccepted` for the schema, and
`StraysNeedFaults` and `OneLeftoverPerFault` for what nobody deletes.

*Why the bounds are enough.* Two requests are what it takes to confuse one with
another; two callers, three losses let a caller be stale twice and lose its
retry as well. Two VMs let each request have one or one request have both; four
VDIs are two machines' boot disks and config drives, or one's and what was left
behind of the other's. Two faults allow a fault during the recovery from the
first; a lost connection that is not redialed ends like any failed call, so
`machine_faults` needs no kind of its own for those. A pool that is full refuses to create
(`Accepts`), which is also what a real one does. A request that needs an
`imageBuild` waits until an object is free (`Fresh`); that the live run passes
shows that five are enough for two faults, since a request that waited forever
would violate it. The sizes of
`config_drive` are an empty file, one byte, a cluster and a cluster and a byte
(64, 65), several clusters, and more than the drive has; the small drives cross
the sector counts at which the FAT needs a second and a third sector, and a root
directory of 4 or 8 entries runs out with the second or the third file. They have
fewer clusters than FAT16's 4085, within which `cidata_test.go:77-82` keeps the
source's drive; the modelled driver takes every volume for FAT16, as it is right
to for the source's drive, and does not choose FAT12 by the number of clusters. In
`provider`, each field of a class takes every value around its bounds and each
environment variable every value, one at a time, beside both names of the
endpoint and all credentials together; the fields are checked independently in
the code, so that combinations of bad ones add nothing. Four templates are two
for each of the two faults that make stray ones. `MaxFaults`, `MaxLosses`, `MaxRedials`, `VmIds`, `VdiIds`,
`Builds`, `TemplateIds` and `Sizes` are the only bounds.

*Fairness.* Omni re-runs a request's steps until they have all returned nil and a
teardown until `Deprovision` has, so the worker of a request is weakly fair
(`Worker`, `EnsureImage`, `Step`). XO, the image factory and `connect()` answer,
for the SDK's connections end with an error when the peer is gone; a call that
hangs on a live connection is outside the models. The SDK notices the end of a
dead socket (`Notices`), as its reader and TCP do in time; an error that
`isConnectionClosed` knows is promised only after that, so `Recovers` rests on it. An abandoned call does not
stay undecided, and XAPI destroys a paused domain after a guest crash. Faults,
teardown requests, lost connections and operators have no fairness. `machine_live`
leaves lost connections out, because `machine_retried_create` shows that two VMs
of one name block both paths until an operator removes one.
`provider` assumes of its parts what their own runs show: a build that is waited
for ends (`ImageBecomesReady`), `syncMachine` and `Deprovision` get on
(`ProvisioningCompletes`, `TeardownCompletes`). The process is started again by
`restart: unless-stopped` (`deploy/docker-compose.yml:5`), so `Start` is weakly
fair; crashes are not. `Served` excepts an image with two templates in the pool,
as `ImageBecomesReady` does. `config_drive` has fairness because a sequential
function runs until it returns. Both may stop: a finished image takes no step,
nor does a provider whose environment cannot work.

## Proofs

All are checked by TLAPS from nothing, for any number of requests, VMs, VDIs,
builds, callers and faults, and assume only the named assumptions on the
constants (`MachineAssumption`, `ImageCacheAssumption`, `XoClientAssumption`,
`ConfigDriveAssumption`, `FieldsAssumption`, `MaxIntAssumption`,
`ProviderAssumption`). `ConfigDriveAssumption` asks of a drive what the source's
has: sectors of even size, a root directory of whole sectors, and room for the
areas before the data; `FieldsAssumption`, that its dimensions fit the fields of the
boot sector and its cluster numbers 16 bits. Every safety invariant, action
property and refinement that a passing run checks has a theorem. Those of
`MachineOnceProofs` about a single VM have two hypotheses more, which their
statements spell out and the paragraph on that module explains; no other theorem
has any.

*MachineProofs.* `TypeCorrect` is inductive by itself. `ConfiguredAtPowerOn` is
not: a running machine keeps its drive only because nothing but the deletions
of `Deprovision` and `vm.delete` detach a disk, and these must be shown to work
on the request's own VM. That is `Ownership`: every outstanding or abandoned
call works on a VM and a VDI of its own request, every attached disk belongs to
the request its VM is named after, and a deprovisioning call means that the
request was given up. `Ownership` is inductive over `TypeOK`; it gives
`NeverDestroysWanted` at once. With it, the drive seen by `ensureConfigDrive`
cannot go away while the machine is wanted, so `StartsAreConfigured` (every
power-on that is outstanding or abandoned is for a VM with its drive) is
inductive, and `ConfiguredAtPowerOn` follows by one more induction, in which only `vm.start` and
the steps that detach a disk matter. None of it needs `Prompt`: these hold with
lost connections and arbitrarily late calls.

*MachineOnceProofs.* `Prompt` and `"drop" \notin FaultKinds`: an abandoned call is
decided before the next call of its request is answered, and no connection is
lost under a call. Without the second `OneVmPerRequest` is false
(`machine_retried_create`); without the first a crash can leave a `vm.create`
undecided while the next reconcile finds no VM and creates its own. Crashes,
refused calls, guest crashes and any number of requests remain. `PhasesHold` needs
neither hypothesis: no call of `syncMachine` is made for a request one of whose
`Deprovision` calls is still abandoned or whose VM was deleted, `Uuid` is a VM of
the request, disks are on VMs that exist. `AllOnce` (`OnceHolds`) is the inductive
invariant, one conjunct per lemma: a request has at most one abandoned
call, and then no other that changes XO; a call fits what XO holds, so that
`vm.create` finds no VM of its name, an upload or attach no drive, `vm.start` the
drive and `vm.delete` no disk; a request is given one VM in its life; that VM has
one drive at most, and has it when it runs; and a teardown that has ended has no
VM and no call. `OneVmHolds`, `OneDriveHolds`, `NothingLeftHolds` and `ReadyHolds` follow from
it without a further induction. `LifeKept` is the refinement of `MachineLife`:
since a request has one VM, its `Stage` is that VM's, and each call's effect is one
of the contract's actions; what a reconcile only reads is a stutter.

*MachineStrayProofs.* `StraysHold` has no such hypothesis. The invariant counts, for
each request, the config drives that are stray or will be: unattached and not
about to be attached by the live job, or on a VM whose deletion has not seen
them; with them the abandoned uploads, each of which may still become one. The
count never exceeds the faults: only a mishap abandons a call, and it abandons one
of a request.

*ImageCacheProofs.* `ReturnsItsImage` rests on what a tracked, held or done
`imageBuild` says of its name (`Entries`) and on the templates of finished
builds being converted (`Finished`). `OneBuildUntilOneFails` rests on `Tracked`:
as long as no build failed, a build that runs in a live process is the tracker's
entry of its name, so a second cannot be stored beside it; a failure lets a
stale holder untrack it, which is the violated run. `ServesImagesHolds`: with the
same invariants every step is a `Finish`, a `Give` or a stutter of
`ImageService`; what needs them is that an object is reused only while it has made
nothing, so that a finished template keeps its name, and that a done build names
a finished template of that name. `OneLeftoverHolds`: what has ended early or may
still take effect of an image (`Broken`) is nothing before the first failure or
crash and one build at most after it (`Interrupted`); the step that breaks a build
needs `Tracked`, by which no second one of its image runs. `DuplicatesHold`: while
nothing failed, crashed or lagged, no call is undecided, a build that runs is of a
name its pool has no template of, and templates of one name in one pool are one
(`NoTwins`); a lookup that finds nothing then really means that there is none, for
the pool the build keeps (`PoolHeld`).

*XoClientProofs.* `Replaced` says that the current connection is the latest
dialed and that every earlier one had an error; it gives `OneDialPerLoss` and
`OneKnownLossIsInvisible`. `Sent` says which sendings of a call can be outstanding and
that a call with none was executed; with `Replaced` and the type invariant every
step is a step of `RemoteCall` or a stutter: `Implements`. `RemoteCallProofs`
proves that whoever keeps `RemoteCall` executes a call at most twice.

*ConfigDriveProofs.* `GeometryHolds`: the loop is left with `Needed(spf) <= spf`,
and what remains is integer division: an entry for each cluster, areas in a row,
less than a cluster unused. `ResizedOnceHolds`: `Needed` does not grow with the
FAT, so the size computed for the first one is enough for the second.
`Image` is the inductive invariant of what is written: when the loop is at a file,
`nextCluster` and `dirIndex` are what the files before it take (`ClusterOf`,
`EntryOf`), their entries, chunks and chains are where these say, nothing else is in
the directory, and all lies in its area. A step keeps it because the places of
the file it writes are above those of the files before and the areas do not
overlap (`Apart`), which is where the geometry is needed, and because no cluster
number that passes the check is renumbered by its 16 bits (`ChainIs`, `FitsMeans`).
`TypeCorrect` and `RefusedHolds` follow: a refusal is of a file whose clusters or
entries, after those before it, are more than there are. `ReadsBackHolds` then shows that
the driver, which computes every place from the boot sector, looks where things
were written (`Driver`), takes exactly the short entries for files (`ListedAre`),
reads each one's name (`NameHolds`) and follows its chain to the end
(`ContentHolds`). That the chain is followed for any number of clusters
(`Followed`) is an induction, which is done by the least cluster that would be out of
place (`Least`), as induction theorems that take an operator cannot be used.

*ProviderProofs.* `StepKinds` says what a step can be as far as the properties
can tell; `TypeCorrect` follows by one case for each. `Shown` is the inductive
invariant: what a request has shown by being at a step (its data valid, its
targets existing, its template chosen and of its image), and that a VM means
that it got to the last step and was made from the template of `State`. Each
earlier check stays true because nothing changes the request, a template's image
or, once at the last step, `TemplateId`. `CreatesOnlyAcceptedHolds` and
`ClonesItsImageHolds` follow. `RunsOnlyUsableHolds` rests on `StartIsUsable`: what
the code checks after normalising implies what the documentation says of the
values as they were given.

*Only model-checked.* The liveness properties, for fairness is out of the prover's
reach: `TeardownCompletes`, `ProvisioningCompletes`, `ImageBecomesReady`, `CallsReturn`,
`Recovers`, `Terminates`, `StartsUp`, `Served` and `TornDown`. The four violated
properties are refuted by TLC. That `Provider` may take `MachineLife` and
`ImageService` for its parts is proved of each contract by itself (`LifeKept`,
`ServesImagesHolds`); no theorem composes the modules into one.

## Plan

1. `Machine` - done: the lifecycle, its safety, liveness and core proofs.
2. `ImageCache` - done: the tracker and the builds.
3. `RemoteCall`, `XoClient` - done, with the refinement.
4. `ConfigDrive` - done: the volume, a reader, its bounds, and theorems for all of it.
5. `Startup`, `ProviderData`, `Provider` - done: the composition over the contracts
   `MachineLife` and `ImageService`, which `Machine` and `ImageCache` keep.
6. Theorems - done: every safety invariant, action property and refinement of the
   passing runs.
7. Left: `KeepsLife` checked with two requests at once (it is proved for any number);
   what survives of `OneVmPerRequest` without `Prompt`, as `StraysNeedFaults` does for
   drives: no more VMs of a name than abandoned or retried `vm.create`s.

## Not modelled

A config drive attached late, after the next reconcile uploaded its own
(`provision.go:302`), which `Prompt` excludes: without it a VM can have two, which no
property counts. Targets that are deleted after `ensureTarget` saw them
(`provision.go:112`): XO refuses the later calls, which fail.
The generated protobuf code and declarations; `describeBase64Fault` and
`noCloudMetaData` (wording); command-line values and TLS switches; the inside of
the download and of the decompression, whose outcome is one call's; the Omni
library and Xen Orchestra beyond what the code relies on. `createVM` multiplies
memory and disk size in `int` (`provision.go:226`), which overflows only for
sizes no host has; sizes stay in the units of the class. An XO call of a build
that hangs has no deadline in the code and no counterpart in the models. A
template that an operator deletes stays in the tracker until a restart
(`image.go:224`): `ImageCache` has it; `docs/images-and-extensions.md:103-112`, on
deleting templates, does not mention it.
