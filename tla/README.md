# TLA+ models of tectonic-torcx

tectonic-torcx prepares Container Linux machines for Kubernetes: it finds the
docker version that the cluster's Kubernetes accepts, puts its image into the
torcx stores of the OS versions the machine may boot, selects it for the next
boot and, where necessary, has the machine rebooted. This directory models the
parts of it that decide, download, persist and wait. TLC checks the models on
small instances; TLAPS proves their safety properties for every value of the
constants.

## The system

| Part | State it keeps | Operations | Hard part | What makes it correct |
|---|---|---|---|---|
| Package manifest (`internal/package_manifest.go`) | cache of manifests per OS version | `GetPackageManifest`, `LocationFor`, `ValidateHash` | which of several locations is meant; a release published anew between two requests | a location belongs to the wanted package and version, and carries the digest of its entry; only signed manifests are relied on |
| Version strategy (`strategy.go`) | none | `PickVersion`, `shouldSkip` | two OS versions, only one of which may offer a docker | the most preferred version the coming OS offers; only OS versions that offer it are served |
| Torcx store and profiles (`torcx.go`) | store files, profiles, next-profile | `InstallAddon`, `AddonInStore`, `copyToStore`, `UseAddon`, `profileName`, `TorcxGC` | a failure or kill between any two effects, and the call after it | success means that torcx can use the image on the next boot; nothing foreign in the store; an operator's profile is kept |
| Fetching (`fetch.go`) | temporary files | `FetchAddon`, `tryFindExisting`, `fetchURL`, `gpgVerify` | failed, damaged or partial downloads | the image handed on is whole and vouched for by a signature; no temporary file stays; failures have causes |
| Application flow (`app.go`, `cli/*`) | `App`, `kubelet.env`, cleanup unit, annotation | `Bootstrap`, `UpdateHook`, `GatherState` | steps that cannot be undone, repeated hooks, reboots | a node due for a reboot has its docker; no kubelet without it |
| OS update watcher (`update_engine.go`, with the D-Bus client in `vendor/`) | channels, wait group, flush flag | `OSUpdate`, `waitForUpdate`, `ReceiveStatuses`, `inWorker`, `Close` | four concurrent parties, bounded channels, a lock, a bus that may go away | a verdict is true, no staged update is missed, the call ends |
| Docker cleanup unit (`docker.go`) | a unit file in `/run` | `EnableDockerCleanupUnit` | ignored errors | data of a newer docker is gone before an older one starts |
| Kubernetes access (`kube.go`) | `kubelet.env`, node annotation | `GetKubeVersion`, `WriteKubeletEnv`, `WriteNodeAnnotation`, `retry` | outages, partial writes, answers that get lost | the hook works for the version the bootstrapper found; node-local data suffices; the API server comes first |
| Runtime mappings (`versions.go`) | none | `VersionFor`, `GetVersionManifest` | fallbacks | as above |
| Node annotation update (CLUO's `k8sutil`) | the Node object | `SetNodeAnnotations`, `UpdateNodeRetry`, `RetryOnConflict` | concurrent writers, late requests | one atomic update; no other owner's update is lost |

How they interact: `Bootstrap` and `UpdateHook` call `GatherState` (cluster
version, mappings, running OS), ask `update_engine` for the coming OS over
D-Bus, hand docker versions to `PickVersion`, and its result to `InstallAddon`,
which uses the manifests' locations and the fetcher and writes the store and the
torcx profile. `Bootstrap` then writes `kubelet.env`, on whose absence its own
systemd unit depends, and reboots; the hook reads the Kubernetes version from
that file later, collects garbage and annotates the node, on which CLUO reboots
it. `update_engine` stages updates at times of its own, torcx applies the
selected image at boot, an operator can select another profile, releases are
published anew, the API server comes and goes, and any of this can be
interrupted.

## Modules

| Module | Models | Kind |
|---|---|---|
| `PackageManifest` | manifests, `LocationFor`, `ValidateHash` | operators |
| `Strategy` | `PickVersion`, `shouldSkip` | operators, extends `PackageManifest` |
| `StrategyProofs` | what `LocationFor` returns and how `PickVersion` ends | proofs |
| `StrategyCheck` | every input of `PickVersion`, and what is expected of the result | state machine of one step |
| `StrategyCheckProofs` | these expectations, for all inputs | proofs |
| `TorcxInstall` | `InstallAddon` with everything below it, called again and again | state machine, extends `Strategy` |
| `AtomicInstall` | what `InstallAddon` promises to its callers | abstract specification, which `TorcxInstall` refines |
| `TorcxInstallProofs` | the store, the profiles and the refinement | proofs |
| `TorcxNode` | a machine over its life: `Bootstrap`, `UpdateHook` and their surroundings | state machine, extends `TorcxInstall` and takes its steps |
| `TorcxNodeProofs` | the machine, on top of the store's invariant | proofs |
| `Fetch` | `GetPackageManifest`, `FetchAddon`, `fetchURL` while the bucket is published to | state machine |
| `FetchProofs` | its safety properties | proofs |
| `KubeSources` | `GatherState`, `GetKubeVersion`, `VersionFor`, `WriteKubeletEnv` through outages and upgrades | state machine |
| `KubeSourcesProofs` | its safety properties | proofs |
| `AtomicAnnotation` | what an update of the annotation promises | abstract specification |
| `NodeAnnotation` | the read-modify-write with its two nested retries, among other writers | state machine, refines `AtomicAnnotation` |
| `NodeAnnotationProofs` | its safety properties and the refinement | proofs |
| `UpdateWatch` | `OSUpdate` and the D-Bus client, with `update_engine` | state machine |
| `UpdateWatchProofs` | its safety properties, and that its steps run out | proofs |
| `MC*` | small values for the constants | |

`PROJECT.json` maps each definition to its lines.

**TorcxInstall.** A step is one effect on something that survives the process.
`store[o][r]` is the file of docker `r` in the store of OS `o`: absent, an image
with a digest, or `Damaged`. `pc` walks through the loop of `InstallAddon`
(`loop`, `fetch`, `open`, `write`), then `UseAddon` (`newProfile`, `useImage`,
`setNext`). Opening without `O_TRUNC`, the swallowed error of `OpenFile`, the
ignored error of `torcx image list`, and the partial file a failed copy leaves
are in the actions as they are in the code. Each failure is a `Fault` of a named
kind; a configuration says which kinds may occur (`Faults`) and how many
(`MaxFaults`). A `Crash` ends the process anywhere; files and profiles stay.
Between calls an operator may select a profile. `ExistingCopies` are the files
`tryFindExisting` may return, any of them; the fault "walk" makes it miss them
all, as an error that ends its walk does. The step `Download` is a whole fetch;
how that goes is `Fetch`. `DockerLocation` is `LocationFor` of each manifest,
computed once.

`AtomicInstall` is the contract: a call provides its docker version for one OS
version after the other, then one step switches the next boot to it, and only
then it says "ok". `Contract` maps `TorcxInstall` to it: `usable[o]` is the set
of docker versions OS `o` can boot into (`Ready`), `boot` the image of the
selected profile, and the values of `pc` within a call are "busy". Copies
that complete are the contract's `Provide`; `UseImage` on the selected profile,
or `SetNext`, is its `Switch`; everything else that may happen in a call, kills
included, changes nothing the contract can see or ends the call.

**TorcxNode** uses those steps between `PickInstall` and `Installed`, so a call
is always one that `PickVersion` asked for. `step` is the position in
`Bootstrap` or `UpdateHook`. The machine has a running OS, a staged one, the
docker that torcx applied at boot, and the set of dockers that wrote to
`/var/lib/docker` since it was last emptied. Reboots come from the bootstrapper,
from CLUO, or from a power failure, which does not run the cleanup unit. The
whole of `OSUpdate` is one step here (done, idle, or failed; how it waits is
`UpdateWatch`), and so are `GatherState` (`KubeSources`) and the annotation
(`NodeAnnotation`).

**Fetch.** For each OS version the bucket has a manifest, its signature and an
image, each of a generation, and each replaced on its own; generations that
agree fit together, and a body cut off unnoticed (`Cut`) fits with nothing. A
fetch is one request after another, each with its own `retry`; between any two
the bucket may change. A program keeps its cache of manifests, and the next one
starts with none. Two history variables say what a failure may be blamed on:
`misses`, the failed requests in a row, and `cause`. `tmpfile` is the temporary
file of the program's last `FetchAddon`, which `copyToStore` removes once it has
opened it, if it is below `/tmp/` (`inTmp`: no other `TMPDIR` is set).

**KubeSources.** A version is its minor version and the character in front of
its build metadata, "+" in a version and "_" in the tag of an image, since that
is all the conversions touch and the mapping looks at. The API server goes up
and down and the cluster is upgraded while a program runs. The bootstrapper runs
while there is no `kubelet.env`, which it may fail to create (`noEnv`) or leave
behind cut off; the hook runs afterwards and reads it.

**NodeAnnotation.** Instead of a number for `resourceVersion`, each update
request records whether the version it was read with still is the Node's
(`current`): versions never repeat. A request whose answer is lost may have been
served, may get lost, or may stay in `delayed` and arrive at any later time.
`retry` (5 tries) encloses the backoff (4 steps), which is used up by conflicts
only. `AtomicAnnotation` has one step that sets the annotation and one that
returns; `IsAtomic` maps every state of `NodeAnnotation` to it, `pc` to
`outcome` once the call has returned.

**UpdateWatch** has `main` (`OSUpdate`, `waitForUpdate`), the receiver
goroutine, godbus' `inWorker`, and the daemon. Channels are bounded sequences
and a send to a full one blocks; `locked` is `signalsLck`, which `inWorker`
holds while it sends and `Close` needs. Answers and signals share one
connection, so an answer behind a signal that cannot be delivered waits. A nil
signal from the closed channel and a send on it are panics and end the process.
The connection is closed by main's deferred `Close`, or by `inWorker` itself
when it cannot read any more (`ReadFails`, wherever the others are): that closes
`Client.ch`, too, and fails the calls that still wait for an answer (`Failed`);
from then on a call fails at once, main's `Close` does nothing, and what the
daemon says is lost. `wasIdle` is a history variable: the daemon has reported
that it is idle.

Taken from outside of `src/`, from how it is used: torcx at boot
(`DockerAtBoot`), systemd, CLUO (starts the hook on a node of the cluster with a
staged update; removes the annotation when it has rebooted), `update_engine`'s
operations, the bucket and the API server, and the operator.

## Runs

| Run | Question | Result |
|---|---|---|
| `StrategyPick` | Is the picked version the most preferred one, are exactly the right OS versions served, is nothing downloaded that ships with the OS? | yes, for all pairs of 6 manifests on 3 OS versions (one before the first torcx release) and 4 preference lists; 20,736 states |
| `InstallFaults` | With any two faults of 9 kinds, through any sequence of calls, and whether or not the search for existing copies finds them: no foreign image in the store, no good image destroyed, profiles of operators kept? | yes; 1.67 million states |
| `NodeReady` | Through updates staged at any time, hooks that run again with other preferences, garbage collection, kills and power failures: does a node due for a reboot have its docker, is `InstallAddon` for its two callers one atomic switch of the next boot to what is there (`InstallIsAtomic`), is its success worth its name, does `kubelet.env` appear only then, does the bootstrapper reboot only with the cleanup of docker's data enabled (`CleanupBeforeReboot`), are images of bootable OS versions kept, do the "should not happen" returns really not happen? | yes, as long as writing into the store itself does not fail, and unless enabling the cleanup fails, which is only logged; 413 thousand states |
| `FetchRepublished` | While objects are republished one by one, and requests fail or are cut off: is a cached manifest signed, is an image that is handed on whole and vouched for by a signature, do temporary files go, do programs fail for a cause only, and does a fetch end? | yes, but for files that `copyToStore` cannot open or that are not below `/tmp/`; 68,854 states |
| `GatherSources` | Through outages, upgrades, and files that are missing, unparsable or cut off: does the hook agree with the bootstrapper, do the installer's files suffice without an API server, does what the bootstrapper leaves suffice for the hook, is a working API server preferred, does gathering end? | yes; 131,418 states |
| `AnnotationRace` | Among other writers, with conflicts and lost and late requests: is writing the annotation one atomic update that ends, and is nobody else's update lost? | yes; 16,066 states |
| `WatchSafe` | Is a "reboot" verdict true, does an "idle" verdict go by a report of the daemon, is the news of a staged update, or that there is none, always still on its way to a waiting main, does main not close the client under a receiver it has heard of, and does anything but a full channel make `OSUpdate` hang, or anything but the loss of the bus make it panic? | yes (and no to the last), with channels of 3 and 1 that do fill up, a daemon that is idle or downloading at the start, errors, a check it begins by itself, and a bus that may be lost at any time; 4.1 million states |
| `WatchEnds` | Does `OSUpdate` end, and does no step lead round in a circle? | yes, or with a panic after the bus is lost, with the real capacities, 10 and 32, and no more announcements than one update causes; 266 thousand states |
| `InstallPartialCopy` | Is success worth its name if a copy may fail? | **no** |
| `NodeHookCleanup` | Does a change of docker by the hook happen on clean data? | **no** |
| `WatchFlush` | Are the statuses in front of the marker flushed, as the comment says? | **no** |
| `WatchPanic` | Does the wait group keep the receiver from panicking? | **no** |

### Bounds

Two docker versions and three OS versions (before the running one, running,
coming) are what an order of preference, a fallback and garbage collection
need; two OS versions suffice for `InstallAddon`, which treats them one by one
(`MaxTargets` = 2 is also the most that `PickVersion` ever returns), and for
`Fetch`, which adds the cache of one to the requests of the other. The manifests
cover each case `LocationFor` tells apart: missing entry, missing location,
download, shipped with the OS, another build under the same version. Two faults
are enough for "fail, then fail or be killed in the repair"; the theorems hold
for any number. `NodeReady` has one profile beside the vendor's;
`InstallFaults` also one of the operator's own.

In `Fetch`, `MaxGeneration` = 2 is one republication of each object: enough for
every pair of them not to fit together. `KubeSources` has two minor versions, so
that a mapping may have one and not the other, and one bad source of each kind.
`NodeAnnotation` has the hook's annotation and one of another owner, who is all
the others since they write one at a time. `Tries` and `Steps` are the code's
(5, 3, and 5 times 4). In `UpdateWatch` what bounds the state space is how often
the daemon speaks (`MaxChecks`, `MaxProgress`, `MaxErrors`); `WatchSafe` scales
the channels down so that they fill up within these bounds. In `WatchEnds` they
cannot: a daemon that is checking when `OSUpdate` connects has at most 3 changes
to announce, the check that `AttemptUpdate` asks for at most 4, two calls of main
are never under way at once, and the receiver's call counts twice, since it makes
up a status of its own if the bus is lost while its request is still there: 10 in
all. That is what `WatchNeverAllWaiting` asks of the capacities, plus 4 for each
check the daemon begins by itself and 1 for each announcement of progress.
`WatchFlush` and `WatchPanic` need no more than an idle daemon that answers
without an error on a bus that stays.

### Fairness

All of it is weak fairness of one party as a whole, whose steps are alternatives
of one call or goroutine at a time.

- `UpdateWatch`: each goroutine (the Go scheduler does not starve a runnable
  one, and where it has a choice in a `select` either way is progress), and the
  daemon (update_engine answers calls, by an error in the worst case, and a check
  or download that runs comes to an end; announcements are finite). Nothing is
  assumed of the bus: `ReadFails` may happen or not.
- `Fetch`: `Calls`. A request is answered, in whatever way, or fails. The
  default client of `http.Get` sets no limit of its own, so this assumes that no
  server keeps a connection open for ever without sending. Nothing is assumed of
  publishers or of new programs.
- `KubeSources`: `Gather`. Requests time out; nothing is assumed of the API
  server, which may go up and down for ever.
- `NodeAnnotation`: `Hook`. Every call comes back, at the latest when TCP gives
  up. Nothing is assumed of the server or of other writers, who may cause a
  conflict each time.

Deadlock is not checked in `UpdateWatch`, where all parties stop when `OSUpdate`
has returned or panicked, nor in `StrategyCheck`, which takes one step.

## What the violated runs show

- `InstallPartialCopy`: a copy that fails leaves a partial file under its final
  name; in the next call `AddonInStore` takes it for the image, nothing is
  copied, and `InstallAddon` succeeds.
- `NodeHookCleanup`: `UpdateHook` may select an older docker, but only
  `Bootstrap` ever enables the cleanup unit.
- `WatchFlush`: the comment at `update_engine.go:168` says that the channel is
  flushed "until our manual status is received". The condition below it skips the
  first status that is not the marker and then stops skipping: in the trace the
  receiver's answer is skipped, and the announcement of "idle" behind it, still in
  front of the marker, ends the wait. Skipping everything would not be right
  either: the announcement of a staged update can stand before a marker that was
  fetched earlier, which is why `NoVerdictMissed` counts what is skipped.
- `WatchPanic`: `wg.Add(1)` is inside the goroutine; if main is done first,
  `wg.Wait` returns at once, the client is closed, and the receiver reads a nil
  signal.

Seen in the code while modelling, without a run of their own:

- The coming OS version is read once. An update staged later, but before the
  bootstrapper's own reboot, is booted without its docker.
  `RebootOnlyWhenReady` is therefore about `ExpectedOS`, the OS version the
  bootstrapper knows of; with `BootOS` in its place `NodeReady` fails.
- `AttemptUpdate` only schedules a check, so an "idle" verdict says that
  update_engine has been idle, not that it has looked (`IdleVerdictTrue`).
- When the bus goes away `inWorker` closes the connection by itself
  (`conn.go:355`), and a receiver that waits for a signal reads nil and panics,
  wherever main is: no wait group helps against that. `StuckOnlyForRoom` and
  `WatchEnds` allow a panic only then, `ClientOutlivesReceiver` is about what main
  does.
- If main's `GetStatus` fails, it closes `stopCh` and the client without waiting
  for the receiver (`update_engine.go:157`), which may panic just so; `WatchPanic`
  finds that with `MaxErrors` = 1, too.
- After its verdict (or before it sends its marker) main does not read
  `statusCh`; when that is full, the receiver blocks on it, outside of the
  `select` that would tell it to stop, and main waits for the receiver for ever.
  That a full channel is the only way to hang is `StuckOnlyForRoom`. With the
  channels of `WatchSafe` it does happen; with the real ones it takes more than
  the 10 messages of one update without reports of progress.
- `Close` leaves closed signal channels registered: `inWorker` can panic
  (`workerDied`).
- `copyToStore` returns nil when the store file cannot be opened
  (`torcx.go:145`); with the fault `openDst`, `InstalledMeansUsable` fails within
  one call. The action `OpenDestFails` has it. No run checks that, since
  one more trace to the same property would show nothing that `InstallPartialCopy`
  does not.
- `copyToStore` defers the removal of the download only after it has opened it,
  and only if its path begins with `/tmp/` (`torcx.go:123-131`): a file that cannot
  be opened stays, and so does every file of a program with another `TMPDIR`. Both
  are in `CopyToStore` of `Fetch`, and `NoFileLeft` excepts them.
- `InstallAddon` skips a location with any `Path` as "already in store", while
  only one below `/usr/share/torcx/store` is (`torcx.go:75`); the theorems
  assume that there are no others (`DiskMeansVendor`).
- `LocationFor` prefers only vendor locations and otherwise the last one, while
  its comment speaks of any path on disk.
- "All network requests are retried a few times"
  (`Documentation/bootstrapper.md:50`): `fetchURL` retries errors of `http.Get`
  only, not a status other than 200 or a body that breaks off (`BadResponse`).
- The ConfigMap of `deploy/runtime-mappings.yaml:5` is in the namespace
  `kube-system`, the one the code asks for in `tectonic-system`
  (`versions.go:38`): as deployed, it is never found and the installer's file is
  used.
- A ConfigMap that exists but cannot be parsed ends the bootstrapper without a
  try of the node-local mapping (`versions.go:122`), which is why
  `FallbackSuffices` excepts it.
- "In both cases, it can also determine/update kubelet" (`README.md:43`): only
  the bootstrapper writes `kubelet.env`; the hook reads it.
- `WriteKubeletEnv` ignores errors of writing and closing; the partial file
  keeps the bootstrapper from running again. The hook then reads the right minor
  version from what is left, or fails (`HookAgreesWithBootstrap`).
- A version with "_" in its metadata does not survive the way through the image
  tag and back; Kubernetes has none.
- After a refused reboot `kubelet.env` stays: the kubelet may start with the
  docker of the OS.
- An update request whose answer got lost may take effect after the hook has
  reported failure; then the node is annotated, although the hook said no
  (`AtomicAnnotation` allows it).
- A Node without any annotation makes `SetNodeAnnotationsLabels` write to a nil
  map, a panic (`metadata.go:78`).
- An OS version that offers another accepted docker, but not the one picked for
  the coming OS, is left unserved, which `PickVersion`'s comment accepts and
  the README of the repository does not mention.

## Proofs

The theorems hold for every value of the constants that satisfies the named
assumptions of the modules, and the assumptions their statements add. Each
proof of `[]Inv` has an inductive invariant, proved to hold initially and to be
kept by every action, one step per action.

`StrategyProofs`: `LocationForSound` says that `LocationFor` returns either
nothing or a location of an entry of the wanted package and version, with that
entry's digest, and a vendor location if the entry has one. It is proved from a
least index (a well-founded minimum), without induction. `PickVersionEnds` says
how `PickVersion` can end, and `StrategyCheckProofs` concludes what `StrategyPick`
checks.

`TorcxInstallProofs`: the inductive invariant is

    IInv == TypeOK /\ StageInv /\ StoreIntegrity

`StoreIntegrity` alone is not inductive: a copy is safe only because the content
at hand (`src`) has the digest wanted for the very OS version whose file is
open. `StageInv` says that, stage by stage: from `fetch` to `write` the loop is
at an OS version with a known location; in `open` and `write` the content at
hand has the wanted digest; in `write` the file exists; from `newProfile` on the
profile is the one `profileName` determined. From it follow `TypeOK`,
`StoreIntegrity`, `NoImageLost` and `OperatorProfileKept`. Under
`CopiesComplete` (no fault of opening or writing a store file, no kill within a
copy) and `DiskMeansVendor`, `ReadyInv` adds that the only damaged file is the
one being written and that every OS version before `pos` is ready, which gives
`InstalledMeansUsable` and `SwitchOnlyWhenReady` (the next boot changes only to
a docker every OS version of the call can use; no run checks it by itself, since
`InstallIsAtomic` says it and more). `InstallPartialCopy` shows that the first
assumption is needed. `InstallImplementsContract` is the refinement, `Spec =>
Contract!Spec`: one case per action, each a step of `AtomicInstall` or a step
that leaves its variables alone. It needs `ReadyInv` where the contract switches
(every OS version of the call can use the docker), and the invariant on `src`
where a copy completes (what the store then holds is what was wanted, so nothing
usable is lost).

`TorcxNodeProofs` carries that over to a machine. Each of its steps does to the
variables of `TorcxInstall` what one of InstallAddon's own steps does
(`InstallAddonSteps`), or returns from the program (`Returned`), calls
`InstallAddon` (`Called`), or empties stores (`Collected`): `IInv` is kept in
each case. On top of it,

- `Env`: an update that is pending is newer than the running OS, what the
  program knows of the coming OS is that update or nothing, and an annotated node
  has one. Hence garbage collection, which goes by the order of OS versions,
  spares those that may boot (`BootableImagesKept`).
- `CallInv`: a call in progress is the one `PickVersion` of the same run asked
  for, with both manifests in the cache (`StrategyCaughtThisCase`).
- under the same two assumptions `OkInv` (after success the next boot selects
  the image installed) and `Served`: where the program has finished installing,
  and on a node due for a reboot, the OS that is expected to boot can use what it
  will select. `RebootOnlyWhenReady`, `NoKubeletWithoutDocker`,
  `InstalledMeansUsable` and `SwitchOnlyWhenReady` follow, for every order of
  staging, hooks, crashes and power failures.
- `NodeImplementsContract`: under these assumptions the two programs, with
  everything that may happen to the machine around a call, keep to the contract,
  too. A reboot or a power failure within a call is its `End`, garbage collection
  is `OthersAct`, which may happen only between calls.
- `CleanupIsEnabled`, without any assumption: the bootstrapper goes on to its
  reboot with the cleanup unit enabled, or has just failed to enable it
  (`CleanupBeforeReboot`). The invariant is `RebootAsked`: a successful
  `InstallAddon` asks for the reboot, and a bootstrapper that goes on without
  asking is on an OS too old for torcx or does not set up torcx. `DataIsCleaned`
  says what that is for: if enabling the unit cannot fail, docker finds no other
  docker's data after the bootstrapper's reboot, whatever failed, was killed or lost
  its power before.
- `KubeletRunsPickedDocker` needs more of the surroundings, stated as
  `BootstrapFinishes`: the bootstrapper that has written `kubelet.env` comes to
  its reboot, no update is staged while a program runs, and torcx is set up. The
  invariant is `KnowsUpdate` (a program that has asked knows of the pending
  update) and `KubeletInv` (`kubelet.env` is complete only on a node that runs a
  picked docker, or while the bootstrapper is about to reboot it).

No run checks `KubeletGetsPickedDocker`. It fails, and the kubelet starts with the
docker of the OS, as soon as the bootstrapper may be killed or the power may fail
between `kubelet.env` and the reboot, when systemd may refuse the reboot, when an
update may be staged after the bootstrapper has asked for it (the OS it boots has
no image), and with `--torcx-skip-setup`: each condition of `BootstrapFinishes` is
needed. `NoDowngradeOnOldData`, about whoever changes docker, is checked by the
violated run `NodeHookCleanup` only. It fails as well when the power fails
(nothing runs at shutdown), when the unit cannot be enabled, and with
`--torcx-skip-setup` (a later hook then changes docker).

`NodeAnnotationProofs`: besides the types, `FreshAgree` (a request that is still
current holds the other owners' latest values) and `Settled` (after success a
request that is still current would change nothing) are what `NoLostUpdate` and
`TakenAwayForGood` need. (The latter, that no late request brings back what CLUO
took away, is proved but has no run of its own: `IsAtomic` implies it.)
`ImplementsAtomic` proves the safety part of the refinement, `Spec =>
Atomic!SafeSpec`.

`FetchProofs`: `CachedIsSigned` needs that a signature once fetched has been
published (`SignaturePublished`), `HandedImageSigned` that and that the manifest
of the OS version is in the cache while its image is fetched (`ImageOfManifest`)
and still is when the image is handed on (`HandedImageFits`), `NoFileLeft` that
a temporary file exists only within `FetchAddon` and `copyToStore`, or is
excepted (`NoFile`), and `FailsForCause` that while nothing is to blame all
objects fit together (`Quiet`) and `misses` is what `tries` has counted
(`Missed`). `ManifestIsKept` (`PickVersion` and `InstallAddon` of one program
see the same manifest) needs no more than that only a new program empties the
cache.

`KubeSourcesProofs`: the invariants say what each step of the course has found so
far (`Course`), what `kubelet.env` can hold after the bootstrapper had a given
version (`Written`), and which source the hook (`HookVersion`, `HookEnv`,
`HookMapped`) and the bootstrapper (`BootstrapVersion`, `FromServer`) have it
from. The tag conversion is undone by `FromTag`, and what a cut leaves either
has the same minor version or cannot be parsed.

`UpdateWatchProofs`: `Honest` (whatever is on its way from the daemon to main is
true of the daemon), `Course` (what main may have received, and when it may
close the client, given what the receiver has done), `InOrder` (the receiver's
own answer is in front of all announcements), `OneCall` (main's only call is in
one place at a time), and `NotMissed`: while main waits and the daemon is idle or
has an update staged, the announcement of it, or an answer to main that carries
it, is still somewhere in between. The queues are of any length; the proofs use
how `Append` and `Tail` move indices.

That `OSUpdate` ends is liveness, but what it rests on, besides fairness, is
safety, and is proved:

- `WatchStuckOnlyForRoom`: until `OSUpdate` has returned, one of the four parties
  can move, or one waits for room in a channel; and no goroutine panics unless the
  bus is lost. For any capacities; from `CallsPlaced` (a call someone waits for is
  in `requests`, on the wire, in hand or answered, as long as the connection is
  open; afterwards it fails), `Stops` (the receiver has ended
  only if `stopCh` is closed, which main does only when it leaves its loop) and
  `NoVerdictMissed` (a waiting main has the news that ends its wait coming).
- `WatchNeverAllWaiting`: if the channels hold 10 + 4 `MaxChecks` + `MaxProgress`
  messages (`RoomEnough`), nobody waits for room. `FewMessages`, its invariant,
  counts what is under way together with what may still be put there (`Load`): no
  step makes it more, whether the connection is open or lost.
- `WatchStepsRunOut`: `StepsLeft` is a natural number that every step of every
  party decreases. It weighs each message by the places it still has to pass, and
  adds the way each goroutine has to go and what the daemon may still announce;
  `AskedOnce` (`AttemptUpdate` is called once) bounds the latter. For any
  capacities and bounds.

So under `RoomEnough` every run of `WatchNext` is finite and can stop only when
`OSUpdate` has returned, or has panicked after the bus was lost, whatever the
scheduling. (That a party that can move has a step to take is read off the
guards, not proved: it would be about `ENABLED`.)

Only model-checked: what the violated runs refute; and liveness (`WatchEnds`,
`GatherEnds`, `FetchEnds`, and that of `IsAtomic`), which is out of TLAPS' reach,
as are `ENABLED` and induction over data. No module has a RECURSIVE operator.

## Not modelled

- The grammars of JSON and YAML, GPG and templates: something can be parsed or
  verified, or it cannot. A digest identifies content.
- The pauses of `retry` and of the backoff, which no property is about.
- semver: OS versions are numbers. Release versions have no pre-release part and
  are totally ordered; pre-release parts are compared piece by piece as numbers
  or strings, which is not transitive, but OS versions have none. OS versions
  that cannot be parsed are left out; staged updates are newer than the running
  OS.
- An operator changes profiles only between calls of `InstallAddon`, and not on
  an annotated node. An image found in `/usr/share` is copied like a download.
  The bucket is at rest in `TorcxNode`; what a republication does to a program
  is `Fetch`. A program that is killed within a fetch leaves its temporary file,
  which `Fetch` does not follow: its programs end by themselves.
- Messages on the bus that are not for this client, and the bus' own signals about
  names, which `inWorker` passes over or on alike. A bus that is lost does not come
  back within `OSUpdate`, as the code never connects again.
- `KubeletEnvPath` is set, as it is by default.
- The functions of `k8sutil` for labels and deletions, which nothing here calls.
- Command line, logging, multicall dispatch: without state, but for what
  `parseFlags` wants of the flags that choose the sources (`Start` of
  `KubeSources`). Deployment manifests are declarative.

## Plan

Built in this order: `PackageManifest`, `Strategy`, `TorcxInstall`,
`TorcxNode`, `UpdateWatch`; then `NodeAnnotation`, `KubeSources` and `Fetch`,
and the proofs of all of them. What is left, in order of use:

1. Decreasing measures, as `StepsLeft` of `UpdateWatch`, for the calls of `Fetch`,
   `KubeSources` and `NodeAnnotation`, whose ends are only model-checked.
2. An abstract watcher ("reports a staged update or the absence of one") for
   `UpdateWatch`, and the watcher in place of the one step `OSUpdate` in
   `TorcxNode`.
3. The order of semver, as operators on triples with pre-release parts, with a
   statement of the versions for which it is an order.
