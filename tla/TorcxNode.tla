------------------------------ MODULE TorcxNode ------------------------------
(***************************************************************************)
(* The life of one machine under the two programs: the bootstrapper that   *)
(* prepares a new node (App.Bootstrap) and the pre-reboot hook that        *)
(* prepares it for an OS update (App.UpdateHook), both on top of           *)
(* InstallAddon, with update_engine, systemd, the operator and CLUO, which *)
(* reboots an annotated node, around them.                                 *)
(***************************************************************************)
EXTENDS TorcxInstall

CONSTANTS
  OSDocker,        \* the docker that runs under the vendor profile
  Downgrade,       \* <<from, to>>: "to" is an older docker than "from"
  Preferences,     \* the lists of docker versions Kubernetes may ask for
  Configs,         \* the configurations a node may be deployed with
  StageAnytime     \* update_engine may stage an update at any time, not
                   \* only while neither program runs

(***************************************************************************)
(* More kinds of fault:                                                    *)
(*                                                                         *)
(* "gather"    GatherState or NewApp fails  "updateEngine" does not answer *)
(* "env"       kubelet.env not creatable    "envWrite" ... not writable    *)
(* "cleanup"   the docker cleanup unit is not installed                    *)
(* "reboot"    systemd refuses to reboot    "gc"       RemoveAll fails     *)
(* "annotate"  the API server gives no good answer                         *)
(* "power"     the machine loses power (within io.Copy: "crashCopy")       *)
(***************************************************************************)
ASSUME NodeAssumption ==
  /\ OSDocker \notin Ref \cup {NoImage}
  /\ Downgrade \subseteq (Ref \cup {OSDocker}) \X (Ref \cup {OSDocker})
  /\ Preferences \subseteq Seq(Ref)
  /\ Configs \subseteq [osUpgrade : BOOLEAN, skipTorcxSetup : BOOLEAN]
  /\ StageAnytime \in BOOLEAN

VARIABLES
  conf,              \* Config of the bootstrapper
  currentOS,         \* the OS version that runs
  pendingOS,         \* the one update_engine has staged, or NoVersion
  dockerRunning,     \* the docker applied at boot; NoImage: none
  dataWriters,       \* dockers that wrote to /var/lib/docker
  cleanup,           \* the unit that empties /var/lib/docker is enabled
  kubeletEnv,        \* /etc/kubernetes/kubelet.env
  annotated,         \* the node carries the "hook successful" annotation
  program,           \* the program that runs
  step,              \* where in Bootstrap or UpdateHook it is
  nextOSVersion,     \* App.NextOSVersion
  osRequiresReboot,  \* App.OSRequiresReboot
  dockerVersions     \* App.DockerVersions

machineVars == <<conf, currentOS, pendingOS, dockerRunning, dataWriters>>
runVars     == <<nextOSVersion, osRequiresReboot, dockerVersions>>
outVars     == <<cleanup, kubeletEnv, annotated>>
nodeVars    == <<machineVars, runVars, outVars, program, step>>
allVars     == <<vars, nodeVars>>

installVars == <<bucket, storeVars, torcxVars, pc, callVars, localVars>>

NodeInit ==
  /\ Init
  /\ conf \in Configs
  /\ currentOS \in OSVersion
  /\ pendingOS = NoVersion
  /\ dockerRunning = OSDocker
  /\ dataWriters = {OSDocker}
  /\ cleanup = FALSE
  /\ kubeletEnv = "absent"
  /\ annotated = FALSE
  /\ program = "none"
  /\ step = "none"
  /\ nextOSVersion = NoVersion
  /\ osRequiresReboot = FALSE
  /\ dockerVersions = <<>>

Goto(s) == step' = s /\ UNCHANGED program

(* The program is not running any more; what it did stays.                *)
NoProgram ==
  /\ program' = "none"
  /\ step' = "none"
  /\ nextOSVersion' = NoVersion
  /\ osRequiresReboot' = FALSE
  /\ dockerVersions' = <<>>

(* Bootstrap or UpdateHook returns, with an error or without.             *)
ProgramReturns == NoProgram /\ ProcessGone
-----------------------------------------------------------------------------
(* What both programs begin with.                                         *)

(* The systemd unit is configured to start only without a kubelet.env.    *)
StartBootstrap ==
  /\ program = "none"
  /\ kubeletEnv = "absent"
  /\ program' = "bootstrap"
  /\ step' = "gather"
  /\ UNCHANGED <<vars, machineVars, runVars, outVars>>

(* CLUO starts the hook on a node of the cluster with a pending update,   *)
(* and again if its pod is restarted.                                     *)
StartHook ==
  /\ program = "none"
  /\ kubeletEnv = "complete"
  /\ pendingOS # NoVersion
  /\ program' = "hook"
  /\ step' = "gather"
  /\ UNCHANGED <<vars, machineVars, runVars, outVars>>

GatherState ==
  /\ step = "gather"
  /\ dockerVersions' \in Preferences
  /\ Goto("nextOS")
  /\ UNCHANGED <<vars, machineVars, nextOSVersion, osRequiresReboot, outVars>>

GatherStateFails ==
  /\ step = "gather"
  /\ Fault("gather")
  /\ ProgramReturns
  /\ UNCHANGED <<machineVars, outVars>>

Updates == program = "bootstrap" /\ conf.osUpgrade

(* Mutation of ReportedNext: a staged update is not noticed.              *)
ReportedNext_None == NoVersion

(* The NewVersion of update_engine's status, if that says "need reboot".  *)
ReportedNext == pendingOS

GetNextOSVersion ==
  /\ step = "nextOS"
  /\ ~Updates
  /\ nextOSVersion' = ReportedNext
  /\ Goto("pick")
  /\ UNCHANGED <<vars, machineVars, osRequiresReboot, dockerVersions, outVars>>

(* OSUpdate: update_engine has an update staged already or stages one.    *)
OSUpdateDone ==
  /\ step = "nextOS"
  /\ Updates
  /\ pendingOS' \in IF pendingOS # NoVersion
                    THEN {pendingOS} ELSE {o \in OSVersion : o > currentOS}
  /\ nextOSVersion' = pendingOS'
  /\ osRequiresReboot' = TRUE
  /\ Goto("pick")
  /\ UNCHANGED <<vars, conf, currentOS, dockerRunning, dataWriters,
                 dockerVersions, outVars>>

(* OSUpdate: update_engine is idle, there is no update.                   *)
OSUpdateIdle ==
  /\ step = "nextOS"
  /\ Updates
  /\ pendingOS = NoVersion
  /\ Goto("pick")
  /\ UNCHANGED <<vars, machineVars, runVars, outVars>>

NextOSFails ==
  /\ step = "nextOS"
  /\ Fault("updateEngine")
  /\ ProgramReturns
  /\ UNCHANGED <<machineVars, outVars>>
-----------------------------------------------------------------------------
(* PickVersion and InstallAddon                                           *)

(* Mutation of AfterInstall: the hook goes on as the bootstrapper does.   *)
AfterInstall_Env == "env"

AfterInstall == IF program = "bootstrap" THEN "env" ELSE "gc"

SkipsTorcx == program = "bootstrap" /\ conf.skipTorcxSetup

SkipTorcxSetup ==
  /\ step = "pick"
  /\ SkipsTorcx
  /\ Goto(AfterInstall)
  /\ UNCHANGED <<vars, machineVars, runVars, outVars>>

Pick == PickVersion(bucket, currentOS, nextOSVersion, dockerVersions)

PickNothing ==
  /\ step = "pick"
  /\ ~SkipsTorcx
  /\ Pick.outcome = "nothing"
  /\ Goto(AfterInstall)
  /\ UNCHANGED <<vars, machineVars, runVars, outVars>>

(* No version is suitable, or a manifest cannot be had.                   *)
PickVersionFails ==
  /\ step = "pick"
  /\ ~SkipsTorcx
  /\ \/ Pick.outcome = "error" /\ NoFault
     \/ Pick.outcome # "nothing" /\ Fault("manifest")
  /\ ProgramReturns
  /\ UNCHANGED <<machineVars, outVars>>

(* The manifests PickVersion asks for, and so puts into the cache.        *)
AskedFor ==
  {o \in {PrimaryOS(currentOS, nextOSVersion),
          SecondaryOS(currentOS, nextOSVersion)} \ {NoVersion} :
     ~ShouldSkip(o)}

PickInstall ==
  /\ step = "pick"
  /\ ~SkipsTorcx
  /\ Pick.outcome = "install"
  /\ Call(Pick.version, Pick.osVersions)
  /\ cache' = AskedFor
  /\ UNCHANGED dockerRequiresReboot
  /\ Goto("install")
  /\ UNCHANGED <<machineVars, runVars, outVars>>

InstallAddonSteps ==
  /\ step = "install"
  /\ InstallStep
  /\ UNCHANGED nodeVars

Installed ==
  /\ step = "install"
  /\ pc = "ok"
  /\ CallOver
  /\ Goto(AfterInstall)
  /\ UNCHANGED <<appVars, faults, machineVars, runVars, outVars>>

InstallFails ==
  /\ step = "install"
  /\ pc = "failed"
  /\ NoFault
  /\ ProgramReturns
  /\ UNCHANGED <<machineVars, outVars>>
-----------------------------------------------------------------------------
(* The rest of Bootstrap                                                  *)

(* WriteKubeletEnv truncates or creates the file ...                      *)
CreateEnv ==
  /\ step = "env"
  /\ kubeletEnv' = "partial"
  /\ Goto("envWrite")
  /\ UNCHANGED <<vars, machineVars, runVars, cleanup, annotated>>

CreateEnvFails ==
  /\ step = "env"
  /\ Fault("env")
  /\ ProgramReturns
  /\ UNCHANGED <<machineVars, outVars>>

(* ... and writes it line by line; an error of that goes unnoticed.       *)
WroteEnv ==
  \/ NoFault /\ kubeletEnv' = "complete"
  \/ Fault("envWrite") /\ UNCHANGED kubeletEnv

WriteEnv ==
  /\ step = "envWrite"
  /\ WroteEnv
  /\ Goto("finish")
  /\ UNCHANGED <<installVars, appVars, machineVars, runVars, cleanup,
                 annotated>>

RequiresReboot == dockerRequiresReboot \/ osRequiresReboot

NoRebootRequired ==
  /\ step = "finish"
  /\ ~RequiresReboot
  /\ NoFault
  /\ ProgramReturns
  /\ UNCHANGED <<machineVars, outVars>>

(* Mutation of CleansDocker: only an OS update asks for the cleanup.      *)
CleansDocker_OnUpdate == osRequiresReboot

CleansDocker == dockerRequiresReboot

SkipCleanup ==
  /\ step = "finish"
  /\ RequiresReboot
  /\ ~CleansDocker
  /\ Goto("reboot")
  /\ UNCHANGED <<vars, machineVars, runVars, outVars>>

(* EnableDockerCleanupUnit; Bootstrap only logs that it failed.           *)
EnableCleanup ==
  /\ step = "finish"
  /\ RequiresReboot
  /\ CleansDocker
  /\ \/ NoFault /\ cleanup' = TRUE
     \/ Fault("cleanup") /\ UNCHANGED cleanup
  /\ Goto("reboot")
  /\ UNCHANGED <<installVars, appVars, machineVars, runVars, kubeletEnv,
                 annotated>>

(* StartUnit(reboot.target); Bootstrap then waits to be killed.           *)
TriggerReboot ==
  /\ step = "reboot"
  /\ Goto("rebooting")
  /\ UNCHANGED <<vars, machineVars, runVars, outVars>>

TriggerRebootFails ==
  /\ step = "reboot"
  /\ Fault("reboot")
  /\ ProgramReturns
  /\ UNCHANGED <<machineVars, outVars>>
-----------------------------------------------------------------------------
(* The rest of UpdateHook                                                 *)

(* Mutation of Unneeded: the store of the running OS goes, too.           *)
Unneeded_Running(o) == o <= currentOS

(* TorcxGC: stores of OS versions before the running one.                 *)
Unneeded(o) == o < currentOS

EmptyStores(os) ==
  store' = [o \in OSVersion |->
              IF o \in os THEN [r \in Ref |-> Absent] ELSE store[o]]

(* Without a next OS version nothing is collected.  A failure half way is *)
(* only logged.                                                           *)
TorcxGC ==
  /\ step = "gc"
  /\ LET unneeded == {o \in OSVersion : Unneeded(o)}
     IN  IF nextOSVersion = NoVersion THEN NoFault /\ UNCHANGED store
         ELSE \/ NoFault /\ EmptyStores(unneeded)
              \/ Fault("gc") /\ \E os \in SUBSET unneeded : EmptyStores(os)
  /\ Goto("annotate")
  /\ UNCHANGED <<bucket, torcxVars, pc, callVars, localVars, appVars,
                 machineVars, runVars, outVars>>

WriteNodeAnnotation ==
  /\ step = "annotate"
  /\ annotated' = TRUE
  /\ NoFault
  /\ ProgramReturns
  /\ UNCHANGED <<machineVars, cleanup, kubeletEnv>>

(* Every try fails; one of them may have had its effect all the same.     *)
WriteNodeAnnotationFails ==
  /\ step = "annotate"
  /\ Fault("annotate")
  /\ annotated' \in {annotated, TRUE}
  /\ ProgramReturns
  /\ UNCHANGED <<machineVars, cleanup, kubeletEnv>>
-----------------------------------------------------------------------------
(* The machine and its surroundings                                       *)

BootOS == PrimaryOS(currentOS, pendingOS)

(* torcx applies the image of the selected profile; with none selected    *)
(* the OS brings its own docker, without the image there is no docker.    *)
DockerAtBoot ==
  CASE BootImage = NoImage -> OSDocker
    [] BootImage # NoImage /\ Ready(BootOS, BootImage)  -> BootImage
    [] BootImage # NoImage /\ ~Ready(BootOS, BootImage) -> NoImage

(* The machine boots.  Units in /run are gone; CLUO removes the           *)
(* annotation.                                                            *)
Boot(oldData) ==
  /\ currentOS' = BootOS
  /\ pendingOS' = NoVersion
  /\ dockerRunning' = DockerAtBoot
  /\ dataWriters' = oldData \cup ({DockerAtBoot} \ {NoImage})
  /\ cleanup' = FALSE
  /\ annotated' = FALSE
  /\ ProgramReturns
  /\ UNCHANGED <<conf, kubeletEnv>>

CleanedUp == IF cleanup THEN {} ELSE dataWriters

(* Shutting down runs the cleanup unit if there is one.                   *)
BootstrapReboots ==
  /\ step = "rebooting"
  /\ Boot(CleanedUp)
  /\ NoFault

(* CLUO reboots an annotated node, even if a second hook runs.            *)
CluoReboots ==
  /\ annotated
  /\ Boot(CleanedUp)
  /\ IF pc = "write" THEN Fault("crashCopy") ELSE NoFault

PowerFails ==
  /\ Boot(dataWriters)
  /\ IF pc = "write" THEN Fault("crashCopy") ELSE Fault("power")

ProgramKilled ==
  /\ program # "none" /\ step # "rebooting"
  /\ Killed
  /\ ProgramReturns
  /\ UNCHANGED <<machineVars, outVars>>

(* update_engine stages an update by itself.                              *)
StageUpdate ==
  /\ pendingOS = NoVersion
  /\ program = "none" \/ StageAnytime
  /\ pendingOS' \in {o \in OSVersion : o > currentOS}
  /\ UNCHANGED <<vars, conf, currentOS, dockerRunning, dataWriters, runVars,
                 outVars, program, step>>

(* An operator selects a profile, but not once the node may be rebooted.  *)
OperatorSelectsProfile ==
  /\ program = "none" /\ ~annotated
  /\ OperatorSelects
  /\ UNCHANGED nodeVars
-----------------------------------------------------------------------------
BothPrograms ==
  \/ GatherState \/ GatherStateFails \/ GetNextOSVersion \/ NextOSFails
  \/ PickNothing \/ PickVersionFails \/ PickInstall
  \/ InstallAddonSteps \/ Installed \/ InstallFails

BootstrapSteps ==
  \/ OSUpdateDone \/ OSUpdateIdle \/ SkipTorcxSetup
  \/ CreateEnv \/ CreateEnvFails \/ WriteEnv \/ NoRebootRequired
  \/ SkipCleanup \/ EnableCleanup \/ TriggerReboot \/ TriggerRebootFails

HookSteps == TorcxGC \/ WriteNodeAnnotation \/ WriteNodeAnnotationFails

Surroundings ==
  \/ StartBootstrap \/ StartHook
  \/ BootstrapReboots \/ CluoReboots \/ PowerFails \/ ProgramKilled
  \/ StageUpdate \/ OperatorSelectsProfile

NodeNext == BothPrograms \/ BootstrapSteps \/ HookSteps \/ Surroundings

NodeSpec == NodeInit /\ [][NodeNext]_allVars
-----------------------------------------------------------------------------
Steps == {"none", "gather", "nextOS", "pick", "install", "env", "envWrite",
          "finish", "reboot", "rebooting", "gc", "annotate"}

(* The variables of a node keep their types, the program that runs is at  *)
(* one of its own steps, and InstallAddon is only ever in progress while  *)
(* the program waits for it.                                              *)
NodeTypeOK ==
  /\ TypeOK
  /\ conf \in Configs
  /\ currentOS \in OSVersion
  /\ pendingOS \in OSVersion \cup {NoVersion}
  /\ dockerRunning \in Ref \cup {OSDocker, NoImage}
  /\ dataWriters \subseteq Ref \cup {OSDocker}
  /\ cleanup \in BOOLEAN /\ annotated \in BOOLEAN
  /\ kubeletEnv \in {"absent", "partial", "complete"}
  /\ nextOSVersion \in OSVersion \cup {NoVersion}
  /\ osRequiresReboot \in BOOLEAN
  /\ dockerVersions \in Preferences \cup {<<>>}
  /\ program \in {"none", "bootstrap", "hook"} /\ step \in Steps
  /\ program = "none" <=> step = "none"
  /\ step \in {"gc", "annotate"} => program = "hook"
  /\ step \in {"env", "envWrite", "finish", "reboot", "rebooting"}
       => program = "bootstrap"
  /\ step # "install" => pc = "idle"

(* The OS version can boot into r, or is too old for torcx.               *)
Prepared(o, r) == ShouldSkip(o) \/ (r \in Ref /\ Ready(o, r))

(* Nothing more stands between the node and a reboot.                     *)
RebootDue == annotated \/ step \in {"reboot", "rebooting"}

(* The OS version that will boot; for the bootstrapper, which asks for it *)
(* once, the one it knows of.                                             *)
ExpectedOS == IF annotated THEN BootOS ELSE PrimaryOS(currentOS, nextOSVersion)

(* A node that is about to be rebooted has the docker of its next boot    *)
(* ready for the OS version that is expected to boot, and for the running *)
(* one, too, to which the boot loader falls back, if that OS has it.  This*)
(* has to survive updates staged in the meantime, a hook that runs again  *)
(* and asks for another docker, garbage collection, crashes and power     *)
(* failures.                                                              *)
RebootOnlyWhenReady ==
  RebootDue /\ ~SkipsTorcx =>
    /\ Prepared(ExpectedOS, BootImage)
    /\ BootImage \in Ref /\ LocFor(currentOS, BootImage) # NoLocation
         => Prepared(currentOS, BootImage)

(* "a permanent failure here results in a failed node bootstrap (i.e. no  *)
(* kubelet starting)": kubelet.env, on which the kubelet waits, is        *)
(* created only after the docker for the coming OS version is in place.   *)
NoKubeletWithoutDocker ==
  [][kubeletEnv = "absent" /\ kubeletEnv' # "absent" =>
       \/ SkipsTorcx
       \/ Prepared(PrimaryOS(currentOS, nextOSVersion), BootImage)]_allVars

(* A node takes part in the cluster only with a docker that was picked    *)
(* for it, never with the one its OS happens to bring or with none.       *)
KubeletGetsPickedDocker ==
  kubeletEnv = "complete" /\ program = "none" =>
    \/ ShouldSkip(currentOS)
    \/ dockerRunning \in Ref

(* "Docker does not support version downgrades, so we need to clean its   *)
(* datadir before reboot": a bootstrapper that sees to docker goes on to  *)
(* the reboot only with the cleanup unit enabled, also when docker was in *)
(* the store already, was selected by a run that failed or was killed, or *)
(* was put back by a power failure; unless it has just failed to enable   *)
(* the unit, which Bootstrap only logs.                                   *)
CleanupBeforeReboot ==
  [][step # "reboot" /\ step' = "reboot" =>
       \/ SkipsTorcx \/ ShouldSkip(PrimaryOS(currentOS, nextOSVersion))
       \/ cleanup' \/ faults' # faults]_allVars

(* The same sentence of whoever changes docker: no docker runs on data of *)
(* a newer one.                                                           *)
NoDowngradeOnOldData ==
  \A w \in dataWriters : <<w, dockerRunning>> \notin Downgrade

(* The two "should not happen" returns of InstallAddon: when its loop     *)
(* needs a manifest, PickVersion of the same run has put it in the cache  *)
(* and has made sure that it offers the docker version.                   *)
StrategyCaughtThisCase ==
  step = "install" /\ InLoop =>
    /\ osVersion \in cache
    /\ LocFor(osVersion, ref) # NoLocation

(* Garbage collection: "removes versioned stores that we know we won't    *)
(* need".  Whatever the programs do, and wherever they fail or are        *)
(* killed, no good image of an OS version that may still boot is lost.    *)
BootableImagesKept ==
  [][\A o \in {currentOS, pendingOS} \ {NoVersion}, r \in Ref :
       store[o][r] \in Hash => store'[o][r] = store[o][r]]_allVars
=============================================================================
