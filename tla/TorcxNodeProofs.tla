-------------------------- MODULE TorcxNodeProofs --------------------------
(***************************************************************************)
(* The life of a machine, for all OS versions, docker versions, manifests, *)
(* preferences and configurations and any number of faults.                *)
(***************************************************************************)
EXTENDS TorcxNode, TorcxInstallProofs

USE DEF storeVars, torcxVars, callVars, localVars, appVars,
        machineVars, runVars, outVars

Primary == PrimaryOS(currentOS, nextOSVersion)

(* Types of the node's own variables, with the step the program is at.    *)
MachineTypes ==
  /\ conf \in Configs
  /\ currentOS \in OSVersion
  /\ pendingOS \in OSVersion \cup {NoVersion}
  /\ dockerRunning \in Ref \cup {OSDocker, NoImage}
  /\ dataWriters \subseteq Ref \cup {OSDocker}
  /\ cleanup \in BOOLEAN /\ annotated \in BOOLEAN
  /\ kubeletEnv \in {"absent", "partial", "complete"}

RunTypes ==
  /\ nextOSVersion \in OSVersion \cup {NoVersion}
  /\ osRequiresReboot \in BOOLEAN
  /\ dockerVersions \in Preferences \cup {<<>>}

StepTypes ==
  /\ program \in {"none", "bootstrap", "hook"} /\ step \in Steps
  /\ program = "none" <=> step = "none"
  /\ step \in {"gc", "annotate"} => program = "hook"
  /\ step \in {"env", "envWrite", "finish", "reboot", "rebooting"}
       => program = "bootstrap"
  /\ step # "install" => pc = "idle"

NodeTypes == MachineTypes /\ RunTypes /\ StepTypes

(* The OS versions, and what is ordered about them.                       *)
LEMMA OSVersions ==
  /\ OSVersion \subseteq Nat /\ NoVersion \notin OSVersion
  /\ MinimumRemoteDocker \in Nat
  BY OSVersionAssumption DEF NoVersion

(* Kubernetes asks for a list of docker versions.                         *)
LEMMA Preferred ==
  ASSUME RunTypes
  PROVE  dockerVersions \in Seq(Ref)
<1>1. Preferences \subseteq Seq(Ref)
  BY NodeAssumption
<1>2. CASE dockerVersions = <<>>
  BY <1>2
<1>3. CASE dockerVersions # <<>>
  BY <1>1, <1>3 DEF RunTypes
<1> QED
  BY <1>2, <1>3

(* The coming OS version is an OS version.                                *)
LEMMA PrimaryIsOS ==
  ASSUME NodeTypes
  PROVE  Primary \in OSVersion
  BY DEF NodeTypes, MachineTypes, RunTypes, Primary, PrimaryOS

(* What PickVersion hands to InstallAddon.                                *)
LEMMA PickFacts ==
  ASSUME NodeTypes, Pick.outcome = "install"
  PROVE  /\ Pick.version \in Ref
         /\ Pick.osVersions \in Seq(OSVersion)
         /\ \E i \in 1 .. Len(dockerVersions) : dockerVersions[i] = Pick.version
         /\ ~ ShouldSkip(Primary)
         /\ Available(bucket[Primary], Pick.version)
         /\ Pick.osVersions = InstallTargets(bucket, currentOS, nextOSVersion, Pick.version)
<1>1. dockerVersions \in Seq(Ref)
  BY Preferred DEF NodeTypes
<1> DEFINE p == PickVersion(bucket, currentOS, nextOSVersion, dockerVersions)
<1>2. \/ DoesNothing(p, bucket, currentOS, nextOSVersion)
      \/ Refuses(p, bucket, currentOS, nextOSVersion, dockerVersions)
      \/ Picks(p, bucket, currentOS, nextOSVersion, dockerVersions)
  BY <1>1, PickVersionEnds
<1>3. p = Pick /\ p.outcome = "install"
  BY DEF Pick
<1> HIDE DEF p
<1>4. Picks(p, bucket, currentOS, nextOSVersion, dockerVersions)
  BY <1>2, <1>3 DEF DoesNothing, Refuses
<1>5. /\ \E i \in 1 .. Len(dockerVersions) : dockerVersions[i] = p.version
      /\ ~ ShouldSkip(Primary)
      /\ Available(bucket[Primary], p.version)
      /\ p.osVersions = InstallTargets(bucket, currentOS, nextOSVersion, p.version)
  BY <1>4 DEF Picks, Primary
<1>6. p.version \in Ref
  BY <1>1, <1>5
<1>7. p.osVersions \in Seq(OSVersion)
  <2> DEFINE secondary == SecondaryOS(currentOS, nextOSVersion)
             covered   == /\ secondary # NoVersion
                          /\ ~ ShouldSkip(secondary)
                          /\ Available(bucket[secondary], p.version)
  <2>1. p.osVersions = <<Primary>> \o (IF covered THEN <<secondary>> ELSE <<>>)
    BY <1>5 DEF InstallTargets, Primary
  <2>2. secondary # NoVersion => secondary \in OSVersion
    BY DEF SecondaryOS, NodeTypes, MachineTypes
  <2>3. covered => secondary \in OSVersion
    BY <2>2
  <2> HIDE DEF covered, secondary
  <2>4. (IF covered THEN <<secondary>> ELSE <<>>) \in Seq(OSVersion)
    BY <2>3
  <2>5. <<Primary>> \in Seq(OSVersion)
    BY PrimaryIsOS
  <2> QED
    BY <2>1, <2>4, <2>5
<1> QED
  BY <1>3, <1>5, <1>6, <1>7

(* The docker that torcx applies at boot.                                 *)
LEMMA DockerAtBootType ==
  ASSUME TypeOK
  PROVE  DockerAtBoot \in Ref \cup {OSDocker, NoImage}
<1>1. BootImage \in Ref \cup {NoImage}
  BY DEF TypeOK, BootImage, Selected
<1>2. CASE BootImage = NoImage
  <2>1. DockerAtBoot = OSDocker
    BY <1>2 DEF DockerAtBoot
  <2> QED
    BY <2>1
<1>3. CASE BootImage # NoImage /\ Ready(BootOS, BootImage)
  <2>1. DockerAtBoot = BootImage
    BY <1>3 DEF DockerAtBoot
  <2> QED
    BY <1>1, <2>1
<1>4. CASE BootImage # NoImage /\ ~ Ready(BootOS, BootImage)
  <2>1. DockerAtBoot = NoImage
    BY <1>4 DEF DockerAtBoot
  <2> QED
    BY <2>1
<1> QED
  BY <1>2, <1>3, <1>4

(* It holds at the start.                                                 *)
LEMMA NodeTypesInit == NodeInit => NodeTypes
<1> SUFFICES ASSUME NodeInit PROVE NodeTypes
  OBVIOUS
<1>1. MachineTypes
  BY DEF NodeInit, MachineTypes
<1>2. RunTypes
  BY DEF NodeInit, RunTypes
<1>3. StepTypes
  BY DEF NodeInit, Init, StepTypes, Steps
<1> QED
  BY <1>1, <1>2, <1>3 DEF NodeTypes
-----------------------------------------------------------------------------
(* What a step does to InstallAddon's side of the machine, when it is not *)
(* one of InstallAddon's own: the call or the whole program is over ...   *)
Returned ==
  /\ CallOver
  /\ cache' \in {cache, {}}
  /\ dockerRequiresReboot' \in BOOLEAN
  /\ faults' \in 0 .. MaxFaults
  /\ pc = "write" => Fault("crashCopy")

(* ... or stores of old OS versions, or nothing, is removed ...           *)
Collected ==
  /\ pc = "idle"
  /\ \/ store' = store
     \/ \E os \in SUBSET {o \in OSVersion : Unneeded(o)} : EmptyStores(os)
  /\ faults' \in 0 .. MaxFaults
  /\ UNCHANGED <<bucket, torcxVars, pc, callVars, localVars, cache>>
  /\ dockerRequiresReboot' \in BOOLEAN

(* ... or InstallAddon is called with what PickVersion has picked.        *)
Called ==
  /\ Pick.outcome = "install"
  /\ Call(Pick.version, Pick.osVersions)
  /\ cache' = AskedFor
  /\ dockerRequiresReboot' \in BOOLEAN

(* The program returns, whatever it was doing.                            *)
LEMMA GoneIsReturned ==
  ASSUME ProcessGone, faults' \in 0 .. MaxFaults,
         pc = "write" => Fault("crashCopy")
  PROVE  Returned
  BY DEF ProcessGone, Returned

(* The program returns with one of the outcomes of a fault.               *)
LEMMA ReturnsTyped ==
  ASSUME TypeOK, ProgramReturns, NEW kind, Fault(kind) \/ NoFault,
         pc = "write" => Fault("crashCopy")
  PROVE  Returned
  BY FaultType, GoneIsReturned DEF ProgramReturns

(* There are no other steps.                                              *)
LEMMA Kinds ==
  ASSUME IInv, NodeTypes, [NodeNext]_allVars
  PROVE  [Next]_vars \/ Returned \/ Collected \/ Called
<1>1. TypeOK /\ (step # "install" => pc = "idle")
  BY DEF IInv, NodeTypes, StepTypes
<1>2. CASE UNCHANGED vars
  BY <1>2
<1>3. CASE InstallAddonSteps
  BY <1>3 DEF InstallAddonSteps, Next
<1>4. CASE OperatorSelectsProfile
  BY <1>4 DEF OperatorSelectsProfile, Next
<1>5. CASE PickInstall
  BY <1>1, <1>5 DEF PickInstall, Called, TypeOK
<1>6. CASE Installed
  <2>1. faults' \in 0 .. MaxFaults /\ cache' = cache
    BY <1>1, <1>6 DEF Installed, TypeOK
  <2>2. dockerRequiresReboot' \in BOOLEAN
    BY <1>1, <1>6 DEF Installed, TypeOK
  <2>3. CallOver /\ pc # "write"
    BY <1>6 DEF Installed
  <2> QED
    BY <2>1, <2>2, <2>3 DEF Returned
<1>7. CASE TorcxGC
  <2>1. faults' \in 0 .. MaxFaults
    BY <1>1, <1>7, FaultType DEF TorcxGC
  <2>2. \/ store' = store
        \/ \E os \in SUBSET {o \in OSVersion : Unneeded(o)} : EmptyStores(os)
    BY <1>7 DEF TorcxGC
  <2>3. /\ UNCHANGED <<bucket, torcxVars, pc, callVars, localVars, cache>>
        /\ pc = "idle"
    BY <1>1, <1>7 DEF TorcxGC
  <2>4. dockerRequiresReboot' \in BOOLEAN
    BY <1>1, <1>7 DEF TorcxGC, TypeOK
  <2> QED
    BY <2>1, <2>2, <2>3, <2>4 DEF Collected
<1>8. CASE WriteEnv
  <2>1. faults' \in 0 .. MaxFaults
    BY <1>1, <1>8, FaultType DEF WriteEnv, WroteEnv
  <2>2. /\ UNCHANGED <<bucket, torcxVars, pc, callVars, localVars, cache>>
        /\ store' = store /\ pc = "idle"
    BY <1>1, <1>8 DEF WriteEnv, installVars
  <2>3. dockerRequiresReboot' \in BOOLEAN
    BY <1>1, <1>8 DEF WriteEnv, TypeOK
  <2> QED
    BY <2>1, <2>2, <2>3 DEF Collected
<1>9. CASE EnableCleanup
  <2>1. faults' \in 0 .. MaxFaults
    BY <1>1, <1>9, FaultType DEF EnableCleanup
  <2>2. /\ UNCHANGED <<bucket, torcxVars, pc, callVars, localVars, cache>>
        /\ store' = store /\ pc = "idle"
    BY <1>1, <1>9 DEF EnableCleanup, installVars
  <2>3. dockerRequiresReboot' \in BOOLEAN
    BY <1>1, <1>9 DEF EnableCleanup, TypeOK
  <2> QED
    BY <2>1, <2>2, <2>3 DEF Collected
<1>10. CASE GatherStateFails \/ NextOSFails \/ CreateEnvFails \/ TriggerRebootFails
  BY <1>1, <1>10, ReturnsTyped
     DEF GatherStateFails, NextOSFails, CreateEnvFails, TriggerRebootFails
<1>11. CASE PickVersionFails \/ InstallFails \/ NoRebootRequired
  BY <1>1, <1>11, ReturnsTyped DEF PickVersionFails, InstallFails, NoRebootRequired
<1>12. CASE WriteNodeAnnotation \/ WriteNodeAnnotationFails
  BY <1>1, <1>12, ReturnsTyped DEF WriteNodeAnnotation, WriteNodeAnnotationFails
<1>13. CASE BootstrapReboots
  BY <1>1, <1>13, ReturnsTyped DEF BootstrapReboots, Boot
<1>14. CASE CluoReboots
  BY <1>1, <1>14, ReturnsTyped DEF CluoReboots, Boot
<1>15. CASE PowerFails
  BY <1>1, <1>15, ReturnsTyped DEF PowerFails, Boot
<1>16. CASE ProgramKilled
  BY <1>1, <1>16, ReturnsTyped DEF ProgramKilled, Killed
<1>17. GatherState \/ GetNextOSVersion \/ PickNothing => UNCHANGED vars
  BY DEF GatherState, GetNextOSVersion, PickNothing
<1>18. OSUpdateDone \/ OSUpdateIdle \/ SkipTorcxSetup => UNCHANGED vars
  BY DEF OSUpdateDone, OSUpdateIdle, SkipTorcxSetup
<1>19. CreateEnv \/ SkipCleanup \/ TriggerReboot => UNCHANGED vars
  BY DEF CreateEnv, SkipCleanup, TriggerReboot
<1>20. StartBootstrap \/ StartHook \/ StageUpdate => UNCHANGED vars
  BY DEF StartBootstrap, StartHook, StageUpdate
<1>21. UNCHANGED allVars => UNCHANGED vars
  BY DEF allVars
<1> QED
  BY <1>2, <1>3, <1>4, <1>5, <1>6, <1>7, <1>8, <1>9, <1>10, <1>11, <1>12,
     <1>13, <1>14, <1>15, <1>16, <1>17, <1>18, <1>19, <1>20, <1>21
     DEF NodeNext, BothPrograms, BootstrapSteps, HookSteps, Surroundings
-----------------------------------------------------------------------------
(* The call, or the program, that ends leaves everything in order.        *)
LEMMA ReturnedIInv ==
  ASSUME IInv, Returned
  PROVE  IInv'
<1>1. TypeOK /\ StoreIntegrity
  BY DEF IInv
<1>2. /\ UNCHANGED <<bucket, store, profiles, image, nextProfile, ref>>
      /\ pc' = "idle" /\ osVersions' = <<>> /\ pos' = 1
      /\ src' = Absent /\ profile' = NoProfile
  BY DEF Returned, CallOver
<1>3. pc' \in PCs
  BY <1>2 DEF PCs
<1>4. osVersions' \in Seq(OSVersion) /\ pos' \in 1 .. Len(osVersions') + 1
  BY <1>2
<1>5. cache' \subseteq OSVersion
  BY <1>1 DEF Returned, TypeOK
<1>9. dockerRequiresReboot' \in BOOLEAN
  BY DEF Returned
<1>10. faults' \in 0 .. MaxFaults
  BY DEF Returned
<1>11. /\ store' \in [OSVersion -> [Ref -> Content]]
       /\ bucket' \in [OSVersion -> Manifests]
       /\ profiles' \subseteq Profile \cup {Vendor}
       /\ image' \in [Profile \cup {Vendor} -> Ref \cup {NoImage}]
       /\ nextProfile' \in Profile \cup {Vendor, NoProfile}
       /\ ref' \in Ref
       /\ src' \in Hash \cup {Absent}
       /\ profile' \in Profile \cup {NoProfile}
  BY <1>1, <1>2 DEF TypeOK
<1>6. TypeOK'
  BY <1>3, <1>4, <1>5, <1>9, <1>10, <1>11 DEF TypeOK
<1>7. StageInv'
  BY <1>2 DEF StageInv
<1>8. StoreIntegrity'
  BY <1>1, <1>2 DEF StoreIntegrity, LocFor
<1> QED
  BY <1>6, <1>7, <1>8 DEF IInv

(* What stays in the stores, when some of them are removed, is unchanged. *)
LEMMA CollectedStore ==
  ASSUME TypeOK, Collected
  PROVE  /\ store' \in [OSVersion -> [Ref -> Content]]
         /\ \A o \in OSVersion, r \in Ref :
              store'[o][r] \in {store[o][r], Absent}
         /\ \A o \in OSVersion : ~ Unneeded(o) => store'[o] = store[o]
<1>1. store \in [OSVersion -> [Ref -> Content]]
  BY DEF TypeOK
<1>2. CASE store' = store
  BY <1>1, <1>2
<1>3. ASSUME NEW os \in SUBSET {o \in OSVersion : Unneeded(o)}, EmptyStores(os)
      PROVE  /\ store' \in [OSVersion -> [Ref -> Content]]
             /\ \A o \in OSVersion, r \in Ref :
                  store'[o][r] \in {store[o][r], Absent}
             /\ \A o \in OSVersion : ~ Unneeded(o) => store'[o] = store[o]
  <2>1. [r \in Ref |-> Absent] \in [Ref -> Content]
    BY DEF Content
  <2>2. store' = [o \in OSVersion |->
                    IF o \in os THEN [r \in Ref |-> Absent] ELSE store[o]]
    BY <1>3 DEF EmptyStores
  <2>3. \A o \in OSVersion : o \in os => store'[o] = [r \in Ref |-> Absent]
    BY <2>2
  <2>4. \A o \in OSVersion : o \notin os => store'[o] = store[o]
    BY <2>2
  <2>5. \A o \in OSVersion, r \in Ref : store'[o][r] \in {store[o][r], Absent}
    BY <2>3, <2>4
  <2>6. store' \in [OSVersion -> [Ref -> Content]]
    BY <1>1, <2>1, <2>2
  <2> QED
    BY <2>4, <2>5, <2>6
<1> QED
  BY <1>2, <1>3 DEF Collected

(* Removing stores leaves everything else in order.                       *)
LEMMA CollectedIInv ==
  ASSUME IInv, Collected
  PROVE  IInv'
<1>1. TypeOK /\ StageInv /\ StoreIntegrity
  BY DEF IInv
<1>2. UNCHANGED <<bucket, profiles, image, nextProfile, pc, ref, osVersions,
                  pos, src, profile, cache>>
  BY DEF Collected
<1>3. pc = "idle" /\ faults' \in 0 .. MaxFaults
  BY DEF Collected
<1>7. dockerRequiresReboot' \in BOOLEAN
  BY DEF Collected
<1>8. store' \in [OSVersion -> [Ref -> Content]]
  BY <1>1, CollectedStore
<1>9. /\ bucket' \in [OSVersion -> Manifests]
      /\ profiles' \subseteq Profile \cup {Vendor}
      /\ image' \in [Profile \cup {Vendor} -> Ref \cup {NoImage}]
      /\ nextProfile' \in Profile \cup {Vendor, NoProfile}
      /\ ref' \in Ref /\ pc' \in PCs
      /\ osVersions' \in Seq(OSVersion)
      /\ pos' \in 1 .. Len(osVersions') + 1
      /\ src' \in Hash \cup {Absent}
      /\ profile' \in Profile \cup {NoProfile}
      /\ cache' \subseteq OSVersion
  BY <1>1, <1>2 DEF TypeOK
<1>4. TypeOK'
  BY <1>3, <1>7, <1>8, <1>9 DEF TypeOK
<1>5. StageInv'
  BY <1>1, <1>2, <1>3 DEF StageInv
<1>6. StoreIntegrity'
  BY <1>1, <1>2, CollectedStore DEF StoreIntegrity, LocFor
<1> QED
  BY <1>4, <1>5, <1>6 DEF IInv

(* PickVersion asks only for manifests of OS versions.                    *)
LEMMA AskedForType ==
  ASSUME NodeTypes
  PROVE  AskedFor \subseteq OSVersion
  BY DEF NodeTypes, MachineTypes, RunTypes, AskedFor, PrimaryOS, SecondaryOS

(* So does a call with what PickVersion picked.                           *)
LEMMA CalledIInv ==
  ASSUME IInv, NodeTypes, Called
  PROVE  IInv'
<1>1. TypeOK /\ StageInv /\ StoreIntegrity
  BY DEF IInv
<1>2. /\ Pick.version \in Ref /\ Pick.osVersions \in Seq(OSVersion)
  BY PickFacts DEF Called
<1>3. /\ UNCHANGED <<bucket, store, profiles, image, nextProfile, pos, src,
                     profile, faults>>
      /\ pc = "idle" /\ pc' = "loop"
      /\ ref' = Pick.version /\ osVersions' = Pick.osVersions
      /\ cache' = AskedFor
  BY DEF Called, Call
<1>4. pc' \in PCs
  BY <1>3 DEF PCs
<1>5. osVersions' \in Seq(OSVersion) /\ pos' \in 1 .. Len(osVersions') + 1
  <2>1. pos' = 1
    BY <1>1, <1>3 DEF StageInv
  <2>2. osVersions' \in Seq(OSVersion) /\ Len(osVersions') \in Nat
    BY <1>2, <1>3
  <2> QED
    BY <2>1, <2>2
<1>6. ref' \in Ref /\ cache' \subseteq OSVersion
  BY <1>2, <1>3, AskedForType
<1>10. dockerRequiresReboot' \in BOOLEAN
  BY DEF Called
<1>11. /\ bucket' \in [OSVersion -> Manifests]
       /\ store' \in [OSVersion -> [Ref -> Content]]
       /\ profiles' \subseteq Profile \cup {Vendor}
       /\ image' \in [Profile \cup {Vendor} -> Ref \cup {NoImage}]
       /\ nextProfile' \in Profile \cup {Vendor, NoProfile}
       /\ src' \in Hash \cup {Absent}
       /\ profile' \in Profile \cup {NoProfile}
       /\ faults' \in 0 .. MaxFaults
  BY <1>1, <1>3 DEF TypeOK
<1>7. TypeOK'
  BY <1>4, <1>5, <1>6, <1>10, <1>11 DEF TypeOK
<1>8. StageInv'
  BY <1>3 DEF StageInv
<1>9. StoreIntegrity'
  BY <1>1, <1>3 DEF StoreIntegrity, LocFor
<1> QED
  BY <1>7, <1>8, <1>9 DEF IInv

(* InstallAddon's invariant is kept by every step of a machine.           *)
LEMMA NodeNextIInv ==
  ASSUME IInv, NodeTypes, [NodeNext]_allVars
  PROVE  IInv'
  BY Kinds, NextIInv, ReturnedIInv, CollectedIInv, CalledIInv
-----------------------------------------------------------------------------
(* What a step does to the node itself: nothing ...                       *)
SameNode == UNCHANGED <<machineVars, outVars>>

(* ... or an update is staged ...                                         *)
Staged ==
  /\ pendingOS' \in OSVersion
  /\ pendingOS # NoVersion => pendingOS' = pendingOS
  /\ UNCHANGED <<conf, currentOS, dockerRunning, dataWriters, outVars>>

(* ... or a file or the annotation is written ...                         *)
Wrote ==
  /\ cleanup' \in BOOLEAN /\ annotated' \in BOOLEAN
  /\ kubeletEnv' \in {"absent", "partial", "complete"}
  /\ annotated' = annotated \/ step = "annotate"
  /\ kubeletEnv' = kubeletEnv \/ step \in {"env", "envWrite"}
  /\ UNCHANGED machineVars

(* ... or the machine boots.                                              *)
Booted == \E oldData \in SUBSET (Ref \cup {OSDocker}) : Boot(oldData)

(* There is nothing else a step does to it.                               *)
LEMMA NodeKinds ==
  ASSUME NodeTypes, [NodeNext]_allVars
  PROVE  SameNode \/ Staged \/ Wrote \/ Booted
<1>1. MachineTypes
  BY DEF NodeTypes
<1>2. GatherState \/ GetNextOSVersion \/ PickNothing => SameNode
  BY DEF GatherState, GetNextOSVersion, PickNothing, SameNode
<1>3. OSUpdateIdle \/ SkipTorcxSetup \/ PickInstall \/ Installed => SameNode
  BY DEF OSUpdateIdle, SkipTorcxSetup, PickInstall, Installed, SameNode
<1>4. SkipCleanup \/ TriggerReboot \/ StartBootstrap \/ StartHook => SameNode
  BY DEF SkipCleanup, TriggerReboot, StartBootstrap, StartHook, SameNode
<1>5. InstallAddonSteps \/ OperatorSelectsProfile => SameNode
  BY DEF InstallAddonSteps, OperatorSelectsProfile, nodeVars, SameNode
<1>6. GatherStateFails \/ NextOSFails \/ CreateEnvFails \/ TriggerRebootFails => SameNode
  BY DEF GatherStateFails, NextOSFails, CreateEnvFails, TriggerRebootFails, SameNode
<1>7. PickVersionFails \/ InstallFails \/ NoRebootRequired \/ ProgramKilled => SameNode
  BY DEF PickVersionFails, InstallFails, NoRebootRequired, ProgramKilled, SameNode
<1>8. TorcxGC => SameNode
  BY DEF TorcxGC, SameNode
<1>9. UNCHANGED allVars => SameNode
  BY DEF allVars, nodeVars, SameNode
<1>10. OSUpdateDone \/ StageUpdate => Staged
  BY <1>1 DEF OSUpdateDone, StageUpdate, Staged, MachineTypes
<1>11. CreateEnv \/ WriteEnv => Wrote
  BY <1>1 DEF CreateEnv, WriteEnv, WroteEnv, Wrote, MachineTypes
<1>12. EnableCleanup => Wrote
  BY <1>1 DEF EnableCleanup, Wrote, MachineTypes
<1>13. WriteNodeAnnotation \/ WriteNodeAnnotationFails => Wrote
  BY <1>1 DEF WriteNodeAnnotation, WriteNodeAnnotationFails, Wrote, MachineTypes
<1>14. BootstrapReboots \/ CluoReboots \/ PowerFails => Booted
  <2>1. dataWriters \in SUBSET (Ref \cup {OSDocker})
    BY <1>1 DEF MachineTypes
  <2>2. CleanedUp \in SUBSET (Ref \cup {OSDocker})
    BY <2>1 DEF CleanedUp
  <2> QED
    BY <2>1, <2>2 DEF BootstrapReboots, CluoReboots, PowerFails, Booted
<1> QED
  BY <1>2, <1>3, <1>4, <1>5, <1>6, <1>7, <1>8, <1>9, <1>10, <1>11, <1>12,
     <1>13, <1>14
     DEF NodeNext, BothPrograms, BootstrapSteps, HookSteps, Surroundings

(* The OS version that boots is an OS version.                            *)
LEMMA BootOSType ==
  ASSUME MachineTypes
  PROVE  BootOS \in OSVersion
  BY DEF MachineTypes, BootOS, PrimaryOS

(* The node keeps its types.                                              *)
LEMMA NextMachineTypes ==
  ASSUME TypeOK, NodeTypes, [NodeNext]_allVars
  PROVE  MachineTypes'
<1>1. MachineTypes
  BY DEF NodeTypes
<1>2. CASE SameNode
  BY <1>1, <1>2 DEF SameNode, MachineTypes
<1>3. CASE Staged
  BY <1>1, <1>3 DEF Staged, MachineTypes
<1>4. CASE Wrote
  BY <1>1, <1>4 DEF Wrote, MachineTypes
<1>5. CASE Booted
  <2>1. PICK oldData \in SUBSET (Ref \cup {OSDocker}) : Boot(oldData)
    BY <1>5 DEF Booted
  <2>2. /\ currentOS' \in OSVersion /\ pendingOS' = NoVersion
        /\ conf' = conf /\ kubeletEnv' = kubeletEnv
    BY <1>1, <2>1, BootOSType DEF Boot
  <2>3. dockerRunning' \in Ref \cup {OSDocker, NoImage}
    BY <2>1, DockerAtBootType DEF Boot
  <2>4. dataWriters' \subseteq Ref \cup {OSDocker}
    <3>1. dataWriters' = oldData \cup ({DockerAtBoot} \ {NoImage})
      BY <2>1 DEF Boot
    <3> QED
      BY <3>1, DockerAtBootType
  <2>5. cleanup' \in BOOLEAN /\ annotated' \in BOOLEAN
    BY <2>1 DEF Boot
  <2> QED
    BY <1>1, <2>2, <2>3, <2>4, <2>5 DEF MachineTypes
<1> QED
  BY <1>2, <1>3, <1>4, <1>5, NodeKinds

(* So do the variables of the program that runs.                          *)
LEMMA NextRunTypes ==
  ASSUME NodeTypes, [NodeNext]_allVars
  PROVE  RunTypes'
<1>1. MachineTypes /\ RunTypes
  BY DEF NodeTypes
<1>2. NoProgram => RunTypes'
  BY DEF NoProgram, RunTypes
<1>3. UNCHANGED runVars => RunTypes'
  BY <1>1 DEF RunTypes
<1>4. CASE GatherState
  BY <1>1, <1>4 DEF GatherState, RunTypes
<1>5. CASE GetNextOSVersion
  BY <1>1, <1>5 DEF GetNextOSVersion, ReportedNext, MachineTypes, RunTypes
<1>6. CASE OSUpdateDone
  BY <1>1, <1>6 DEF OSUpdateDone, MachineTypes, RunTypes
<1>7. PickNothing \/ OSUpdateIdle \/ SkipTorcxSetup \/ PickInstall \/ Installed => RunTypes'
  BY <1>3 DEF PickNothing, OSUpdateIdle, SkipTorcxSetup, PickInstall, Installed
<1>8. SkipCleanup \/ TriggerReboot \/ StartBootstrap \/ StartHook => RunTypes'
  BY <1>3 DEF SkipCleanup, TriggerReboot, StartBootstrap, StartHook
<1>9. InstallAddonSteps \/ OperatorSelectsProfile \/ UNCHANGED allVars => RunTypes'
  BY <1>3 DEF InstallAddonSteps, OperatorSelectsProfile, nodeVars, allVars
<1>10. CreateEnv \/ WriteEnv \/ EnableCleanup \/ TorcxGC \/ StageUpdate => RunTypes'
  BY <1>3 DEF CreateEnv, WriteEnv, EnableCleanup, TorcxGC, StageUpdate
<1>11. GatherStateFails \/ NextOSFails \/ CreateEnvFails \/ TriggerRebootFails => RunTypes'
  BY <1>2 DEF GatherStateFails, NextOSFails, CreateEnvFails,
              TriggerRebootFails, ProgramReturns
<1>12. PickVersionFails \/ InstallFails \/ NoRebootRequired \/ ProgramKilled => RunTypes'
  BY <1>2 DEF PickVersionFails, InstallFails, NoRebootRequired,
              ProgramKilled, ProgramReturns
<1>13. WriteNodeAnnotation \/ WriteNodeAnnotationFails => RunTypes'
  BY <1>2 DEF WriteNodeAnnotation, WriteNodeAnnotationFails, ProgramReturns
<1>14. BootstrapReboots \/ CluoReboots \/ PowerFails => RunTypes'
  BY <1>2 DEF BootstrapReboots, CluoReboots, PowerFails, Boot, ProgramReturns
<1> QED
  BY <1>4, <1>5, <1>6, <1>7, <1>8, <1>9, <1>10, <1>11, <1>12, <1>13, <1>14
     DEF NodeNext, BothPrograms, BootstrapSteps, HookSteps, Surroundings

(* And the program goes from one of its steps to another.                 *)
LEMMA NextStepTypes ==
  ASSUME NodeTypes, [NodeNext]_allVars
  PROVE  StepTypes'
<1>1. StepTypes
  BY DEF NodeTypes
<1>2. ProgramReturns => StepTypes'
  BY DEF ProgramReturns, NoProgram, ProcessGone, CallOver, StepTypes, Steps
<1>3. UNCHANGED <<program, step, pc>> => StepTypes'
  BY <1>1 DEF StepTypes
<1>4. GatherState \/ GetNextOSVersion \/ OSUpdateDone \/ OSUpdateIdle => StepTypes'
  BY <1>1 DEF GatherState, GetNextOSVersion, OSUpdateDone, OSUpdateIdle, Goto,
              StepTypes, Steps, vars
<1>5. SkipTorcxSetup \/ PickNothing => StepTypes'
  BY <1>1 DEF SkipTorcxSetup, PickNothing, AfterInstall, Goto, StepTypes, Steps, vars
<1>6. PickInstall => StepTypes'
  BY <1>1 DEF PickInstall, Goto, StepTypes, Steps
<1>7. Installed => StepTypes'
  BY <1>1 DEF Installed, CallOver, AfterInstall, Goto, StepTypes, Steps
<1>8. CreateEnv \/ WriteEnv => StepTypes'
  BY <1>1 DEF CreateEnv, WriteEnv, Goto, StepTypes, Steps, vars, installVars
<1>9. SkipCleanup \/ EnableCleanup \/ TriggerReboot => StepTypes'
  BY <1>1 DEF SkipCleanup, EnableCleanup, TriggerReboot, Goto, StepTypes,
              Steps, vars, installVars
<1>10. TorcxGC => StepTypes'
  BY <1>1 DEF TorcxGC, Goto, StepTypes, Steps
<1>11. StartBootstrap \/ StartHook => StepTypes'
  BY <1>1 DEF StartBootstrap, StartHook, StepTypes, Steps, vars
<1>12. StageUpdate \/ OperatorSelectsProfile \/ UNCHANGED allVars => StepTypes'
  BY <1>3 DEF StageUpdate, OperatorSelectsProfile, OperatorSelects, nodeVars,
              allVars, vars
<1>13. InstallAddonSteps => StepTypes'
  BY <1>1 DEF InstallAddonSteps, nodeVars, StepTypes
<1>14. GatherStateFails \/ NextOSFails \/ CreateEnvFails \/ TriggerRebootFails => StepTypes'
  BY <1>2 DEF GatherStateFails, NextOSFails, CreateEnvFails, TriggerRebootFails
<1>15. PickVersionFails \/ InstallFails \/ NoRebootRequired \/ ProgramKilled => StepTypes'
  BY <1>2 DEF PickVersionFails, InstallFails, NoRebootRequired, ProgramKilled
<1>16. WriteNodeAnnotation \/ WriteNodeAnnotationFails => StepTypes'
  BY <1>2 DEF WriteNodeAnnotation, WriteNodeAnnotationFails
<1>17. BootstrapReboots \/ CluoReboots \/ PowerFails => StepTypes'
  BY <1>2 DEF BootstrapReboots, CluoReboots, PowerFails, Boot
<1> QED
  BY <1>4, <1>5, <1>6, <1>7, <1>8, <1>9, <1>10, <1>11, <1>12, <1>13, <1>14,
     <1>15, <1>16, <1>17
     DEF NodeNext, BothPrograms, BootstrapSteps, HookSteps, Surroundings

(* Types and InstallAddon's invariant, together.                          *)
NTInv == IInv /\ NodeTypes

(* Every step keeps them.                                                 *)
LEMMA NextNTInv == NTInv /\ [NodeNext]_allVars => NTInv'
<1> SUFFICES ASSUME NTInv, [NodeNext]_allVars PROVE NTInv'
  OBVIOUS
<1>1. IInv /\ NodeTypes /\ TypeOK
  BY DEF NTInv, IInv
<1>2. IInv'
  BY <1>1, NodeNextIInv
<1>3. NodeTypes'
  BY <1>1, NextMachineTypes, NextRunTypes, NextStepTypes DEF NodeTypes
<1> QED
  BY <1>2, <1>3 DEF NTInv

(* They hold in every state a machine can be in.                          *)
THEOREM NodeInvariant == NodeSpec => []NTInv
<1>1. NodeInit => NTInv
  BY InitIInv, NodeTypesInit DEF NodeInit, NTInv
<1>2. NTInv /\ [NodeNext]_allVars => NTInv'
  BY NextNTInv
<1> QED
  BY <1>1, <1>2, PTL DEF NodeSpec

(* Every variable of a machine keeps its type, the program is at one of   *)
(* its own steps, and InstallAddon is only ever in progress while the     *)
(* program waits for it.                                                  *)
THEOREM NodeTypesCorrect == NodeSpec => []NodeTypeOK
<1>1. NTInv => NodeTypeOK
  <2> SUFFICES ASSUME NTInv PROVE NodeTypeOK
    OBVIOUS
  <2>1. TypeOK /\ MachineTypes /\ RunTypes /\ StepTypes
    BY DEF NTInv, IInv, NodeTypes
  <2> QED
    BY <2>1, Zenon DEF MachineTypes, RunTypes, StepTypes, NodeTypeOK
<1> QED
  BY <1>1, NodeInvariant, PTL

(* On a machine, too, a store file is the image its manifest publishes    *)
(* for it, or damaged: garbage collection, reboots, and the two programs  *)
(* that share the store never make it the image of another version.       *)
THEOREM NodeStoreIsIntact == NodeSpec => []StoreIntegrity
<1>1. NTInv => StoreIntegrity
  BY DEF NTInv, IInv
<1> QED
  BY <1>1, NodeInvariant, PTL
-----------------------------------------------------------------------------
(* What the surroundings guarantee: updates are to later OS versions; a   *)
(* program knows of no other update than the staged one, and the hook,    *)
(* which runs only on a node of the cluster with an update pending, knows *)
(* of that; so a node is annotated only with an update pending.           *)
Env ==
  /\ pendingOS # NoVersion => pendingOS > currentOS
  /\ nextOSVersion # NoVersion => nextOSVersion = pendingOS
  /\ program = "hook" =>
       /\ pendingOS # NoVersion /\ kubeletEnv = "complete"
       /\ step \notin {"gather", "nextOS"} => nextOSVersion = pendingOS
  /\ annotated =>
       pendingOS # NoVersion /\ kubeletEnv = "complete" /\ program # "bootstrap"

(* Every step keeps it.                                                   *)
LEMMA NextEnv ==
  ASSUME NodeTypes, Env, [NodeNext]_allVars
  PROVE  Env'
<1>1. StepTypes /\ MachineTypes
  BY DEF NodeTypes
<1>2. SameNode /\ NoProgram => Env'
  BY DEF SameNode, NoProgram, Env
<1>3. SameNode /\ UNCHANGED <<nextOSVersion, program>>
        /\ (step = "gather" => step' \in {"gather", "nextOS"})
        /\ (step = "nextOS" => step' = "nextOS" \/ program = "bootstrap") => Env'
  BY DEF SameNode, Env
<1>4. CASE GatherState
  BY <1>3, <1>4 DEF GatherState, Goto, SameNode
<1>5. CASE GetNextOSVersion
  BY <1>5 DEF GetNextOSVersion, ReportedNext, Goto, Env
<1>6. CASE OSUpdateDone
  <2>1. program = "bootstrap" /\ program' = "bootstrap"
    BY <1>6 DEF OSUpdateDone, Updates, Goto
  <2>2. ~ annotated /\ ~ annotated'
    BY <1>6, <2>1 DEF OSUpdateDone, Env
  <2>3. nextOSVersion' = pendingOS' /\ currentOS' = currentOS
    BY <1>6 DEF OSUpdateDone
  <2>4. pendingOS' > currentOS'
    BY <1>6 DEF OSUpdateDone, Env
  <2> QED
    BY <2>1, <2>2, <2>3, <2>4 DEF Env
<1>7. CASE OSUpdateIdle
  BY <1>3, <1>7 DEF OSUpdateIdle, Updates, Goto, SameNode
<1>8. CASE SkipTorcxSetup \/ PickNothing \/ PickInstall
  BY <1>3, <1>8 DEF SkipTorcxSetup, PickNothing, PickInstall, Goto, SameNode
<1>9. CASE InstallAddonSteps \/ Installed
  BY <1>3, <1>9 DEF InstallAddonSteps, Installed, nodeVars, Goto, SameNode
<1>10. CASE CreateEnv \/ WriteEnv
  <2>1. program = "bootstrap" /\ program' = "bootstrap"
    BY <1>1, <1>10 DEF CreateEnv, WriteEnv, Goto, StepTypes
  <2>2. ~ annotated /\ ~ annotated'
    BY <1>10, <2>1 DEF CreateEnv, WriteEnv, Env
  <2>3. UNCHANGED <<pendingOS, currentOS, nextOSVersion>>
    BY <1>10 DEF CreateEnv, WriteEnv
  <2> QED
    BY <2>1, <2>2, <2>3 DEF Env
<1>11. CASE EnableCleanup
  <2>1. program = "bootstrap" /\ program' = "bootstrap"
    BY <1>1, <1>11 DEF EnableCleanup, Goto, StepTypes
  <2>2. ~ annotated /\ ~ annotated'
    BY <1>11, <2>1 DEF EnableCleanup, Env
  <2>3. UNCHANGED <<pendingOS, currentOS, nextOSVersion>>
    BY <1>11 DEF EnableCleanup
  <2> QED
    BY <2>1, <2>2, <2>3 DEF Env
<1>12. CASE SkipCleanup \/ TriggerReboot \/ TorcxGC
  BY <1>3, <1>12 DEF SkipCleanup, TriggerReboot, TorcxGC, Goto, SameNode
<1>13. CASE WriteNodeAnnotation \/ WriteNodeAnnotationFails
  <2>1. program = "hook"
    BY <1>1, <1>13 DEF WriteNodeAnnotation, WriteNodeAnnotationFails, StepTypes
  <2>2. program' = "none" /\ nextOSVersion' = NoVersion
    BY <1>13 DEF WriteNodeAnnotation, WriteNodeAnnotationFails, ProgramReturns,
                 NoProgram
  <2>3. UNCHANGED <<pendingOS, currentOS, kubeletEnv>>
    BY <1>13 DEF WriteNodeAnnotation, WriteNodeAnnotationFails
  <2> QED
    BY <2>1, <2>2, <2>3 DEF Env
<1>14. CASE StartBootstrap
  <2>1. ~ annotated /\ ~ annotated'
    BY <1>14 DEF StartBootstrap, Env
  <2>2. program' = "bootstrap" /\ UNCHANGED <<pendingOS, currentOS, nextOSVersion>>
    BY <1>14 DEF StartBootstrap
  <2> QED
    BY <2>1, <2>2 DEF Env
<1>15. CASE StartHook
  BY <1>15 DEF StartHook, Env
<1>16. CASE StageUpdate
  <2>1. pendingOS = NoVersion /\ pendingOS' > currentOS
    BY <1>16 DEF StageUpdate
  <2>2. ~ annotated /\ program # "hook" /\ nextOSVersion = NoVersion
    BY <2>1 DEF Env
  <2>3. ~ annotated' /\ UNCHANGED <<currentOS, program, nextOSVersion>>
    BY <1>16, <2>2 DEF StageUpdate
  <2> QED
    BY <2>1, <2>2, <2>3 DEF Env
<1>17. CASE OperatorSelectsProfile \/ UNCHANGED allVars
  BY <1>3, <1>17 DEF OperatorSelectsProfile, nodeVars, allVars, SameNode
<1>18. CASE GatherStateFails \/ NextOSFails \/ CreateEnvFails \/ TriggerRebootFails
  BY <1>2, <1>18 DEF GatherStateFails, NextOSFails, CreateEnvFails,
              TriggerRebootFails, ProgramReturns, SameNode
<1>19. CASE PickVersionFails \/ InstallFails \/ NoRebootRequired \/ ProgramKilled
  BY <1>2, <1>19 DEF PickVersionFails, InstallFails, NoRebootRequired,
              ProgramKilled, ProgramReturns, SameNode
<1>20. CASE BootstrapReboots \/ CluoReboots \/ PowerFails
  <2>1. PICK oldData : Boot(oldData)
    BY <1>20 DEF BootstrapReboots, CluoReboots, PowerFails
  <2> QED
    BY <2>1 DEF Boot, ProgramReturns, NoProgram, Env
<1> QED
  BY <1>4, <1>5, <1>6, <1>7, <1>8, <1>9, <1>10, <1>11, <1>12, <1>13, <1>14,
     <1>15, <1>16, <1>17, <1>18, <1>19, <1>20
     DEF NodeNext, BothPrograms, BootstrapSteps, HookSteps, Surroundings

(* So whatever OS version may boot is at least as new as the running one. *)
LEMMA NotUnneeded ==
  ASSUME NodeTypes, Env
  PROVE  /\ ~ Unneeded(currentOS) /\ ~ Unneeded(Primary) /\ ~ Unneeded(BootOS)
         /\ pendingOS # NoVersion => ~ Unneeded(pendingOS)
         /\ currentOS <= Primary
<1>1. currentOS \in Nat /\ (pendingOS # NoVersion => pendingOS \in Nat)
  BY OSVersions DEF NodeTypes, MachineTypes
<1>2. pendingOS # NoVersion => pendingOS > currentOS
  BY DEF Env
<1>3. /\ Primary \in {currentOS, pendingOS}
      /\ Primary = pendingOS => Primary = currentOS \/ pendingOS # NoVersion
  BY <1>1, OSVersions DEF Env, Primary, PrimaryOS, NodeTypes, MachineTypes
<1>4. /\ BootOS \in {currentOS, pendingOS}
      /\ BootOS = pendingOS => BootOS = currentOS \/ pendingOS # NoVersion
  BY DEF BootOS, PrimaryOS
<1> QED
  BY <1>1, <1>2, <1>3, <1>4 DEF Unneeded

(* A good image of an OS version that may still boot stays.               *)
LEMMA NodeKeepsImages ==
  ASSUME NTInv, [NodeNext]_allVars, NEW o \in OSVersion, NEW r \in Ref,
         ~ Unneeded(o), store[o][r] \in Hash
  PROVE  store'[o][r] = store[o][r]
<1>1. IInv /\ NodeTypes /\ TypeOK
  BY DEF NTInv, IInv
<1>2. CASE [Next]_vars
  BY <1>1, <1>2, StepKeepsImages
<1>3. CASE Returned
  BY <1>3 DEF Returned, CallOver
<1>4. CASE Collected
  BY <1>1, <1>4, CollectedStore
<1>5. CASE Called
  BY <1>5 DEF Called, Call
<1> QED
  BY <1>1, <1>2, <1>3, <1>4, <1>5, Kinds

(* Garbage collection, or anything else, never removes a good image of an *)
(* OS version that may still boot.                                        *)
THEOREM BootableImagesAreKept == NodeSpec => BootableImagesKept
<1>1. NodeInit => Env
  BY DEF NodeInit, Env
<1>2. NTInv /\ Env /\ [NodeNext]_allVars => Env'
  BY NextEnv DEF NTInv
<1>3. NTInv /\ Env /\ [NodeNext]_allVars =>
        [\A o \in {currentOS, pendingOS} \ {NoVersion}, r \in Ref :
           store[o][r] \in Hash => store'[o][r] = store[o][r]]_allVars
  <2> SUFFICES ASSUME NTInv, Env, [NodeNext]_allVars,
                      NEW o \in {currentOS, pendingOS} \ {NoVersion},
                      NEW r \in Ref, store[o][r] \in Hash
               PROVE  store'[o][r] = store[o][r]
    OBVIOUS
  <2>1. o \in OSVersion
    BY DEF NTInv, NodeTypes, MachineTypes
  <2>2. ~ Unneeded(o)
    BY NotUnneeded DEF NTInv
  <2> QED
    BY <2>1, <2>2, NodeKeepsImages
<1> QED
  BY <1>1, <1>2, <1>3, NodeInvariant, PTL DEF NodeSpec, BootableImagesKept
-----------------------------------------------------------------------------
(* The call that is in progress is the one PickVersion asked for, and the *)
(* manifests it asked for on the way are in the cache.                    *)
CallInv ==
  step = "install" =>
    /\ pc # "idle" /\ ~ SkipsTorcx
    /\ ~ ShouldSkip(Primary) /\ Available(bucket[Primary], ref)
    /\ osVersions = InstallTargets(bucket, currentOS, nextOSVersion, ref)
    /\ AskedFor \subseteq cache

(* InstallAddon's own steps neither end the call nor change what it is    *)
(* asked for, nor drop a manifest.                                        *)
LEMMA InstallStepFacts ==
  ASSUME InstallStep
  PROVE  /\ pc # "idle" => pc' # "idle"
         /\ UNCHANGED <<bucket, ref, osVersions>>
         /\ cache \subseteq cache'
  BY DEF InstallStep, SkipInstalled, ManifestFails, NoLocationKnown, SkipOnDisk,
         StartFetch, FindExisting, Download, DownloadFails, MkdirFails,
         OpenDestFails, OpenDest, Copy, CopyFails, ListProfiles, NewProfile,
         UseImage, SetNext, TorcxFails, GotManifest, ReturnError, InLoop

(* The steps after which the program waits for InstallAddon.              *)
LEMMA WaitingSteps ==
  ASSUME NodeTypes, [NodeNext]_allVars, step' = "install"
  PROVE  \/ PickInstall
         \/ /\ step = "install" /\ InstallStep
            /\ UNCHANGED <<conf, program, currentOS, nextOSVersion>>
         \/ /\ step = "install"
            /\ UNCHANGED <<vars, conf, program, currentOS, nextOSVersion>>
<1>1. ~ ProgramReturns
  BY DEF ProgramReturns, NoProgram
<1>2. ~ GatherStateFails /\ ~ NextOSFails /\ ~ CreateEnvFails /\ ~ TriggerRebootFails
  BY <1>1 DEF GatherStateFails, NextOSFails, CreateEnvFails, TriggerRebootFails
<1>3. ~ PickVersionFails /\ ~ InstallFails /\ ~ NoRebootRequired /\ ~ ProgramKilled
  BY <1>1 DEF PickVersionFails, InstallFails, NoRebootRequired, ProgramKilled
<1>4. ~ WriteNodeAnnotation /\ ~ WriteNodeAnnotationFails
  BY <1>1 DEF WriteNodeAnnotation, WriteNodeAnnotationFails
<1>5. ~ BootstrapReboots /\ ~ CluoReboots /\ ~ PowerFails
  BY <1>1 DEF BootstrapReboots, CluoReboots, PowerFails, Boot
<1>6. ~ GatherState /\ ~ GetNextOSVersion /\ ~ OSUpdateDone /\ ~ OSUpdateIdle
  BY DEF GatherState, GetNextOSVersion, OSUpdateDone, OSUpdateIdle, Goto
<1>7. ~ SkipTorcxSetup /\ ~ PickNothing /\ ~ Installed
  BY DEF SkipTorcxSetup, PickNothing, Installed, AfterInstall, Goto
<1>8. ~ CreateEnv /\ ~ WriteEnv /\ ~ SkipCleanup /\ ~ EnableCleanup
  BY DEF CreateEnv, WriteEnv, SkipCleanup, EnableCleanup, Goto
<1>9. ~ TriggerReboot /\ ~ TorcxGC /\ ~ StartBootstrap /\ ~ StartHook
  BY DEF TriggerReboot, TorcxGC, StartBootstrap, StartHook, Goto
<1>10. ~ OperatorSelectsProfile
  BY DEF OperatorSelectsProfile, nodeVars, NodeTypes, StepTypes
<1>11. StageUpdate \/ UNCHANGED allVars =>
         step = "install" /\ UNCHANGED <<vars, conf, program, currentOS, nextOSVersion>>
  BY DEF StageUpdate, allVars, nodeVars
<1>12. InstallAddonSteps =>
         /\ step = "install" /\ InstallStep
         /\ UNCHANGED <<conf, program, currentOS, nextOSVersion>>
  BY DEF InstallAddonSteps, nodeVars
<1> QED
  BY <1>2, <1>3, <1>4, <1>5, <1>6, <1>7, <1>8, <1>9, <1>10, <1>11, <1>12
     DEF NodeNext, BothPrograms, BootstrapSteps, HookSteps, Surroundings

(* Every step keeps it.                                                   *)
LEMMA NextCallInv ==
  ASSUME NTInv, CallInv, [NodeNext]_allVars
  PROVE  CallInv'
<1> SUFFICES ASSUME step' = "install"
             PROVE  /\ (pc # "idle")' /\ ~ SkipsTorcx'
                    /\ ~ ShouldSkip(Primary)' /\ Available(bucket[Primary], ref)'
                    /\ osVersions' = InstallTargets(bucket, currentOS, nextOSVersion, ref)'
                    /\ (AskedFor \subseteq cache)'
  BY DEF CallInv
<1>1. NodeTypes
  BY DEF NTInv
<1>2. CASE PickInstall
  <2>1. /\ pc' = "loop" /\ bucket' = bucket
        /\ ref' = Pick.version /\ osVersions' = Pick.osVersions
        /\ cache' = AskedFor
        /\ UNCHANGED <<conf, program, currentOS, nextOSVersion>>
        /\ ~ SkipsTorcx /\ Pick.outcome = "install"
    BY <1>2 DEF PickInstall, Call, Goto
  <2>2. /\ ~ ShouldSkip(Primary)
        /\ Available(bucket[Primary], Pick.version)
        /\ Pick.osVersions = InstallTargets(bucket, currentOS, nextOSVersion, Pick.version)
    BY <1>1, <2>1, PickFacts
  <2>3. Primary' = Primary /\ AskedFor' = AskedFor
    BY <2>1 DEF Primary, AskedFor
  <2>4. ~ SkipsTorcx'
    BY <2>1 DEF SkipsTorcx
  <2> QED
    BY <2>1, <2>2, <2>3, <2>4
<1>3. ASSUME step = "install", UNCHANGED <<bucket, ref, osVersions>>,
             pc # "idle" => pc' # "idle", cache \subseteq cache',
             UNCHANGED <<conf, program, currentOS, nextOSVersion>>
      PROVE  /\ (pc # "idle")' /\ ~ SkipsTorcx'
             /\ ~ ShouldSkip(Primary)' /\ Available(bucket[Primary], ref)'
             /\ osVersions' = InstallTargets(bucket, currentOS, nextOSVersion, ref)'
             /\ (AskedFor \subseteq cache)'
  <2>1. /\ pc # "idle" /\ ~ SkipsTorcx
        /\ ~ ShouldSkip(Primary) /\ Available(bucket[Primary], ref)
        /\ osVersions = InstallTargets(bucket, currentOS, nextOSVersion, ref)
        /\ AskedFor \subseteq cache
    BY <1>3 DEF CallInv
  <2>2. Primary' = Primary /\ AskedFor' = AskedFor
    BY <1>3 DEF Primary, AskedFor
  <2>3. ~ SkipsTorcx'
    BY <1>3, <2>1 DEF SkipsTorcx
  <2> QED
    BY <1>3, <2>1, <2>2, <2>3
<1>4. CASE step = "install" /\ InstallStep
           /\ UNCHANGED <<conf, program, currentOS, nextOSVersion>>
  BY <1>3, <1>4, InstallStepFacts
<1>5. CASE step = "install"
           /\ UNCHANGED <<vars, conf, program, currentOS, nextOSVersion>>
  BY <1>3, <1>5 DEF vars
<1> QED
  BY <1>1, <1>2, <1>4, <1>5, WaitingSteps

(* What is known about a machine at all times.                            *)
MachineInv == NTInv /\ Env /\ CallInv

(* It holds in every state a machine can be in.                           *)
THEOREM MachineInvariant == NodeSpec => []MachineInv
<1>1. NodeInit => Env /\ CallInv
  BY DEF NodeInit, Env, CallInv
<1>2. NTInv /\ Env /\ CallInv /\ [NodeNext]_allVars => Env' /\ CallInv'
  BY NextEnv, NextCallInv DEF NTInv
<1> QED
  BY <1>1, <1>2, NodeInvariant, PTL DEF NodeSpec, MachineInv

(* The OS versions of the call: those of TargetsAre, by their place.      *)
LEMMA TargetsOfCall ==
  ASSUME NodeTypes, CallInv, step = "install"
  PROVE  /\ \A i \in DOMAIN osVersions :
              \/ osVersions[i] = Primary
              \/ /\ osVersions[i] = SecondaryOS(currentOS, nextOSVersion)
                 /\ osVersions[i] # NoVersion /\ ~ ShouldSkip(osVersions[i])
                 /\ Available(bucket[osVersions[i]], ref)
         /\ \E i \in DOMAIN osVersions : osVersions[i] = Primary
         /\ LET secondary == SecondaryOS(currentOS, nextOSVersion)
            IN  secondary # NoVersion /\ ~ ShouldSkip(secondary)
                  /\ Available(bucket[secondary], ref)
                => \E i \in DOMAIN osVersions : osVersions[i] = secondary
<1> DEFINE secondary == SecondaryOS(currentOS, nextOSVersion)
<1>1. ToSet(osVersions) =
        {Primary} \cup {o \in {secondary} : /\ o # NoVersion
                                            /\ ~ ShouldSkip(o)
                                            /\ Available(bucket[o], ref)}
  BY TargetsAre DEF CallInv, Primary
<1>2. ToSet(osVersions) = {osVersions[i] : i \in DOMAIN osVersions}
  BY DEF ToSet
<1> QED
  BY <1>1, <1>2

(* The errors that "should not happen" do not: when the loop needs a      *)
(* manifest, PickVersion of the same run has fetched it and has made sure *)
(* that it offers the docker version.                                     *)
THEOREM StrategyCaughtIt == NodeSpec => []StrategyCaughtThisCase
<1>1. MachineInv => StrategyCaughtThisCase
  <2> SUFFICES ASSUME MachineInv, step = "install", InLoop
               PROVE  osVersion \in cache /\ LocFor(osVersion, ref) # NoLocation
    BY DEF StrategyCaughtThisCase
  <2>1. NodeTypes /\ TypeOK /\ CallInv
    BY DEF MachineInv, NTInv, IInv
  <2>2. pos \in DOMAIN osVersions
    BY <2>1 DEF InLoop, TypeOK
  <2>3. \/ osVersion = Primary
        \/ /\ osVersion = SecondaryOS(currentOS, nextOSVersion)
           /\ osVersion # NoVersion /\ ~ ShouldSkip(osVersion)
           /\ Available(bucket[osVersion], ref)
    BY <2>1, <2>2, TargetsOfCall DEF osVersion
  <2>4. /\ ~ ShouldSkip(Primary) /\ Available(bucket[Primary], ref)
        /\ AskedFor \subseteq cache
    BY <2>1 DEF CallInv
  <2>5. Primary # NoVersion
    BY <2>1, PrimaryIsOS, OSVersions
  <2>6. osVersion # NoVersion /\ ~ ShouldSkip(osVersion) /\ Available(bucket[osVersion], ref)
    BY <2>3, <2>4, <2>5
  <2>7. osVersion \in AskedFor
    BY <2>3, <2>6 DEF AskedFor, Primary
  <2>8. osVersion \in OSVersion
    BY <2>1, CurrentOSVersion DEF InLoop
  <2>9. LocFor(osVersion, ref) # NoLocation
    BY <2>1, <2>6, <2>8, LocForIs DEF Available, TypeOK
  <2> QED
    BY <2>4, <2>7, <2>9
<1> QED
  BY <1>1, MachineInvariant, PTL
-----------------------------------------------------------------------------
(***************************************************************************)
(* The docker of the next boot, under the conditions of ReadyInvariant:    *)
(* copies to the store complete, and an image on disk is in the vendor     *)
(* store.                                                                  *)
(***************************************************************************)

(* A machine keeps ReadyInv: a program that is gone leaves no damaged     *)
(* file, and removing stores damages none.                                *)
LEMMA NextReadyInv ==
  ASSUME CopiesComplete, DiskMeansVendor, NTInv, ReadyInv, [NodeNext]_allVars
  PROVE  ReadyInv'
<1>1. IInv /\ NodeTypes /\ TypeOK /\ DamagedInv
  BY DEF NTInv, IInv, ReadyInv
<1>2. CASE [Next]_vars
  BY <1>1, <1>2, NextDamagedInv, NextLoopInv, NextDoneInv DEF ReadyInv
<1>3. CASE Returned
  <2>1. pc # "write"
    BY <1>3 DEF Returned, Fault, CopiesComplete
  <2>2. pc' = "idle" /\ store' = store
    BY <1>3 DEF Returned, CallOver
  <2>3. \A o \in OSVersion, r \in Ref : store[o][r] # Damaged
    BY <1>1, <2>1 DEF DamagedInv
  <2> QED
    BY <2>2, <2>3 DEF ReadyInv, DamagedInv, LoopInv, DoneInv
<1>4. CASE Collected
  <2>1. pc' = "idle" /\ pc = "idle"
    BY <1>4 DEF Collected
  <2>2. \A o \in OSVersion, r \in Ref : store[o][r] # Damaged
    BY <1>1, <2>1 DEF DamagedInv
  <2>3. \A o \in OSVersion, r \in Ref : store'[o][r] # Damaged
    BY <1>1, <1>4, <2>2, CollectedStore, InstallAssumption
  <2> QED
    BY <2>1, <2>3 DEF ReadyInv, DamagedInv, LoopInv, DoneInv
<1>5. CASE Called
  <2>1. pc = "idle" /\ pc' = "loop" /\ store' = store /\ pos' = pos
    BY <1>5 DEF Called, Call
  <2>2. \A o \in OSVersion, r \in Ref : store[o][r] # Damaged
    BY <1>1, <2>1 DEF DamagedInv
  <2>3. pos' = 1
    BY <1>1, <2>1 DEF IInv, StageInv
  <2>4. LoopInv'
    <3> SUFFICES ASSUME NEW i \in 1 .. Len(osVersions'), i < pos'
                 PROVE  FALSE
      BY DEF LoopInv
    <3> QED
      BY <2>3
  <2> QED
    BY <2>1, <2>2, <2>4 DEF ReadyInv, DamagedInv, DoneInv
<1> QED
  BY <1>1, <1>2, <1>3, <1>4, <1>5, Kinds

(* What an OS version that may still boot has ready, it keeps.            *)
LEMMA NodeKeepsReady ==
  ASSUME NTInv, [NodeNext]_allVars, NEW o \in OSVersion, NEW r \in Ref,
         ~ Unneeded(o), Ready(o, r)
  PROVE  Ready(o, r)'
<1>1. IInv /\ NodeTypes /\ TypeOK
  BY DEF NTInv, IInv
<1>2. bucket' = bucket
  <2>1. [Next]_vars => bucket' = bucket
    BY BucketConstant
  <2>2. Returned \/ Collected \/ Called => bucket' = bucket
    BY DEF Returned, CallOver, Collected, Called, Call
  <2> QED
    BY <1>1, <2>1, <2>2, Kinds
<1>3. LocFor(o, r) # NoLocation /\ UNCHANGED LocFor(o, r)
  BY <1>2 DEF LocFor, Ready
<1>4. LocFor(o, r).hash \in Hash
  <2>1. LocFor(o, r) \in Location
    BY <1>1, <1>3, LocForType DEF TypeOK
  <2> QED
    BY <2>1 DEF Location
<1>5. store[o][r] = LocFor(o, r).hash => store'[o][r] = LocFor(o, r).hash
  BY <1>4, NodeKeepsImages
<1> QED
  BY <1>3, <1>5 DEF Ready

(* Docker version r will do for a boot of OS version o, and of the        *)
(* running one as well, if that has it.                                   *)
WillDo(o, r) ==
  /\ Prepared(o, r)
  /\ r \in Ref /\ LocFor(currentOS, r) # NoLocation => Prepared(currentOS, r)

(* As long as the running OS is the same, it will go on to do.            *)
LEMMA WillDoKept ==
  ASSUME MachineInv, [NodeNext]_allVars, NEW o \in OSVersion, NEW r,
         ~ Unneeded(o), currentOS' = currentOS, WillDo(o, r)
  PROVE  WillDo(o, r)'
<1>1. NTInv /\ IInv /\ NodeTypes /\ Env /\ currentOS \in OSVersion
  BY DEF MachineInv, NTInv, NodeTypes, MachineTypes
<1>2. ~ Unneeded(currentOS)
  BY <1>1, NotUnneeded
<1>3. \A x \in OSVersion : ~ Unneeded(x) /\ Prepared(x, r) => Prepared(x, r)'
  <2> SUFFICES ASSUME NEW x \in OSVersion, ~ Unneeded(x), Prepared(x, r)
               PROVE  Prepared(x, r)'
    OBVIOUS
  <2>1. CASE ShouldSkip(x)
    BY <2>1 DEF Prepared
  <2>2. CASE r \in Ref /\ Ready(x, r)
    <3>1. Ready(x, r)'
      BY <1>1, <2>2, NodeKeepsReady
    <3> QED
      BY <2>2, <3>1 DEF Prepared
  <2> QED
    BY <2>1, <2>2 DEF Prepared
<1>4. Prepared(o, r)'
  BY <1>3 DEF WillDo
<1>5. bucket' = bucket
  <2>1. [Next]_vars => bucket' = bucket
    BY BucketConstant
  <2>2. Returned \/ Collected \/ Called => bucket' = bucket
    BY DEF Returned, CallOver, Collected, Called, Call
  <2> QED
    BY <1>1, <2>1, <2>2, Kinds
<1>6. ASSUME r \in Ref, LocFor(currentOS, r)' # NoLocation
      PROVE  Prepared(currentOS, r)'
  <2>1. LocFor(currentOS, r) # NoLocation
    BY <1>5, <1>6 DEF LocFor
  <2>2. Prepared(currentOS, r)
    BY <1>6, <2>1 DEF WillDo
  <2>3. Prepared(currentOS, r) => Prepared(currentOS, r)'
    <3> DEFINE c == currentOS
    <3>1. c \in OSVersion /\ ~ Unneeded(c)
      BY <1>1, <1>2
    <3>2. Prepared(c, r) => (ShouldSkip(c) \/ (r \in Ref /\ Ready(c, r)'))
      BY <1>1, <3>1, NodeKeepsReady DEF Prepared
    <3> QED
      BY <3>2 DEF Prepared, Ready, LocFor
  <2> QED
    BY <2>2, <2>3
<1> QED
  BY <1>4, <1>6 DEF WillDo

(* Who changes what the next boot applies.                                *)
LEMMA TorcxSteps ==
  ASSUME [NodeNext]_allVars
  PROVE  InstallAddonSteps \/ OperatorSelectsProfile \/ UNCHANGED <<nextProfile, image>>
<1>1. ProgramReturns => UNCHANGED <<nextProfile, image>>
  BY DEF ProgramReturns, ProcessGone, CallOver
<1>2. GatherStateFails \/ NextOSFails \/ CreateEnvFails \/ TriggerRebootFails
        => UNCHANGED <<nextProfile, image>>
  BY <1>1 DEF GatherStateFails, NextOSFails, CreateEnvFails, TriggerRebootFails
<1>3. PickVersionFails \/ InstallFails \/ NoRebootRequired \/ ProgramKilled
        => UNCHANGED <<nextProfile, image>>
  BY <1>1 DEF PickVersionFails, InstallFails, NoRebootRequired, ProgramKilled
<1>4. WriteNodeAnnotation \/ WriteNodeAnnotationFails => UNCHANGED <<nextProfile, image>>
  BY <1>1 DEF WriteNodeAnnotation, WriteNodeAnnotationFails
<1>5. BootstrapReboots \/ CluoReboots \/ PowerFails => UNCHANGED <<nextProfile, image>>
  BY <1>1 DEF BootstrapReboots, CluoReboots, PowerFails, Boot
<1>6. GatherState \/ GetNextOSVersion \/ OSUpdateDone \/ OSUpdateIdle
        => UNCHANGED <<nextProfile, image>>
  BY DEF GatherState, GetNextOSVersion, OSUpdateDone, OSUpdateIdle, vars
<1>7. SkipTorcxSetup \/ PickNothing \/ PickInstall \/ Installed
        => UNCHANGED <<nextProfile, image>>
  BY DEF SkipTorcxSetup, PickNothing, PickInstall, Call, Installed, CallOver, vars
<1>8. CreateEnv \/ WriteEnv \/ SkipCleanup \/ EnableCleanup
        => UNCHANGED <<nextProfile, image>>
  BY DEF CreateEnv, WriteEnv, SkipCleanup, EnableCleanup, vars, installVars
<1>9. TriggerReboot \/ TorcxGC \/ StartBootstrap \/ StartHook \/ StageUpdate
        \/ UNCHANGED allVars => UNCHANGED <<nextProfile, image>>
  BY DEF TriggerReboot, TorcxGC, StartBootstrap, StartHook, StageUpdate,
         allVars, vars
<1> QED
  BY <1>2, <1>3, <1>4, <1>5, <1>6, <1>7, <1>8, <1>9
     DEF NodeNext, BothPrograms, BootstrapSteps, HookSteps, Surroundings

(* It is the operator, or the docker of the call that is in progress,     *)
(* which is then ready for all the OS versions of that call.              *)
LEMMA BootImageSteps ==
  ASSUME MachineInv, ReadyInv, [NodeNext]_allVars, BootImage' # BootImage
  PROVE  \/ OperatorSelectsProfile
         \/ step = "install" /\ BootImage' = ref /\ TargetsReady(ref)
<1>1. CASE UNCHANGED <<nextProfile, image>>
  BY <1>1 DEF BootImage, Selected
<1>2. CASE InstallAddonSteps
  <2>1. step = "install" /\ [Next]_vars
    BY <1>2 DEF InstallAddonSteps, Next
  <2>2. pc # "idle" /\ IInv
    BY <2>1 DEF MachineInv, NTInv, CallInv
  <2> QED
    BY <2>1, <2>2, SwitchStep
<1> QED
  BY <1>1, <1>2, TorcxSteps

(* When a call has succeeded, the next boot applies its docker.           *)
OkInv == pc = "ok" => BootImage = ref

(* Every step keeps this.                                                 *)
LEMMA NextOkInv ==
  ASSUME MachineInv, ReadyInv, OkInv, [NodeNext]_allVars
  PROVE  OkInv'
<1>1. IInv /\ NodeTypes /\ TypeOK
  BY DEF MachineInv, NTInv, IInv
<1>2. CASE pc' # "ok"
  BY <1>2 DEF OkInv
<1>3. CASE UNCHANGED vars
  BY <1>3 DEF OkInv, vars, BootImage, Selected
<1>4. CASE SetNext
  <2>1. profile \in Profile /\ image[profile] = ref
    BY <1>4 DEF SetNext, MachineInv, NTInv, IInv, StageInv, ReadyInv, DoneInv
  <2>2. BootImage' = ref /\ ref' = ref
    BY <1>4, <2>1, InstallAssumption DEF SetNext, BootImage, Selected
  <2> QED
    BY <2>2 DEF OkInv
<1>5. Returned \/ Collected \/ Called => pc' # "ok"
  BY DEF Returned, CallOver, Collected, Called, Call
<1>6. InstallStep => SetNext \/ pc' # "ok"
  BY DEF InstallStep, SkipInstalled, ManifestFails, NoLocationKnown, SkipOnDisk,
         StartFetch, FindExisting, Download, DownloadFails, MkdirFails,
         OpenDestFails, OpenDest, Copy, CopyFails, ListProfiles, NewProfile,
         UseImage, TorcxFails, ReturnError, InLoop
<1>7. NewCall \/ OperatorSelects \/ Crash \/ Exit => pc' # "ok"
  BY DEF NewCall, Call, OperatorSelects, Crash, Exit, ProcessGone, CallOver
<1> QED
  BY <1>1, <1>2, <1>3, <1>4, <1>5, <1>6, <1>7, Kinds DEF Next

(* A docker that is ready for the OS versions of the call will do for the *)
(* coming one.                                                            *)
LEMMA TargetsWillDo ==
  ASSUME MachineInv, step = "install", TargetsReady(ref)
  PROVE  WillDo(Primary, ref)
<1>1. NodeTypes /\ CallInv /\ TypeOK
  BY DEF MachineInv, NTInv, IInv
<1>2. ref \in Ref /\ currentOS \in OSVersion /\ currentOS # NoVersion
  BY <1>1, OSVersions DEF TypeOK, NodeTypes, MachineTypes
<1>3. Ready(Primary, ref)
  <2>1. PICK i \in DOMAIN osVersions : osVersions[i] = Primary
    BY <1>1, TargetsOfCall
  <2>2. Ready(osVersions[i], ref)
    BY DEF TargetsReady
  <2> QED
    BY <2>1, <2>2
<1>4. Prepared(Primary, ref)
  BY <1>2, <1>3 DEF Prepared
<1>5. ASSUME LocFor(currentOS, ref) # NoLocation
      PROVE  Prepared(currentOS, ref)
  <2>1. CASE nextOSVersion = NoVersion
    <3>1. Primary = currentOS
      BY <2>1 DEF Primary, PrimaryOS
    <3> QED
      BY <1>4, <3>1
  <2>2. CASE ShouldSkip(currentOS)
    BY <2>2 DEF Prepared
  <2>3. CASE nextOSVersion # NoVersion /\ ~ ShouldSkip(currentOS)
    <3>1. SecondaryOS(currentOS, nextOSVersion) = currentOS
      BY <2>3 DEF SecondaryOS
    <3>2. Available(bucket[currentOS], ref)
      BY <1>1, <1>2, <1>5, LocForIs DEF Available, TypeOK
    <3>3. PICK i \in DOMAIN osVersions : osVersions[i] = currentOS
      BY <1>1, <1>2, <2>3, <3>1, <3>2, TargetsOfCall
    <3>4. Ready(osVersions[i], ref)
      BY DEF TargetsReady
    <3>5. Ready(currentOS, ref)
      BY <3>3, <3>4
    <3> QED
      BY <1>2, <3>5 DEF Prepared
  <2> QED
    BY <2>1, <2>2, <2>3
<1> QED
  BY <1>4, <1>5 DEF WillDo

(* If torcx is too new for the coming OS version, it is for the running   *)
(* one.                                                                   *)
LEMMA SkippedWillDo ==
  ASSUME MachineInv, ShouldSkip(Primary), NEW r
  PROVE  WillDo(Primary, r)
<1>1. NodeTypes /\ Env
  BY DEF MachineInv, NTInv
<1>2. currentOS <= Primary
  BY <1>1, NotUnneeded
<1>3. currentOS \in Nat /\ Primary \in Nat /\ MinimumRemoteDocker \in Nat
  BY <1>1, PrimaryIsOS, OSVersions DEF NodeTypes, MachineTypes
<1>4. ShouldSkip(currentOS)
  BY <1>2, <1>3 DEF ShouldSkip
<1> QED
  BY <1>4 DEF WillDo, Prepared

(* The steps of the programs after docker has been dealt with.            *)
Done == {"env", "envWrite", "finish", "reboot", "rebooting", "gc", "annotate"}

(* How they are reached.                                                  *)
LEMMA DoneSteps ==
  ASSUME NodeTypes, [NodeNext]_allVars, step' \in Done
  PROVE  /\ UNCHANGED <<conf, program, currentOS, nextOSVersion>>
         /\ step \in Done \/ SkipTorcxSetup \/ PickNothing \/ Installed
<1>1. ~ ProgramReturns
  BY DEF ProgramReturns, NoProgram, Done
<1>2. ~ GatherStateFails /\ ~ NextOSFails /\ ~ CreateEnvFails /\ ~ TriggerRebootFails
  BY <1>1 DEF GatherStateFails, NextOSFails, CreateEnvFails, TriggerRebootFails
<1>3. ~ PickVersionFails /\ ~ InstallFails /\ ~ NoRebootRequired /\ ~ ProgramKilled
  BY <1>1 DEF PickVersionFails, InstallFails, NoRebootRequired, ProgramKilled
<1>4. ~ WriteNodeAnnotation /\ ~ WriteNodeAnnotationFails
  BY <1>1 DEF WriteNodeAnnotation, WriteNodeAnnotationFails
<1>5. ~ BootstrapReboots /\ ~ CluoReboots /\ ~ PowerFails
  BY <1>1 DEF BootstrapReboots, CluoReboots, PowerFails, Boot
<1>6. ~ GatherState /\ ~ GetNextOSVersion /\ ~ OSUpdateDone /\ ~ OSUpdateIdle
  BY DEF GatherState, GetNextOSVersion, OSUpdateDone, OSUpdateIdle, Goto, Done
<1>7. ~ PickInstall /\ ~ StartBootstrap /\ ~ StartHook /\ ~ InstallAddonSteps
  BY DEF PickInstall, StartBootstrap, StartHook, InstallAddonSteps, nodeVars,
         Goto, Done
<1>8. ~ OperatorSelectsProfile
  BY DEF OperatorSelectsProfile, nodeVars, NodeTypes, StepTypes, Done
<1>9. SkipTorcxSetup \/ PickNothing \/ Installed
        => UNCHANGED <<conf, program, currentOS, nextOSVersion>>
  BY DEF SkipTorcxSetup, PickNothing, Installed, Goto
<1>10. CreateEnv \/ WriteEnv \/ SkipCleanup \/ EnableCleanup
         => step \in Done /\ UNCHANGED <<conf, program, currentOS, nextOSVersion>>
  BY DEF CreateEnv, WriteEnv, SkipCleanup, EnableCleanup, Goto, Done
<1>11. TriggerReboot \/ TorcxGC \/ StageUpdate \/ UNCHANGED allVars
         => step \in Done /\ UNCHANGED <<conf, program, currentOS, nextOSVersion>>
  BY DEF TriggerReboot, TorcxGC, StageUpdate, allVars, nodeVars, Goto, Done
<1> QED
  BY <1>2, <1>3, <1>4, <1>5, <1>6, <1>7, <1>8, <1>9, <1>10, <1>11
     DEF NodeNext, BothPrograms, BootstrapSteps, HookSteps, Surroundings

(* The docker of the next boot will do for the OS version that boots: on  *)
(* an annotated node whatever runs on it, and for a program once it has   *)
(* dealt with docker.                                                     *)
Served ==
  /\ annotated => WillDo(BootOS, BootImage)
  /\ step \in Done /\ ~ SkipsTorcx => WillDo(Primary, BootImage)

(* A program that is done with docker keeps it so.                        *)
LEMMA NextServedDone ==
  ASSUME MachineInv, ReadyInv, OkInv, Served, [NodeNext]_allVars,
         step' \in Done, ~ SkipsTorcx'
  PROVE  WillDo(Primary, BootImage)'
<1>1. NodeTypes /\ Env /\ StepTypes /\ CallInv /\ Primary \in OSVersion
  BY PrimaryIsOS DEF MachineInv, NTInv, NodeTypes
<1>2. /\ UNCHANGED <<conf, program, currentOS, nextOSVersion>>
      /\ step \in Done \/ SkipTorcxSetup \/ PickNothing \/ Installed
  BY <1>1, DoneSteps
<1>3. ~ SkipsTorcx /\ Primary' = Primary
  BY <1>2 DEF SkipsTorcx, Primary
<1>4. ~ Unneeded(Primary)
  BY <1>1, NotUnneeded
<1>5. BootImage' = BootImage
  <2>1. ~ OperatorSelectsProfile
    BY <1>1 DEF OperatorSelectsProfile, nodeVars, StepTypes, Done
  <2>2. step = "install" => Installed
    BY <1>2 DEF Done, SkipTorcxSetup, PickNothing
  <2>3. Installed => BootImage' = BootImage
    BY DEF Installed, CallOver, BootImage, Selected
  <2> QED
    BY <2>1, <2>2, <2>3, BootImageSteps
<1>6. WillDo(Primary, BootImage)
  <2>1. CASE step \in Done
    BY <1>3, <2>1 DEF Served
  <2>2. CASE SkipTorcxSetup
    BY <1>3, <2>2 DEF SkipTorcxSetup
  <2>3. CASE PickNothing
    <3>1. dockerVersions \in Seq(Ref)
      BY <1>1, Preferred DEF NodeTypes
    <3>2. ShouldSkip(Primary)
      BY <2>3, <3>1, PickVersionEnds
         DEF PickNothing, Pick, DoesNothing, Refuses, Picks, Primary
    <3> QED
      BY <3>2, SkippedWillDo
  <2>4. CASE Installed
    <3>1. step = "install" /\ BootImage = ref /\ TargetsReady(ref)
      BY <2>4 DEF Installed, OkInv, ReadyInv, DoneInv
    <3> QED
      BY <3>1, TargetsWillDo
  <2> QED
    BY <1>2, <2>1, <2>2, <2>3, <2>4
<1>7. WillDo(Primary, BootImage) => WillDo(Primary, BootImage)'
  <2> DEFINE o == Primary
             r == BootImage
  <2>1. o' = o /\ r' = r
    BY <1>3, <1>5
  <2>2. \A x \in OSVersion : \A y : ~ Unneeded(x) /\ WillDo(x, y) => WillDo(x, y)'
    BY <1>2, WillDoKept
  <2> HIDE DEF o, r
  <2>3. o \in OSVersion /\ ~ Unneeded(o)
    BY <1>1, <1>4 DEF o
  <2>4. WillDo(o, r) => WillDo(o, r)'
    BY <2>1, <2>2, <2>3 DEF WillDo, Prepared, Ready, LocFor, ShouldSkip
  <2> QED
    BY <2>4 DEF o, r
<1> QED
  BY <1>6, <1>7

(* On an annotated node it stays so, too, even if the hook runs again and *)
(* installs another docker version.                                       *)
LEMMA NextServedAnnotated ==
  ASSUME MachineInv, ReadyInv, Served, [NodeNext]_allVars, annotated'
  PROVE  WillDo(BootOS, BootImage)'
<1>1. NodeTypes /\ Env /\ StepTypes /\ MachineTypes /\ CallInv /\ BootOS \in OSVersion
  BY BootOSType DEF MachineInv, NTInv, NodeTypes
<1>2. ~ Booted
  BY DEF Booted, Boot
<1>3. (annotated \/ step = "annotate") /\ currentOS' = currentOS
  BY <1>1, <1>2, NodeKinds DEF SameNode, Staged, Wrote
<1>4. annotated \/ program = "hook"
  BY <1>1, <1>3 DEF StepTypes
<1>5. pendingOS # NoVersion /\ program # "bootstrap"
  BY <1>1, <1>4 DEF Env
<1>6. pendingOS' = pendingOS /\ BootOS' = BootOS
  <2>1. pendingOS' = pendingOS
    BY <1>1, <1>2, <1>5, NodeKinds DEF SameNode, Staged, Wrote
  <2> QED
    BY <1>3, <2>1 DEF BootOS
<1>7. step \notin {"none", "gather", "nextOS"} => Primary = BootOS
  <2> SUFFICES ASSUME step \notin {"none", "gather", "nextOS"}
               PROVE  Primary = BootOS
    OBVIOUS
  <2>1. program = "hook"
    BY <1>1, <1>5 DEF StepTypes
  <2>2. nextOSVersion = pendingOS
    BY <1>1, <2>1 DEF Env
  <2> QED
    BY <2>2 DEF Primary, BootOS
<1>8. WillDo(BootOS, BootImage')
  <2>1. CASE step = "install" /\ BootImage' = ref /\ TargetsReady(ref)
    BY <1>7, <2>1, TargetsWillDo
  <2>2. CASE BootImage' = BootImage
    <3>1. WillDo(BootOS, BootImage)
      <4>1. CASE annotated
        BY <4>1 DEF Served
      <4>2. CASE step = "annotate"
        <5>1. ~ SkipsTorcx
          BY <1>5 DEF SkipsTorcx
        <5>2. WillDo(Primary, BootImage)
          BY <4>2, <5>1 DEF Served, Done
        <5> QED
          BY <1>7, <4>2, <5>2
      <4> QED
        BY <1>3, <4>1, <4>2
    <3> QED
      BY <2>2, <3>1
  <2>3. ~ OperatorSelectsProfile \/ BootImage' = BootImage
    <3>1. CASE annotated
      BY <3>1 DEF OperatorSelectsProfile
    <3>2. CASE step = "annotate"
      BY <1>1, <3>2 DEF OperatorSelectsProfile, StepTypes
    <3> QED
      BY <1>3, <3>1, <3>2
  <2> QED
    BY <2>1, <2>2, <2>3, BootImageSteps
<1>9. WillDo(BootOS, BootImage') => WillDo(BootOS, BootImage)'
  <2> DEFINE o == BootOS
             r == BootImage'
  <2>1. o' = o
    BY <1>6
  <2>2. \A x \in OSVersion : \A y : ~ Unneeded(x) /\ WillDo(x, y) => WillDo(x, y)'
    BY <1>3, WillDoKept
  <2>3. o \in OSVersion /\ ~ Unneeded(o)
    BY <1>1, NotUnneeded
  <2>4. WillDo(BootOS, BootImage') =>
          /\ ShouldSkip(BootOS) \/ (BootImage' \in Ref /\ Ready(BootOS, BootImage)')
          /\ BootImage' \in Ref /\ LocFor(currentOS, BootImage)' # NoLocation
               => ShouldSkip(currentOS)' \/ (BootImage' \in Ref /\ Ready(currentOS, BootImage)')
    BY <2>1, <2>2, <2>3 DEF WillDo, Prepared, Ready, LocFor, ShouldSkip
  <2> QED
    BY <1>6, <2>4 DEF WillDo, Prepared, ShouldSkip
<1> QED
  BY <1>8, <1>9

(* What is known about a machine whose copies complete.                   *)
ServedInv == ReadyInv /\ OkInv /\ Served

(* It is kept by every step, and so holds in every state.                 *)
LEMMA ServedInvariant ==
  ASSUME CopiesComplete, DiskMeansVendor
  PROVE  NodeSpec => []ServedInv
<1>1. NodeInit => ServedInv
  <2> SUFFICES ASSUME NodeInit PROVE ServedInv
    OBVIOUS
  <2>1. DamagedInv
    BY InstallAssumption DEF NodeInit, Init, DamagedInv
  <2>2. ReadyInv /\ OkInv
    BY <2>1 DEF NodeInit, Init, ReadyInv, LoopInv, DoneInv, OkInv
  <2>3. Served
    BY DEF NodeInit, Served, Done
  <2> QED
    BY <2>2, <2>3 DEF ServedInv
<1>2. MachineInv /\ ServedInv /\ [NodeNext]_allVars => ServedInv'
  <2> SUFFICES ASSUME MachineInv, ReadyInv, OkInv, Served, [NodeNext]_allVars
               PROVE  ServedInv'
    BY DEF ServedInv
  <2>1. ReadyInv'
    BY NextReadyInv DEF MachineInv
  <2>2. OkInv'
    BY NextOkInv
  <2>3. Served'
    BY NextServedDone, NextServedAnnotated DEF Served
  <2> QED
    BY <2>1, <2>2, <2>3 DEF ServedInv
<1> QED
  BY <1>1, <1>2, MachineInvariant, PTL DEF NodeSpec

(* Nothing that may reboot the node does so before docker is ready for    *)
(* the OS version that will boot, and for the one it may fall back to.    *)
THEOREM RebootsAreSafe ==
  ASSUME CopiesComplete, DiskMeansVendor
  PROVE  NodeSpec => []RebootOnlyWhenReady
<1>1. MachineInv /\ ServedInv => RebootOnlyWhenReady
  <2> SUFFICES ASSUME MachineInv, Served, RebootDue, ~ SkipsTorcx
               PROVE  WillDo(ExpectedOS, BootImage)
    BY DEF ServedInv, RebootOnlyWhenReady, WillDo
  <2>1. CASE annotated
    BY <2>1 DEF Served, ExpectedOS
  <2>2. CASE ~ annotated
    <3>1. step \in Done
      BY <2>2 DEF RebootDue, Done
    <3>2. ExpectedOS = Primary
      BY <2>2 DEF ExpectedOS, Primary
    <3> QED
      BY <3>1, <3>2 DEF Served
  <2> QED
    BY <2>1, <2>2
<1> QED
  BY <1>1, ServedInvariant, MachineInvariant, PTL

(* The kubelet is let go only when docker is ready for the coming boot.   *)
THEOREM KubeletIsHeldBack ==
  ASSUME CopiesComplete, DiskMeansVendor
  PROVE  NodeSpec => NoKubeletWithoutDocker
<1>1. MachineInv /\ ServedInv /\ [NodeNext]_allVars =>
        [kubeletEnv = "absent" /\ kubeletEnv' # "absent" =>
           \/ SkipsTorcx
           \/ Prepared(PrimaryOS(currentOS, nextOSVersion), BootImage)]_allVars
  <2> SUFFICES ASSUME MachineInv, Served, [NodeNext]_allVars,
                      kubeletEnv' # kubeletEnv, ~ SkipsTorcx
               PROVE  Prepared(Primary, BootImage)
    BY DEF ServedInv, Primary
  <2>1. step \in {"env", "envWrite"}
    BY NodeKinds DEF MachineInv, NTInv, SameNode, Staged, Wrote, Booted, Boot
  <2> QED
    BY <2>1 DEF Served, Done, WillDo
<1> QED
  BY <1>1, ServedInvariant, MachineInvariant, PTL
     DEF NodeSpec, NoKubeletWithoutDocker

(* What InstallAddon promises its caller, it promises the two programs.   *)
THEOREM NodeSuccessMeansUsable ==
  ASSUME CopiesComplete, DiskMeansVendor
  PROVE  NodeSpec => []InstalledMeansUsable
<1>1. ServedInv => InstalledMeansUsable
  BY DEF ServedInv, ReadyInv, DoneInv, InstalledMeansUsable
<1> QED
  BY <1>1, ServedInvariant, PTL

(* And neither program ever switches the next boot to a docker that the   *)
(* OS versions of the call do not have.                                   *)
THEOREM NodeSwitchIsSafe ==
  ASSUME CopiesComplete, DiskMeansVendor
  PROVE  NodeSpec => SwitchOnlyWhenReady
<1>1. MachineInv /\ ServedInv /\ [NodeNext]_allVars =>
        [pc # "idle" /\ BootImage' # BootImage => TargetsReady(BootImage')]_vars
  <2>1. OperatorSelectsProfile => pc = "idle"
    BY DEF OperatorSelectsProfile, OperatorSelects
  <2> QED
    BY <2>1, BootImageSteps DEF ServedInv
<1> QED
  BY <1>1, ServedInvariant, MachineInvariant, PTL
     DEF NodeSpec, SwitchOnlyWhenReady
-----------------------------------------------------------------------------
(***************************************************************************)
(* The bootstrapper's reboot, which empties /var/lib/docker on the way.    *)
(***************************************************************************)
(* What the bootstrapper does between InstallAddon and the reboot.        *)
BeforeReboot == {"env", "envWrite", "finish"}

(* Only with an OS version that is too old for torcx is there nothing to  *)
(* pick.                                                                  *)
LEMMA NothingPicked ==
  ASSUME NodeTypes, PickNothing
  PROVE  ShouldSkip(Primary)
<1>1. dockerVersions \in Seq(Ref)
  BY Preferred DEF NodeTypes
<1> QED
  BY <1>1, PickVersionEnds DEF PickNothing, Pick, DoesNothing, Refuses, Picks, Primary

(* How it gets there.                                                     *)
LEMMA StepsBeforeReboot ==
  ASSUME NodeTypes, [NodeNext]_allVars, step' \in BeforeReboot
  PROVE  \/ SkipTorcxSetup \/ PickNothing \/ Installed
         \/ step \in BeforeReboot /\ UNCHANGED dockerRequiresReboot
<1>1. step' \in Done
  BY DEF BeforeReboot, Done
<1>2. step \in Done \/ SkipTorcxSetup \/ PickNothing \/ Installed
  BY <1>1, DoneSteps
<1>3. ~ ProgramReturns
  BY DEF ProgramReturns, NoProgram, BeforeReboot
<1>4. CASE step \in Done
  <2>1. ~ GatherStateFails /\ ~ NextOSFails /\ ~ CreateEnvFails /\ ~ TriggerRebootFails
    BY <1>3 DEF GatherStateFails, NextOSFails, CreateEnvFails, TriggerRebootFails
  <2>2. ~ PickVersionFails /\ ~ InstallFails /\ ~ NoRebootRequired /\ ~ ProgramKilled
    BY <1>3 DEF PickVersionFails, InstallFails, NoRebootRequired, ProgramKilled
  <2>3. ~ WriteNodeAnnotation /\ ~ WriteNodeAnnotationFails
    BY <1>3 DEF WriteNodeAnnotation, WriteNodeAnnotationFails
  <2>4. ~ BootstrapReboots /\ ~ CluoReboots /\ ~ PowerFails
    BY <1>3 DEF BootstrapReboots, CluoReboots, PowerFails, Boot
  <2>5. ~ GatherState /\ ~ GetNextOSVersion /\ ~ OSUpdateDone /\ ~ OSUpdateIdle
    BY <1>4 DEF GatherState, GetNextOSVersion, OSUpdateDone, OSUpdateIdle, Done
  <2>6. ~ PickInstall /\ ~ StartBootstrap /\ ~ StartHook /\ ~ InstallAddonSteps
    BY <1>4 DEF PickInstall, StartBootstrap, StartHook, InstallAddonSteps, Done,
                NodeTypes, StepTypes
  <2>7. ~ OperatorSelectsProfile
    BY <1>4 DEF OperatorSelectsProfile, NodeTypes, StepTypes, Done
  <2>8. ~ SkipCleanup /\ ~ EnableCleanup /\ ~ TriggerReboot /\ ~ TorcxGC
    BY DEF SkipCleanup, EnableCleanup, TriggerReboot, TorcxGC, Goto, BeforeReboot
  <2>9. CreateEnv \/ WriteEnv => step \in BeforeReboot /\ UNCHANGED dockerRequiresReboot
    BY DEF CreateEnv, WriteEnv, BeforeReboot, vars
  <2>10. StageUpdate \/ UNCHANGED allVars
           => step \in BeforeReboot /\ UNCHANGED dockerRequiresReboot
    BY DEF StageUpdate, allVars, nodeVars, vars
  <2> QED
    BY <2>1, <2>2, <2>3, <2>4, <2>5, <2>6, <2>7, <2>8, <2>9, <2>10
       DEF NodeNext, BothPrograms, BootstrapSteps, HookSteps, Surroundings
<1> QED
  BY <1>2, <1>4

(* A docker that was installed asks for a reboot, even if it was in the   *)
(* store and selected before; so without that request there was nothing   *)
(* to install.                                                            *)
RebootAsked ==
  /\ pc = "ok" => dockerRequiresReboot
  /\ step \in BeforeReboot /\ ~ dockerRequiresReboot =>
       ShouldSkip(Primary) \/ SkipsTorcx

(* Every step keeps this.                                                 *)
LEMMA NextRebootAsked ==
  ASSUME NTInv, RebootAsked, [NodeNext]_allVars
  PROVE  RebootAsked'
<1>1. IInv /\ NodeTypes
  BY DEF NTInv
<1>2. pc' = "ok" => dockerRequiresReboot'
  <2>1. UNCHANGED vars => UNCHANGED <<pc, dockerRequiresReboot>>
    BY DEF vars
  <2>2. SetNext => dockerRequiresReboot'
    BY DEF SetNext
  <2>3. Returned \/ Collected \/ Called => pc' # "ok"
    BY DEF Returned, CallOver, Collected, Called, Call
  <2>4. InstallStep => SetNext \/ pc' # "ok"
    BY DEF InstallStep, SkipInstalled, ManifestFails, NoLocationKnown, SkipOnDisk,
           StartFetch, FindExisting, Download, DownloadFails, MkdirFails,
           OpenDestFails, OpenDest, Copy, CopyFails, ListProfiles, NewProfile,
           UseImage, TorcxFails, ReturnError, InLoop
  <2>5. NewCall \/ OperatorSelects \/ Crash \/ Exit => pc' # "ok"
    BY DEF NewCall, Call, OperatorSelects, Crash, Exit, ProcessGone, CallOver
  <2> QED
    BY <1>1, <2>1, <2>2, <2>3, <2>4, <2>5, Kinds DEF Next, RebootAsked
<1>3. ASSUME step' \in BeforeReboot, ~ dockerRequiresReboot'
      PROVE  (ShouldSkip(Primary) \/ SkipsTorcx)'
  <2>1. UNCHANGED <<conf, program, currentOS, nextOSVersion>>
    <3>1. step' \in Done
      BY <1>3 DEF BeforeReboot, Done
    <3> QED
      BY <1>1, <3>1, DoneSteps
  <2>2. ShouldSkip(Primary) \/ SkipsTorcx
    <3>1. CASE SkipTorcxSetup
      BY <3>1 DEF SkipTorcxSetup
    <3>2. CASE PickNothing
      BY <1>1, <3>2, NothingPicked
    <3>3. CASE Installed
      BY <1>3, <3>3 DEF Installed, RebootAsked
    <3>4. CASE step \in BeforeReboot /\ UNCHANGED dockerRequiresReboot
      BY <1>3, <3>4 DEF RebootAsked
    <3> QED
      BY <1>1, <1>3, <3>1, <3>2, <3>3, <3>4, StepsBeforeReboot
  <2> QED
    BY <2>1, <2>2 DEF Primary, ShouldSkip, SkipsTorcx
<1> QED
  BY <1>2, <1>3 DEF RebootAsked

(* How the bootstrapper comes to its reboot.                              *)
Rebooting == {"reboot", "rebooting"}

LEMMA RebootSteps ==
  ASSUME NodeTypes, [NodeNext]_allVars, step' \in Rebooting
  PROVE  \/ SkipCleanup \/ EnableCleanup
         \/ step \in Rebooting /\ (step' = "reboot" => step = "reboot") /\ UNCHANGED cleanup
<1>1. /\ step' \in Done
      /\ step \in Done \/ SkipTorcxSetup \/ PickNothing \/ Installed
  BY DoneSteps DEF Rebooting, Done
<1>2. ~ SkipTorcxSetup /\ ~ PickNothing /\ ~ Installed
  BY DEF SkipTorcxSetup, PickNothing, Installed, AfterInstall, Goto, Rebooting
<1>3. step \in Done
  BY <1>1, <1>2
<1>4. ~ ProgramReturns
  BY DEF ProgramReturns, NoProgram, Rebooting
<1>5. ~ GatherStateFails /\ ~ NextOSFails /\ ~ CreateEnvFails /\ ~ TriggerRebootFails
  BY <1>4 DEF GatherStateFails, NextOSFails, CreateEnvFails, TriggerRebootFails
<1>6. ~ PickVersionFails /\ ~ InstallFails /\ ~ NoRebootRequired /\ ~ ProgramKilled
  BY <1>4 DEF PickVersionFails, InstallFails, NoRebootRequired, ProgramKilled
<1>7. ~ WriteNodeAnnotation /\ ~ WriteNodeAnnotationFails
  BY <1>4 DEF WriteNodeAnnotation, WriteNodeAnnotationFails
<1>8. ~ BootstrapReboots /\ ~ CluoReboots /\ ~ PowerFails
  BY <1>4 DEF BootstrapReboots, CluoReboots, PowerFails, Boot
<1>9. ~ GatherState /\ ~ GetNextOSVersion /\ ~ OSUpdateDone /\ ~ OSUpdateIdle
  BY <1>3 DEF GatherState, GetNextOSVersion, OSUpdateDone, OSUpdateIdle, Done
<1>10. ~ PickInstall /\ ~ StartBootstrap /\ ~ StartHook /\ ~ InstallAddonSteps
  BY <1>3 DEF PickInstall, StartBootstrap, StartHook, InstallAddonSteps, Done,
              NodeTypes, StepTypes
<1>11. ~ OperatorSelectsProfile
  BY <1>3 DEF OperatorSelectsProfile, NodeTypes, StepTypes, Done
<1>12. ~ CreateEnv /\ ~ WriteEnv /\ ~ TorcxGC
  BY DEF CreateEnv, WriteEnv, TorcxGC, Goto, Rebooting
<1>13. TriggerReboot \/ StageUpdate \/ UNCHANGED allVars =>
         step \in Rebooting /\ (step' = "reboot" => step = "reboot") /\ UNCHANGED cleanup
  BY DEF TriggerReboot, StageUpdate, allVars, nodeVars, Goto, Rebooting
<1> QED
  BY <1>2, <1>5, <1>6, <1>7, <1>8, <1>9, <1>10, <1>11, <1>12, <1>13
     DEF NodeNext, BothPrograms, BootstrapSteps, HookSteps, Surroundings

(* No reboot was asked for that is not because of docker.                 *)
LEMMA RebootAskedInvariant == NodeSpec => []RebootAsked
<1>1. NodeInit => RebootAsked
  BY DEF NodeInit, Init, RebootAsked, BeforeReboot
<1>2. NTInv /\ RebootAsked /\ [NodeNext]_allVars => RebootAsked'
  BY NextRebootAsked
<1> QED
  BY <1>1, <1>2, NodeInvariant, PTL DEF NodeSpec

(* The bootstrapper has docker's data cleaned: it goes on to the reboot   *)
(* with the cleanup unit enabled, unless it just failed to enable it.     *)
THEOREM CleanupIsEnabled == NodeSpec => CleanupBeforeReboot
<1>1. NTInv /\ RebootAsked /\ [NodeNext]_allVars =>
        [step # "reboot" /\ step' = "reboot" =>
           \/ SkipsTorcx \/ ShouldSkip(Primary)
           \/ cleanup' \/ faults' # faults]_allVars
  <2> SUFFICES ASSUME NTInv, RebootAsked, [NodeNext]_allVars,
                      step # "reboot", step' = "reboot"
               PROVE  \/ SkipsTorcx \/ ShouldSkip(Primary)
                      \/ cleanup' \/ faults' # faults
    OBVIOUS
  <2>1. NodeTypes /\ faults \in Nat
    BY DEF NTInv, IInv, TypeOK
  <2>2. SkipCleanup \/ EnableCleanup
    BY <2>1, RebootSteps DEF Rebooting
  <2>3. CASE SkipCleanup
    BY <2>3 DEF SkipCleanup, CleansDocker, RebootAsked, BeforeReboot
  <2>4. CASE EnableCleanup
    BY <2>1, <2>4 DEF EnableCleanup, Fault
  <2> QED
    BY <2>2, <2>3, <2>4
<1> QED
  BY <1>1, NodeInvariant, RebootAskedInvariant, PTL
     DEF NodeSpec, CleanupBeforeReboot, Primary

(* What that is for: if enabling the unit does not fail, the docker that  *)
(* runs after the bootstrapper's reboot has only its own data.            *)
BootstrapCleansData ==
  [][BootstrapReboots /\ ~ SkipsTorcx /\ ~ ShouldSkip(PrimaryOS(currentOS, nextOSVersion))
       => dataWriters' \subseteq {dockerRunning'}]_allVars

(* The unit stays enabled until the reboot.                               *)
CleanInv == step \in Rebooting => cleanup \/ ShouldSkip(Primary) \/ SkipsTorcx

LEMMA NextCleanInv ==
  ASSUME NTInv, RebootAsked, CleanInv, [NodeNext]_allVars, "cleanup" \notin Faults
  PROVE  CleanInv'
<1> SUFFICES ASSUME step' \in Rebooting
             PROVE  (cleanup \/ ShouldSkip(Primary) \/ SkipsTorcx)'
  BY DEF CleanInv
<1>1. NodeTypes
  BY DEF NTInv
<1>2. UNCHANGED <<conf, program, currentOS, nextOSVersion>>
  BY <1>1, DoneSteps DEF Rebooting, Done
<1>3. cleanup' \/ ShouldSkip(Primary) \/ SkipsTorcx
  <2>1. CASE SkipCleanup
    BY <2>1 DEF SkipCleanup, CleansDocker, RebootAsked, BeforeReboot
  <2>2. CASE EnableCleanup
    BY <2>2 DEF EnableCleanup, Fault
  <2>3. CASE step \in Rebooting /\ UNCHANGED cleanup
    BY <2>3 DEF CleanInv
  <2> QED
    BY <1>1, <2>1, <2>2, <2>3, RebootSteps
<1> QED
  BY <1>2, <1>3 DEF Primary, ShouldSkip, SkipsTorcx

(* After the bootstrapper's reboot no other docker's data is there.       *)
THEOREM DataIsCleaned ==
  ASSUME "cleanup" \notin Faults
  PROVE  NodeSpec => BootstrapCleansData
<1>1. NodeInit => CleanInv
  BY DEF NodeInit, CleanInv, Rebooting
<1>2. NTInv /\ RebootAsked /\ CleanInv /\ [NodeNext]_allVars => CleanInv'
  BY NextCleanInv
<1>3. CleanInv =>
        [BootstrapReboots /\ ~ SkipsTorcx /\ ~ ShouldSkip(Primary)
           => dataWriters' \subseteq {dockerRunning'}]_allVars
  <2> SUFFICES ASSUME CleanInv, BootstrapReboots, ~ SkipsTorcx, ~ ShouldSkip(Primary)
               PROVE  dataWriters' \subseteq {dockerRunning'}
    OBVIOUS
  <2>1. cleanup /\ Boot(CleanedUp)
    BY DEF CleanInv, Rebooting, BootstrapReboots
  <2> QED
    BY <2>1 DEF Boot, CleanedUp
<1> QED
  BY <1>1, <1>2, <1>3, NodeInvariant, RebootAskedInvariant, PTL
     DEF NodeSpec, BootstrapCleansData, Primary
-----------------------------------------------------------------------------
(***************************************************************************)
(* The docker a node runs, under the conditions of ServedInvariant and as  *)
(* long as the bootstrapper gets as far as its reboot once kubelet.env is  *)
(* written: it is not killed, systemd does reboot, the power stays on; no  *)
(* update is staged behind its back, and it sets up torcx at all.  The     *)
(* README shows for each of these what happens without it.                 *)
(***************************************************************************)
BootstrapFinishes ==
  /\ Faults \cap {"crash", "power", "reboot"} = {}
  /\ StageAnytime = FALSE
  /\ \A c \in Configs : ~ c.skipTorcxSetup

(* No program is killed, and the machine boots only when a program asked  *)
(* for it.                                                                *)
LEMMA BootsOnDemand ==
  ASSUME CopiesComplete, BootstrapFinishes
  PROVE  ~ PowerFails /\ ~ ProgramKilled /\ ~ TriggerRebootFails
  BY DEF CopiesComplete, BootstrapFinishes, PowerFails, ProgramKilled, Killed,
         TriggerRebootFails, Fault

(* A program knows of the pending update from the moment it has asked.    *)
KnowsUpdate ==
  /\ program = "none" \/ step \in {"gather", "nextOS"} => nextOSVersion = NoVersion
  /\ program # "none" /\ step \notin {"gather", "nextOS"} => nextOSVersion = pendingOS

(* Every step keeps this.                                                 *)
LEMMA NextKnowsUpdate ==
  ASSUME NodeTypes, KnowsUpdate, [NodeNext]_allVars, BootstrapFinishes
  PROVE  KnowsUpdate'
<1>1. StepTypes
  BY DEF NodeTypes
<1>2. ProgramReturns => KnowsUpdate'
  BY DEF ProgramReturns, NoProgram, KnowsUpdate
<1>3. UNCHANGED <<program, pendingOS, nextOSVersion>>
        /\ (step \in {"gather", "nextOS"} <=> step' \in {"gather", "nextOS"})
        => KnowsUpdate'
  BY DEF KnowsUpdate
<1>4. GatherState => KnowsUpdate'
  BY <1>3 DEF GatherState, Goto
<1>5. GetNextOSVersion => KnowsUpdate'
  BY <1>1 DEF GetNextOSVersion, ReportedNext, Goto, KnowsUpdate, StepTypes
<1>6. OSUpdateDone => KnowsUpdate'
  BY <1>1 DEF OSUpdateDone, Goto, KnowsUpdate, StepTypes
<1>7. OSUpdateIdle => KnowsUpdate'
  BY <1>1 DEF OSUpdateIdle, Goto, KnowsUpdate, StepTypes
<1>8. SkipTorcxSetup \/ PickNothing \/ PickInstall \/ Installed => KnowsUpdate'
  BY <1>3 DEF SkipTorcxSetup, PickNothing, PickInstall, Installed, AfterInstall, Goto
<1>9. CreateEnv \/ WriteEnv \/ SkipCleanup \/ EnableCleanup => KnowsUpdate'
  BY <1>3 DEF CreateEnv, WriteEnv, SkipCleanup, EnableCleanup, Goto
<1>10. TriggerReboot \/ TorcxGC => KnowsUpdate'
  BY <1>3 DEF TriggerReboot, TorcxGC, Goto
<1>11. InstallAddonSteps \/ OperatorSelectsProfile \/ UNCHANGED allVars => KnowsUpdate'
  BY <1>3 DEF InstallAddonSteps, OperatorSelectsProfile, nodeVars, allVars
<1>12. StartBootstrap \/ StartHook => KnowsUpdate'
  BY DEF StartBootstrap, StartHook, KnowsUpdate
<1>13. StageUpdate => KnowsUpdate'
  BY DEF StageUpdate, BootstrapFinishes, KnowsUpdate
<1>14. GatherStateFails \/ NextOSFails \/ CreateEnvFails \/ TriggerRebootFails => KnowsUpdate'
  BY <1>2 DEF GatherStateFails, NextOSFails, CreateEnvFails, TriggerRebootFails
<1>15. PickVersionFails \/ InstallFails \/ NoRebootRequired \/ ProgramKilled => KnowsUpdate'
  BY <1>2 DEF PickVersionFails, InstallFails, NoRebootRequired, ProgramKilled
<1>16. WriteNodeAnnotation \/ WriteNodeAnnotationFails => KnowsUpdate'
  BY <1>2 DEF WriteNodeAnnotation, WriteNodeAnnotationFails
<1>17. BootstrapReboots \/ CluoReboots \/ PowerFails => KnowsUpdate'
  BY <1>2 DEF BootstrapReboots, CluoReboots, PowerFails, Boot
<1> QED
  BY <1>4, <1>5, <1>6, <1>7, <1>8, <1>9, <1>10, <1>11, <1>12, <1>13, <1>14,
     <1>15, <1>16, <1>17
     DEF NodeNext, BothPrograms, BootstrapSteps, HookSteps, Surroundings
-----------------------------------------------------------------------------
(* A reboot that the bootstrapper or CLUO asks for ends with the docker   *)
(* that was installed for it.                                             *)
LEMMA BootsPrepared ==
  ASSUME MachineInv, Served, KnowsUpdate, BootstrapFinishes,
         BootstrapReboots \/ CluoReboots
  PROVE  /\ Prepared(BootOS, BootImage)
         /\ ~ ShouldSkip(BootOS) => DockerAtBoot = BootImage /\ BootImage \in Ref
<1>1. NodeTypes /\ StepTypes /\ MachineTypes
  BY DEF MachineInv, NTInv, NodeTypes
<1>2. WillDo(BootOS, BootImage)
  <2>1. CASE CluoReboots
    BY <2>1 DEF CluoReboots, Served
  <2>2. CASE BootstrapReboots
    <3>1. program = "bootstrap" /\ step = "rebooting"
      BY <1>1, <2>2 DEF BootstrapReboots, StepTypes
    <3>2. ~ SkipsTorcx
      BY <1>1 DEF SkipsTorcx, BootstrapFinishes, MachineTypes
    <3>3. nextOSVersion = pendingOS
      BY <3>1 DEF KnowsUpdate
    <3>4. Primary = BootOS
      BY <3>3 DEF Primary, BootOS
    <3> QED
      BY <3>1, <3>2, <3>4 DEF Served, Done
  <2> QED
    BY <2>1, <2>2
<1>3. Prepared(BootOS, BootImage)
  BY <1>2 DEF WillDo
<1>4. ASSUME ~ ShouldSkip(BootOS)
      PROVE  DockerAtBoot = BootImage /\ BootImage \in Ref
  <2>1. BootImage \in Ref /\ Ready(BootOS, BootImage)
    BY <1>3, <1>4 DEF Prepared
  <2>2. BootImage # NoImage
    BY <2>1, InstallAssumption
  <2> QED
    BY <2>1, <2>2 DEF DockerAtBoot
<1> QED
  BY <1>3, <1>4

(* The node runs a docker that was picked for it, or an OS version too    *)
(* old for that.                                                          *)
Docked == ShouldSkip(currentOS) \/ dockerRunning \in Ref

(* kubelet.env is complete only once a node is docked, or while the       *)
(* bootstrapper that wrote it is about to reboot.                         *)
KubeletInv ==
  /\ kubeletEnv = "complete" /\ program # "bootstrap" => Docked
  /\ kubeletEnv = "complete" /\ program = "bootstrap" =>
       step \in {"finish", "reboot", "rebooting"}

(* The bootstrapper comes to rest in only a few ways.                     *)
LEMMA NextKubeletInv ==
  ASSUME CopiesComplete, BootstrapFinishes, MachineInv, Served, KnowsUpdate,
         RebootAsked, KubeletInv, [NodeNext]_allVars
  PROVE  KubeletInv'
<1>1. NodeTypes /\ StepTypes /\ MachineTypes /\ Env
  BY DEF MachineInv, NTInv, NodeTypes
<1>2. UNCHANGED <<kubeletEnv, currentOS, dockerRunning>>
        /\ program' # "bootstrap"
        /\ (program # "bootstrap" \/ step \notin {"finish", "reboot", "rebooting"})
        => KubeletInv'
  BY DEF KubeletInv, Docked, ShouldSkip
<1>3. UNCHANGED <<kubeletEnv, currentOS, dockerRunning, program>>
        /\ (step \in {"finish", "reboot", "rebooting"} =>
              step' \in {"finish", "reboot", "rebooting"})
        => KubeletInv'
  BY DEF KubeletInv, Docked, ShouldSkip
<1>4. GatherState \/ GetNextOSVersion => KubeletInv'
  BY <1>3 DEF GatherState, GetNextOSVersion, Goto
<1>5. OSUpdateDone \/ OSUpdateIdle => KubeletInv'
  BY <1>3 DEF OSUpdateDone, OSUpdateIdle, Goto
<1>6. SkipTorcxSetup \/ PickNothing \/ PickInstall \/ Installed => KubeletInv'
  BY <1>3 DEF SkipTorcxSetup, PickNothing, PickInstall, Installed, Goto
<1>7. SkipCleanup \/ EnableCleanup \/ TriggerReboot => KubeletInv'
  BY <1>3 DEF SkipCleanup, EnableCleanup, TriggerReboot, Goto
<1>8. TorcxGC \/ StageUpdate => KubeletInv'
  BY <1>3 DEF TorcxGC, StageUpdate, Goto
<1>9. InstallAddonSteps \/ OperatorSelectsProfile \/ UNCHANGED allVars => KubeletInv'
  BY <1>3 DEF InstallAddonSteps, OperatorSelectsProfile, nodeVars, allVars
<1>10. CreateEnv => KubeletInv'
  BY DEF CreateEnv, KubeletInv
<1>11. WriteEnv => KubeletInv'
  <2>1. WriteEnv => program' = "bootstrap" /\ step' = "finish"
    BY <1>1 DEF WriteEnv, Goto, StepTypes
  <2> QED
    BY <2>1 DEF KubeletInv
<1>12. StartBootstrap => KubeletInv'
  BY DEF StartBootstrap, KubeletInv
<1>13. StartHook => KubeletInv'
  BY <1>2 DEF StartHook
<1>14. GatherStateFails \/ NextOSFails \/ CreateEnvFails => KubeletInv'
  BY <1>2 DEF GatherStateFails, NextOSFails, CreateEnvFails, ProgramReturns, NoProgram
<1>15. PickVersionFails \/ InstallFails => KubeletInv'
  BY <1>2 DEF PickVersionFails, InstallFails, ProgramReturns, NoProgram
<1>16. WriteNodeAnnotation \/ WriteNodeAnnotationFails => KubeletInv'
  BY <1>2 DEF WriteNodeAnnotation, WriteNodeAnnotationFails, ProgramReturns, NoProgram
<1>17. CASE NoRebootRequired
  <2>1. step = "finish" /\ ~ dockerRequiresReboot
    BY <1>17 DEF NoRebootRequired, RequiresReboot
  <2>2. ShouldSkip(Primary)
    <3>1. ~ SkipsTorcx
      BY <1>1 DEF SkipsTorcx, BootstrapFinishes, MachineTypes
    <3> QED
      BY <2>1, <3>1 DEF RebootAsked, BeforeReboot
  <2>3. currentOS \in Nat /\ Primary \in Nat /\ currentOS <= Primary
    BY <1>1, PrimaryIsOS, OSVersions, NotUnneeded DEF MachineTypes
  <2>4. ShouldSkip(currentOS)
    BY <2>2, <2>3, OSVersions DEF ShouldSkip
  <2>5. program' = "none" /\ currentOS' = currentOS
    BY <1>17 DEF NoRebootRequired, ProgramReturns, NoProgram
  <2> QED
    BY <2>4, <2>5 DEF KubeletInv, Docked, ShouldSkip
<1>18. CASE BootstrapReboots \/ CluoReboots
  <2>1. PICK oldData : Boot(oldData)
    BY <1>18 DEF BootstrapReboots, CluoReboots
  <2>2. /\ program' = "none" /\ currentOS' = BootOS
        /\ dockerRunning' = DockerAtBoot
    BY <2>1 DEF Boot, ProgramReturns, NoProgram
  <2>3. ShouldSkip(BootOS) \/ DockerAtBoot \in Ref
    BY <1>18, BootsPrepared
  <2> QED
    BY <2>2, <2>3 DEF KubeletInv, Docked, ShouldSkip
<1> QED
  BY <1>4, <1>5, <1>6, <1>7, <1>8, <1>9, <1>10, <1>11, <1>12, <1>13, <1>14,
     <1>15, <1>16, <1>17, <1>18, BootsOnDemand
     DEF NodeNext, BothPrograms, BootstrapSteps, HookSteps, Surroundings

(* What is known about a machine whose bootstrapper finishes.             *)
DockedInv == KnowsUpdate /\ KubeletInv

(* It holds in every state such a machine can be in.                      *)
LEMMA DockedInvariant ==
  ASSUME CopiesComplete, DiskMeansVendor, BootstrapFinishes
  PROVE  NodeSpec => []DockedInv
<1>1. NodeInit => DockedInv
  BY DEF NodeInit, Init, DockedInv, KnowsUpdate, KubeletInv
<1>2. MachineInv /\ ServedInv /\ RebootAsked /\ DockedInv /\ [NodeNext]_allVars => DockedInv'
  <2> SUFFICES ASSUME MachineInv, ServedInv, RebootAsked, DockedInv, [NodeNext]_allVars
               PROVE  DockedInv'
    OBVIOUS
  <2>1. KnowsUpdate'
    BY NextKnowsUpdate DEF MachineInv, NTInv, DockedInv
  <2>2. KubeletInv'
    BY NextKubeletInv DEF ServedInv, DockedInv
  <2> QED
    BY <2>1, <2>2 DEF DockedInv
<1> QED
  BY <1>1, <1>2, MachineInvariant, ServedInvariant, RebootAskedInvariant, PTL DEF NodeSpec

(* A node takes part in the cluster only with a docker that was picked    *)
(* for it.                                                                *)
THEOREM KubeletRunsPickedDocker ==
  ASSUME CopiesComplete, DiskMeansVendor, BootstrapFinishes
  PROVE  NodeSpec => []KubeletGetsPickedDocker
<1>1. DockedInv => KubeletGetsPickedDocker
  BY DEF DockedInv, KubeletInv, Docked, KubeletGetsPickedDocker
<1> QED
  BY <1>1, DockedInvariant, PTL
-----------------------------------------------------------------------------
(***************************************************************************)
(* The contract of InstallAddon between the two programs: what both do     *)
(* around their calls, and what the machine does to them, keeps it.        *)
(***************************************************************************)

(* Garbage collection runs between calls, and only takes away.            *)
LEMMA CollectedRefines ==
  ASSUME IInv, Collected
  PROVE  Contract!OthersAct
<1>1. TypeOK /\ bucket' = bucket
  BY DEF IInv, Collected
<1>2. CallState = "idle" /\ CallState' = "idle" /\ UNCHANGED <<ref, osVersions, BootImage>>
  BY DEF Collected, CallState, BootImage, Selected
<1>3. ASSUME NEW o \in OSVersion, NEW r \in Ref, Ready(o, r)'
      PROVE  Ready(o, r)
  <2>1. LocFor(o, r)' = LocFor(o, r) /\ LocFor(o, r) # NoLocation
    BY <1>1, <1>3 DEF Ready, LocFor
  <2>2. LocFor(o, r).hash \in Hash
    BY <1>1, <2>1, LocForType DEF TypeOK, Location
  <2>3. store'[o][r] \in {store[o][r], Absent}
    BY <1>1, CollectedStore
  <2> QED
    BY <1>3, <2>1, <2>2, <2>3, InstallAssumption DEF Ready
<1>4. /\ Usable' \in [OSVersion -> SUBSET Ref]
      /\ \A o \in OSVersion : Usable'[o] \subseteq Usable[o]
  BY <1>3 DEF Usable
<1>5. BootImage \in Ref \cup {NoImage}
  BY <1>1, ContractTypes
<1> QED
  BY <1>2, <1>4, <1>5 DEF Contract!OthersAct

(* So for its two real callers InstallAddon is atomic, too, with reboots  *)
(* and power failures in the middle of a call, and a hook that is started *)
(* again after it.                                                        *)
THEOREM NodeImplementsContract ==
  ASSUME CopiesComplete, DiskMeansVendor
  PROVE  NodeSpec => InstallIsAtomic
<1>1. MachineInv /\ ServedInv /\ [NodeNext]_allVars => [Contract!Next]_Contract!vars
  <2> SUFFICES ASSUME IInv, NodeTypes, ReadyInv, [NodeNext]_allVars
               PROVE  [Contract!Next]_Contract!vars
    BY DEF MachineInv, NTInv, ServedInv
  <2>1. CASE [Next]_vars
    BY <2>1, NextRefines
  <2>2. CASE Returned
    BY <2>2, EndRefines DEF Returned
  <2>3. CASE Collected
    BY <2>3, CollectedRefines DEF Contract!Next
  <2>4. CASE Called
    <3>1. Pick.version \in Ref /\ Pick.osVersions \in Seq(OSVersion)
      BY <2>4, PickFacts DEF Called
    <3>2. Contract!Call
      BY <2>4, <3>1, CallRefines DEF Called, IInv
    <3> QED
      BY <3>2 DEF Contract!Next
  <2> QED
    BY <2>1, <2>2, <2>3, <2>4, Kinds
<1>2. NodeInit => Contract!Init
  BY InitRefines DEF NodeInit
<1> QED
  BY <1>1, <1>2, MachineInvariant, ServedInvariant, PTL
     DEF NodeSpec, InstallIsAtomic, Contract!Spec
=============================================================================
