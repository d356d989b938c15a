----------------------------- MODULE KubeSources -----------------------------
(***************************************************************************)
(* Where a program has the Kubernetes version and the docker versions for  *)
(* it from: App.GatherState with GetKubeVersion (internal/kube.go),        *)
(* VersionFor (versions.go) and GetCurrentOSInfo (update_engine.go).  The  *)
(* bootstrapper asks the API server first and falls back to files of the   *)
(* installer; it leaves what it found in kubelet.env, from which the       *)
(* pre-reboot hook has it later.                                           *)
(***************************************************************************)
EXTENDS Naturals

CONSTANTS
  Minor,            \* "major.minor" of Kubernetes versions
  DockerVersions,   \* the lists of docker versions mappings may give
  Garbled,          \* of a version or a mapping that cannot be parsed
  Absent, NoTag,    \* no such file, ConfigMap or entry; a file without a tag
  ClusterVersions,  \* the versions the API server may report
  InstallerEnvs,    \* KUBELET_IMAGE_TAG of the installer's kubelet.env
  ConfigMaps, InstallerMappings, CluoMappings,   \* runtime mappings
  OSReleases,       \* what /usr/lib/os-release may be good for
  Confs,            \* the flags a program may be started with
  Tries             \* retry(3, ...)

(***************************************************************************)
(* A version is known by its minor version and by the character before its *)
(* build metadata, if it has any: "+", or "_" in the tag of an image.      *)
(***************************************************************************)
Version == [minor : Minor \cup {Garbled}, sep : {"", "+", "_"}]
Mapping == [Minor -> DockerVersions \cup {Absent}]

EnvFile     == Version \cup {Absent, NoTag}
MappingFile == Mapping \cup {Absent, Garbled}

ASSUME SourcesAssumption ==
  /\ Absent \notin DockerVersions /\ Garbled \notin Minor
  /\ {Absent, Garbled} \cap Mapping = {}
  /\ {Absent, NoTag} \cap Version = {} /\ Absent # NoTag
  /\ Absent \notin [version : Version, whole : BOOLEAN]
  /\ ClusterVersions \subseteq [minor : Minor, sep : {"", "+"}]
  /\ InstallerEnvs \subseteq EnvFile
  /\ ConfigMaps \cup InstallerMappings \cup CluoMappings \subseteq MappingFile
  /\ OSReleases \subseteq [version : BOOLEAN, board : BOOLEAN, arch : BOOLEAN]
  /\ Confs \subseteq [kubeconfig : {"none", "broken", "good"},
                      force : Version \cup {Absent}]
  /\ Tries \in Nat \ {0}

VARIABLES
  apiUp, clusterVersion, configMap,                    \* the API server
  osRelease, installerEnv, installerMappings, cluoMappings,   \* files
  kubeletEnv,     \* /etc/kubernetes/kubelet.env
  program, conf,  \* the program that runs or ran last, and its flags
  step, tries,    \* where it is in GatherState, and in retry
  k8sVersion, dockerVersions,     \* of the App
  bootstrapped,   \* history: the version the bootstrapper had when it wrote
                  \* kubelet.env, and whether it could write all of it
  steady          \* history: the API server has been up, and the cluster
                  \* not upgraded, since the program started

files   == <<configMap, osRelease, installerEnv, installerMappings,
             cluoMappings>>
cluster == <<apiUp, clusterVersion, steady>>
written == <<kubeletEnv, bootstrapped>>
app     == <<k8sVersion, dockerVersions>>
vars    == <<cluster, files, written, program, conf, step, tries, app>>

Init ==
  /\ apiUp \in BOOLEAN /\ clusterVersion \in ClusterVersions
  /\ configMap \in ConfigMaps
  /\ osRelease \in OSReleases
  /\ installerEnv \in InstallerEnvs
  /\ installerMappings \in InstallerMappings
  /\ cluoMappings \in CluoMappings
  /\ kubeletEnv = Absent
  /\ program = "bootstrap" /\ conf \in Confs
  /\ step = "end" /\ tries = 1
  /\ k8sVersion = Absent /\ dockerVersions = Absent
  /\ bootstrapped = Absent
  /\ steady = FALSE
-----------------------------------------------------------------------------
(* Parsing *)

(* semver wants three numbers; "_" before the metadata garbles the third. *)
Parsable(v) == v.minor # Garbled /\ v.sep # "_"

ToTag(v) == IF v.sep = "+" THEN [v EXCEPT !.sep = "_"] ELSE v

(* Mutation of FromTag: the tag is taken for the version.                 *)
FromTag_Verbatim(t) == t

FromTag(t) == IF t.sep = "_" THEN [t EXCEPT !.sep = "+"] ELSE t

(* VersionFor finds docker versions for v in the mapping m.               *)
Maps(m, v) == m \in Mapping /\ Parsable(v) /\ m[v.minor] # Absent
-----------------------------------------------------------------------------
(* The surroundings *)

ApiToggles ==
  /\ apiUp' = ~apiUp
  /\ steady' = FALSE
  /\ UNCHANGED <<clusterVersion, files, written, program, conf, step, tries,
                 app>>

ClusterUpgraded ==
  /\ clusterVersion' \in ClusterVersions \ {clusterVersion}
  /\ steady' = FALSE
  /\ UNCHANGED <<apiUp, files, written, program, conf, step, tries, app>>

(* A program has not ended, in whatever way.                              *)
Running == step \notin {"end", "failed", "noEnv"}

(* The bootstrapper starts while there is no kubelet.env, the hook on a   *)
(* node that has one.  parseFlags wants a kubeconfig or a version.        *)
Start ==
  /\ ~Running
  /\ program' = IF kubeletEnv = Absent THEN "bootstrap" ELSE "hook"
  /\ conf' \in {c \in Confs : c.kubeconfig # "none" \/ c.force # Absent}
  /\ step' = "osInfo" /\ tries' = 1
  /\ k8sVersion' = Absent /\ dockerVersions' = Absent
  /\ steady' = apiUp
  /\ UNCHANGED <<apiUp, clusterVersion, files, written>>
-----------------------------------------------------------------------------
(* GatherState *)

(* Mutation of Goto: the next request goes on counting.                   *)
Goto_Counting(s) == step' = s /\ UNCHANGED tries

Goto(s) == step' = s /\ tries' = 1

GetCurrentOSInfo ==
  /\ step = "osInfo"
  /\ Goto(IF osRelease.version /\ (osRelease.board \/ osRelease.arch)
          THEN "version" ELSE "failed")
  /\ UNCHANGED <<cluster, files, written, program, conf, app>>

(* Mutation of LocalOnly: the bootstrapper, too, reads its files only.    *)
LocalOnly_Always == TRUE

LocalOnly == program = "hook"

(* Mutation of AfterTries: what cannot be had from the API server is an   *)
(* error.                                                                 *)
AfterTries_Fail(fallback) == "failed"

AfterTries(fallback) == fallback

(* Mutation of ApiFails: retry does not count.                            *)
ApiFails_Uncounted(fallback) == UNCHANGED <<step, tries>>

(* Nothing from the API server: without a client at once, otherwise after *)
(* the last try.                                                          *)
ApiFails(fallback) ==
  IF conf.kubeconfig = "good" /\ tries < Tries
  THEN tries' = tries + 1 /\ UNCHANGED step
  ELSE Goto(AfterTries(fallback))

AsksApi == ~LocalOnly
Answers == conf.kubeconfig = "good" /\ apiUp

UseForcedVersion ==
  /\ step = "version" /\ conf.force # Absent
  /\ k8sVersion' = conf.force
  /\ Goto("mappings")
  /\ UNCHANGED <<cluster, files, written, program, conf, dockerVersions>>

SkipServerVersion ==
  /\ step = "version" /\ conf.force = Absent /\ ~AsksApi
  /\ Goto("envVersion")
  /\ UNCHANGED <<cluster, files, written, program, conf, app>>

ServerVersion ==
  /\ step = "version" /\ conf.force = Absent /\ AsksApi
  /\ \/ Answers /\ k8sVersion' = clusterVersion /\ Goto("mappings")
     \/ ~Answers /\ ApiFails("envVersion") /\ UNCHANGED k8sVersion
  /\ UNCHANGED <<cluster, files, written, program, conf, dockerVersions>>

VersionFromPath ==
  /\ step = "envVersion"
  /\ LET env == IF program = "hook" THEN kubeletEnv ELSE installerEnv
     IN  \/ env \in Version /\ k8sVersion' = FromTag(env) /\ Goto("mappings")
         \/ env \notin Version /\ UNCHANGED k8sVersion /\ Goto("failed")
  /\ UNCHANGED <<cluster, files, written, program, conf, dockerVersions>>

(* VersionFor with the mappings it has got; parsing them is part of it.   *)
LookUp(m) ==
  \/ /\ Maps(m, k8sVersion)
     /\ dockerVersions' = m[k8sVersion.minor]
     /\ Goto(IF program = "hook" THEN "end" ELSE "env")
  \/ /\ ~Maps(m, k8sVersion)
     /\ UNCHANGED dockerVersions
     /\ Goto("failed")

SkipConfigMap ==
  /\ step = "mappings" /\ ~AsksApi
  /\ Goto("fileMappings")
  /\ UNCHANGED <<cluster, files, written, program, conf, app>>

(* Any ConfigMap that has the entry is used, even if it cannot be parsed. *)
GetConfigMap ==
  /\ step = "mappings" /\ AsksApi
  /\ IF Answers /\ configMap # Absent
     THEN LookUp(configMap)
     ELSE ApiFails("fileMappings") /\ UNCHANGED dockerVersions
  /\ UNCHANGED <<cluster, files, written, program, conf, k8sVersion>>

MappingsFromPath ==
  /\ step = "fileMappings"
  /\ LookUp(IF program = "hook" THEN cluoMappings ELSE installerMappings)
  /\ UNCHANGED <<cluster, files, written, program, conf, k8sVersion>>
-----------------------------------------------------------------------------
(* WriteKubeletEnv, the bootstrapper's next use of the version.           *)

(* Mutation of EnvTag: the tag of the template stays.                     *)
EnvTag_Template == installerEnv

(* The template's tag is replaced; without one there will be none.        *)
EnvTag == IF installerEnv = NoTag THEN NoTag ELSE ToTag(k8sVersion)

(* The line of the tag is not written, or is cut off: in the number, or   *)
(* at or within the metadata.                                             *)
CutTags ==
  IF EnvTag = NoTag THEN {NoTag}
  ELSE {NoTag, [minor |-> Garbled, sep |-> ""]}
         \cup [minor : {EnvTag.minor}, sep : {"", EnvTag.sep}]

(* The template cannot be read or the file not be created; otherwise an   *)
(* error in writing is not noticed.                                       *)
WriteKubeletEnv ==
  /\ step = "env"
  /\ \/ Goto("noEnv") /\ UNCHANGED written
     \/ /\ installerEnv # Absent
        /\ \E whole \in BOOLEAN :
             /\ kubeletEnv' \in IF whole THEN {EnvTag} ELSE CutTags
             /\ bootstrapped' = [version |-> k8sVersion, whole |-> whole]
        /\ Goto("end")
  /\ UNCHANGED <<cluster, files, program, conf, app>>
-----------------------------------------------------------------------------
Gather == \/ GetCurrentOSInfo \/ UseForcedVersion \/ SkipServerVersion
          \/ ServerVersion \/ VersionFromPath \/ SkipConfigMap
          \/ GetConfigMap \/ MappingsFromPath \/ WriteKubeletEnv

Next == ApiToggles \/ ClusterUpgraded \/ Start \/ Gather

(* A program that has started goes on; requests time out.                 *)
Spec == Init /\ [][Next]_vars /\ WF_vars(Gather)
-----------------------------------------------------------------------------
(* Types; tries are only counted where the API server is asked, and       *)
(* kubelet.env is written by the bootstrapper only.                       *)
SourcesTypeOK ==
  /\ apiUp \in BOOLEAN /\ steady \in BOOLEAN
  /\ clusterVersion \in ClusterVersions
  /\ kubeletEnv \in EnvFile
  /\ program \in {"bootstrap", "hook"} /\ conf \in Confs
  /\ step \in {"osInfo", "version", "envVersion", "mappings", "fileMappings",
               "env", "end", "failed", "noEnv"}
  /\ tries \in 1 .. Tries
  /\ tries > 1 => step \in {"version", "mappings"} /\ program = "bootstrap"
  /\ k8sVersion \in Version \cup {Absent}
  /\ dockerVersions \in DockerVersions \cup {Absent}
  /\ kubeletEnv # Absent <=> bootstrapped # Absent

(* The hook works for the minor version of Kubernetes that the            *)
(* bootstrapper found, across the change of characters in the image tag,  *)
(* a kubelet.env that was cut off and upgrades of the cluster; the docker *)
(* versions are the ones CLUO's mappings have for it.                     *)
HookAgreesWithBootstrap ==
  program = "hook" /\ step = "end" /\ conf.force = Absent =>
    /\ k8sVersion.minor = bootstrapped.version.minor
    /\ dockerVersions = cluoMappings[k8sVersion.minor]

OSReadable == osRelease.version /\ (osRelease.board \/ osRelease.arch)

Covers(m) == m \in Mapping /\ \A n \in Minor : m[n] # Absent

ForceIsParsable == conf.force # Absent => Parsable(conf.force)

(* "these requests can permanently fail and gracefully fallback to local  *)
(* data": with good files of the installer no outage of the API server,   *)
(* wherever it begins and ends, no upgrade in between, no useless         *)
(* kubeconfig and no missing ConfigMap makes GatherState fail in the      *)
(* bootstrapper, although the version may come from one source and the    *)
(* mappings from the other.  Only a ConfigMap that exists and is no good  *)
(* does.                                                                  *)
FallbackSuffices ==
  /\ program = "bootstrap" /\ step = "failed"
  /\ OSReadable /\ Covers(installerMappings) /\ ForceIsParsable
  /\ installerEnv \in Version /\ Parsable(FromTag(installerEnv))
  => configMap # Absent /\ ~Covers(configMap)

(* What the bootstrapper leaves behind suffices for the hook: unless      *)
(* kubelet.env was cut off or its template has no tag, the hook gets its  *)
(* docker versions, with the API server up or down.                       *)
BootstrappedNodeHooks ==
  program = "hook" /\ step = "failed" =>
    \/ ~bootstrapped.whole \/ installerEnv = NoTag
    \/ ~OSReadable \/ ~Covers(cluoMappings) \/ ~ForceIsParsable

(* "Iff previous step permanently failed, use" the installer's file: if   *)
(* the API server has answered all the time, it is the source of both     *)
(* the version and, if it has any, the mappings.                          *)
ApiServerFirst ==
  program = "bootstrap" /\ step = "env" /\ steady /\ conf.kubeconfig = "good" =>
    /\ conf.force = Absent => k8sVersion = clusterVersion
    /\ configMap # Absent => dockerVersions = configMap[k8sVersion.minor]

(* The state is gathered, or that has failed, after boundedly many tries, *)
(* also if the API server comes and goes for ever.                        *)
GatherEnds == Running ~> ~Running
=============================================================================
