-------------------------- MODULE KubeSourcesProofs --------------------------
(***************************************************************************)
(* KubeSources: the hook agrees with the bootstrapper, and the sources     *)
(* that are said to suffice do, for any versions, mappings, files, flags   *)
(* and number of tries.                                                    *)
(***************************************************************************)
EXTENDS KubeSources, TLAPS

KnowsVersion == step \in {"mappings", "fileMappings", "env"}

(* What a program does and has while it runs.                             *)
Course ==
  /\ program = "hook" => step # "env" /\ kubeletEnv # Absent
  /\ KnowsVersion => k8sVersion \in Version
  /\ step = "env" => Parsable(k8sVersion)
  /\ step = "envVersion" => conf.force = Absent

(* kubelet.env and what it was written from.                              *)
Written ==
  bootstrapped # Absent =>
    /\ bootstrapped \in [version : Version, whole : BOOLEAN]
    /\ Parsable(bootstrapped.version)
    /\ kubeletEnv \in Version \cup {NoTag}
    /\ kubeletEnv \in Version =>
         kubeletEnv.minor \in {bootstrapped.version.minor, Garbled}
    /\ bootstrapped.whole /\ installerEnv # NoTag =>
         kubeletEnv = ToTag(bootstrapped.version)

(* Where the versions of the hook and of the bootstrapper are from.       *)
HookVersion ==
  program = "hook" /\ (KnowsVersion \/ step = "end") =>
    k8sVersion = IF conf.force = Absent THEN FromTag(kubeletEnv) ELSE conf.force

HookEnv ==
  program = "hook" /\ (KnowsVersion \/ step = "end") /\ conf.force = Absent =>
    kubeletEnv \in Version

HookMapped ==
  program = "hook" /\ step = "end" =>
    /\ Maps(cluoMappings, k8sVersion)
    /\ dockerVersions = cluoMappings[k8sVersion.minor]

BootstrapVersion ==
  program = "bootstrap" /\ KnowsVersion =>
    \/ conf.force # Absent /\ k8sVersion = conf.force
    \/ k8sVersion \in ClusterVersions
    \/ installerEnv \in Version /\ k8sVersion = FromTag(installerEnv)

(* The API server is the source of everything while it answers.           *)
FromServer ==
  steady =>
    /\ apiUp
    /\ program = "bootstrap" /\ conf.kubeconfig = "good" =>
         /\ step # "envVersion"
         /\ KnowsVersion /\ conf.force = Absent => k8sVersion = clusterVersion
         /\ step = "fileMappings" => configMap = Absent
         /\ step = "env" /\ configMap # Absent =>
              dockerVersions = configMap[k8sVersion.minor]

IInv ==
  /\ SourcesTypeOK /\ Course /\ Written
  /\ HookVersion /\ HookEnv /\ HookMapped /\ BootstrapVersion /\ FromServer
  /\ FallbackSuffices /\ BootstrappedNodeHooks

-----------------------------------------------------------------------------
(* The number of tries is a natural number above zero.                    *)
LEMMA TriesFacts == Tries \in Nat /\ 1 \in 1 .. Tries /\ ~(1 > 1)
<1>1. Tries \in Nat \ {0}
  BY SourcesAssumption
<1> QED
  BY <1>1

(* The markers are neither versions nor mappings.                         *)
LEMMA AbsentFacts ==
  /\ Absent \notin DockerVersions /\ Garbled \notin Minor
  /\ Absent \notin Version /\ NoTag \notin Version /\ Absent # NoTag
  /\ Absent \notin Mapping
<1>1. {Absent, Garbled} \cap Mapping = {} /\ {Absent, NoTag} \cap Version = {}
  BY SourcesAssumption
<1>2. Absent \notin DockerVersions /\ Garbled \notin Minor /\ Absent # NoTag
  BY SourcesAssumption
<1> QED
  BY <1>1, <1>2

(* What the bootstrapper wrote is a record, and not Absent.               *)
LEMMA RecordFacts ==
  ASSUME NEW v \in Version, NEW w \in BOOLEAN
  PROVE  /\ [version |-> v, whole |-> w] \in [version : Version, whole : BOOLEAN]
         /\ [version |-> v, whole |-> w] # Absent
<1>1. [version |-> v, whole |-> w] \in [version : Version, whole : BOOLEAN]
  OBVIOUS
<1>2. Absent \notin [version : Version, whole : BOOLEAN]
  BY SourcesAssumption
<1> QED
  BY <1>1, <1>2

(* The versions of the API server are ones that semver can parse.         *)
LEMMA ClusterFacts ==
  ASSUME NEW v \in ClusterVersions PROVE v \in Version /\ Parsable(v)
<1>1. v \in [minor : Minor, sep : {"", "+"}]
  BY SourcesAssumption
<1> QED
  BY <1>1, AbsentFacts DEF Version, Parsable

(* A version given by a flag is a version.                                *)
LEMMA ConfFacts ==
  ASSUME NEW c \in Confs PROVE c.force \in Version \cup {Absent}
<1>1. Confs \subseteq [kubeconfig : {"none", "broken", "good"},
                      force : Version \cup {Absent}]
  BY SourcesAssumption
<1> QED
  BY <1>1

-----------------------------------------------------------------------------
(* Tags *)
LEMMA TagTypes ==
  ASSUME NEW v \in Version
  PROVE  /\ ToTag(v) \in Version /\ ToTag(v).minor = v.minor
         /\ FromTag(v) \in Version /\ FromTag(v).minor = v.minor
BY DEF Version, ToTag, FromTag

(* What WriteKubeletEnv changes in a version, GetKubeVersion changes back,*)
(* if semver accepts the version.                                         *)
LEMMA TagRoundTrip ==
  ASSUME NEW v \in Version, Parsable(v)
  PROVE  FromTag(ToTag(v)) = v
<1>1. v = [minor |-> v.minor, sep |-> v.sep] /\ v.sep \in {"", "+"}
  BY DEF Version, Parsable
<1>2. CASE v.sep = ""
  BY <1>1, <1>2 DEF ToTag, FromTag
<1>3. CASE v.sep = "+"
  <2>1. ToTag(v) = [minor |-> v.minor, sep |-> "_"]
    BY <1>1, <1>3 DEF ToTag
  <2>2. FromTag([minor |-> v.minor, sep |-> "_"]) = [minor |-> v.minor, sep |-> "+"]
    BY DEF FromTag
  <2> QED
    BY <1>1, <1>3, <2>1, <2>2
<1> QED
  BY <1>1, <1>2, <1>3

(* What is left of a tag that is cut off.                                 *)
LEMMA CutTagTypes ==
  ASSUME k8sVersion \in Version, NEW t \in CutTags \cup {EnvTag}
  PROVE  /\ t \in Version \cup {NoTag}
         /\ t \in Version => t.minor \in {k8sVersion.minor, Garbled}
<1>1. \/ EnvTag = NoTag
      \/ EnvTag \in Version /\ EnvTag.minor = k8sVersion.minor
  BY TagTypes DEF EnvTag
<1>2. CASE EnvTag = NoTag
  BY <1>2, AbsentFacts DEF CutTags
<1>3. CASE EnvTag # NoTag
  <2>1. EnvTag \in Version /\ EnvTag.minor = k8sVersion.minor
    BY <1>1, <1>3
  <2>2. EnvTag.minor \in Minor \cup {Garbled} /\ EnvTag.sep \in {"", "+", "_"}
    BY <2>1 DEF Version
  <2>3. [minor |-> Garbled, sep |-> ""] \in Version
    BY DEF Version
  <2>4. \A u \in [minor : {EnvTag.minor}, sep : {"", EnvTag.sep}] :
          u \in Version /\ u.minor = EnvTag.minor
    BY <2>2 DEF Version
  <2>5. t \in {NoTag, EnvTag, [minor |-> Garbled, sep |-> ""]}
              \cup [minor : {EnvTag.minor}, sep : {"", EnvTag.sep}]
    BY <1>3 DEF CutTags
  <2>6. CASE t \in {NoTag, EnvTag}
    BY <2>1, <2>6, AbsentFacts
  <2>7. CASE t = [minor |-> Garbled, sep |-> ""]
    BY <2>3, <2>7
  <2>8. CASE t \in [minor : {EnvTag.minor}, sep : {"", EnvTag.sep}]
    BY <2>1, <2>4, <2>8
  <2> QED
    BY <2>5, <2>6, <2>7, <2>8
<1> QED
  BY <1>2, <1>3

(* VersionFor returns docker versions the mapping has.                    *)
LEMMA MapsTypes ==
  ASSUME NEW m, NEW v \in Version, Maps(m, v)
  PROVE  m[v.minor] \in DockerVersions /\ Parsable(v) /\ v.minor \in Minor
BY DEF Maps, Mapping, Parsable, Version

(* A mapping that covers all versions has docker versions for each.       *)
LEMMA CoversMaps ==
  ASSUME NEW m, Covers(m), NEW v \in Version, Parsable(v)
  PROVE  Maps(m, v)
BY DEF Maps, Covers, Parsable, Version

-----------------------------------------------------------------------------
(* It holds at the start.                                                 *)
LEMMA InitInv == Init => IInv
<1> SUFFICES ASSUME Init PROVE IInv
  OBVIOUS
<1>1. SourcesTypeOK
  <2>1. tries \in 1 .. Tries /\ ~(tries > 1)
    BY TriesFacts DEF Init
  <2> QED
    BY <2>1 DEF Init, SourcesTypeOK, EnvFile
<1> QED
  BY <1>1
  DEF Init, IInv, Course, KnowsVersion, Written, HookVersion, HookEnv,
      HookMapped, BootstrapVersion, FromServer, FallbackSuffices,
      BootstrappedNodeHooks

-----------------------------------------------------------------------------
(* Types *)
LEMMA TypeStep ==
  SourcesTypeOK /\ Course /\ [Next]_vars => SourcesTypeOK' /\ Course'
<1> SUFFICES ASSUME SourcesTypeOK, Course, [Next]_vars
             PROVE  SourcesTypeOK' /\ Course'
  OBVIOUS
<1>0. 1 \in 1 .. Tries /\ ~(1 > 1) /\ Tries \in Nat /\ tries \in Nat
  BY TriesFacts DEF SourcesTypeOK
<1>f. conf.force # Absent => conf.force \in Version
  BY ConfFacts DEF SourcesTypeOK
<1>c. clusterVersion \in Version
  BY ClusterFacts DEF SourcesTypeOK
<1>n. ASSUME NEW fallback, ApiFails(fallback), step \in {"version", "mappings"},
             program = "bootstrap", fallback \in {"envVersion", "fileMappings"}
      PROVE  /\ step' \in {step, fallback}
             /\ tries' \in 1 .. Tries
             /\ tries' > 1 => step' = step
  <2>1. CASE conf.kubeconfig = "good" /\ tries < Tries
    BY <1>0, <1>n, <2>1 DEF ApiFails
  <2>2. CASE ~(conf.kubeconfig = "good" /\ tries < Tries)
    BY <1>0, <1>n, <2>2 DEF ApiFails, Goto, AfterTries
  <2> QED
    BY <2>1, <2>2
<1>l. ASSUME NEW m, LookUp(m), k8sVersion \in Version
      PROVE  /\ dockerVersions' \in DockerVersions \cup {Absent}
             /\ step' \in {"end", "env", "failed"} /\ tries' = 1
             /\ program = "hook" => step' # "env"
             /\ step' = "env" => Parsable(k8sVersion)
  <2>1. CASE Maps(m, k8sVersion)
    BY <1>l, <2>1, MapsTypes DEF LookUp, Goto
  <2>2. CASE ~Maps(m, k8sVersion)
    BY <1>l, <2>2 DEF LookUp, Goto, SourcesTypeOK
  <2> QED
    BY <2>1, <2>2
<1>1. CASE ApiToggles \/ ClusterUpgraded
  BY <1>1
  DEF ApiToggles, ClusterUpgraded, files, written, app, SourcesTypeOK, Course,
      KnowsVersion
<1>2. CASE Start
  BY <1>0, <1>2
  DEF Start, Running, files, written, SourcesTypeOK, Course, KnowsVersion
<1>3. CASE GetCurrentOSInfo
  BY <1>0, <1>3
  DEF GetCurrentOSInfo, Goto, cluster, files, written, app, SourcesTypeOK,
      Course, KnowsVersion
<1>4. CASE UseForcedVersion
  BY <1>0, <1>4, <1>f
  DEF UseForcedVersion, Goto, cluster, files, written, SourcesTypeOK, Course,
      KnowsVersion
<1>5. CASE SkipServerVersion
  BY <1>0, <1>5
  DEF SkipServerVersion, Goto, cluster, files, written, app, SourcesTypeOK,
      Course, KnowsVersion
<1>6. CASE ServerVersion
  <2>0. step = "version" /\ program = "bootstrap" /\ conf.force = Absent
          /\ UNCHANGED <<cluster, files, written, program, conf, dockerVersions>>
    BY <1>6 DEF ServerVersion, AsksApi, LocalOnly, SourcesTypeOK
  <2>1. CASE Answers /\ k8sVersion' = clusterVersion /\ Goto("mappings")
    BY <1>0, <1>c, <2>0, <2>1
    DEF Goto, cluster, files, written, SourcesTypeOK, Course, KnowsVersion
  <2>2. CASE ApiFails("envVersion") /\ UNCHANGED k8sVersion
    <3>1. /\ step' \in {"version", "envVersion"} /\ tries' \in 1 .. Tries
          /\ tries' > 1 => step' = "version"
      BY <1>n, <2>0, <2>2
    <3> QED
      BY <2>0, <2>2, <3>1
      DEF cluster, files, written, SourcesTypeOK, Course, KnowsVersion
  <2> QED
    BY <1>6, <2>1, <2>2 DEF ServerVersion
<1>7. CASE VersionFromPath
  <2>1. \/ k8sVersion' \in Version /\ Goto("mappings")
        \/ UNCHANGED k8sVersion /\ Goto("failed")
    BY <1>7, TagTypes DEF VersionFromPath
  <2> QED
    BY <1>0, <1>7, <2>1
    DEF VersionFromPath, Goto, cluster, files, written, SourcesTypeOK, Course,
        KnowsVersion
<1>8. CASE SkipConfigMap
  BY <1>0, <1>8
  DEF SkipConfigMap, Goto, cluster, files, written, app, SourcesTypeOK, Course,
      KnowsVersion
<1>9. CASE GetConfigMap
  <2>0. step = "mappings" /\ program = "bootstrap" /\ k8sVersion \in Version
          /\ UNCHANGED <<cluster, files, written, program, conf, k8sVersion>>
    BY <1>9
    DEF GetConfigMap, AsksApi, LocalOnly, SourcesTypeOK, Course, KnowsVersion
  <2>1. CASE LookUp(configMap)
    BY <1>0, <1>l, <2>0, <2>1
    DEF cluster, files, written, SourcesTypeOK, Course, KnowsVersion
  <2>2. CASE ApiFails("fileMappings") /\ UNCHANGED dockerVersions
    <3>1. /\ step' \in {"mappings", "fileMappings"} /\ tries' \in 1 .. Tries
          /\ tries' > 1 => step' = "mappings"
      BY <1>n, <2>0, <2>2
    <3> QED
      BY <2>0, <2>2, <3>1
      DEF cluster, files, written, SourcesTypeOK, Course, KnowsVersion
  <2> QED
    BY <1>9, <2>1, <2>2 DEF GetConfigMap
<1>10. CASE MappingsFromPath
  <2>0. step = "fileMappings" /\ k8sVersion \in Version
          /\ UNCHANGED <<cluster, files, written, program, conf, k8sVersion>>
    BY <1>10 DEF MappingsFromPath, Course, KnowsVersion
  <2>1. PICK m : LookUp(m)
    BY <1>10 DEF MappingsFromPath
  <2> QED
    BY <1>0, <1>l, <2>0, <2>1
    DEF cluster, files, written, SourcesTypeOK, Course, KnowsVersion
<1>11. CASE WriteKubeletEnv
  <2>0. /\ step = "env" /\ program = "bootstrap" /\ k8sVersion \in Version
        /\ step' \in {"end", "noEnv"} /\ tries' = 1
        /\ UNCHANGED <<cluster, files, program, conf, app>>
    BY <1>11
    DEF WriteKubeletEnv, Goto, SourcesTypeOK, Course, KnowsVersion
  <2>1. CASE UNCHANGED written
    BY <1>0, <2>0, <2>1
    DEF written, cluster, files, app, SourcesTypeOK, Course, KnowsVersion
  <2>2. CASE ~UNCHANGED written
    <3>1. PICK whole \in BOOLEAN :
            /\ kubeletEnv' \in IF whole THEN {EnvTag} ELSE CutTags
            /\ bootstrapped' = [version |-> k8sVersion, whole |-> whole]
      BY <1>11, <2>2 DEF WriteKubeletEnv
    <3>2. kubeletEnv' \in Version \cup {NoTag}
      BY <2>0, <3>1, CutTagTypes
    <3>3. kubeletEnv' \in EnvFile /\ kubeletEnv' # Absent
      BY <3>2, AbsentFacts DEF EnvFile
    <3>4. bootstrapped' # Absent
      BY <2>0, <3>1, RecordFacts
    <3> QED
      BY <1>0, <2>0, <3>3, <3>4
      DEF cluster, files, app, SourcesTypeOK, Course, KnowsVersion
  <2> QED
    BY <2>1, <2>2
<1>12. CASE UNCHANGED vars
  BY <1>12
  DEF vars, cluster, files, written, app, SourcesTypeOK, Course, KnowsVersion
<1> QED
  BY <1>1, <1>2, <1>3, <1>4, <1>5, <1>6, <1>7, <1>8, <1>9, <1>10, <1>11, <1>12
  DEF Next, Gather

-----------------------------------------------------------------------------
(* kubelet.env *)
LEMMA WrittenStep == Course /\ Written /\ [Next]_vars => Written'
<1> SUFFICES ASSUME Course, Written, [Next]_vars PROVE Written'
  OBVIOUS
<1>1. CASE WriteKubeletEnv /\ ~UNCHANGED written
  <2>0. step = "env" /\ k8sVersion \in Version /\ Parsable(k8sVersion)
          /\ installerEnv' = installerEnv
    BY <1>1 DEF WriteKubeletEnv, files, Course, KnowsVersion
  <2>1. PICK whole \in BOOLEAN :
          /\ kubeletEnv' \in IF whole THEN {EnvTag} ELSE CutTags
          /\ bootstrapped' = [version |-> k8sVersion, whole |-> whole]
    BY <1>1 DEF WriteKubeletEnv
  <2>2. /\ kubeletEnv' \in Version \cup {NoTag}
        /\ kubeletEnv' \in Version => kubeletEnv'.minor \in {k8sVersion.minor, Garbled}
    BY <2>0, <2>1, CutTagTypes
  <2>3. whole /\ installerEnv # NoTag => kubeletEnv' = ToTag(k8sVersion)
    BY <2>1 DEF EnvTag
  <2>4. /\ bootstrapped' \in [version : Version, whole : BOOLEAN]
        /\ bootstrapped'.version = k8sVersion /\ bootstrapped'.whole = whole
    BY <2>0, <2>1, RecordFacts
  <2> QED
    BY <2>0, <2>2, <2>3, <2>4 DEF Written
<1>2. CASE UNCHANGED written /\ UNCHANGED installerEnv
  BY <1>2 DEF written, Written
<1> QED
  BY <1>1, <1>2
  DEF Next, Gather, vars, files, ApiToggles, ClusterUpgraded, Start,
      GetCurrentOSInfo, UseForcedVersion, SkipServerVersion, ServerVersion,
      VersionFromPath, SkipConfigMap, GetConfigMap, MappingsFromPath,
      WriteKubeletEnv

-----------------------------------------------------------------------------
(* The hook *)

Hook == HookVersion /\ HookEnv /\ HookMapped /\ BootstrappedNodeHooks

(* What a step of the hook does not change.                               *)
LEMMA HookFrame ==
  ASSUME SourcesTypeOK, Course, [Next]_vars, ~Start, program' = "hook"
  PROVE  /\ program = "hook" /\ kubeletEnv # Absent
         /\ UNCHANGED <<conf, osRelease, installerEnv, cluoMappings, written>>
<1>1. program' = program
  BY DEF Next, Gather, vars, ApiToggles, ClusterUpgraded, GetCurrentOSInfo,
         UseForcedVersion, SkipServerVersion, ServerVersion, VersionFromPath,
         SkipConfigMap, GetConfigMap, MappingsFromPath, WriteKubeletEnv
<1>2. ~WriteKubeletEnv /\ kubeletEnv # Absent
  BY <1>1 DEF WriteKubeletEnv, Course
<1> QED
  BY <1>1, <1>2
  DEF Next, Gather, vars, files, ApiToggles, ClusterUpgraded, GetCurrentOSInfo,
      UseForcedVersion, SkipServerVersion, ServerVersion, VersionFromPath,
      SkipConfigMap, GetConfigMap, MappingsFromPath

(* With a whole kubelet.env the hook's version can be parsed.             *)
LEMMA WholeEnvParsable ==
  ASSUME Written, bootstrapped # Absent, bootstrapped.whole, installerEnv # NoTag
  PROVE  kubeletEnv \in Version /\ Parsable(FromTag(kubeletEnv))
<1>1. bootstrapped.version \in Version /\ Parsable(bootstrapped.version)
        /\ kubeletEnv = ToTag(bootstrapped.version)
  BY DEF Written
<1> QED
  BY <1>1, TagTypes, TagRoundTrip

(* The steps of the hook keep it.                                         *)
LEMMA HookStep ==
  SourcesTypeOK /\ Course /\ Written /\ Hook /\ [Next]_vars => Hook'
<1> SUFFICES ASSUME SourcesTypeOK, Course, Written, Hook, [Next]_vars,
                    program' = "hook", ~Start
             PROVE  Hook'
  BY DEF Hook, HookVersion, HookEnv, HookMapped, BootstrappedNodeHooks, Start,
         KnowsVersion
<1>0. /\ program = "hook" /\ kubeletEnv # Absent
      /\ UNCHANGED <<conf, osRelease, installerEnv, cluoMappings, written>>
  BY HookFrame
<1>b. bootstrapped # Absent /\ LocalOnly /\ ~AsksApi
  BY <1>0 DEF SourcesTypeOK, LocalOnly, AsksApi
<1>1. CASE GetCurrentOSInfo
  BY <1>0, <1>1
  DEF GetCurrentOSInfo, Goto, OSReadable, Hook, HookVersion, HookEnv, HookMapped,
      BootstrappedNodeHooks, KnowsVersion
<1>2. CASE UseForcedVersion
  BY <1>0, <1>2
  DEF UseForcedVersion, Goto, Hook, HookVersion, HookEnv, HookMapped,
      BootstrappedNodeHooks, KnowsVersion
<1>3. CASE SkipServerVersion
  BY <1>0, <1>3
  DEF SkipServerVersion, Goto, Hook, HookVersion, HookEnv, HookMapped,
      BootstrappedNodeHooks, KnowsVersion
<1>4. CASE VersionFromPath
  <2>0. conf.force = Absent
    BY <1>4 DEF VersionFromPath, Course
  <2>1. CASE kubeletEnv \in Version
    BY <1>0, <1>4, <2>0, <2>1
    DEF VersionFromPath, Goto, written, Hook, HookVersion, HookEnv, HookMapped,
        BootstrappedNodeHooks, KnowsVersion
  <2>2. CASE kubeletEnv \notin Version
    <3>1. ~bootstrapped.whole \/ installerEnv = NoTag
      BY <1>b, <2>2, WholeEnvParsable
    <3>2. step' = "failed"
      BY <1>0, <1>4, <2>2 DEF VersionFromPath, Goto
    <3> QED
      BY <1>0, <3>1, <3>2
      DEF written, Hook, HookVersion, HookEnv, HookMapped,
          BootstrappedNodeHooks, KnowsVersion
  <2> QED
    BY <2>1, <2>2
<1>5. CASE SkipConfigMap
  BY <1>0, <1>5
  DEF SkipConfigMap, Goto, app, written, Hook, HookVersion, HookEnv, HookMapped,
      BootstrappedNodeHooks, KnowsVersion
<1>6. CASE MappingsFromPath
  <2>0. step = "fileMappings" /\ KnowsVersion /\ k8sVersion \in Version
          /\ LookUp(cluoMappings) /\ k8sVersion' = k8sVersion
    BY <1>0, <1>6 DEF MappingsFromPath, KnowsVersion, Course
  <2>1. CASE Maps(cluoMappings, k8sVersion)
    <3>1. step' = "end" /\ dockerVersions' = cluoMappings[k8sVersion.minor]
      BY <1>0, <2>0, <2>1 DEF LookUp, Goto
    <3>2. HookVersion' /\ HookEnv' /\ BootstrappedNodeHooks'
      BY <1>0, <2>0, <3>1
      DEF written, Hook, HookVersion, HookEnv, BootstrappedNodeHooks,
          KnowsVersion
    <3>3. HookMapped'
      BY <1>0, <2>0, <2>1, <3>1 DEF HookMapped, Maps
    <3> QED
      BY <3>2, <3>3 DEF Hook
  <2>2. CASE ~Maps(cluoMappings, k8sVersion)
    <3>1. step' = "failed"
      BY <2>0, <2>2 DEF LookUp, Goto
    <3>2. ~Covers(cluoMappings) \/ ~Parsable(k8sVersion)
      BY <2>0, <2>2, CoversMaps
    <3>3. k8sVersion = IF conf.force = Absent THEN FromTag(kubeletEnv)
                                              ELSE conf.force
      BY <1>0, <2>0 DEF Hook, HookVersion
    <3>4. \/ ~bootstrapped.whole \/ installerEnv = NoTag
          \/ ~Covers(cluoMappings) \/ ~ForceIsParsable
      BY <1>b, <3>2, <3>3, WholeEnvParsable DEF ForceIsParsable
    <3>5. BootstrappedNodeHooks'
      BY <1>0, <3>4 DEF written, BootstrappedNodeHooks, Covers, ForceIsParsable
    <3> QED
      BY <3>1, <3>5 DEF Hook, HookVersion, HookEnv, HookMapped, KnowsVersion
  <2> QED
    BY <2>1, <2>2
<1>7. CASE ApiToggles \/ ClusterUpgraded
  BY <1>0, <1>7
  DEF ApiToggles, ClusterUpgraded, files, written, app, Hook, HookVersion,
      HookEnv, HookMapped, BootstrappedNodeHooks, KnowsVersion, OSReadable,
      ForceIsParsable
<1>8. CASE UNCHANGED vars
  BY <1>8
  DEF vars, files, written, app, Hook, HookVersion, HookEnv, HookMapped,
      BootstrappedNodeHooks, KnowsVersion, OSReadable, ForceIsParsable
<1>9. ~ServerVersion /\ ~GetConfigMap /\ ~WriteKubeletEnv
  BY <1>0, <1>b DEF ServerVersion, GetConfigMap, WriteKubeletEnv, Course
<1> QED
  BY <1>1, <1>2, <1>3, <1>4, <1>5, <1>6, <1>7, <1>8, <1>9 DEF Next, Gather

-----------------------------------------------------------------------------
(* The bootstrapper *)

Bootstrap == BootstrapVersion /\ FallbackSuffices

(* With files and flags as FallbackSuffices has them, the bootstrapper's  *)
(* version can be parsed, whichever source it is from.                    *)
LEMMA BootstrapParsable ==
  ASSUME BootstrapVersion, program = "bootstrap", KnowsVersion, ForceIsParsable,
         installerEnv \in Version, Parsable(FromTag(installerEnv))
  PROVE  Parsable(k8sVersion)
BY ClusterFacts DEF BootstrapVersion, ForceIsParsable

(* The steps of the bootstrapper keep it.                                 *)
LEMMA BootstrapStep ==
  SourcesTypeOK /\ Course /\ Bootstrap /\ [Next]_vars => Bootstrap'
<1> SUFFICES ASSUME SourcesTypeOK, Course, Bootstrap, [Next]_vars,
                    program' = "bootstrap", ~Start
             PROVE  Bootstrap'
  BY DEF Bootstrap, BootstrapVersion, FallbackSuffices, Start, KnowsVersion
<1>0. /\ program = "bootstrap"
      /\ UNCHANGED <<conf, osRelease, installerEnv, installerMappings, configMap>>
  BY DEF Next, Gather, vars, files, ApiToggles, ClusterUpgraded,
         GetCurrentOSInfo, UseForcedVersion, SkipServerVersion, ServerVersion,
         VersionFromPath, SkipConfigMap, GetConfigMap, MappingsFromPath,
         WriteKubeletEnv
<1>s. /\ Covers(configMap)' = Covers(configMap)
      /\ Covers(installerMappings)' = Covers(installerMappings)
      /\ ForceIsParsable' = ForceIsParsable /\ OSReadable' = OSReadable
  BY <1>0 DEF Covers, ForceIsParsable, OSReadable
<1>1. CASE GetCurrentOSInfo
  BY <1>0, <1>1
  DEF GetCurrentOSInfo, Goto, OSReadable, Bootstrap, BootstrapVersion,
      FallbackSuffices, KnowsVersion
<1>2. CASE UseForcedVersion
  BY <1>0, <1>2
  DEF UseForcedVersion, Goto, Bootstrap, BootstrapVersion, FallbackSuffices,
      KnowsVersion
<1>3. CASE ServerVersion
  BY <1>0, <1>3
  DEF ServerVersion, Goto, ApiFails, AfterTries, SourcesTypeOK, Bootstrap,
      BootstrapVersion, FallbackSuffices, KnowsVersion
<1>4. CASE VersionFromPath
  BY <1>0, <1>4
  DEF VersionFromPath, Goto, Bootstrap, BootstrapVersion, FallbackSuffices,
      KnowsVersion
<1>5. ASSUME NEW m, LookUp(m), KnowsVersion, k8sVersion' = k8sVersion,
             m \in {configMap, installerMappings},
             m = configMap => configMap # Absent
      PROVE  Bootstrap'
  <2>1. CASE Maps(m, k8sVersion)
    BY <1>0, <1>5, <2>1
    DEF LookUp, Goto, Bootstrap, BootstrapVersion, FallbackSuffices, KnowsVersion
  <2>2. CASE ~Maps(m, k8sVersion)
    <3>1. step' = "failed" /\ k8sVersion \in Version
      BY <1>5, <2>2 DEF LookUp, Goto, Course
    <3>2. ASSUME OSReadable, Covers(installerMappings), ForceIsParsable,
                 installerEnv \in Version, Parsable(FromTag(installerEnv))
          PROVE  configMap # Absent /\ ~Covers(configMap)
      <4>1. Parsable(k8sVersion)
        BY <1>0, <1>5, <3>2, BootstrapParsable DEF Bootstrap
      <4>2. ~Covers(m)
        BY <2>2, <3>1, <4>1, CoversMaps
      <4> QED
        BY <1>5, <3>2, <4>2
    <3>3. FallbackSuffices'
      BY <1>0, <1>s, <3>2 DEF FallbackSuffices
    <3> QED
      BY <3>1, <3>3 DEF Bootstrap, BootstrapVersion, KnowsVersion
  <2> QED
    BY <2>1, <2>2
<1>6. CASE GetConfigMap
  <2>1. KnowsVersion /\ k8sVersion' = k8sVersion /\ step = "mappings"
    BY <1>6 DEF GetConfigMap, KnowsVersion
  <2>2. CASE Answers /\ configMap # Absent
    BY <1>5, <1>6, <2>1, <2>2 DEF GetConfigMap
  <2>3. CASE ~(Answers /\ configMap # Absent)
    <3>1. ApiFails("fileMappings")
      BY <1>6, <2>3 DEF GetConfigMap
    <3>2. step' \in {"mappings", "fileMappings"}
      BY <2>1, <3>1 DEF ApiFails, Goto, AfterTries
    <3> QED
      BY <1>0, <2>1, <3>2
      DEF Bootstrap, BootstrapVersion, FallbackSuffices, KnowsVersion
  <2> QED
    BY <2>2, <2>3
<1>7. CASE MappingsFromPath
  <2>1. KnowsVersion /\ k8sVersion' = k8sVersion /\ LookUp(installerMappings)
    BY <1>0, <1>7 DEF MappingsFromPath, KnowsVersion
  <2>2. CASE installerMappings = Absent
    <3>1. step' = "failed"
      BY <2>1, <2>2, AbsentFacts DEF LookUp, Maps, Goto
    <3>2. ~Covers(installerMappings)
      BY <2>2, AbsentFacts DEF Covers
    <3> QED
      BY <1>s, <3>1, <3>2
      DEF Bootstrap, BootstrapVersion, FallbackSuffices, KnowsVersion
  <2>3. CASE installerMappings # Absent
    BY <1>5, <2>1, <2>3
  <2> QED
    BY <2>2, <2>3
<1>8. CASE WriteKubeletEnv
  <2>1. step' \in {"end", "noEnv"}
    BY <1>8 DEF WriteKubeletEnv, Goto
  <2> QED
    BY <1>0, <2>1, AbsentFacts
    DEF Bootstrap, BootstrapVersion, FallbackSuffices, KnowsVersion
<1>9. CASE ApiToggles \/ ClusterUpgraded
  BY <1>0, <1>s, <1>9
  DEF ApiToggles, ClusterUpgraded, app, Bootstrap, BootstrapVersion,
      FallbackSuffices, KnowsVersion
<1>10. CASE UNCHANGED vars
  BY <1>0, <1>s, <1>10
  DEF vars, app, Bootstrap, BootstrapVersion, FallbackSuffices, KnowsVersion
<1>11. ~SkipServerVersion /\ ~SkipConfigMap
  BY <1>0 DEF SkipServerVersion, SkipConfigMap, AsksApi, LocalOnly
<1> QED
  BY <1>1, <1>2, <1>3, <1>4, <1>6, <1>7, <1>8, <1>9, <1>10, <1>11
  DEF Next, Gather

(* While the API server answers it is the source.                         *)
LEMMA ServerStep ==
  SourcesTypeOK /\ FromServer /\ [Next]_vars => FromServer'
<1> SUFFICES ASSUME SourcesTypeOK, FromServer, [Next]_vars, steady'
             PROVE  FromServer'
  BY DEF FromServer
<1>1. CASE Start
  BY <1>1 DEF Start, FromServer, KnowsVersion
<1>2. CASE Gather \/ UNCHANGED vars
  <2>0. /\ steady /\ apiUp
        /\ UNCHANGED <<apiUp, clusterVersion, steady, configMap, program, conf>>
    BY <1>2
    DEF Gather, vars, files, cluster, FromServer, GetCurrentOSInfo,
        UseForcedVersion, SkipServerVersion, ServerVersion, VersionFromPath,
        SkipConfigMap, GetConfigMap, MappingsFromPath, WriteKubeletEnv
  <2> SUFFICES ASSUME program = "bootstrap", conf.kubeconfig = "good"
               PROVE  FromServer'
    BY <2>0 DEF FromServer
  <2>a. AsksApi /\ Answers
    BY <2>0 DEF AsksApi, LocalOnly, Answers
  <2>1. CASE GetCurrentOSInfo \/ UseForcedVersion \/ WriteKubeletEnv
    BY <2>0, <2>1
    DEF GetCurrentOSInfo, UseForcedVersion, WriteKubeletEnv, Goto, FromServer,
        KnowsVersion
  <2>2. CASE ServerVersion
    BY <2>0, <2>2, <2>a DEF ServerVersion, Goto, FromServer, KnowsVersion
  <2>3. CASE GetConfigMap
    <3>0. step = "mappings" /\ k8sVersion' = k8sVersion
      BY <2>3 DEF GetConfigMap
    <3>1. CASE configMap # Absent
      <4>1. LookUp(configMap)
        BY <2>3, <2>a, <3>1 DEF GetConfigMap
      <4> QED
        BY <2>0, <3>0, <4>1 DEF LookUp, Goto, FromServer, KnowsVersion
    <3>2. CASE configMap = Absent
      <4>1. step' \in {"mappings", "fileMappings"}
        BY <2>3, <3>0, <3>2 DEF GetConfigMap, ApiFails, Goto, AfterTries
      <4> QED
        BY <2>0, <3>0, <3>2, <4>1 DEF FromServer, KnowsVersion
    <3> QED
      BY <3>1, <3>2
  <2>4. CASE MappingsFromPath
    <3>1. PICK m : LookUp(m)
      BY <2>4 DEF MappingsFromPath
    <3>2. configMap = Absent /\ k8sVersion' = k8sVersion /\ KnowsVersion
      BY <2>0, <2>4 DEF MappingsFromPath, FromServer, KnowsVersion
    <3> QED
      BY <2>0, <3>1, <3>2 DEF LookUp, Goto, FromServer, KnowsVersion
  <2>5. CASE UNCHANGED vars
    BY <2>5 DEF vars, cluster, files, app, FromServer, KnowsVersion
  <2>6. ~SkipServerVersion /\ ~SkipConfigMap /\ ~VersionFromPath
    BY <2>0, <2>a
    DEF SkipServerVersion, SkipConfigMap, VersionFromPath, FromServer
  <2> QED
    BY <1>2, <2>1, <2>2, <2>3, <2>4, <2>5, <2>6 DEF Gather
<1>3. ~ApiToggles /\ ~ClusterUpgraded
  BY DEF ApiToggles, ClusterUpgraded
<1> QED
  BY <1>1, <1>2, <1>3 DEF Next

-----------------------------------------------------------------------------
(* Every step keeps the invariant.                                        *)
LEMMA InductiveInv == IInv /\ [Next]_vars => IInv'
<1> SUFFICES ASSUME IInv, [Next]_vars PROVE IInv'
  OBVIOUS
<1>1. SourcesTypeOK /\ Course /\ Written /\ Hook /\ Bootstrap /\ FromServer
  BY DEF IInv, Hook, Bootstrap
<1>2. SourcesTypeOK' /\ Course' /\ Written' /\ Hook' /\ Bootstrap' /\ FromServer'
  BY <1>1, TypeStep, WrittenStep, HookStep, BootstrapStep, ServerStep
<1> QED
  BY <1>2 DEF IInv, Hook, Bootstrap

(* So it holds at all times.                                              *)
LEMMA Invariant == Spec => []IInv
BY InitInv, InductiveInv, PTL DEF Spec

-----------------------------------------------------------------------------
(* Every variable of GatherState and of the sources keeps its type, and   *)
(* no request is tried more than Tries times.                             *)
THEOREM SourcesTypeCorrect == Spec => []SourcesTypeOK
<1>1. IInv => SourcesTypeOK
  BY DEF IInv
<1> QED
  BY <1>1, Invariant, PTL

(* GetKubeVersion of the hook reads back, from whatever WriteKubeletEnv   *)
(* of the bootstrapper has left, the minor version it was written for.    *)
THEOREM HookAlwaysAgrees == Spec => []HookAgreesWithBootstrap
<1>1. IInv => HookAgreesWithBootstrap
  <2> SUFFICES ASSUME IInv, program = "hook", step = "end", conf.force = Absent
               PROVE  /\ k8sVersion.minor = bootstrapped.version.minor
                      /\ dockerVersions = cluoMappings[k8sVersion.minor]
    BY DEF HookAgreesWithBootstrap
  <2>1. /\ kubeletEnv \in Version /\ k8sVersion = FromTag(kubeletEnv)
        /\ bootstrapped # Absent
    BY DEF IInv, HookEnv, HookVersion, Course, SourcesTypeOK
  <2>2. Parsable(k8sVersion) /\ dockerVersions = cluoMappings[k8sVersion.minor]
    BY DEF IInv, HookMapped, Maps
  <2>3. k8sVersion.minor = kubeletEnv.minor /\ k8sVersion.minor # Garbled
    BY <2>1, <2>2, TagTypes DEF Parsable
  <2> QED
    BY <2>1, <2>2, <2>3 DEF IInv, Written
<1> QED
  BY <1>1, Invariant, PTL

(* With good files of the installer GatherState of the bootstrapper fails *)
(* for a bad ConfigMap only.                                              *)
THEOREM FallbackAlwaysSuffices == Spec => []FallbackSuffices
<1>1. IInv => FallbackSuffices
  BY DEF IInv
<1> QED
  BY <1>1, Invariant, PTL

(* GatherState of the hook fails only for a kubelet.env that was cut off  *)
(* or for bad files or flags of its own.                                  *)
THEOREM BootstrappedNodesHook == Spec => []BootstrappedNodeHooks
<1>1. IInv => BootstrappedNodeHooks
  BY DEF IInv
<1> QED
  BY <1>1, Invariant, PTL

(* An API server that has answered all the time is what the bootstrapper  *)
(* relies on.                                                             *)
THEOREM ApiServerAlwaysFirst == Spec => []ApiServerFirst
<1>1. IInv => ApiServerFirst
  BY DEF IInv, FromServer, ApiServerFirst, KnowsVersion
<1> QED
  BY <1>1, Invariant, PTL
=============================================================================
