--------------------------- MODULE StrategyCheck ---------------------------
(***************************************************************************)
(* PickVersion and LocationFor, called once with every input from a set,   *)
(* against what they are for, stated without reference to how they search. *)
(***************************************************************************)
EXTENDS Strategy

CONSTANTS Manifests,     \* the manifests a release bucket may hold
          Preferences    \* lists of docker versions, preferred ones first

ASSUME StrategyCheckAssumption ==
  /\ Manifests \subseteq Manifest
  /\ Preferences \subseteq Seq(Ref)

VARIABLES bucket,     \* the manifest published for each OS version
          current,    \* App.CurrentOSVersion
          next,       \* App.NextOSVersion
          versions,   \* App.DockerVersions
          pick        \* what PickVersion returned, or "pending"

vars == <<bucket, current, next, versions, pick>>

Init ==
  /\ bucket \in [OSVersion -> Manifests]
  /\ current \in OSVersion
  /\ next \in OSVersion \cup {NoVersion}
  /\ versions \in Preferences
  /\ pick = [outcome |-> "pending", osVersions |-> <<>>]

CallPickVersion ==
  /\ pick.outcome = "pending"
  /\ pick' = PickVersion(bucket, current, next, versions)
  /\ UNCHANGED <<bucket, current, next, versions>>

Next == CallPickVersion

Spec == Init /\ [][Next]_vars
-----------------------------------------------------------------------------
(* The entries of one package version in a manifest: those of the first   *)
(* package with that name.                                                *)
Entries(m, name, version) ==
  LET first == {i \in DOMAIN m : /\ m[i].name = name
                                 /\ \A k \in 1 .. i - 1 : m[k].name # name}
  IN  UNION {{e \in ToSet(m[i].versions) : e.version = version} : i \in first}

(* A version can be had for an OS iff an entry of it has some location.   *)
Offered(m, version) ==
  \E e \in Entries(m, DockerName, version) : e.locations # <<>>

(* The OS that boots next: the pending update, otherwise the running one. *)
ComingOS == IF next # NoVersion THEN next ELSE current

Wanted == {versions[i] : i \in DOMAIN versions}

(* The OS versions PickVersion can serve when v is installed.             *)
Servable(v) == {o \in {current, next} \ {NoVersion} :
                  o >= MinimumRemoteDocker /\ Offered(bucket[o], v)}

(* PickVersion installs the docker version Kubernetes prefers most among  *)
(* those the coming OS offers; it refuses only when the coming OS offers  *)
(* none of them and does nothing only before the torcx epoch.             *)
PicksMostPreferred ==
  CASE pick.outcome = "install" ->
         /\ Offered(bucket[ComingOS], pick.version)
         /\ \A i \in DOMAIN versions :
              \/ ~Offered(bucket[ComingOS], versions[i])
              \/ \E j \in 1 .. i : versions[j] = pick.version
    [] pick.outcome = "error" ->
         \A v \in Wanted : ~Offered(bucket[ComingOS], v)
    [] pick.outcome = "nothing" -> ComingOS < MinimumRemoteDocker
    [] OTHER -> TRUE

(* The OS versions handed to InstallAddon are exactly those among current *)
(* and next that offer the picked version and are new enough: so neither  *)
(* of the "should not happen" errors of InstallAddon's loop can come from *)
(* the strategy, and no OS that could be served is left out.              *)
TargetsAreServable ==
  pick.outcome = "install" =>
    ToSet(pick.osVersions) = Servable(pick.version)

(* The location chosen for an OS version never asks for a download of an  *)
(* image that the entry it was taken from says ships with that OS.        *)
NoNeedlessDownload ==
  \A o \in ToSet(pick.osVersions) :
    LET loc == LocationFor(bucket[o], DockerName, pick.version)
    IN  \E e \in Entries(bucket[o], DockerName, pick.version) :
          /\ loc.hash = e.hash
          /\ loc.kind \in ToSet(e.locations)
          /\ "vendor" \in ToSet(e.locations) => loc.kind = "vendor"
=============================================================================
