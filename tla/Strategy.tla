------------------------------ MODULE Strategy ------------------------------
(***************************************************************************)
(* Which docker version to install and for which OS versions               *)
(* (internal/strategy.go).                                                 *)
(*                                                                         *)
(* An OS version is a positive number, ordered as go-semver orders the     *)
(* real ones; 0 is the empty string, "no such version".  bucket[o] is the  *)
(* manifest GetPackageManifest(o) returns.                                 *)
(***************************************************************************)
EXTENDS PackageManifest

CONSTANTS OSVersion,             \* Container Linux versions
          MinimumRemoteDocker,   \* first version with published addons
          DockerName             \* the package name "docker"

ASSUME OSVersionAssumption ==
  /\ OSVersion \subseteq Nat \ {0}
  /\ MinimumRemoteDocker \in Nat
  /\ DockerName \in Name

NoVersion == 0

(* shouldSkip: the OS version is from before the torcx epoch.             *)
ShouldSkip(version) == version < MinimumRemoteDocker

(* Mutation of PrimaryOS: serve the OS that runs, not the one to come.    *)
PrimaryOS_Current(current, next) == current

(* The "coming" OS version, and the other one if an update is pending.    *)
PrimaryOS(current, next)   == IF next = NoVersion THEN current ELSE next
SecondaryOS(current, next) == IF next = NoVersion THEN NoVersion ELSE current

Available(m, version) == LocationFor(m, DockerName, version) # NoLocation

(* Mutation of FirstAvailable: the least preferred version wins.          *)
FirstAvailable_Last(m, packageVersions) ==
  SelectLastInSeq(packageVersions, LAMBDA v : Available(m, v))

(* Index of the first of the preferred versions that m offers, 0 if none. *)
FirstAvailable(m, packageVersions) ==
  SelectInSeq(packageVersions, LAMBDA v : Available(m, v))

(* Mutation of InstallTargets: the other OS version is not looked up.     *)
InstallTargets_Unchecked(bucket, current, next, packageVersion) ==
  LET secondary == SecondaryOS(current, next)
  IN  <<PrimaryOS(current, next)>> \o
        (IF secondary # NoVersion /\ ~ShouldSkip(secondary)
         THEN <<secondary>> ELSE <<>>)

(* The OS versions InstallAddon is asked to serve with packageVersion.    *)
InstallTargets(bucket, current, next, packageVersion) ==
  LET secondary == SecondaryOS(current, next)
      covered   == /\ secondary # NoVersion
                   /\ ~ShouldSkip(secondary)
                   /\ Available(bucket[secondary], packageVersion)
  IN  <<PrimaryOS(current, next)>> \o (IF covered THEN <<secondary>> ELSE <<>>)

NothingToDo    == [outcome |-> "nothing", osVersions |-> <<>>]
NoVersionError == [outcome |-> "error",   osVersions |-> <<>>]

(* PickVersion, every manifest it asks for being delivered.  (That a      *)
(* manifest cannot be had is the caller's action PickVersionFails in      *)
(* TorcxNode.)                                                            *)
PickVersion(bucket, current, next, packageVersions) ==
  LET primary == PrimaryOS(current, next)
      pick    == FirstAvailable(bucket[primary], packageVersions)
  IN  CASE ShouldSkip(primary)               -> NothingToDo
        [] ~ShouldSkip(primary) /\ pick = 0  -> NoVersionError
        [] ~ShouldSkip(primary) /\ pick # 0  ->
             [outcome    |-> "install",
              version    |-> packageVersions[pick],
              osVersions |-> InstallTargets(bucket, current, next,
                                            packageVersions[pick])]
=============================================================================
