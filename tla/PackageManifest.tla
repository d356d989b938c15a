-------------------------- MODULE PackageManifest --------------------------
(***************************************************************************)
(* The torcx package manifest of one OS version and the choice of a        *)
(* location in it (internal/package_manifest.go).                          *)
(*                                                                         *)
(* A manifest is the list of packages the release bucket publishes for an  *)
(* OS version.  A package has a list of versions (references), a version   *)
(* has the hash of its image and the places the image can be had from.     *)
(* Nothing in the code sorts these lists or rejects repeated entries, so   *)
(* they are sequences here and their order counts.                         *)
(***************************************************************************)
EXTENDS Naturals, Sequences, SequencesExt

CONSTANTS Name,        \* package names, "docker" among them
          Ref,         \* package versions ("references")
          Hash,        \* image digests; a digest also stands for the one
                       \* image content that has it
          NoLocation   \* stands for the nil *Location

(***************************************************************************)
(* A location is told apart by its Path: under /usr/share/torcx/store/     *)
(* ("vendor"), elsewhere on disk ("disk"), or empty with a URL ("url").    *)
(***************************************************************************)
LocationKind == {"vendor", "disk", "url"}

PackageVersion == [version : Ref, hash : Hash, locations : Seq(LocationKind)]
Package        == [name : Name, versions : Seq(PackageVersion)]
Manifest       == Seq(Package)

(* A chosen location together with the hash its Version backref gives.    *)
Location == [kind : LocationKind, hash : Hash]

ASSUME NoLocationAssumption == NoLocation \notin Location

(* Location.isTorcxStore: the image ships with the OS itself.             *)
IsTorcxStore(kind) == kind = "vendor"

(* loc.Path != "": the condition InstallAddon skips a download on.        *)
HasPath(kind) == kind \in {"vendor", "disk"}

(* Mutation of BestLocation: stops at the first location it meets.        *)
BestLocation_First(locations) == locations[1]

(* The first location in the vendor store, otherwise the last one seen.   *)
BestLocation(locations) ==
  LET vendor == SelectInSeq(locations, IsTorcxStore)
  IN  locations[IF vendor # 0 THEN vendor ELSE Len(locations)]

(* Mutation of LocationFor: gives up at the first entry of that version,  *)
(* even if it has no location.                                            *)
LocationFor_FirstEntry(m, name, version) ==
  LET pkg   == SelectInSeq(m, LAMBDA p : p.name = name)
      entry == SelectInSeq(m[pkg].versions, LAMBDA v : v.version = version)
  IN  IF pkg = 0 \/ entry = 0 \/ m[pkg].versions[entry].locations = <<>>
      THEN NoLocation
      ELSE [kind |-> BestLocation(m[pkg].versions[entry].locations),
            hash |-> m[pkg].versions[entry].hash]

(* LocationFor: the first package of that name, in it the first entry of  *)
(* that version which has a location at all.                              *)
LocationFor(m, name, version) ==
  LET pkg   == SelectInSeq(m, LAMBDA p : p.name = name)
      entry == SelectInSeq(m[pkg].versions,
                  LAMBDA v : v.version = version /\ v.locations # <<>>)
  IN  IF pkg = 0 \/ entry = 0
      THEN NoLocation
      ELSE [kind |-> BestLocation(m[pkg].versions[entry].locations),
            hash |-> m[pkg].versions[entry].hash]

(* Mutation of ValidateHash: whatever was downloaded is good.             *)
ValidateHash_Any(content, hash) == TRUE

(* ValidateHash: a content is accepted exactly when it has the digest.    *)
ValidateHash(content, hash) == content = hash
=============================================================================
