------------------------ MODULE StrategyCheckProofs ------------------------
(***************************************************************************)
(* PickVersion is right for all OS versions, manifests and lists of        *)
(* preferences.                                                            *)
(***************************************************************************)
EXTENDS StrategyCheck, StrategyProofs

(* The entries of a list that are for one version.                        *)
OfVersion(entries, version) == {e \in ToSet(entries) : e.version = version}

(* They are entries of the list, and of that version.                     *)
LEMMA InOfVersion ==
  ASSUME NEW entries \in Seq(PackageVersion), NEW version
  PROVE  /\ \A j \in 1 .. Len(entries) :
              entries[j].version = version => entries[j] \in OfVersion(entries, version)
         /\ \A e \in OfVersion(entries, version) :
              e.version = version /\ \E j \in 1 .. Len(entries) : e = entries[j]
  BY DEF OfVersion, ToSet

(* A package of a manifest has a list of versions.                        *)
LEMMA VersionsOfPackage ==
  ASSUME NEW m \in Manifest, NEW i \in 1 .. Len(m)
  PROVE  m[i].versions \in Seq(PackageVersion)
<1>1. m[i] \in Package
  BY DEF Manifest
<1> QED
  BY <1>1 DEF Package

(* The entries of a version are in the first package of the name.         *)
LEMMA EntriesInFirst ==
  ASSUME NEW m \in Manifest, NEW name, NEW version,
         NEW i \in 1 .. Len(m), m[i].name = name,
         \A k \in 1 .. i - 1 : m[k].name # name
  PROVE  Entries(m, name, version) = OfVersion(m[i].versions, version)
<1> DEFINE First == {n \in DOMAIN m : /\ m[n].name = name
                                      /\ \A k \in 1 .. n - 1 : m[k].name # name}
<1>1. DOMAIN m = 1 .. Len(m) /\ Len(m) \in Nat
  BY DEF Manifest
<1>2. First = {i}
  <2>1. i \in First
    BY <1>1
  <2>2. ASSUME NEW n \in First
        PROVE  n = i
    <3>1. n \in 1 .. Len(m) /\ m[n].name = name
      BY <1>1
    <3>2. ~ (i \in 1 .. n - 1) /\ ~ (n \in 1 .. i - 1)
      BY <3>1
    <3> QED
      BY <1>1, <3>1, <3>2
  <2> QED
    BY <2>1, <2>2
<1>3. Entries(m, name, version) = UNION {OfVersion(m[n].versions, version) : n \in First}
  BY DEF Entries, OfVersion
<1> HIDE DEF First
<1> QED
  BY <1>2, <1>3

(* A manifest without docker has no entries for it.                       *)
LEMMA EntriesOfUnknown ==
  ASSUME NEW m \in Manifest, NEW name, NEW version,
         \A i \in 1 .. Len(m) : m[i].name # name
  PROVE  Entries(m, name, version) = {}
<1>1. DOMAIN m = 1 .. Len(m)
  BY DEF Manifest
<1> QED
  BY <1>1 DEF Entries

(* What LocationFor returns for an entry it takes is a location.          *)
LEMMA TakenIsLocation ==
  ASSUME NEW m \in Manifest, NEW name, NEW version,
         NEW i \in 1 .. Len(m), NEW j \in 1 .. Len(m[i].versions),
         TakenFrom(m[i].versions[j], m, name, version)
  PROVE  LocationFor(m, name, version) # NoLocation
<1> DEFINE entry == m[i].versions[j]
<1>1. entry.locations \in Seq(LocationKind) /\ entry.hash \in Hash
  <2>1. m[i].versions \in Seq(PackageVersion)
    BY VersionsOfPackage
  <2>2. entry \in PackageVersion
    BY <2>1
  <2> QED
    BY <2>2 DEF PackageVersion
<1>2. entry.locations # <<>>
  BY DEF TakenFrom
<1>3. BestLocation(entry.locations) \in LocationKind
  BY <1>1, <1>2, BestLocationInList
<1>4. LocationFor(m, name, version)
        = [kind |-> BestLocation(entry.locations), hash |-> entry.hash]
  BY DEF TakenFrom
<1>5. LocationFor(m, name, version) \in Location
  BY <1>1, <1>3, <1>4 DEF Location
<1> QED
  BY <1>5, NoLocationAssumption

(* The search of LocationFor and the search-free definition of what is    *)
(* offered agree: an entry without locations does not hide another.       *)
LEMMA AvailableIsOffered ==
  ASSUME NEW m \in Manifest, NEW version
  PROVE  Available(m, version) <=> Offered(m, version)
<1>1. CASE \A i \in 1 .. Len(m) : m[i].name # DockerName
  <2>1. LocationFor(m, DockerName, version) = NoLocation
    BY <1>1, LocationForUnknown, Zenon
  <2>2. Entries(m, DockerName, version) = {}
    BY <1>1, EntriesOfUnknown, Zenon
  <2> QED
    BY <2>1, <2>2 DEF Available, Offered
<1>2. ASSUME NEW i \in 1 .. Len(m), m[i].name = DockerName,
             \A k \in 1 .. i - 1 : m[k].name # DockerName
      PROVE  Available(m, version) <=> Offered(m, version)
  <2>1. Entries(m, DockerName, version) = OfVersion(m[i].versions, version)
    BY <1>2, EntriesInFirst
  <2>2. CASE /\ LocationFor(m, DockerName, version) = NoLocation
             /\ \A j \in 1 .. Len(m[i].versions) :
                  \/ m[i].versions[j].version # version
                  \/ m[i].versions[j].locations = <<>>
    <3>1. \A e \in Entries(m, DockerName, version) : e.locations = <<>>
      BY <2>1, <2>2, VersionsOfPackage, InOfVersion
    <3> QED
      BY <2>2, <3>1 DEF Available, Offered
  <2>3. ASSUME NEW j \in 1 .. Len(m[i].versions),
               TakenFrom(m[i].versions[j], m, DockerName, version)
        PROVE  Available(m, version) <=> Offered(m, version)
    <3>1. Available(m, version)
      BY <2>3, TakenIsLocation DEF Available
    <3>2. m[i].versions[j].version = version /\ m[i].versions[j].locations # <<>>
      BY <2>3 DEF TakenFrom
    <3>3. Offered(m, version)
      BY <2>1, <3>2, VersionsOfPackage, InOfVersion DEF Offered
    <3> QED
      BY <3>1, <3>3
  <2> QED
    BY <1>2, <2>2, <2>3, LocationForFirst
<1> QED
  BY <1>1, <1>2, FirstPackage

(* A location is one of an entry of that version, with the digest of the  *)
(* same entry, and in the vendor store if the entry has one there.        *)
LEMMA LocationOfEntry ==
  ASSUME NEW m \in Manifest, NEW version, Available(m, version)
  PROVE  LET loc == LocationFor(m, DockerName, version)
         IN  \E e \in Entries(m, DockerName, version) :
               /\ loc.hash = e.hash
               /\ loc.kind \in ToSet(e.locations)
               /\ "vendor" \in ToSet(e.locations) => loc.kind = "vendor"
<1> DEFINE loc == LocationFor(m, DockerName, version)
<1>1. PICK i \in 1 .. Len(m) : \E j \in 1 .. Len(m[i].versions) :
        LET entry == m[i].versions[j]
        IN  /\ m[i].name = DockerName
            /\ \A k \in 1 .. i - 1 : m[k].name # DockerName
            /\ entry.version = version
            /\ loc.hash = entry.hash
            /\ \E k \in 1 .. Len(entry.locations) :
                 loc.kind = entry.locations[k]
            /\ (\E k \in 1 .. Len(entry.locations) :
                  IsTorcxStore(entry.locations[k]))
               => IsTorcxStore(loc.kind)
  BY LocationForSound DEF Available
<1>2. PICK j \in 1 .. Len(m[i].versions) :
        LET entry == m[i].versions[j]
        IN  /\ m[i].name = DockerName
            /\ \A k \in 1 .. i - 1 : m[k].name # DockerName
            /\ entry.version = version
            /\ loc.hash = entry.hash
            /\ \E k \in 1 .. Len(entry.locations) :
                 loc.kind = entry.locations[k]
            /\ (\E k \in 1 .. Len(entry.locations) :
                  IsTorcxStore(entry.locations[k]))
               => IsTorcxStore(loc.kind)
  BY <1>1
<1> DEFINE e == m[i].versions[j]
<1>3. e \in Entries(m, DockerName, version)
  <2>1. m[i].name = DockerName /\ \A k \in 1 .. i - 1 : m[k].name # DockerName
    BY <1>2
  <2>2. Entries(m, DockerName, version) = OfVersion(m[i].versions, version)
    BY <2>1, EntriesInFirst
  <2> QED
    BY <1>2, <2>2, VersionsOfPackage, InOfVersion
<1>4. DOMAIN e.locations = 1 .. Len(e.locations)
  <2>1. m[i].versions \in Seq(PackageVersion)
    BY VersionsOfPackage
  <2>2. e \in PackageVersion
    BY <2>1
  <2>3. e.locations \in Seq(LocationKind)
    BY <2>2 DEF PackageVersion
  <2> QED
    BY <2>3
<1>5. loc.kind \in ToSet(e.locations)
  BY <1>2, <1>4 DEF ToSet
<1>6. "vendor" \in ToSet(e.locations) => loc.kind = "vendor"
  BY <1>2, <1>4 DEF ToSet, IsTorcxStore
<1> QED
  BY <1>2, <1>3, <1>5, <1>6
-----------------------------------------------------------------------------
(* A call of PickVersion with any of the inputs.                          *)
PickInv ==
  /\ bucket \in [OSVersion -> Manifest]
  /\ current \in OSVersion
  /\ next \in OSVersion \cup {NoVersion}
  /\ versions \in Seq(Ref)
  /\ \/ pick = [outcome |-> "pending", osVersions |-> <<>>]
     \/ DoesNothing(pick, bucket, current, next)
     \/ Refuses(pick, bucket, current, next, versions)
     \/ Picks(pick, bucket, current, next, versions)

(* So it is after the call, and before it nothing is picked.              *)
LEMMA PickIsInv == Spec => []PickInv
<1>1. Init => PickInv
  BY StrategyCheckAssumption DEF Init, PickInv
<1>2. PickInv /\ [Next]_vars => PickInv'
  <2> SUFFICES ASSUME PickInv, [Next]_vars
               PROVE  PickInv'
    OBVIOUS
  <2>1. CASE CallPickVersion
    <3>1. UNCHANGED <<bucket, current, next, versions>>
      BY <2>1 DEF CallPickVersion
    <3>2. versions \in Seq(Ref)
      BY DEF PickInv
    <3>3. pick' = PickVersion(bucket, current, next, versions)
      BY <2>1 DEF CallPickVersion
    <3>4. \/ DoesNothing(pick', bucket, current, next)
          \/ Refuses(pick', bucket, current, next, versions)
          \/ Picks(pick', bucket, current, next, versions)
      BY <3>2, <3>3, PickVersionEnds
    <3>5. (\/ DoesNothing(pick, bucket, current, next)
           \/ Refuses(pick, bucket, current, next, versions)
           \/ Picks(pick, bucket, current, next, versions))'
      BY <3>1, <3>4
    <3> QED
      BY <3>1, <3>5 DEF PickInv
  <2>2. CASE UNCHANGED vars
    BY <2>2 DEF vars, PickInv, DoesNothing, Refuses, Picks
  <2> QED
    BY <2>1, <2>2 DEF Next
<1> QED
  BY <1>1, <1>2, PTL DEF Spec
-----------------------------------------------------------------------------
(* What the inputs are, once PickVersion has picked.                      *)
LEMMA PickedInputs ==
  ASSUME PickInv
  PROVE  /\ PrimaryOS(current, next) = ComingOS
         /\ ComingOS \in OSVersion
         /\ \A o \in OSVersion : bucket[o] \in Manifest
         /\ \A o \in OSVersion : o \in Nat /\ o # NoVersion
         /\ MinimumRemoteDocker \in Nat
<1>1. \A o \in OSVersion : o \in Nat /\ o # NoVersion
  BY OSVersionAssumption DEF NoVersion
<1>2. PrimaryOS(current, next) = ComingOS /\ ComingOS \in OSVersion
  BY <1>1 DEF PickInv, PrimaryOS, ComingOS
<1> QED
  BY <1>1, <1>2, OSVersionAssumption DEF PickInv

(* The docker version Kubernetes prefers most among those that the coming *)
(* OS offers is picked; a refusal means that it offers none of them.      *)
THEOREM MostPreferredIsPicked == Spec => []PicksMostPreferred
<1>1. PickInv => PicksMostPreferred
  <2> SUFFICES ASSUME PickInv PROVE PicksMostPreferred
    OBVIOUS
  <2>1. DOMAIN versions = 1 .. Len(versions)
    BY DEF PickInv
  <2>2. \A v : Available(bucket[ComingOS], v) <=> Offered(bucket[ComingOS], v)
    BY PickedInputs, AvailableIsOffered
  <2>3. CASE DoesNothing(pick, bucket, current, next)
    BY <2>3, PickedInputs
    DEF DoesNothing, ShouldSkip, PicksMostPreferred
  <2>4. CASE Refuses(pick, bucket, current, next, versions)
    BY <2>1, <2>2, <2>4, PickedInputs
    DEF Refuses, Wanted, PicksMostPreferred
  <2>5. CASE Picks(pick, bucket, current, next, versions)
    BY <2>1, <2>2, <2>5, PickedInputs DEF Picks, PicksMostPreferred
  <2>6. CASE pick = [outcome |-> "pending", osVersions |-> <<>>]
    BY <2>6 DEF PicksMostPreferred
  <2> QED
    BY <2>3, <2>4, <2>5, <2>6 DEF PickInv
<1> QED
  BY <1>1, PickIsInv, PTL

(* The OS versions that are served are exactly those that can be.         *)
THEOREM ServableAreTargets == Spec => []TargetsAreServable
<1>1. PickInv => TargetsAreServable
  <2> SUFFICES ASSUME PickInv, pick.outcome = "install"
               PROVE  ToSet(pick.osVersions) = Servable(pick.version)
    BY DEF TargetsAreServable
  <2>1. Picks(pick, bucket, current, next, versions)
    BY DEF PickInv, DoesNothing, Refuses
  <2> DEFINE v == pick.version
             secondary == SecondaryOS(current, next)
  <2>2. \A o \in OSVersion : Available(bucket[o], v) <=> Offered(bucket[o], v)
    BY PickedInputs, AvailableIsOffered
  <2>3. \A o \in OSVersion : ~ ShouldSkip(o) <=> o >= MinimumRemoteDocker
    BY PickedInputs DEF ShouldSkip
  <2>4. ToSet(pick.osVersions) =
          {ComingOS} \cup {o \in {secondary} : /\ o # NoVersion
                                               /\ ~ ShouldSkip(o)
                                               /\ Available(bucket[o], v)}
    <3>1. pick.osVersions = InstallTargets(bucket, current, next, v)
      BY <2>1 DEF Picks
    <3> QED
      BY <3>1, PickedInputs, TargetsAre
  <2>5. ComingOS >= MinimumRemoteDocker /\ Offered(bucket[ComingOS], v)
    BY <2>1, <2>2, <2>3, PickedInputs DEF Picks
  <2>6. CASE next = NoVersion
    <3>1. secondary = NoVersion /\ ComingOS = current /\ current # NoVersion
      BY <2>6, PickedInputs DEF SecondaryOS, ComingOS, PickInv
    <3>2. ToSet(pick.osVersions) = {current}
      BY <2>4, <3>1
    <3>3. Servable(v) = {current}
      BY <2>5, <2>6, <3>1 DEF Servable
    <3> QED
      BY <3>2, <3>3
  <2>7. CASE next # NoVersion
    <3>1. /\ secondary = current /\ ComingOS = next
          /\ current \in OSVersion /\ current # NoVersion
      BY <2>7, PickedInputs DEF SecondaryOS, ComingOS, PickInv
    <3>2. ToSet(pick.osVersions) =
            {next} \cup {o \in {current} : /\ ~ ShouldSkip(o)
                                           /\ Available(bucket[o], v)}
      BY <2>4, <3>1
    <3>3. Servable(v) =
            {next} \cup {o \in {current} : /\ o >= MinimumRemoteDocker
                                           /\ Offered(bucket[o], v)}
      <4> HIDE DEF v
      <4> QED
        BY <2>5, <2>7, <3>1 DEF Servable
    <3> QED
      BY <2>2, <2>3, <3>1, <3>2, <3>3
  <2> QED
    BY <2>6, <2>7
<1> QED
  BY <1>1, PickIsInv, PTL

(* Nothing is downloaded that ships with the OS it is for.                *)
THEOREM ShippedIsNotDownloaded == Spec => []NoNeedlessDownload
<1>1. PickInv => NoNeedlessDownload
  <2> SUFFICES ASSUME PickInv,
                      NEW o \in ToSet(pick.osVersions)
               PROVE  LET loc == LocationFor(bucket[o], DockerName, pick.version)
                      IN  \E e \in Entries(bucket[o], DockerName, pick.version) :
                            /\ loc.hash = e.hash
                            /\ loc.kind \in ToSet(e.locations)
                            /\ "vendor" \in ToSet(e.locations)
                                 => loc.kind = "vendor"
    BY DEF NoNeedlessDownload
  <2>1. pick.osVersions # <<>>
    <3>1. ToSet(<<>>) = {}
      BY DEF ToSet
    <3> QED
      BY <3>1
  <2>2. Picks(pick, bucket, current, next, versions)
    BY <2>1 DEF PickInv, DoesNothing, Refuses
  <2>3. o \in {ComingOS} \cup
          {s \in {SecondaryOS(current, next)} :
             /\ s # NoVersion
             /\ ~ ShouldSkip(s)
             /\ Available(bucket[s], pick.version)}
    BY <2>2, PickedInputs, TargetsAre DEF Picks
  <2>4. o \in OSVersion /\ Available(bucket[o], pick.version)
    BY <2>2, <2>3, PickedInputs DEF Picks, SecondaryOS, PickInv
  <2> QED
    BY <2>4, PickedInputs, LocationOfEntry
<1> QED
  BY <1>1, PickIsInv, PTL
=============================================================================
