--------------------------- MODULE StrategyProofs ---------------------------
(***************************************************************************)
(* What LocationFor and PickVersion return, for all manifests, lists of    *)
(* preferences and OS versions.                                            *)
(***************************************************************************)
EXTENDS Strategy, WellFoundedInduction, TLAPS

(* A non-empty set of naturals has a smallest element, and Min finds it.  *)
LEMMA MinInSet ==
  ASSUME NEW S \in SUBSET Nat, S # {}
  PROVE  Min(S) \in S /\ \A y \in S : Min(S) <= y
<1> DEFINE R == {ss \in Nat \X Nat : ss[1] < ss[2]}
<1>1. IsWellFoundedOn(R, Nat)
  BY NatLessThanWellFounded DEF OpToRel
<1>2. PICK x \in S : \A y \in S : ~ (<<y, x>> \in R)
  <2> HIDE DEF R
  <2> QED
    BY <1>1, WFMin
<1>3. ASSUME NEW y \in S
      PROVE  x <= y
  <2>1. x \in Nat /\ y \in Nat
    OBVIOUS
  <2>2. y < x => <<y, x>> \in R
    BY <2>1
  <2>3. ~ (y < x)
    BY <1>2, <2>2
  <2> QED
    BY <2>1, <2>3
<1> QED
  BY <1>3 DEF Min

(* A location that is chosen from a list is one of the list.              *)
LEMMA BestLocationInList ==
  ASSUME NEW locations \in Seq(LocationKind), locations # <<>>
  PROVE  /\ BestLocation(locations) \in LocationKind
         /\ \E i \in 1 .. Len(locations) : BestLocation(locations) = locations[i]
<1> DEFINE I == {i \in 1 .. Len(locations) : IsTorcxStore(locations[i])}
<1>1. Len(locations) \in Nat /\ Len(locations) \in 1 .. Len(locations)
  OBVIOUS
<1>2. I # {} => Min(I) \in I
  <2>1. I \in SUBSET Nat
    BY <1>1
  <2> HIDE DEF I
  <2> QED
    BY <2>1, MinInSet
<1>3. \E i \in 1 .. Len(locations) : BestLocation(locations) = locations[i]
  <2>1. CASE I # {}
    <3>1. SelectInSeq(locations, IsTorcxStore) = Min(I)
      BY <2>1 DEF SelectInSeq
    <3>2. Min(I) \in 1 .. Len(locations) /\ Min(I) # 0
      BY <1>2, <2>1
    <3> QED
      BY <3>1, <3>2 DEF BestLocation
  <2>2. CASE I = {}
    <3>1. SelectInSeq(locations, IsTorcxStore) = 0
      BY <2>2 DEF SelectInSeq
    <3> QED
      BY <3>1, <1>1 DEF BestLocation
  <2> QED
    BY <2>1, <2>2
<1> QED
  BY <1>3

(* BestLocation looks for the vendor store: if any location of the list   *)
(* is in it, the chosen one is.                                           *)
LEMMA BestLocationPrefersVendor ==
  ASSUME NEW locations \in Seq(LocationKind),
         NEW i \in 1 .. Len(locations), IsTorcxStore(locations[i])
  PROVE  IsTorcxStore(BestLocation(locations))
<1> DEFINE I == {j \in 1 .. Len(locations) : IsTorcxStore(locations[j])}
<1>1. I # {} /\ I \in SUBSET Nat
  OBVIOUS
<1>2. Min(I) \in I
  <2> HIDE DEF I
  <2> QED
    BY <1>1, MinInSet
<1>3. SelectInSeq(locations, IsTorcxStore) = Min(I)
  BY <1>1 DEF SelectInSeq
<1>4. Min(I) # 0
  BY <1>2
<1> QED
  BY <1>2, <1>3, <1>4 DEF BestLocation

(* What LocationFor returns when an entry is the one it takes.            *)
TakenFrom(entry, m, name, version) ==
  /\ entry.version = version
  /\ entry.locations # <<>>
  /\ LocationFor(m, name, version) =
       [kind |-> BestLocation(entry.locations), hash |-> entry.hash]

(* LocationFor looks at the first package of that name only: if an entry  *)
(* of it for that version has locations, the first such entry is taken,   *)
(* and nothing is returned otherwise.                                     *)
LEMMA LocationForFirst ==
  ASSUME NEW m \in Manifest, NEW name, NEW version,
         NEW i \in 1 .. Len(m), m[i].name = name,
         \A k \in 1 .. i - 1 : m[k].name # name
  PROVE  \/ /\ LocationFor(m, name, version) = NoLocation
            /\ \A j \in 1 .. Len(m[i].versions) :
                 \/ m[i].versions[j].version # version
                 \/ m[i].versions[j].locations = <<>>
         \/ \E j \in 1 .. Len(m[i].versions) :
              TakenFrom(m[i].versions[j], m, name, version)
<1> DEFINE I == {k \in 1 .. Len(m) : m[k].name = name}
           pkg == SelectInSeq(m, LAMBDA p : p.name = name)
           J == {j \in 1 .. Len(m[pkg].versions) :
                   /\ m[pkg].versions[j].version = version
                   /\ m[pkg].versions[j].locations # <<>>}
           entry == SelectInSeq(m[pkg].versions,
                      LAMBDA v : v.version = version /\ v.locations # <<>>)
           locs == m[pkg].versions[entry].locations
<1>1. /\ pkg = IF I # {} THEN Min(I) ELSE 0
      /\ entry = IF J # {} THEN Min(J) ELSE 0
  BY DEF SelectInSeq
<1>2. LocationFor(m, name, version) =
        IF pkg = 0 \/ entry = 0
        THEN NoLocation
        ELSE [kind |-> BestLocation(locs), hash |-> m[pkg].versions[entry].hash]
  BY DEF LocationFor
<1> HIDE DEF pkg, entry
<1>3. m \in Seq(Package) /\ Len(m) \in Nat
  BY DEF Manifest
<1>4. pkg = i
  <2>1. i \in I /\ I \in SUBSET Nat
    BY <1>3
  <2>2. pkg \in I /\ pkg <= i
    <3> HIDE DEF I
    <3> QED
      BY <1>1, <2>1, MinInSet
  <2>3. pkg \in 1 .. Len(m) /\ m[pkg].name = name
    BY <2>2
  <2>4. ~ (pkg \in 1 .. i - 1)
    BY <2>3
  <2> QED
    BY <1>3, <2>2, <2>3, <2>4
<1>5. m[i].versions \in Seq(PackageVersion)
  <2>1. m[i] \in Package
    BY <1>3
  <2> QED
    BY <2>1 DEF Package
<1>6. CASE J = {}
  <2>1. LocationFor(m, name, version) = NoLocation
    <3> HIDE DEF J
    <3> QED
      BY <1>1, <1>2, <1>6
  <2> QED
    BY <2>1, <1>4, <1>6
<1>7. CASE J # {}
  <2>1. J \in SUBSET Nat
    BY <1>4, <1>5, Len(m[i].versions) \in Nat
  <2>2. entry \in J
    <3> HIDE DEF J
    <3> QED
      BY <1>1, <1>7, <2>1, MinInSet
  <2>3. /\ entry \in 1 .. Len(m[i].versions)
        /\ m[i].versions[entry].version = version
        /\ m[i].versions[entry].locations # <<>>
    BY <1>4, <2>2
  <2>4. LocationFor(m, name, version) =
          [kind |-> BestLocation(locs), hash |-> m[pkg].versions[entry].hash]
    BY <1>2, <1>4, <2>3
  <2>5. TakenFrom(m[i].versions[entry], m, name, version)
    BY <1>4, <2>3, <2>4 DEF TakenFrom
  <2> QED
    BY <2>3, <2>5
<1> QED
  BY <1>6, <1>7

(* Of several packages with a name, one is the first.                     *)
LEMMA FirstPackage ==
  ASSUME NEW m \in Manifest, NEW name
  PROVE  \/ \A i \in 1 .. Len(m) : m[i].name # name
         \/ \E i \in 1 .. Len(m) :
              m[i].name = name /\ \A k \in 1 .. i - 1 : m[k].name # name
<1> DEFINE I == {i \in 1 .. Len(m) : m[i].name = name}
<1>1. I \in SUBSET Nat /\ Len(m) \in Nat
  BY DEF Manifest
<1>2. CASE I = {}
  BY <1>2
<1>3. CASE I # {}
  <2> DEFINE i == Min(I)
  <2>1. i \in I /\ \A k \in I : i <= k
    <3> HIDE DEF I
    <3> QED
      BY <1>1, <1>3, MinInSet
  <2> HIDE DEF i
  <2>2. i \in 1 .. Len(m) /\ m[i].name = name
    BY <2>1
  <2>3. ASSUME NEW k \in 1 .. i - 1
        PROVE  m[k].name # name
    <3>1. k \in 1 .. Len(m) /\ ~ (i <= k)
      BY <1>1, <2>2
    <3> QED
      BY <2>1, <3>1
  <2> QED
    BY <2>2, <2>3
<1> QED
  BY <1>2, <1>3

(* A manifest without a package of that name has no location for it.      *)
LEMMA LocationForUnknown ==
  ASSUME NEW m \in Manifest, NEW name, NEW version,
         \A i \in 1 .. Len(m) : m[i].name # name
  PROVE  LocationFor(m, name, version) = NoLocation
<1>1. SelectInSeq(m, LAMBDA p : p.name = name) = 0
  BY DEF SelectInSeq
<1> QED
  BY <1>1 DEF LocationFor

(* A location that LocationFor returns is a location of an entry for that *)
(* version of the first package of that name, with the hash of the same   *)
(* entry, and it is in the vendor store if any location of the entry is.  *)
THEOREM LocationForSound ==
  ASSUME NEW m \in Manifest, NEW name, NEW version,
         LocationFor(m, name, version) # NoLocation
  PROVE  LET loc == LocationFor(m, name, version)
         IN  /\ loc \in Location
             /\ \E i \in 1 .. Len(m) : \E j \in 1 .. Len(m[i].versions) :
                  LET entry == m[i].versions[j]
                  IN  /\ m[i].name = name
                      /\ \A k \in 1 .. i - 1 : m[k].name # name
                      /\ entry.version = version
                      /\ loc.hash = entry.hash
                      /\ \E k \in 1 .. Len(entry.locations) :
                           loc.kind = entry.locations[k]
                      /\ (\E k \in 1 .. Len(entry.locations) :
                            IsTorcxStore(entry.locations[k]))
                         => IsTorcxStore(loc.kind)
<1>1. PICK i \in 1 .. Len(m) :
        m[i].name = name /\ \A k \in 1 .. i - 1 : m[k].name # name
  <2>1. ~ \A i \in 1 .. Len(m) : m[i].name # name
    BY LocationForUnknown, Zenon
  <2> QED
    BY <2>1, FirstPackage, Zenon
<1>2. PICK j \in 1 .. Len(m[i].versions) :
        /\ m[i].versions[j].version = version
        /\ m[i].versions[j].locations # <<>>
        /\ LocationFor(m, name, version) =
             [kind |-> BestLocation(m[i].versions[j].locations),
              hash |-> m[i].versions[j].hash]
  <2>1. \E j \in 1 .. Len(m[i].versions) : TakenFrom(m[i].versions[j], m, name, version)
    BY <1>1, LocationForFirst
  <2> QED
    BY <2>1 DEF TakenFrom
<1> DEFINE locs == m[i].versions[j].locations
<1>3. locs \in Seq(LocationKind) /\ m[i].versions[j].hash \in Hash
  <2>1. m[i] \in Package
    BY DEF Manifest
  <2>2. m[i].versions \in Seq(PackageVersion)
    BY <2>1 DEF Package
  <2>3. m[i].versions[j] \in PackageVersion
    BY <2>2
  <2> QED
    BY <2>3 DEF PackageVersion
<1>4. /\ BestLocation(locs) \in LocationKind
      /\ \E k \in 1 .. Len(locs) : BestLocation(locs) = locs[k]
  BY <1>2, <1>3, BestLocationInList
<1>5. (\E k \in 1 .. Len(locs) : IsTorcxStore(locs[k]))
        => IsTorcxStore(BestLocation(locs))
  BY <1>3, BestLocationPrefersVendor
<1>6. LocationFor(m, name, version) \in Location
  BY <1>2, <1>3, <1>4 DEF Location
<1> DEFINE loc   == LocationFor(m, name, version)
           entry == m[i].versions[j]
<1>7. loc.kind = BestLocation(locs) /\ loc.hash = entry.hash
  BY <1>2
<1>8. \E k \in 1 .. Len(entry.locations) : loc.kind = entry.locations[k]
  BY <1>4, <1>7
<1>9. (\E k \in 1 .. Len(entry.locations) : IsTorcxStore(entry.locations[k]))
        => IsTorcxStore(loc.kind)
  BY <1>5, <1>7
<1>10. /\ m[i].name = name /\ \A k \in 1 .. i - 1 : m[k].name # name
       /\ entry.version = version /\ loc.hash = entry.hash
  BY <1>1, <1>2, <1>7
<1> QED
  BY <1>6, <1>8, <1>9, <1>10, Zenon
-----------------------------------------------------------------------------
(* FirstAvailable returns the first index that will do, or 0 for none.    *)
LEMMA FirstAvailableIsFirst ==
  ASSUME NEW m, NEW prefs \in Seq(Ref)
  PROVE  \/ /\ FirstAvailable(m, prefs) = 0
            /\ \A i \in 1 .. Len(prefs) : ~ Available(m, prefs[i])
         \/ /\ FirstAvailable(m, prefs) \in 1 .. Len(prefs)
            /\ Available(m, prefs[FirstAvailable(m, prefs)])
            /\ \A i \in 1 .. Len(prefs) :
                 Available(m, prefs[i]) => FirstAvailable(m, prefs) <= i
<1> DEFINE I == {i \in 1 .. Len(prefs) : Available(m, prefs[i])}
<1>1. FirstAvailable(m, prefs) = IF I # {} THEN Min(I) ELSE 0
  BY DEF FirstAvailable, SelectInSeq
<1>2. I \in SUBSET Nat
  OBVIOUS
<1>3. CASE I = {}
  <2>1. FirstAvailable(m, prefs) = 0
    <3> HIDE DEF I
    <3> QED
      BY <1>1, <1>3
  <2> QED
    BY <1>3, <2>1
<1>4. CASE I # {}
  <2>1. /\ FirstAvailable(m, prefs) \in I
        /\ \A i \in I : FirstAvailable(m, prefs) <= i
    <3> HIDE DEF I
    <3> QED
      BY <1>1, <1>2, <1>4, MinInSet
  <2> QED
    BY <2>1
<1> QED
  BY <1>3, <1>4

(* The three ways PickVersion can end.                                    *)
DoesNothing(p, b, c, n) ==
  /\ p.outcome = "nothing" /\ p.osVersions = <<>>
  /\ ShouldSkip(PrimaryOS(c, n))

Refuses(p, b, c, n, prefs) ==
  /\ p.outcome = "error" /\ p.osVersions = <<>>
  /\ \A i \in 1 .. Len(prefs) : ~ Available(b[PrimaryOS(c, n)], prefs[i])

Picks(p, b, c, n, prefs) ==
  /\ p.outcome = "install"
  /\ \E i \in 1 .. Len(prefs) : prefs[i] = p.version
  /\ ~ ShouldSkip(PrimaryOS(c, n))
  /\ Available(b[PrimaryOS(c, n)], p.version)
  /\ \A i \in 1 .. Len(prefs) :
       \/ ~ Available(b[PrimaryOS(c, n)], prefs[i])
       \/ \E j \in 1 .. i : prefs[j] = p.version
  /\ p.osVersions = InstallTargets(b, c, n, p.version)

(* PickVersion ends in one of them, whatever it is called with.           *)
LEMMA PickVersionEnds ==
  ASSUME NEW b, NEW c, NEW n, NEW prefs \in Seq(Ref)
  PROVE  LET p == PickVersion(b, c, n, prefs)
         IN  DoesNothing(p, b, c, n) \/ Refuses(p, b, c, n, prefs) \/ Picks(p, b, c, n, prefs)
<1> DEFINE p     == PickVersion(b, c, n, prefs)
           m     == b[PrimaryOS(c, n)]
           first == FirstAvailable(m, prefs)
<1>1. \/ /\ first = 0
         /\ \A i \in 1 .. Len(prefs) : ~ Available(m, prefs[i])
      \/ /\ first \in 1 .. Len(prefs)
         /\ Available(m, prefs[first])
         /\ \A i \in 1 .. Len(prefs) : Available(m, prefs[i]) => first <= i
  BY FirstAvailableIsFirst
<1>2. p = CASE ShouldSkip(PrimaryOS(c, n)) -> NothingToDo
            [] ~ShouldSkip(PrimaryOS(c, n)) /\ first = 0 -> NoVersionError
            [] ~ShouldSkip(PrimaryOS(c, n)) /\ first # 0 ->
                 [outcome    |-> "install",
                  version    |-> prefs[first],
                  osVersions |-> InstallTargets(b, c, n, prefs[first])]
  BY DEF PickVersion
<1>3. CASE ShouldSkip(PrimaryOS(c, n))
  <2>1. p = NothingToDo
    BY <1>2, <1>3
  <2> QED
    BY <1>3, <2>1 DEF DoesNothing, NothingToDo
<1>4. CASE ~ ShouldSkip(PrimaryOS(c, n)) /\ first = 0
  <2>1. p = NoVersionError
    BY <1>2, <1>4
  <2>2. \A i \in 1 .. Len(prefs) : ~ Available(m, prefs[i])
    <3> HIDE DEF first, m
    <3> QED
      BY <1>1, <1>4
  <2> QED
    BY <2>1, <2>2 DEF Refuses, NoVersionError
<1>5. CASE ~ ShouldSkip(PrimaryOS(c, n)) /\ first # 0
  <2>1. p = [outcome    |-> "install",
             version    |-> prefs[first],
             osVersions |-> InstallTargets(b, c, n, prefs[first])]
    <3> HIDE DEF first, p
    <3> QED
      BY <1>2, <1>5
  <2>2. /\ p.outcome = "install"
        /\ p.version = prefs[first]
        /\ p.osVersions = InstallTargets(b, c, n, p.version)
    <3> HIDE DEF first, p
    <3> QED
      BY <2>1
  <2>3. /\ Available(m, prefs[first])
        /\ \A i \in 1 .. Len(prefs) :
             \/ ~ Available(m, prefs[i])
             \/ \E j \in 1 .. i : prefs[j] = p.version
    <3>1. /\ first \in 1 .. Len(prefs)
          /\ Available(m, prefs[first])
          /\ \A i \in 1 .. Len(prefs) : Available(m, prefs[i]) => first <= i
      <4> HIDE DEF first, m
      <4> QED
        BY <1>1, <1>5
    <3>2. Len(prefs) \in Nat
      OBVIOUS
    <3> HIDE DEF first, m, p
    <3>3. ASSUME NEW i \in 1 .. Len(prefs), Available(m, prefs[i])
          PROVE  \E j \in 1 .. i : prefs[j] = p.version
      <4>1. first \in 1 .. i
        BY <3>1, <3>2, <3>3
      <4> QED
        BY <2>2, <4>1
    <3> QED
      BY <3>1, <3>3
  <2>4. Picks(p, b, c, n, prefs)
    <3>1. Available(m, p.version)
      BY <2>2, <2>3
    <3>2. \E i \in 1 .. Len(prefs) : prefs[i] = p.version
      <4> HIDE DEF first, m
      <4>1. first \in 1 .. Len(prefs)
        BY <1>1, <1>5
      <4> QED
        BY <2>2, <4>1
    <3> HIDE DEF p
    <3> QED
      BY <1>5, <2>2, <2>3, <3>1, <3>2 DEF Picks
  <2> QED
    BY <2>4
<1> QED
  BY <1>3, <1>4, <1>5

(* A list of two has its two elements.                                    *)
LEMMA ToSetOfTwo ==
  ASSUME NEW x, NEW y
  PROVE  ToSet(<<x>> \o <<y>>) = {x, y}
<1> DEFINE s == <<x>> \o <<y>>
<1>1. <<x>> \in Seq({x, y}) /\ <<y>> \in Seq({x, y})
  OBVIOUS
<1>2. s \in Seq({x, y}) /\ Len(s) = 2 /\ s[1] = x /\ s[2] = y
  BY <1>1
<1>3. DOMAIN s = {1, 2}
  BY <1>2
<1> HIDE DEF s
<1> QED
  BY <1>2, <1>3 DEF ToSet

(* The list of OS versions to serve has the coming one and, if it offers  *)
(* the picked version, the running one.                                   *)
LEMMA TargetsAre ==
  ASSUME NEW b, NEW c, NEW n, NEW version
  PROVE  LET secondary == SecondaryOS(c, n)
         IN  ToSet(InstallTargets(b, c, n, version)) =
               {PrimaryOS(c, n)} \cup
                 {o \in {secondary} : /\ o # NoVersion
                                      /\ ~ ShouldSkip(o)
                                      /\ Available(b[o], version)}
<1> DEFINE secondary == SecondaryOS(c, n)
           covered   == /\ secondary # NoVersion
                        /\ ~ ShouldSkip(secondary)
                        /\ Available(b[secondary], version)
<1>1. CASE covered
  <2>1. InstallTargets(b, c, n, version) = <<PrimaryOS(c, n)>> \o <<secondary>>
    BY <1>1 DEF InstallTargets
  <2>2. ToSet(<<PrimaryOS(c, n)>> \o <<secondary>>) = {PrimaryOS(c, n), secondary}
    BY ToSetOfTwo
  <2> QED
    BY <1>1, <2>1, <2>2
<1>2. CASE ~ covered
  <2>1. InstallTargets(b, c, n, version) = <<PrimaryOS(c, n)>>
    <3>1. InstallTargets(b, c, n, version) = <<PrimaryOS(c, n)>> \o <<>>
      BY <1>2 DEF InstallTargets
    <3> QED
      BY <3>1
  <2>2. ToSet(<<PrimaryOS(c, n)>>) = {PrimaryOS(c, n)}
    BY DEF ToSet
  <2> QED
    BY <1>2, <2>1, <2>2
<1> QED
  BY <1>1, <1>2
=============================================================================
