---------------------------- MODULE TorcxInstall ----------------------------
(***************************************************************************)
(* InstallAddon: put the docker image for some OS versions in the torcx    *)
(* store and select it for the next boot (internal/torcx.go, fetch.go).    *)
(*                                                                         *)
(* One action is one effect on something that outlives the process: a file *)
(* of the store (/var/lib/torcx/store/<os>/docker:<ref>.torcx.tgz), a      *)
(* torcx profile, the next-profile selection.  Between two of them the     *)
(* process can fail or be killed, and a later call starts from what was    *)
(* left behind.                                                            *)
(***************************************************************************)
EXTENDS Strategy, FiniteSets

CONSTANTS
  Manifests,       \* the manifests a release bucket may hold
  Profile,         \* torcx profile names other than "vendor"
  ProfileName,     \* Conf.ProfileName, "tectonic"
  InitialNext,     \* the next-profile selections a machine may start with
  Absent,          \* no such file in the store
  Damaged,         \* a file whose content has no published digest
  NoImage,         \* a profile that does not name a docker image
  NoProfile,       \* no next profile selected
  Faults,          \* the kinds of fault that may occur, see below
  MaxFaults,       \* how many of them
  MaxTargets       \* longest list of OS versions in a call

Vendor == "vendor"   \* the profile shipped with the OS

(***************************************************************************)
(* The kinds of fault (modules that extend this one add theirs):           *)
(*                                                                         *)
(* "list"      torcx image list fails           "manifest" cannot be had   *)
(* "walk"      the search of a store directory ends early; not counted     *)
(* "download"  cannot be downloaded, or arrives damaged                    *)
(* "mkdir"     the image or the directory cannot be opened or made         *)
(* "openDst"   the store file cannot be opened  "write"    cannot be written*)
(* "torcx"     a torcx profile command fails                               *)
(* "crash"     process killed outside io.Copy   "crashCopy" ... within it  *)
(***************************************************************************)
ASSUME InstallAssumption ==
  /\ Manifests \subseteq Manifest
  /\ {Absent, Damaged} \cap Hash = {} /\ Absent # Damaged
  /\ NoImage \notin Ref
  /\ ProfileName \in Profile /\ Vendor \notin Profile
  /\ NoProfile \notin Profile \cup {Vendor}
  /\ InitialNext \subseteq Profile \cup {Vendor, NoProfile}
  /\ MaxFaults \in Nat /\ MaxTargets \in Nat

VARIABLES
  bucket,          \* the manifest published for each OS version; constant
  store,           \* store[o][r]: the file of version r in o's store
  profiles,        \* the torcx profiles that exist
  image,           \* image[p]: the docker version profile p names
  nextProfile,     \* the profile torcx applies on the next boot
  pc,              \* where InstallAddon is
  ref,             \* its argument "reference"
  osVersions,      \* its argument "osVersions"
  pos,             \* index of the loop's osVersion
  src,             \* content of the file at "path" (fetched or found)
  profile,         \* the profile UseAddon determined
  cache,           \* OS versions in App.packageManifestCache
  dockerRequiresReboot,  \* App.DockerRequiresReboot
  faults           \* faults so far, at most MaxFaults

storeVars  == <<store>>
torcxVars  == <<profiles, image, nextProfile>>
callVars   == <<ref, osVersions>>
localVars  == <<src, profile, pos>>
appVars    == <<cache, dockerRequiresReboot>>
vars == <<bucket, storeVars, torcxVars, pc, callVars, localVars, appVars,
          faults>>

-----------------------------------------------------------------------------
(* What is on disk, and what the manifests say should be.                 *)

Content == Hash \cup {Absent, Damaged}

osVersion == osVersions[pos]

(* LocationFor, for every manifest; a constant, which TLC evaluates once. *)
DockerLocation ==
  [m \in Manifests |-> [r \in Ref |-> LocationFor(m, DockerName, r)]]

LocFor(o, r) == DockerLocation[bucket[o]][r]

(* Mutation of AddonInStore: any docker version in the store will do.     *)
AddonInStore_AnyReference(o, r) == \E v \in Ref : store[o][v] # Absent

(* AddonInStore: torcx lists store files by name, contents are not read.  *)
AddonInStore(o, r) == store[o][r] # Absent

(* tryFindExisting: the contents of store files that have that name and   *)
(* digest.  A copy it finds under /usr/share instead has the content a    *)
(* successful download would have, so that case is the action Download.   *)
ExistingCopies(r, hash) ==
  {content \in {store[o][r] : o \in OSVersion} \ {Absent} :
     ValidateHash(content, hash)}

(* Mutation of AfterOpen: the file is opened with O_TRUNC.                *)
AfterOpen_Truncate(content) == Damaged

(* OpenFile(O_WRONLY|O_CREATE): an empty file if there was none; without  *)
(* O_TRUNC an existing file keeps its content.                            *)
AfterOpen(content) == IF content = Absent THEN Damaged ELSE content

(* io.Copy over an open store file.  A damaged file is a prefix that an   *)
(* earlier copy left, so copying repairs it; another image is overwritten *)
(* in part.                                                               *)
AfterCopy(content, image_) ==
  IF content \in {Damaged, image_} THEN image_ ELSE Damaged

Fault(kind) ==
  /\ kind \in Faults
  /\ faults < MaxFaults
  /\ faults' = faults + 1

NoFault == UNCHANGED faults
-----------------------------------------------------------------------------
Init ==
  /\ bucket \in [OSVersion -> Manifests]
  /\ store = [o \in OSVersion |-> [r \in Ref |-> Absent]]
  /\ nextProfile \in InitialNext
  /\ profiles = {Vendor} \cup ({nextProfile} \ {NoProfile})
  /\ image = [p \in Profile \cup {Vendor} |-> NoImage]
  /\ pc = "idle"
  /\ ref \in Ref
  /\ osVersions = <<>>
  /\ pos = 1
  /\ src = Absent
  /\ profile = NoProfile
  /\ cache = {}
  /\ dockerRequiresReboot = FALSE
  /\ faults = 0

(* InstallAddon("docker", r, os) is called.                               *)
Call(r, os) ==
  /\ pc = "idle"
  /\ pc' = "loop"
  /\ ref' = r
  /\ osVersions' = os
  /\ UNCHANGED <<bucket, storeVars, torcxVars, localVars, faults>>

(* InstallAddon returns an error.                                         *)
ReturnError ==
  /\ pc' = "failed"
  /\ UNCHANGED <<bucket, torcxVars, callVars, localVars>>

-----------------------------------------------------------------------------
(* The loop over osVersions, one OS version after the other.              *)

InLoop == pc = "loop" /\ pos <= Len(osVersions)

(* Mutation of Advance: past an OS version.                               *)
Advance_Twice == pos' = pos + 2

(* The loop goes on with the next OS version.                             *)
Advance == pos' = pos + 1

(* AddonInStore returned false: there is no such file or, the error of    *)
(* torcxCmd being dropped, the list could not be had.                     *)
NotListed ==
  \/ ~AddonInStore(osVersion, ref) /\ NoFault
  \/ AddonInStore(osVersion, ref) /\ Fault("list")

SkipInstalled ==
  /\ InLoop
  /\ AddonInStore(osVersion, ref)
  /\ Advance
  /\ UNCHANGED <<bucket, storeVars, torcxVars, pc, callVars, src, profile,
                 appVars, faults>>

(* GetPackageManifest succeeds: from the cache, or fetched into it.       *)
GotManifest ==
  /\ cache' = cache \cup {osVersion}
  /\ UNCHANGED dockerRequiresReboot

ManifestFails ==
  /\ InLoop
  /\ ~AddonInStore(osVersion, ref)
  /\ osVersion \notin cache
  /\ Fault("manifest")
  /\ ReturnError
  /\ UNCHANGED <<storeVars, appVars>>

NoLocationKnown ==
  /\ InLoop
  /\ NotListed
  /\ GotManifest
  /\ LocFor(osVersion, ref) = NoLocation
  /\ ReturnError
  /\ UNCHANGED storeVars

SkipOnDisk ==
  /\ InLoop
  /\ NotListed
  /\ GotManifest
  /\ LocFor(osVersion, ref) # NoLocation
  /\ HasPath(LocFor(osVersion, ref).kind)
  /\ Advance
  /\ UNCHANGED <<bucket, storeVars, torcxVars, pc, callVars, src, profile>>

StartFetch ==
  /\ InLoop
  /\ NotListed
  /\ GotManifest
  /\ LocFor(osVersion, ref) # NoLocation
  /\ ~HasPath(LocFor(osVersion, ref).kind)
  /\ pc' = "fetch"
  /\ UNCHANGED <<bucket, storeVars, torcxVars, callVars, localVars>>

WantedHash == LocFor(osVersion, ref).hash

(* FetchAddon finds an identical image in a store and returns its path.   *)
FindExisting ==
  /\ pc = "fetch"
  /\ src' \in ExistingCopies(ref, WantedHash)
  /\ pc' = "open"
  /\ UNCHANGED <<bucket, storeVars, torcxVars, callVars, pos, profile,
                 appVars, faults>>

(* There is no copy, or an error ended the walk of a directory before it. *)
NothingFound == ExistingCopies(ref, WantedHash) = {} \/ "walk" \in Faults

(* FetchAddon downloads to a temporary file and checks the digest of what *)
(* arrived.  Anything but the published image arriving is a fault.        *)
Arrives(content) ==
  IF content = WantedHash THEN NoFault ELSE Fault("download")

Download ==
  /\ pc = "fetch"
  /\ NothingFound
  /\ \E content \in Hash \cup {Damaged} :
       /\ Arrives(content)
       /\ ValidateHash(content, WantedHash)
       /\ src' = content
  /\ pc' = "open"
  /\ UNCHANGED <<bucket, storeVars, torcxVars, callVars, pos, profile,
                 appVars>>

(* The request fails, or what arrived has another digest.                 *)
DownloadFails ==
  /\ pc = "fetch"
  /\ NothingFound
  /\ Fault("download")
  /\ ReturnError
  /\ UNCHANGED <<storeVars, appVars>>

-----------------------------------------------------------------------------
(* copyToStore *)

SetFile(content) == store' = [store EXCEPT ![osVersion][ref] = content]

(* The downloaded file cannot be opened, or MkdirAll fails.               *)
MkdirFails ==
  /\ pc = "open"
  /\ Fault("mkdir")
  /\ ReturnError
  /\ UNCHANGED <<storeVars, appVars>>

(* The store file cannot be opened: copyToStore returns nil.              *)
OpenDestFails ==
  /\ pc = "open"
  /\ Fault("openDst")
  /\ pc' = "loop"
  /\ Advance
  /\ UNCHANGED <<bucket, storeVars, torcxVars, callVars, src, profile,
                 appVars>>

OpenDest ==
  /\ pc = "open"
  /\ SetFile(AfterOpen(store[osVersion][ref]))
  /\ pc' = "write"
  /\ UNCHANGED <<bucket, torcxVars, callVars, localVars, appVars, faults>>

Copy ==
  /\ pc = "write"
  /\ SetFile(AfterCopy(store[osVersion][ref], src))
  /\ pc' = "loop"
  /\ Advance
  /\ UNCHANGED <<bucket, torcxVars, callVars, src, profile, appVars, faults>>

(* io.Copy or Sync fails, with some or all of the bytes written.          *)
CopyFails ==
  /\ pc = "write"
  /\ Fault("write")
  /\ \/ UNCHANGED store
     \/ SetFile(AfterCopy(store[osVersion][ref], src))
  /\ ReturnError
  /\ UNCHANGED appVars
-----------------------------------------------------------------------------
(* UseAddon, after the loop *)

(* Mutation of LoopDone: the loop stops before the last OS version.       *)
LoopDone_Early == pc = "loop" /\ pos >= Len(osVersions)

LoopDone == pc = "loop" /\ pos > Len(osVersions)

(* A profile other than "vendor" is selected for the next boot.           *)
Selected == nextProfile \notin {NoProfile, Vendor}

(* Mutation of ProfileToUse: always our own profile.                      *)
ProfileToUse_Ours == ProfileName

(* profileName: a selected profile is used, otherwise ours.               *)
ProfileToUse == IF Selected THEN nextProfile ELSE ProfileName

ListProfiles ==
  /\ LoopDone
  /\ profile' = ProfileToUse
  /\ pc' = IF Selected \/ profile' \in profiles THEN "useImage"
                                               ELSE "newProfile"
  /\ UNCHANGED <<bucket, storeVars, torcxVars, callVars, pos, src, appVars,
                 faults>>

NewProfile ==
  /\ pc = "newProfile"
  /\ profiles' = profiles \cup {profile}
  /\ pc' = "useImage"
  /\ UNCHANGED <<bucket, storeVars, image, nextProfile, callVars, localVars,
                 appVars, faults>>

(* torcx profile use-image --allow=missing                                *)
UseImage ==
  /\ pc = "useImage"
  /\ image' = [image EXCEPT ![profile] = ref]
  /\ pc' = "setNext"
  /\ UNCHANGED <<bucket, storeVars, profiles, nextProfile, callVars,
                 localVars, appVars, faults>>

(* Mutation of SetNext: an error of torcx profile set-next is dropped.    *)
SetNext_ErrorDropped ==
  /\ pc = "setNext"
  /\ \/ nextProfile' = profile /\ NoFault
     \/ UNCHANGED nextProfile /\ Fault("torcx")
  /\ dockerRequiresReboot' = TRUE
  /\ pc' = "ok"
  /\ UNCHANGED <<bucket, storeVars, profiles, image, callVars, localVars, cache>>

SetNext ==
  /\ pc = "setNext"
  /\ nextProfile' = profile
  /\ dockerRequiresReboot' = TRUE
  /\ pc' = "ok"
  /\ UNCHANGED <<bucket, storeVars, profiles, image, callVars, localVars,
                 cache, faults>>

(* One of the four torcx commands exits with an error.                    *)
TorcxFails ==
  /\ \/ LoopDone
     \/ pc \in {"newProfile", "useImage", "setNext"}
  /\ Fault("torcx")
  /\ ReturnError
  /\ UNCHANGED <<storeVars, appVars>>

-----------------------------------------------------------------------------
InstallStep ==
  \/ SkipInstalled \/ ManifestFails \/ NoLocationKnown \/ SkipOnDisk
  \/ StartFetch \/ FindExisting \/ Download \/ DownloadFails
  \/ MkdirFails \/ OpenDestFails \/ OpenDest \/ Copy \/ CopyFails
  \/ ListProfiles \/ NewProfile \/ UseImage \/ SetNext \/ TorcxFails

(* The call is over; what it did on disk stays.                           *)
CallOver ==
  /\ pc' = "idle"
  /\ osVersions' = <<>>
  /\ pos' = 1
  /\ src' = Absent
  /\ profile' = NoProfile
  /\ UNCHANGED <<bucket, storeVars, torcxVars, ref>>

(* The process is gone, and with it everything that is not on disk.       *)
ProcessGone ==
  /\ CallOver
  /\ cache' = {}
  /\ dockerRequiresReboot' = FALSE

(* The process is killed, or the machine loses power.                     *)
Killed == IF pc = "write" THEN Fault("crashCopy") ELSE Fault("crash")

Crash ==
  /\ pc \notin {"idle", "ok", "failed"}
  /\ Killed
  /\ ProcessGone

(* The process that called InstallAddon ends.                             *)
Exit ==
  /\ pc \in {"ok", "failed"}
  /\ ProcessGone
  /\ NoFault

(* Between two calls an operator may select a profile of their own.       *)
OperatorSelects ==
  /\ pc = "idle"
  /\ nextProfile' \in Profile \cup {Vendor}
  /\ profiles' = profiles \cup {nextProfile'}
  /\ UNCHANGED <<bucket, storeVars, image, pc, callVars, localVars, appVars,
                 faults>>

Targets == UNION {[1 .. n -> OSVersion] : n \in 1 .. MaxTargets}

NewCall ==
  /\ \E r \in Ref, os \in Targets : Call(r, os)
  /\ UNCHANGED appVars

Next == NewCall \/ OperatorSelects \/ InstallStep \/ Crash \/ Exit

Spec == Init /\ [][Next]_vars
-----------------------------------------------------------------------------
PCs == {"idle", "loop", "fetch", "open", "write", "newProfile", "useImage",
        "setNext", "ok", "failed"}

(* Every variable keeps its type, through any mix of faults and calls.    *)
TypeOK ==
  /\ bucket \in [OSVersion -> Manifests]
  /\ store \in [OSVersion -> [Ref -> Content]]
  /\ profiles \subseteq Profile \cup {Vendor}
  /\ image \in [Profile \cup {Vendor} -> Ref \cup {NoImage}]
  /\ nextProfile \in Profile \cup {Vendor, NoProfile}
  /\ pc \in PCs
  /\ ref \in Ref
  /\ osVersions \in Seq(OSVersion)
  /\ pos \in 1 .. Len(osVersions) + 1
  /\ src \in Hash \cup {Absent}
  /\ profile \in Profile \cup {NoProfile}
  /\ cache \subseteq OSVersion
  /\ dockerRequiresReboot \in BOOLEAN
  /\ faults \in 0 .. MaxFaults

(* Whatever fails and wherever the process is killed, a store file is     *)
(* either the image that the manifest of its OS version publishes for its *)
(* name, or a damaged file: never the image of another OS version or of   *)
(* another docker version, and never one that nobody published.           *)
StoreIntegrity ==
  \A o \in OSVersion, r \in Ref :
    store[o][r] # Absent =>
      /\ LocFor(o, r) # NoLocation
      /\ store[o][r] \in {Damaged, LocFor(o, r).hash}

(* No call ever destroys a good image, not even one that copies onto it   *)
(* because torcx failed to list it and fails half way or is killed.       *)
NoImageLost ==
  [][\A o \in OSVersion, r \in Ref :
       store[o][r] \in Hash => store'[o][r] = store[o][r]]_vars

(* An OS version can boot into docker version r: its image is in the      *)
(* store, or the OS ships it.                                             *)
Ready(o, r) ==
  /\ LocFor(o, r) # NoLocation
  /\ \/ store[o][r] = LocFor(o, r).hash
     \/ IsTorcxStore(LocFor(o, r).kind)

TargetsReady(r) == \A i \in DOMAIN osVersions : Ready(osVersions[i], r)

(* When InstallAddon returns nil the docker version is available to every *)
(* OS version it was called for.                                          *)
InstalledMeansUsable == pc = "ok" => TargetsReady(ref)

(* The docker version the next boot applies, if the selected profile has  *)
(* one.                                                                   *)
BootImage == IF Selected THEN image[nextProfile] ELSE NoImage

(* The docker version of the next boot is changed only once its image is  *)
(* available to every OS version of the call, although two torcx commands *)
(* change it and the process may fail or be killed between them.          *)
SwitchOnlyWhenReady ==
  [][pc # "idle" /\ BootImage' # BootImage => TargetsReady(BootImage')]_vars

(* UseAddon: a profile an operator selected stays selected, and no other  *)
(* profile than the selected one, or the one of our choosing on a machine *)
(* without, is ever changed.                                              *)
OperatorProfileKept ==
  [][pc # "idle" =>
       LET ours == IF Selected THEN nextProfile ELSE ProfileName
       IN  /\ nextProfile' \in {nextProfile, ours}
           /\ \A p \in (Profile \cup {Vendor}) \ {ours} : image'[p] = image[p]
    ]_vars
-----------------------------------------------------------------------------
CallState ==
  CASE pc = "idle"                       -> "idle"
    [] pc \in {"ok", "failed"}           -> pc
    [] pc \notin {"idle", "ok", "failed"} -> "busy"

(* For every OS version the docker versions it can boot into.             *)
Usable == [o \in OSVersion |-> {r \in Ref : Ready(o, r)}]

Contract == INSTANCE AtomicInstall
            WITH state <- CallState, version <- ref,
                 targets <- ToSet(osVersions), usable <- Usable,
                 boot <- BootImage

(* However often it is called, fails and is killed: the loop over the OS  *)
(* versions, the copies and the torcx commands amount to one atomic       *)
(* switch of the next boot, after what it needs has been provided.        *)
InstallIsAtomic == Contract!Spec
=============================================================================
