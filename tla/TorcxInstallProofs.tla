------------------------- MODULE TorcxInstallProofs -------------------------
(***************************************************************************)
(* Proofs about InstallAddon, for all OS versions, docker versions,        *)
(* manifests and profiles and any number of calls and faults.              *)
(***************************************************************************)
EXTENDS TorcxInstall, StrategyProofs

USE DEF storeVars, torcxVars, callVars, localVars, appVars

(* LocFor looks up the manifest of the OS version.                        *)
LEMMA LocForIs ==
  ASSUME bucket \in [OSVersion -> Manifests], NEW o \in OSVersion, NEW r \in Ref
  PROVE  LocFor(o, r) = LocationFor(bucket[o], DockerName, r)
  BY DEF LocFor, DockerLocation

(* A location that is known has a kind and one of the published hashes.   *)
LEMMA LocForType ==
  ASSUME bucket \in [OSVersion -> Manifests],
         NEW o \in OSVersion, NEW r \in Ref, LocFor(o, r) # NoLocation
  PROVE  LocFor(o, r) \in Location
<1>1. bucket[o] \in Manifest
  BY InstallAssumption
<1> QED
  BY <1>1, LocForIs, LocationForSound

(* What each stage of a call may rely on, besides the types.              *)
StageInv ==
  /\ pc \in {"fetch", "open", "write"} =>
       /\ pos <= Len(osVersions)
       /\ LocFor(osVersion, ref) # NoLocation
  /\ pc \in {"open", "write"} => src = WantedHash
  /\ pc = "write" => store[osVersion][ref] # Absent
  /\ pc \in {"newProfile", "useImage", "setNext"} =>
       profile \in Profile /\ profile = ProfileToUse
  /\ pc = "idle" => pos = 1 /\ osVersions = <<>>

(* The inductive invariant.  StoreIntegrity alone is not inductive: that  *)
(* a copy writes the right image rests on what "src" holds, and that      *)
(* rests on the validation of the download two steps earlier.             *)
IInv == TypeOK /\ StageInv /\ StoreIntegrity

(* It holds at the start.                                                 *)
LEMMA InitIInv == Init => IInv
<1> SUFFICES ASSUME Init PROVE IInv
  OBVIOUS
<1>1. TypeOK
  <2>1. /\ bucket \in [OSVersion -> Manifests]
        /\ store \in [OSVersion -> [Ref -> Content]]
        /\ image \in [Profile \cup {Vendor} -> Ref \cup {NoImage}]
    BY DEF Init, Content
  <2>2. /\ nextProfile \in Profile \cup {Vendor, NoProfile}
        /\ profiles \subseteq Profile \cup {Vendor}
    BY InstallAssumption DEF Init
  <2>3. /\ osVersions \in Seq(OSVersion)
        /\ pos \in 1 .. Len(osVersions) + 1
    BY DEF Init
  <2>4. /\ pc \in PCs
        /\ ref \in Ref
        /\ src \in Hash \cup {Absent}
        /\ profile \in Profile \cup {NoProfile}
        /\ cache \subseteq OSVersion
        /\ dockerRequiresReboot \in BOOLEAN
    BY DEF Init, PCs
  <2>5. faults \in 0 .. MaxFaults
    BY InstallAssumption DEF Init
  <2> QED
    BY <2>1, <2>2, <2>3, <2>4, <2>5 DEF TypeOK
<1>2. StageInv /\ StoreIntegrity
  BY DEF Init, StageInv, StoreIntegrity
<1> QED
  BY <1>1, <1>2 DEF IInv
-----------------------------------------------------------------------------
(* Every step keeps the fault counter in its bounds.                      *)
LEMMA FaultType ==
  ASSUME TypeOK, NEW kind, Fault(kind) \/ NoFault
  PROVE  faults' \in 0 .. MaxFaults
<1>1. faults \in 0 .. MaxFaults /\ MaxFaults \in Nat
  BY InstallAssumption DEF TypeOK
<1> QED
  BY <1>1 DEF Fault, NoFault

(* The ignored failure of torcx image list is counted as well.            *)
LEMMA NotListedFaults ==
  ASSUME TypeOK, NotListed
  PROVE  faults' \in 0 .. MaxFaults
BY FaultType DEF NotListed

(* The steps of the loop leave it within its bounds.                      *)
LEMMA AdvanceType ==
  ASSUME TypeOK, pos <= Len(osVersions), Advance, UNCHANGED osVersions
  PROVE  pos' \in 1 .. Len(osVersions') + 1
<1>1. Len(osVersions) \in Nat /\ pos \in 1 .. Len(osVersions) + 1
  BY DEF TypeOK
<1> QED
  BY <1>1 DEF Advance

(* The OS version the loop is at is an OS version.                        *)
LEMMA CurrentOSVersion ==
  ASSUME TypeOK, pos <= Len(osVersions)
  PROVE  osVersion \in OSVersion
<1>1. osVersions \in Seq(OSVersion) /\ pos \in 1 .. Len(osVersions)
  BY DEF TypeOK
<1> QED
  BY <1>1 DEF osVersion

(* Writing one file keeps the type of the store.                          *)
LEMMA SetFileType ==
  ASSUME TypeOK, pos <= Len(osVersions), NEW content \in Content,
         SetFile(content)
  PROVE  store' \in [OSVersion -> [Ref -> Content]]
BY CurrentOSVersion DEF TypeOK, SetFile

(* What a copy leaves in a file is content.                               *)
LEMMA AfterCopyType ==
  ASSUME NEW old \in Content, NEW new \in Hash
  PROVE  AfterCopy(old, new) \in Content
BY DEF AfterCopy, Content

(* So is what opening it leaves there.                                    *)
LEMMA AfterOpenType ==
  ASSUME NEW old \in Content
  PROVE  AfterOpen(old) \in Content
BY DEF AfterOpen, Content

(* The wanted digest is a digest or none.                                 *)
LEMMA WantedHashType ==
  ASSUME IInv, pc \in {"fetch", "open", "write"}
  PROVE  WantedHash \in Hash
<1>1. pos <= Len(osVersions) /\ LocFor(osVersion, ref) # NoLocation
  BY DEF IInv, StageInv
<1>2. osVersion \in OSVersion /\ bucket \in [OSVersion -> Manifests]
  BY <1>1, CurrentOSVersion DEF IInv, TypeOK
<1>3. LocFor(osVersion, ref) \in Location
  BY <1>1, <1>2, LocForType DEF IInv, TypeOK
<1> QED
  BY <1>3 DEF WantedHash, Location
-----------------------------------------------------------------------------
(* Types are kept by every step. *)
LEMMA NextTypeOK == IInv /\ [Next]_vars => TypeOK'
<1> SUFFICES ASSUME IInv, [Next]_vars PROVE TypeOK'
  OBVIOUS
<1>1. TypeOK
  BY DEF IInv
<1> USE <1>1 DEF PCs
<1>2. ASSUME SkipInstalled PROVE TypeOK'
  BY <1>2, AdvanceType DEF TypeOK, SkipInstalled, InLoop
<1>3. ASSUME ManifestFails PROVE TypeOK'
  BY <1>3, FaultType DEF TypeOK, ManifestFails, ReturnError
<1>4. ASSUME NoLocationKnown PROVE TypeOK'
  BY <1>4, NotListedFaults, CurrentOSVersion DEF TypeOK, NoLocationKnown, InLoop, GotManifest, ReturnError
<1>5. ASSUME SkipOnDisk PROVE TypeOK'
  BY <1>5, NotListedFaults, CurrentOSVersion, AdvanceType DEF TypeOK, SkipOnDisk, InLoop, GotManifest
<1>6. ASSUME StartFetch PROVE TypeOK'
  BY <1>6, NotListedFaults, CurrentOSVersion DEF TypeOK, StartFetch, InLoop, GotManifest
<1>7. ASSUME FindExisting PROVE TypeOK'
  <2>1. src' = WantedHash
    BY <1>7 DEF FindExisting, ExistingCopies, ValidateHash
  <2>2. src' \in Hash
    BY <1>7, <2>1, WantedHashType DEF FindExisting
  <2> QED
    BY <1>7, <2>2 DEF TypeOK, FindExisting
<1>8. ASSUME Download PROVE TypeOK'
  <2>1. src' = WantedHash
    BY <1>8 DEF Download, ValidateHash
  <2>2. src' \in Hash
    BY <1>8, <2>1, WantedHashType DEF Download
  <2>3. faults' \in 0 .. MaxFaults
    BY <1>8, FaultType DEF Download, Arrives
  <2> QED
    BY <1>8, <2>2, <2>3 DEF TypeOK, Download
<1>9. ASSUME DownloadFails PROVE TypeOK'
  BY <1>9, FaultType DEF TypeOK, DownloadFails, ReturnError
<1>10. ASSUME MkdirFails PROVE TypeOK'
  BY <1>10, FaultType DEF TypeOK, MkdirFails, ReturnError
<1>11. ASSUME OpenDestFails PROVE TypeOK'
  <2>1. pos' \in 1 .. Len(osVersions') + 1
    BY <1>11, AdvanceType DEF OpenDestFails, IInv, StageInv
  <2>2. faults' \in 0 .. MaxFaults
    BY <1>11, FaultType DEF OpenDestFails
  <2> QED
    BY <1>11, <2>1, <2>2 DEF TypeOK, OpenDestFails
<1>12. ASSUME OpenDest PROVE TypeOK'
  <2>1. pos <= Len(osVersions)
    BY <1>12 DEF OpenDest, IInv, StageInv
  <2>2. AfterOpen(store[osVersion][ref]) \in Content
    BY <2>1, CurrentOSVersion, AfterOpenType DEF TypeOK
  <2>3. store' \in [OSVersion -> [Ref -> Content]]
    BY <1>12, <2>1, <2>2, SetFileType DEF OpenDest
  <2> QED
    BY <1>12, <2>3 DEF TypeOK, OpenDest
<1>13. ASSUME Copy PROVE TypeOK'
  <2>1. pos <= Len(osVersions) /\ src = WantedHash
    BY <1>13 DEF Copy, IInv, StageInv
  <2>2. src \in Hash
    BY <1>13, <2>1, WantedHashType DEF Copy
  <2>3. AfterCopy(store[osVersion][ref], src) \in Content
    BY <2>1, <2>2, CurrentOSVersion, AfterCopyType DEF TypeOK
  <2>4. store' \in [OSVersion -> [Ref -> Content]]
    BY <1>13, <2>1, <2>3, SetFileType DEF Copy, TypeOK
  <2>5. pos' \in 1 .. Len(osVersions') + 1
    BY <1>13, <2>1, AdvanceType DEF Copy
  <2> QED
    BY <1>13, <2>4, <2>5 DEF TypeOK, Copy
<1>14. ASSUME CopyFails PROVE TypeOK'
  <2>1. pos <= Len(osVersions) /\ src = WantedHash
    BY <1>14 DEF CopyFails, IInv, StageInv
  <2>2. src \in Hash
    BY <1>14, <2>1, WantedHashType DEF CopyFails
  <2>3. AfterCopy(store[osVersion][ref], src) \in Content
    BY <2>1, <2>2, CurrentOSVersion, AfterCopyType DEF TypeOK
  <2>4. store' \in [OSVersion -> [Ref -> Content]]
    BY <1>14, <2>1, <2>3, SetFileType DEF CopyFails, TypeOK
  <2>5. faults' \in 0 .. MaxFaults
    BY <1>14, FaultType DEF CopyFails
  <2> QED
    BY <1>14, <2>4, <2>5 DEF TypeOK, CopyFails, ReturnError
<1>15. ASSUME ListProfiles PROVE TypeOK'
  <2>1. ProfileToUse \in Profile
    BY InstallAssumption DEF TypeOK, ProfileToUse, Selected
  <2> QED
    BY <1>15, <2>1 DEF TypeOK, ListProfiles
<1>16. ASSUME NewProfile PROVE TypeOK'
  <2>1. profile \in Profile
    BY <1>16 DEF NewProfile, IInv, StageInv
  <2> QED
    BY <1>16, <2>1 DEF TypeOK, NewProfile
<1>17. ASSUME UseImage PROVE TypeOK'
  BY <1>17 DEF TypeOK, UseImage
<1>18. ASSUME SetNext PROVE TypeOK'
  BY <1>18 DEF TypeOK, SetNext
<1>19. ASSUME TorcxFails PROVE TypeOK'
  BY <1>19, FaultType DEF TypeOK, TorcxFails, ReturnError
<1>20. ASSUME NewCall PROVE TypeOK'
  <2>1. PICK r \in Ref, os \in Targets : Call(r, os)
    BY <1>20 DEF NewCall
  <2>2. os \in Seq(OSVersion)
    BY InstallAssumption DEF Targets
  <2>3. pos' \in 1 .. Len(osVersions') + 1
    BY <2>1, <2>2 DEF Call, IInv, StageInv
  <2> QED
    BY <1>20, <2>1, <2>2, <2>3 DEF TypeOK, NewCall, Call
<1>21. ASSUME OperatorSelects PROVE TypeOK'
  BY <1>21 DEF TypeOK, OperatorSelects
<1>22. ASSUME Crash PROVE TypeOK'
  <2>1. faults' \in 0 .. MaxFaults
    BY <1>22, FaultType DEF Crash, Killed
  <2>2. /\ osVersions' \in Seq(OSVersion)
        /\ pos' \in 1 .. Len(osVersions') + 1
    BY <1>22 DEF Crash, ProcessGone, CallOver
  <2> QED
    BY <1>22, <2>1, <2>2 DEF TypeOK, Crash, ProcessGone, CallOver
<1>23. ASSUME Exit PROVE TypeOK'
  <2>1. faults' \in 0 .. MaxFaults
    BY <1>23, FaultType DEF Exit
  <2>2. /\ osVersions' \in Seq(OSVersion)
        /\ pos' \in 1 .. Len(osVersions') + 1
    BY <1>23 DEF Exit, ProcessGone, CallOver
  <2> QED
    BY <1>23, <2>1, <2>2 DEF TypeOK, Exit, ProcessGone, CallOver
<1>24. ASSUME UNCHANGED vars PROVE TypeOK'
  BY <1>24 DEF TypeOK, vars
<1> QED
  BY <1>2, <1>3, <1>4, <1>5, <1>6, <1>7, <1>8, <1>9, <1>10, <1>11, <1>12, <1>13, <1>14, <1>15, <1>16, <1>17, <1>18, <1>19, <1>20, <1>21, <1>22, <1>23, <1>24 DEF Next, InstallStep
-----------------------------------------------------------------------------
(* What a stage relies on is established by the step that enters it.      *)
LEMMA NextStageInv == IInv /\ [Next]_vars => StageInv'
<1> SUFFICES ASSUME IInv, [Next]_vars PROVE StageInv'
  OBVIOUS
<1>1. TypeOK /\ StageInv
  BY DEF IInv
<1> USE <1>1 DEF ProfileToUse, Selected
<1>2. ASSUME SkipInstalled PROVE StageInv'
  BY <1>2 DEF StageInv, SkipInstalled, InLoop
<1>3. ASSUME ManifestFails PROVE StageInv'
  BY <1>3 DEF StageInv, ManifestFails, ReturnError
<1>4. ASSUME NoLocationKnown PROVE StageInv'
  BY <1>4 DEF StageInv, NoLocationKnown, ReturnError
<1>5. ASSUME SkipOnDisk PROVE StageInv'
  BY <1>5 DEF StageInv, SkipOnDisk, InLoop
<1>6. ASSUME StartFetch PROVE StageInv'
  BY <1>6 DEF StageInv, StartFetch, InLoop, osVersion, LocFor
<1>7. ASSUME FindExisting PROVE StageInv'
  <2>1. src' = WantedHash
    BY <1>7 DEF FindExisting, ValidateHash, ExistingCopies
  <2>2. UNCHANGED <<bucket, osVersions, pos, ref>> /\ pc = "fetch" /\ pc' = "open"
    BY <1>7 DEF FindExisting
  <2>3. UNCHANGED <<osVersion, WantedHash, LocFor(osVersion, ref)>>
    BY <2>2 DEF osVersion, LocFor, WantedHash
  <2> QED
    BY <2>1, <2>2, <2>3 DEF StageInv
<1>8. ASSUME Download PROVE StageInv'
  <2>1. src' = WantedHash
    BY <1>8 DEF Download, ValidateHash
  <2>2. UNCHANGED <<bucket, osVersions, pos, ref>> /\ pc = "fetch" /\ pc' = "open"
    BY <1>8 DEF Download
  <2>3. UNCHANGED <<osVersion, WantedHash, LocFor(osVersion, ref)>>
    BY <2>2 DEF osVersion, LocFor, WantedHash
  <2> QED
    BY <2>1, <2>2, <2>3 DEF StageInv
<1>9. ASSUME DownloadFails PROVE StageInv'
  BY <1>9 DEF StageInv, DownloadFails, ReturnError
<1>10. ASSUME MkdirFails PROVE StageInv'
  BY <1>10 DEF StageInv, MkdirFails, ReturnError
<1>11. ASSUME OpenDestFails PROVE StageInv'
  BY <1>11 DEF StageInv, OpenDestFails
<1>12. ASSUME OpenDest PROVE StageInv'
  <2>1. pos <= Len(osVersions) /\ LocFor(osVersion, ref) # NoLocation
        /\ src = WantedHash
    BY <1>12 DEF OpenDest, StageInv
  <2>2. AfterOpen(store[osVersion][ref]) # Absent
    BY InstallAssumption DEF AfterOpen
  <2>3. store'[osVersion][ref] # Absent
    BY <1>12, <2>1, <2>2, CurrentOSVersion DEF OpenDest, SetFile, TypeOK
  <2>4. UNCHANGED <<bucket, osVersions, pos, ref, src>> /\ pc' = "write"
    BY <1>12 DEF OpenDest
  <2>5. UNCHANGED <<osVersion, WantedHash, LocFor(osVersion, ref)>>
    BY <2>4 DEF osVersion, LocFor, WantedHash
  <2> QED
    BY <2>1, <2>3, <2>4, <2>5 DEF StageInv
<1>13. ASSUME Copy PROVE StageInv'
  BY <1>13 DEF StageInv, Copy
<1>14. ASSUME CopyFails PROVE StageInv'
  BY <1>14 DEF StageInv, CopyFails, ReturnError
<1>15. ASSUME ListProfiles PROVE StageInv'
  <2>1. ProfileToUse \in Profile
    BY InstallAssumption DEF TypeOK, ProfileToUse, Selected
  <2> QED
    BY <1>15, <2>1 DEF StageInv, ListProfiles
<1>16. ASSUME NewProfile PROVE StageInv'
  BY <1>16 DEF StageInv, NewProfile
<1>17. ASSUME UseImage PROVE StageInv'
  BY <1>17 DEF StageInv, UseImage
<1>18. ASSUME SetNext PROVE StageInv'
  BY <1>18 DEF StageInv, SetNext
<1>19. ASSUME TorcxFails PROVE StageInv'
  BY <1>19 DEF StageInv, TorcxFails, ReturnError
<1>20. ASSUME NewCall PROVE StageInv'
  BY <1>20 DEF StageInv, NewCall, Call
<1>21. ASSUME OperatorSelects PROVE StageInv'
  BY <1>21 DEF StageInv, OperatorSelects
<1>22. ASSUME Crash PROVE StageInv'
  BY <1>22 DEF StageInv, Crash, ProcessGone, CallOver
<1>23. ASSUME Exit PROVE StageInv'
  BY <1>23 DEF StageInv, Exit, ProcessGone, CallOver
<1>24. ASSUME UNCHANGED vars PROVE StageInv'
  BY <1>24 DEF StageInv, vars, osVersion, LocFor, WantedHash
<1> QED
  BY <1>2, <1>3, <1>4, <1>5, <1>6, <1>7, <1>8, <1>9, <1>10, <1>11, <1>12, <1>13, <1>14, <1>15, <1>16, <1>17, <1>18, <1>19, <1>20, <1>21, <1>22, <1>23, <1>24 DEF Next, InstallStep
-----------------------------------------------------------------------------
(* The published manifests do not change. *)
LEMMA BucketConstant == [Next]_vars => bucket' = bucket
BY DEF Next, InstallStep, NewCall, Call, OperatorSelects, Crash, Exit,
       ProcessGone, CallOver, SkipInstalled, ManifestFails, NoLocationKnown, SkipOnDisk,
       StartFetch, FindExisting, Download, DownloadFails, MkdirFails,
       OpenDestFails, OpenDest, Copy, CopyFails, ListProfiles, NewProfile,
       UseImage, SetNext, TorcxFails, ReturnError, vars

(* Opening and copying are the only steps that touch the store.           *)
LEMMA StoreStep ==
  [Next]_vars =>
    \/ store' = store
    \/ pc = "open" /\ OpenDest
    \/ pc = "write" /\ SetFile(AfterCopy(store[osVersion][ref], src))
BY DEF Next, InstallStep, NewCall, Call, OperatorSelects, Crash, Exit,
       ProcessGone, CallOver, SkipInstalled, ManifestFails, NoLocationKnown, SkipOnDisk,
       StartFetch, FindExisting, Download, DownloadFails, MkdirFails,
       OpenDestFails, OpenDest, Copy, CopyFails, ListProfiles, NewProfile,
       UseImage, SetNext, TorcxFails, ReturnError, vars

(* The one file a copy works on is the one its OS version publishes, and  *)
(* what is copied is the published image.                                 *)
LEMMA CopyTarget ==
  ASSUME IInv, pc \in {"open", "write"}
  PROVE  /\ osVersion \in OSVersion /\ ref \in Ref
         /\ LocFor(osVersion, ref) # NoLocation
         /\ src = LocFor(osVersion, ref).hash /\ src \in Hash
<1>1. pos <= Len(osVersions) /\ LocFor(osVersion, ref) # NoLocation
      /\ src = WantedHash
  BY DEF IInv, StageInv
<1>2. osVersion \in OSVersion /\ ref \in Ref
  BY <1>1, CurrentOSVersion DEF IInv, TypeOK
<1>3. src \in Hash
  BY <1>1, WantedHashType
<1> QED
  BY <1>1, <1>2, <1>3 DEF WantedHash

(* Every step keeps the store intact.                                     *)
LEMMA NextStoreIntegrity == IInv /\ [Next]_vars => StoreIntegrity'
<1> SUFFICES ASSUME IInv, [Next]_vars PROVE StoreIntegrity'
  OBVIOUS
<1>1. TypeOK /\ StageInv /\ StoreIntegrity
  BY DEF IInv
<1>2. bucket' = bucket
  BY BucketConstant
<1>3. CASE store' = store
  BY <1>1, <1>2, <1>3 DEF StoreIntegrity, LocFor
<1>4. ASSUME NEW content \in {Damaged, src}, pc \in {"open", "write"},
             SetFile(content)
      PROVE  StoreIntegrity'
  <2> SUFFICES ASSUME NEW o \in OSVersion, NEW r \in Ref,
                      store'[o][r] # Absent
               PROVE  /\ LocFor(o, r) # NoLocation
                      /\ store'[o][r] \in {Damaged, LocFor(o, r).hash}
    BY <1>2 DEF StoreIntegrity, LocFor
  <2>1. CASE o = osVersion /\ r = ref
    BY <1>1, <1>4, <2>1, CopyTarget DEF SetFile, TypeOK
  <2>2. CASE ~ (o = osVersion /\ r = ref)
    <3>1. store'[o][r] = store[o][r]
      BY <1>1, <1>4, <2>2, CopyTarget DEF SetFile, TypeOK
    <3> QED
      BY <1>1, <3>1 DEF StoreIntegrity
  <2> QED
    BY <2>1, <2>2
<1>5. CASE pc = "open" /\ OpenDest
  <2>1. store[osVersion][ref] \in {Absent, Damaged, src}
    BY <1>1, <1>5, CopyTarget DEF StoreIntegrity
  <2>2. AfterOpen(store[osVersion][ref]) \in {Damaged, src}
    BY <2>1 DEF AfterOpen
  <2> QED
    BY <1>4, <1>5, <2>2 DEF OpenDest
<1>6. CASE pc = "write" /\ SetFile(AfterCopy(store[osVersion][ref], src))
  <2>1. AfterCopy(store[osVersion][ref], src) \in {Damaged, src}
    BY DEF AfterCopy
  <2> QED
    BY <1>4, <1>6, <2>1
<1> QED
  BY <1>3, <1>5, <1>6, StoreStep

(* Every step keeps the inductive invariant.                              *)
LEMMA NextIInv == IInv /\ [Next]_vars => IInv'
BY NextTypeOK, NextStageInv, NextStoreIntegrity DEF IInv

-----------------------------------------------------------------------------
(* InstallAddon keeps IInv through every mix of calls and faults.         *)
THEOREM InductiveInvariant == Spec => []IInv
<1>1. Init => IInv
  BY InitIInv
<1>2. IInv /\ [Next]_vars => IInv'
  BY NextIInv
<1> QED
  BY <1>1, <1>2, PTL DEF Spec

(* Types are correct in every state InstallAddon can reach.               *)
THEOREM TypeCorrect == Spec => []TypeOK
<1>1. IInv => TypeOK
  BY DEF IInv
<1> QED
  BY <1>1, InductiveInvariant, PTL

(* The store never holds a wrong image: a file is the image published for *)
(* its OS version and docker version, or it is damaged.                   *)
THEOREM StoreIsIntact == Spec => []StoreIntegrity
<1>1. IInv => StoreIntegrity
  BY DEF IInv
<1> QED
  BY <1>1, InductiveInvariant, PTL
-----------------------------------------------------------------------------
(* A step never changes a file that holds an image.                       *)
LEMMA StepKeepsImages ==
  ASSUME IInv, [Next]_vars, NEW o \in OSVersion, NEW r \in Ref,
         store[o][r] \in Hash
  PROVE  store'[o][r] = store[o][r]
<1>1. TypeOK /\ StoreIntegrity
  BY DEF IInv
<1>2. CASE store' = store
  BY <1>2
<1>3. ASSUME NEW content, pc \in {"open", "write"}, SetFile(content),
             content = store[osVersion][ref] \/ store[osVersion][ref] \notin Hash
      PROVE  store'[o][r] = store[o][r]
  BY <1>1, <1>3, CopyTarget DEF SetFile, TypeOK
<1>4. CASE pc = "open" /\ OpenDest
  <2>1. AfterOpen(store[osVersion][ref]) = store[osVersion][ref]
        \/ store[osVersion][ref] \notin Hash
    BY InstallAssumption DEF AfterOpen
  <2> QED
    BY <1>3, <1>4, <2>1 DEF OpenDest
<1>5. CASE pc = "write" /\ SetFile(AfterCopy(store[osVersion][ref], src))
  <2>1. store[osVersion][ref] \in {Absent, Damaged, src}
    BY <1>1, <1>5, CopyTarget DEF StoreIntegrity
  <2>2. AfterCopy(store[osVersion][ref], src) = store[osVersion][ref]
        \/ store[osVersion][ref] \notin Hash
    BY <2>1, InstallAssumption DEF AfterCopy
  <2> QED
    BY <1>3, <1>5, <2>2
<1> QED
  BY <1>2, <1>4, <1>5, StoreStep

(* No good image is ever lost, whatever fails during a later call.        *)
THEOREM GoodImagesKept == Spec => NoImageLost
<1>1. IInv /\ [Next]_vars =>
        [\A o \in OSVersion, r \in Ref :
           store[o][r] \in Hash => store'[o][r] = store[o][r]]_vars
  BY StepKeepsImages
<1> QED
  BY <1>1, InductiveInvariant, PTL DEF Spec, NoImageLost

-----------------------------------------------------------------------------
(***************************************************************************)
(* The promise of InstallAddon, under the two conditions it needs.  The    *)
(* run InstallPartialCopy shows what happens without the first of them.    *)
(***************************************************************************)

(* Once a store file can be opened, copying to it succeeds.               *)
CopiesComplete == Faults \cap {"openDst", "write", "crashCopy"} = {}

(* An image on disk is in the vendor store.                               *)
DiskMeansVendor ==
  \A m \in Manifests, r \in Ref :
    LocationFor(m, DockerName, r) # NoLocation =>
      LocationFor(m, DockerName, r).kind # "disk"

(* The only damaged file is the one being written. *)
DamagedInv ==
  \A o \in OSVersion, r \in Ref :
    store[o][r] = Damaged => pc = "write" /\ o = osVersion /\ r = ref

(* Every OS version the loop has left behind is ready.                    *)
LoopInv ==
  pc \in {"loop", "fetch", "open", "write"} =>
    \A i \in 1 .. Len(osVersions) : i < pos => Ready(osVersions[i], ref)

(* Once the loop is done all of them are.                                 *)
DoneInv ==
  /\ pc \in {"newProfile", "useImage", "setNext", "ok"} => TargetsReady(ref)
  /\ pc = "setNext" => image[profile] = ref

ReadyInv == DamagedInv /\ LoopInv /\ DoneInv

(* What is ready stays ready.                                             *)
LEMMA ReadyKept ==
  ASSUME IInv, [Next]_vars, NEW o \in OSVersion, NEW r \in Ref, Ready(o, r)
  PROVE  Ready(o, r)'
<1>1. bucket' = bucket
  BY BucketConstant
<1>2. LocFor(o, r) # NoLocation /\ UNCHANGED LocFor(o, r)
  BY <1>1 DEF LocFor, Ready
<1>3. LocFor(o, r).hash \in Hash
  <2>1. LocFor(o, r) \in Location
    BY <1>2, LocForType DEF IInv, TypeOK
  <2> QED
    BY <2>1 DEF Location
<1>4. store[o][r] = LocFor(o, r).hash => store'[o][r] = LocFor(o, r).hash
  BY <1>3, StepKeepsImages
<1> QED
  BY <1>2, <1>4 DEF Ready

(* With complete copies the only way out of io.Copy is its end.           *)
LEMMA WriteStep ==
  ASSUME CopiesComplete, pc = "write", [Next]_vars
  PROVE  Copy \/ UNCHANGED vars
<1>1. ~ CopyFails /\ ~ Crash
  BY DEF CopiesComplete, CopyFails, Crash, Killed, Fault
<1> QED
  BY <1>1
     DEF Next, InstallStep, NewCall, Call, OperatorSelects, Exit,
         SkipInstalled, ManifestFails, NoLocationKnown, SkipOnDisk,
         StartFetch, FindExisting, Download, DownloadFails, MkdirFails,
         OpenDestFails, OpenDest, ListProfiles, NewProfile, UseImage,
         SetNext, TorcxFails, InLoop, LoopDone

(* Only the file that is being written is ever damaged.                   *)
LEMMA NextDamagedInv ==
  ASSUME CopiesComplete, IInv, DamagedInv, [Next]_vars
  PROVE  DamagedInv'
<1>1. TypeOK
  BY DEF IInv
<1>2. CASE pc # "write" /\ store' = store
  BY <1>2 DEF DamagedInv
<1>3. CASE pc = "open" /\ OpenDest
  <2>1. pc' = "write" /\ UNCHANGED <<osVersion, ref>>
    BY <1>3 DEF OpenDest, osVersion
  <2>2. \A o \in OSVersion, r \in Ref :
          ~ (o = osVersion /\ r = ref) => store'[o][r] = store[o][r]
    BY <1>1, <1>3, CopyTarget DEF OpenDest, SetFile, TypeOK
  <2> QED
    BY <1>3, <2>1, <2>2 DEF DamagedInv
<1>4. CASE pc = "write" /\ Copy
  <2>1. store[osVersion][ref] \in {Damaged, src} /\ src \in Hash
    <3>1. store[osVersion][ref] # Absent /\ StoreIntegrity
      BY <1>4 DEF IInv, StageInv
    <3> QED
      BY <1>4, <3>1, CopyTarget DEF StoreIntegrity
  <2>2. AfterCopy(store[osVersion][ref], src) = src
    BY <2>1 DEF AfterCopy
  <2>3. \A o \in OSVersion, r \in Ref :
          store'[o][r] = IF o = osVersion /\ r = ref THEN src ELSE store[o][r]
    BY <1>1, <1>4, <2>2, CopyTarget DEF Copy, SetFile, TypeOK
  <2>4. src # Damaged
    BY <2>1, InstallAssumption
  <2> QED
    BY <1>4, <2>3, <2>4 DEF DamagedInv
<1>5. CASE UNCHANGED vars
  BY <1>5 DEF DamagedInv, vars, osVersion
<1> QED
  BY <1>2, <1>3, <1>4, <1>5, StoreStep, WriteStep

(* An OS version that is skipped is ready.                                *)
LEMMA ListedIsReady ==
  ASSUME IInv, DamagedInv, pc = "loop", NEW o \in OSVersion, NEW r \in Ref,
         AddonInStore(o, r)
  PROVE  Ready(o, r)
<1>1. store[o][r] # Absent /\ store[o][r] # Damaged
  BY DEF AddonInStore, DamagedInv
<1> QED
  BY <1>1 DEF IInv, StoreIntegrity, Ready

(* An OS version that needs no download is ready.                         *)
LEMMA OnDiskIsReady ==
  ASSUME DiskMeansVendor, IInv, NEW o \in OSVersion, NEW r \in Ref,
         LocFor(o, r) # NoLocation, HasPath(LocFor(o, r).kind)
  PROVE  Ready(o, r)
<1>1. bucket[o] \in Manifests
  BY DEF IInv, TypeOK
<1>2. LocFor(o, r).kind # "disk"
  BY <1>1, LocForIs DEF DiskMeansVendor, IInv, TypeOK
<1> QED
  BY <1>2 DEF HasPath, Ready, IsTorcxStore

(* What is ready stays ready, for all OS versions before n.               *)
LEMMA TargetsKept ==
  ASSUME IInv, [Next]_vars, UNCHANGED <<osVersions, ref>>, NEW n,
         \A i \in 1 .. Len(osVersions) : i < n => Ready(osVersions[i], ref)
  PROVE  (\A i \in 1 .. Len(osVersions) : i < n => Ready(osVersions[i], ref))'
<1> SUFFICES ASSUME NEW i \in 1 .. Len(osVersions), i < n
             PROVE  Ready(osVersions[i], ref)'
  OBVIOUS
<1>1. osVersions[i] \in OSVersion /\ ref \in Ref
  BY DEF IInv, TypeOK
<1>2. Ready(osVersions[i], ref)
  OBVIOUS
<1> DEFINE o == osVersions[i]
<1>3. \A x \in OSVersion, r \in Ref : Ready(x, r) => Ready(x, r)'
  BY ReadyKept
<1> QED
  BY <1>1, <1>2, <1>3 DEF Ready, LocFor

(* The loop leaves every OS version behind it ready.                      *)
LEMMA NextLoopInv ==
  ASSUME CopiesComplete, DiskMeansVendor, IInv, DamagedInv, LoopInv,
         [Next]_vars
  PROVE  LoopInv'
<1> DEFINE Stages == {"loop", "fetch", "open", "write"}
<1>1. TypeOK /\ StageInv
  BY DEF IInv
<1>2. CASE pc' \notin Stages
  BY <1>2 DEF LoopInv
<1>3. CASE pc \in Stages /\ UNCHANGED <<osVersions, ref, pos>>
  <2>1. (\A i \in 1 .. Len(osVersions) : i < pos => Ready(osVersions[i], ref))
    BY <1>3 DEF LoopInv
  <2>2. \A i \in 1 .. Len(osVersions) : i < pos => Ready(osVersions[i], ref)'
    BY <1>3, <2>1, TargetsKept
  <2> QED
    BY <1>3, <2>2 DEF LoopInv, Ready, LocFor
<1>4. ASSUME NEW o \in OSVersion, o = osVersions[pos], Ready(o, ref)',
             pc \in Stages, UNCHANGED <<osVersions, ref>>, Advance,
             pos <= Len(osVersions)
      PROVE  LoopInv'
  <2> SUFFICES ASSUME NEW i \in 1 .. Len(osVersions), i < pos'
               PROVE  Ready(osVersions[i], ref)'
    BY <1>4 DEF LoopInv
  <2>1. CASE i < pos
    <3>1. \A j \in 1 .. Len(osVersions) : j < pos => Ready(osVersions[j], ref)
      BY <1>4 DEF LoopInv
    <3> QED
      BY <1>4, <2>1, <3>1, TargetsKept
  <2>2. CASE i = pos
    BY <1>4, <2>2 DEF Ready, LocFor
  <2>3. i < pos \/ i = pos
    <3>1. pos \in Nat
      BY <1>1 DEF TypeOK
    <3> QED
      BY <1>4, <3>1 DEF Advance
  <2> QED
    BY <2>1, <2>2, <2>3
<1>5. CASE SkipInstalled
  <2>1. osVersion \in OSVersion /\ ref \in Ref
    BY <1>1, <1>5, CurrentOSVersion DEF SkipInstalled, InLoop, TypeOK
  <2>2. Ready(osVersion, ref)
    BY <1>5, <2>1, ListedIsReady DEF SkipInstalled, InLoop
  <2>3. PICK o \in OSVersion : o = osVersion /\ Ready(o, ref)
    BY <2>1, <2>2
  <2>4. Ready(o, ref)'
    BY <1>5, <2>1, <2>3, ReadyKept DEF SkipInstalled, Ready, LocFor
  <2> QED
    BY <1>4, <1>5, <2>3, <2>4 DEF SkipInstalled, InLoop, osVersion
<1>6. CASE SkipOnDisk
  <2>1. osVersion \in OSVersion /\ ref \in Ref
    BY <1>1, <1>6, CurrentOSVersion DEF SkipOnDisk, InLoop, TypeOK
  <2>2. Ready(osVersion, ref)
    BY <1>6, <2>1, OnDiskIsReady DEF SkipOnDisk
  <2>3. PICK o \in OSVersion : o = osVersion /\ Ready(o, ref)
    BY <2>1, <2>2
  <2>4. Ready(o, ref)'
    BY <1>6, <2>1, <2>3, ReadyKept DEF SkipOnDisk, Ready, LocFor
  <2> QED
    BY <1>4, <1>6, <2>3, <2>4 DEF SkipOnDisk, InLoop, osVersion
<1>7. CASE Copy
  <2>1. pos <= Len(osVersions) /\ pc = "write" /\ DamagedInv'
    BY <1>1, <1>7, NextDamagedInv DEF Copy, StageInv
  <2>2. osVersion \in OSVersion /\ ref \in Ref
        /\ LocFor(osVersion, ref) # NoLocation
        /\ src = LocFor(osVersion, ref).hash
    BY <2>1, CopyTarget
  <2>3. StoreIntegrity' /\ UNCHANGED <<bucket, ref>> /\ pc' = "loop"
    BY <1>7, NextStoreIntegrity DEF Copy
  <2>4. store'[osVersion][ref] # Absent
    <3>1. store'[osVersion][ref] = AfterCopy(store[osVersion][ref], src)
      BY <1>1, <1>7, <2>2 DEF Copy, SetFile, TypeOK
    <3>2. src # Absent
      BY <2>1, CopyTarget, InstallAssumption
    <3> QED
      BY <3>1, <3>2, InstallAssumption DEF AfterCopy
  <2>5. store'[osVersion][ref] # Damaged
    BY <2>1, <2>2, <2>3 DEF DamagedInv
  <2>6. \A o \in OSVersion : /\ LocFor(o, ref) # NoLocation
                              /\ store'[o][ref] \notin {Absent, Damaged}
                              => Ready(o, ref)'
    BY <2>2, <2>3 DEF StoreIntegrity, Ready, LocFor
  <2>7. PICK o \in OSVersion : o = osVersion
    BY <2>2
  <2>8. Ready(o, ref)'
    BY <2>2, <2>4, <2>5, <2>6, <2>7
  <2> QED
    BY <1>4, <1>7, <2>1, <2>7, <2>8 DEF Copy, osVersion
<1>8. CASE NewCall
  BY <1>1, <1>8 DEF NewCall, Call, StageInv, LoopInv
<1>9. ~ OpenDestFails
  BY DEF OpenDestFails, CopiesComplete, Fault
<1>10. CASE StartFetch \/ FindExisting \/ Download \/ OpenDest
  BY <1>3, <1>10 DEF StartFetch, FindExisting, Download, OpenDest, InLoop
<1>11. CASE UNCHANGED vars
  BY <1>2, <1>3, <1>11 DEF vars
<1>12. CASE OperatorSelects
  BY <1>2, <1>12 DEF OperatorSelects
<1>13. CASE ManifestFails \/ NoLocationKnown \/ DownloadFails \/ MkdirFails
            \/ CopyFails \/ TorcxFails \/ Crash \/ Exit
  BY <1>2, <1>13 DEF ManifestFails, NoLocationKnown, DownloadFails,
     MkdirFails, CopyFails, TorcxFails, Crash, Exit, ReturnError, ProcessGone, CallOver
<1>14. CASE ListProfiles \/ NewProfile \/ UseImage \/ SetNext
  BY <1>2, <1>14 DEF ListProfiles, NewProfile, UseImage, SetNext
<1> QED
  BY <1>5, <1>6, <1>7, <1>8, <1>9, <1>10, <1>11, <1>12, <1>13, <1>14
     DEF Next, InstallStep

(* A call that has succeeded left all of them ready.                      *)
LEMMA NextDoneInv ==
  ASSUME IInv, LoopInv, DoneInv, [Next]_vars
  PROVE  DoneInv'
<1> DEFINE Stages == {"newProfile", "useImage", "setNext", "ok"}
<1>1. TypeOK /\ StageInv
  BY DEF IInv
<1>2. CASE pc' \notin Stages
  BY <1>2 DEF DoneInv
<1>3. ASSUME TargetsReady(ref), UNCHANGED <<osVersions, ref>>
      PROVE  TargetsReady(ref)'
  <2>1. Len(osVersions) \in Nat /\ DOMAIN osVersions = 1 .. Len(osVersions)
    BY <1>1 DEF TypeOK
  <2>2. \A i \in 1 .. Len(osVersions) :
          i < Len(osVersions) + 1 => Ready(osVersions[i], ref)
    BY <1>3, <2>1 DEF TargetsReady
  <2>3. \A i \in 1 .. Len(osVersions) :
          i < Len(osVersions) + 1 => Ready(osVersions[i], ref)'
    BY <1>3, <2>2, TargetsKept
  <2> QED
    BY <1>3, <2>1, <2>3 DEF TargetsReady
<1>4. CASE ListProfiles
  <2>1. Len(osVersions) \in Nat /\ DOMAIN osVersions = 1 .. Len(osVersions)
    BY <1>1 DEF TypeOK
  <2>2. pos \in Nat /\ pos > Len(osVersions) /\ pc = "loop"
    BY <1>1, <1>4 DEF ListProfiles, LoopDone, TypeOK
  <2>3. TargetsReady(ref)
    BY <2>1, <2>2 DEF LoopInv, TargetsReady
  <2> QED
    BY <1>3, <1>4, <2>3 DEF ListProfiles, DoneInv
<1>5. CASE NewProfile
  BY <1>3, <1>5 DEF NewProfile, DoneInv
<1>6. CASE UseImage
  <2>1. profile \in Profile /\ image \in [Profile \cup {Vendor} -> Ref \cup {NoImage}]
    BY <1>1, <1>6 DEF UseImage, StageInv, TypeOK
  <2>2. image'[profile'] = ref'
    BY <1>6, <2>1 DEF UseImage
  <2> QED
    BY <1>3, <1>6, <2>2 DEF UseImage, DoneInv
<1>7. CASE SetNext
  BY <1>3, <1>7 DEF SetNext, DoneInv
<1>8. CASE UNCHANGED vars
  BY <1>2, <1>3, <1>8 DEF vars, DoneInv
<1>9. CASE SkipInstalled \/ ManifestFails \/ NoLocationKnown \/ SkipOnDisk
           \/ StartFetch \/ FindExisting \/ Download \/ DownloadFails
           \/ MkdirFails \/ OpenDestFails \/ OpenDest \/ Copy \/ CopyFails
           \/ TorcxFails
  BY <1>2, <1>9
     DEF SkipInstalled, ManifestFails, NoLocationKnown, SkipOnDisk, StartFetch,
         FindExisting, Download, DownloadFails, MkdirFails, OpenDestFails,
         OpenDest, Copy, CopyFails, TorcxFails, ReturnError, InLoop
<1>10. CASE NewCall \/ OperatorSelects \/ Crash \/ Exit
  BY <1>2, <1>10 DEF NewCall, Call, OperatorSelects, Crash, Exit, ProcessGone, CallOver
<1> QED
  BY <1>4, <1>5, <1>6, <1>7, <1>8, <1>9, <1>10 DEF Next, InstallStep

(* So what is ready, and how far the loop is, agree at all times.         *)
THEOREM ReadyInvariant ==
  ASSUME CopiesComplete, DiskMeansVendor
  PROVE  Spec => []ReadyInv
<1>1. Init => ReadyInv
  <2> SUFFICES ASSUME Init PROVE ReadyInv
    OBVIOUS
  <2>1. DamagedInv
    BY InstallAssumption DEF Init, DamagedInv
  <2> QED
    BY <2>1 DEF Init, ReadyInv, LoopInv, DoneInv
<1>2. IInv /\ ReadyInv /\ [Next]_vars => ReadyInv'
  BY NextDamagedInv, NextLoopInv, NextDoneInv DEF ReadyInv
<1> QED
  BY <1>1, <1>2, InductiveInvariant, PTL DEF Spec

(* If copies complete, InstallAddon returns nil only when its docker      *)
(* version is available to every OS version it was asked to serve,        *)
(* whatever else failed in this call or in an earlier one.                *)
THEOREM SuccessMeansUsable ==
  ASSUME CopiesComplete, DiskMeansVendor
  PROVE  Spec => []InstalledMeansUsable
<1>1. ReadyInv => InstalledMeansUsable
  BY DEF ReadyInv, DoneInv, InstalledMeansUsable
<1> QED
  BY <1>1, ReadyInvariant, PTL

(* The docker version of the next boot changes to that of the call, when  *)
(* every OS version of the call is ready for it.                          *)
LEMMA SwitchStep ==
  ASSUME IInv, ReadyInv, [Next]_vars, pc # "idle", BootImage' # BootImage
  PROVE  BootImage' = ref /\ TargetsReady(ref)
<1>1. TypeOK
  BY DEF IInv
<1>2. CASE UNCHANGED <<image, nextProfile>>
  BY <1>2 DEF BootImage, Selected
<1>3. CASE UseImage
  <2>1. BootImage' = ref
    BY <1>1, <1>3 DEF UseImage, BootImage, Selected, TypeOK
  <2> QED
    BY <1>3, <2>1 DEF UseImage, ReadyInv, DoneInv
<1>4. CASE SetNext
  <2>1. profile \in Profile /\ image[profile] = ref
    BY <1>4 DEF SetNext, IInv, StageInv, ReadyInv, DoneInv
  <2>2. BootImage' = ref
    BY <1>4, <2>1, InstallAssumption DEF SetNext, BootImage, Selected
  <2> QED
    BY <1>4, <2>2 DEF SetNext, ReadyInv, DoneInv
<1> QED
  BY <1>2, <1>3, <1>4
     DEF Next, InstallStep, NewCall, Call, OperatorSelects, Crash, Exit,
         ProcessGone, CallOver, SkipInstalled, ManifestFails, NoLocationKnown,
         SkipOnDisk, StartFetch, FindExisting, Download, DownloadFails,
         MkdirFails, OpenDestFails, OpenDest, Copy, CopyFails, ListProfiles,
         NewProfile, TorcxFails, ReturnError, vars

(* Under the same conditions the next boot is switched to another docker  *)
(* version only when that version is available.                           *)
THEOREM SwitchIsSafe ==
  ASSUME CopiesComplete, DiskMeansVendor
  PROVE  Spec => SwitchOnlyWhenReady
<1> DEFINE A == pc # "idle" /\ BootImage' # BootImage
                  => TargetsReady(BootImage')
<1>1. IInv /\ ReadyInv /\ [Next]_vars => [A]_vars
  BY SwitchStep
<1> QED
  BY <1>1, InductiveInvariant, ReadyInvariant, PTL
     DEF Spec, SwitchOnlyWhenReady
-----------------------------------------------------------------------------
(* An operator's profile stays selected, and no profile but the one in    *)
(* use is changed, whatever fails and however often InstallAddon runs.    *)
THEOREM OperatorProfileIsKept == Spec => OperatorProfileKept
<1> DEFINE A == pc # "idle" =>
       LET ours == IF Selected THEN nextProfile ELSE ProfileName
       IN  /\ nextProfile' \in {nextProfile, ours}
           /\ \A p \in (Profile \cup {Vendor}) \ {ours} : image'[p] = image[p]
<1>1. IInv /\ [Next]_vars => [A]_vars
  <2> SUFFICES ASSUME IInv, [Next]_vars, pc # "idle"
               PROVE  /\ nextProfile' \in {nextProfile, ProfileToUse}
                      /\ \A p \in (Profile \cup {Vendor}) \ {ProfileToUse} :
                           image'[p] = image[p]
    BY DEF ProfileToUse
  <2>1. CASE UNCHANGED <<image, nextProfile>>
    BY <2>1
  <2>2. CASE UseImage
    <3>1. profile = ProfileToUse
          /\ image \in [Profile \cup {Vendor} -> Ref \cup {NoImage}]
      BY <2>2 DEF UseImage, IInv, StageInv, TypeOK
    <3> QED
      BY <2>2, <3>1 DEF UseImage
  <2>3. CASE SetNext
    BY <2>3 DEF SetNext, IInv, StageInv
  <2> QED
    BY <2>1, <2>2, <2>3
       DEF Next, InstallStep, NewCall, Call, OperatorSelects, Crash, Exit,
           ProcessGone, CallOver, SkipInstalled, ManifestFails, NoLocationKnown,
           SkipOnDisk, StartFetch, FindExisting, Download, DownloadFails,
           MkdirFails, OpenDestFails, OpenDest, Copy, CopyFails, ListProfiles,
           NewProfile, TorcxFails, ReturnError, vars
<1> QED
  BY <1>1, InductiveInvariant, PTL DEF Spec, OperatorProfileKept
-----------------------------------------------------------------------------
(***************************************************************************)
(* InstallAddon implements AtomicInstall, again with complete copies and   *)
(* images on disk in the vendor store only.                                *)
(***************************************************************************)

(* The mapping has the types that AtomicInstall expects.                  *)
LEMMA ContractTypes ==
  ASSUME TypeOK
  PROVE  /\ ToSet(osVersions) \in SUBSET OSVersion
         /\ Usable \in [OSVersion -> SUBSET Ref]
         /\ BootImage \in Ref \cup {NoImage}
<1>1. ToSet(osVersions) \in SUBSET OSVersion
  BY DEF TypeOK, ToSet
<1>2. Usable \in [OSVersion -> SUBSET Ref]
  BY DEF Usable
<1>3. BootImage \in Ref \cup {NoImage}
  BY DEF TypeOK, BootImage, Selected
<1> QED
  BY <1>1, <1>2, <1>3

(* When the targets of the call are ready, its docker version is usable   *)
(* for each of them.                                                      *)
LEMMA TargetsUsable ==
  ASSUME TypeOK, TargetsReady(ref)
  PROVE  \A o \in ToSet(osVersions) : ref \in Usable[o]
<1> SUFFICES ASSUME NEW o \in ToSet(osVersions) PROVE ref \in Usable[o]
  OBVIOUS
<1>1. PICK i \in DOMAIN osVersions : osVersions[i] = o
  BY DEF ToSet
<1>2. o \in OSVersion /\ ref \in Ref
  BY <1>1 DEF TypeOK
<1> QED
  BY <1>1, <1>2 DEF TargetsReady, Usable

(* What is usable depends on the manifests and the store alone.           *)
LEMMA UsableUnchanged ==
  ASSUME UNCHANGED <<bucket, store>>
  PROVE  Usable' = Usable
  BY DEF Usable, Ready, LocFor

(* Opening a store file makes nothing usable, nor the contrary.           *)
LEMMA OpenedUsable ==
  ASSUME IInv, OpenDest
  PROVE  Usable' = Usable
<1>1. TypeOK /\ bucket' = bucket
  BY DEF IInv, OpenDest
<1>2. osVersion \in OSVersion /\ ref \in Ref /\ pc = "open"
  BY CopyTarget DEF OpenDest
<1>3. \A o \in OSVersion, r \in Ref :
        store'[o][r] = IF o = osVersion /\ r = ref
                       THEN AfterOpen(store[o][r]) ELSE store[o][r]
  BY <1>1, <1>2 DEF OpenDest, SetFile, TypeOK
<1>4. ASSUME NEW o \in OSVersion, NEW r \in Ref
      PROVE  Ready(o, r)' <=> Ready(o, r)
  <2>1. LocFor(o, r)' = LocFor(o, r)
    BY <1>1 DEF LocFor
  <2>2. LocFor(o, r) # NoLocation => LocFor(o, r).hash \in Hash
    <3>1. LocFor(o, r) # NoLocation => LocFor(o, r) \in Location
      BY <1>1, LocForType DEF TypeOK
    <3> QED
      BY <3>1 DEF Location
  <2>3. LocFor(o, r) # NoLocation =>
          (store'[o][r] = LocFor(o, r).hash <=> store[o][r] = LocFor(o, r).hash)
    BY <1>3, <2>2, InstallAssumption DEF AfterOpen
  <2> QED
    BY <2>1, <2>3 DEF Ready
<1> QED
  BY <1>4 DEF Usable

(* A copy makes the docker of the call usable for one of its OS versions. *)
LEMMA CopiedUsable ==
  ASSUME CopiesComplete, DiskMeansVendor, IInv, ReadyInv, Copy
  PROVE  /\ osVersion \in ToSet(osVersions)
         /\ Usable' = [Usable EXCEPT ![osVersion] = @ \cup {ref}]
<1>1. TypeOK /\ pc = "write" /\ bucket' = bucket /\ [Next]_vars
  BY DEF IInv, Copy, Next, InstallStep
<1>2. osVersion \in OSVersion /\ ref \in Ref
      /\ LocFor(osVersion, ref) # NoLocation
      /\ src = LocFor(osVersion, ref).hash
  BY <1>1, CopyTarget
<1>3. store[osVersion][ref] \in {Damaged, src}
  BY <1>1, <1>2 DEF IInv, StageInv, StoreIntegrity
<1>4. \A o \in OSVersion, r \in Ref :
        store'[o][r] = IF o = osVersion /\ r = ref THEN src ELSE store[o][r]
  BY <1>1, <1>2, <1>3 DEF Copy, SetFile, AfterCopy, TypeOK
<1>5. \A o \in OSVersion, r \in Ref :
        Ready(o, r)' <=> Ready(o, r) \/ (o = osVersion /\ r = ref)
  BY <1>1, <1>2, <1>4 DEF Ready, LocFor
<1>6. Usable' = [o \in OSVersion |->
                   IF o = osVersion THEN {r \in Ref : Ready(o, r)} \cup {ref}
                                    ELSE {r \in Ref : Ready(o, r)}]
  BY <1>2, <1>5 DEF Usable
<1>7. osVersion \in ToSet(osVersions)
  <2>1. pos \in DOMAIN osVersions
    BY <1>1 DEF IInv, StageInv, TypeOK
  <2> QED
    BY <2>1 DEF osVersion, ToSet
<1>8. Usable' = [Usable EXCEPT ![osVersion] = @ \cup {ref}]
  BY <1>2, <1>6 DEF Usable
<1> QED
  BY <1>7, <1>8

(* Each step of InstallAddon is one of the contract, or none of its       *)
(* business.                                                              *)
LEMMA InstallStepRefines ==
  ASSUME CopiesComplete, DiskMeansVendor, IInv, ReadyInv, InstallStep
  PROVE  [Contract!Next]_Contract!vars
<1>1. TypeOK /\ [Next]_vars /\ UNCHANGED <<bucket, ref, osVersions>>
  BY DEF IInv, Next, InstallStep, SkipInstalled, ManifestFails, NoLocationKnown,
         SkipOnDisk, StartFetch, FindExisting, Download, DownloadFails, MkdirFails,
         OpenDestFails, OpenDest, Copy, CopyFails, ListProfiles, NewProfile,
         UseImage, SetNext, TorcxFails, ReturnError
<1>2. ~ CopyFails
  BY DEF CopyFails, CopiesComplete, Fault
<1>3. SkipInstalled \/ SkipOnDisk \/ StartFetch \/ FindExisting \/ Download
        \/ OpenDestFails \/ ListProfiles \/ NewProfile
        => UNCHANGED <<CallState, store, BootImage>>
  BY DEF SkipInstalled, SkipOnDisk, StartFetch, FindExisting, Download,
         OpenDestFails, ListProfiles, NewProfile, InLoop, LoopDone, CallState,
         BootImage, Selected
<1>4. UNCHANGED <<CallState, store, BootImage>> => UNCHANGED Contract!vars
  BY <1>1, UsableUnchanged DEF Contract!vars
<1>5. CASE OpenDest
  <2>1. UNCHANGED <<CallState, BootImage>>
    BY <1>5 DEF OpenDest, CallState, BootImage, Selected
  <2> QED
    BY <1>1, <1>5, <2>1, OpenedUsable DEF Contract!vars
<1>6. CASE Copy
  <2>1. UNCHANGED <<CallState, BootImage>> /\ CallState = "busy"
    BY <1>6 DEF Copy, CallState, BootImage, Selected
  <2>2. \E o \in ToSet(osVersions) : Usable' = [Usable EXCEPT ![o] = @ \cup {ref}]
    BY <1>6, CopiedUsable
  <2>3. Contract!Provide
    BY <1>1, <2>1, <2>2 DEF Contract!Provide
  <2> QED
    BY <2>3 DEF Contract!Next
<1>7. CASE UseImage
  <2>1. CallState = "busy" /\ CallState' = "busy" /\ store' = store
    BY <1>7 DEF UseImage, CallState
  <2>2. CASE BootImage' = BootImage
    BY <1>4, <2>1, <2>2
  <2>3. CASE BootImage' # BootImage
    <3>1. BootImage' = ref /\ TargetsReady(ref)
      BY <1>1, <1>7, <2>3, SwitchStep DEF UseImage
    <3>2. Contract!Switch
      BY <1>1, <2>1, <3>1, TargetsUsable, UsableUnchanged DEF Contract!Switch
    <3> QED
      BY <3>2 DEF Contract!Next
  <2> QED
    BY <2>2, <2>3
<1>8. CASE SetNext
  <2>1. CallState = "busy" /\ CallState' = "ok" /\ store' = store
    BY <1>8 DEF SetNext, CallState
  <2>2. profile \in Profile /\ image[profile] = ref /\ TargetsReady(ref)
    BY <1>8 DEF SetNext, IInv, StageInv, ReadyInv, DoneInv
  <2>3. BootImage' = ref
    BY <1>8, <2>2, InstallAssumption DEF SetNext, BootImage, Selected
  <2>4. Contract!Switch
    BY <1>1, <2>1, <2>2, <2>3, TargetsUsable, UsableUnchanged DEF Contract!Switch
  <2> QED
    BY <2>4 DEF Contract!Next
<1>9. CASE ManifestFails \/ NoLocationKnown \/ DownloadFails \/ MkdirFails \/ TorcxFails
  <2>1. CallState = "busy" /\ CallState' = "failed"
    BY <1>9 DEF ManifestFails, NoLocationKnown, DownloadFails, MkdirFails,
                TorcxFails, ReturnError, InLoop, LoopDone, CallState
  <2>2. UNCHANGED <<store, BootImage>>
    BY <1>9 DEF ManifestFails, NoLocationKnown, DownloadFails, MkdirFails,
                TorcxFails, ReturnError, BootImage, Selected
  <2>3. Contract!Fail
    BY <1>1, <2>1, <2>2, UsableUnchanged DEF Contract!Fail
  <2> QED
    BY <2>3 DEF Contract!Next
<1> QED
  BY <1>2, <1>3, <1>4, <1>5, <1>6, <1>7, <1>8, <1>9 DEF InstallStep

(* So is the call itself ...                                              *)
LEMMA CallRefines ==
  ASSUME TypeOK, NEW r \in Ref, NEW os \in Seq(OSVersion), Call(r, os)
  PROVE  Contract!Call
<1>1. CallState = "idle" /\ CallState' = "busy"
  BY DEF Call, CallState
<1>2. ref' \in Ref /\ ToSet(osVersions)' \in SUBSET OSVersion
  BY DEF Call, ToSet
<1>3. UNCHANGED <<Usable, BootImage>>
  BY UsableUnchanged DEF Call, BootImage, Selected
<1> QED
  BY <1>1, <1>2, <1>3 DEF Contract!Call

(* ... and its end, in order or with the process.                         *)
LEMMA EndRefines ==
  ASSUME IInv, CallOver
  PROVE  [Contract!Next]_Contract!vars
<1>1. UNCHANGED <<ref, Usable, BootImage>> /\ CallState' = "idle"
  BY UsableUnchanged DEF CallOver, CallState, BootImage, Selected
<1>2. ToSet(osVersions)' = {}
  BY DEF CallOver, ToSet
<1>3. CASE pc = "idle"
  <2>1. CallState = "idle" /\ ToSet(osVersions) = {}
    BY <1>3 DEF IInv, StageInv, CallState, ToSet
  <2> QED
    BY <1>1, <1>2, <2>1 DEF Contract!vars
<1>4. CASE pc # "idle"
  <2>1. CallState # "idle"
    BY <1>4 DEF CallState
  <2> QED
    BY <1>1, <1>2, <2>1 DEF Contract!Next, Contract!End
<1> QED
  BY <1>3, <1>4

(* What happens between calls is up to the others.                        *)
LEMMA SelectRefines ==
  ASSUME IInv, OperatorSelects
  PROVE  Contract!OthersAct
<1>1. CallState = "idle" /\ CallState' = "idle" /\ UNCHANGED <<Usable, ref, osVersions>>
  BY UsableUnchanged DEF OperatorSelects, CallState
<1>2. Usable \in [OSVersion -> SUBSET Ref] /\ TypeOK
  BY ContractTypes DEF IInv
<1>3. BootImage' \in Ref \cup {NoImage}
  BY <1>2 DEF OperatorSelects, TypeOK, BootImage, Selected
<1> QED
  BY <1>1, <1>2, <1>3 DEF Contract!OthersAct

(* The contract begins where InstallAddon does.                           *)
LEMMA InitRefines == Init => Contract!Init
<1> SUFFICES ASSUME Init PROVE Contract!Init
  OBVIOUS
<1>1. TypeOK
  BY InitIInv DEF IInv
<1>2. CallState = "idle" /\ ToSet(osVersions) = {} /\ ref \in Ref
  BY DEF Init, CallState, ToSet
<1> QED
  BY <1>1, <1>2, ContractTypes DEF Contract!Init

(* Every step of TorcxInstall is a step of the contract, or none.         *)
LEMMA NextRefines ==
  ASSUME CopiesComplete, DiskMeansVendor, IInv, ReadyInv, [Next]_vars
  PROVE  [Contract!Next]_Contract!vars
<1>1. CASE NewCall
  <2>1. PICK r \in Ref, os \in Targets : Call(r, os)
    BY <1>1 DEF NewCall
  <2>2. os \in Seq(OSVersion)
    <3>1. PICK n \in 1 .. MaxTargets : os \in [1 .. n -> OSVersion]
      BY DEF Targets
    <3> QED
      BY <3>1, InstallAssumption
  <2> QED
    BY <2>1, <2>2, CallRefines DEF IInv, Contract!Next
<1>2. CASE OperatorSelects
  BY <1>2, SelectRefines DEF Contract!Next
<1>3. CASE Crash \/ Exit
  BY <1>3, EndRefines DEF Crash, Exit, ProcessGone
<1>4. CASE UNCHANGED vars
  BY <1>4, UsableUnchanged DEF vars, Contract!vars, CallState, BootImage, Selected
<1> QED
  BY <1>1, <1>2, <1>3, <1>4, InstallStepRefines DEF Next

(* However many calls there are, and wherever they fail or are killed:    *)
(* InstallAddon is one atomic switch of the next boot, made after what it *)
(* needs has been provided, and nothing is lost on the way.               *)
THEOREM InstallImplementsContract ==
  ASSUME CopiesComplete, DiskMeansVendor
  PROVE  Spec => InstallIsAtomic
  BY NextRefines, InitRefines, InductiveInvariant, ReadyInvariant, PTL
     DEF Spec, InstallIsAtomic, Contract!Spec
=============================================================================
