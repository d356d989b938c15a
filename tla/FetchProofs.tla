----------------------------- MODULE FetchProofs -----------------------------
(***************************************************************************)
(* Fetch: what is relied on and handed on is signed, when a temporary      *)
(* file may stay behind, and no program fails without a cause, for any     *)
(* number of OS versions, republications and tries.                        *)
(***************************************************************************)
EXTENDS Fetch, TLAPS

(* The signature that gpgVerify will see has been published.              *)
SignaturePublished ==
  pc = "parse" /\ ~noVerifySig /\ asc \in Generation =>
    asc <= bucket[osVersion]["asc"]

(* The image that is handed on is that of the cached manifest.            *)
HandedImageFits ==
  pc = "fetched" => tmpfile = cache[osVersion] /\ tmpfile \in Generation

(* There is a temporary file only from FetchAddon to copyToStore, unless  *)
(* copyToStore has left one.                                              *)
NoFile ==
  inTmp /\ "open" \notin cause
    => (pc \in {"idle", "failed", "manifest", "asc", "parse"} => tmpfile = None)

(* misses counts what retry counts.                                       *)
Missed ==
  /\ pc \in Object => misses = tries - 1
  /\ pc \notin Object \cup {"failed"} => misses = 0

(* Only a manifest that is not cached is fetched.                         *)
NotCached == pc \in {"manifest", "asc", "parse"} => cache[osVersion] = None

(* Images are fetched for a manifest.                                     *)
ImageOfManifest == pc \in {"image", "validate"} => cache[osVersion] # None

(* While nothing has gone wrong the bucket is at rest and all that has    *)
(* been read is what it holds.                                            *)
Rest(o) == bucket[o]["asc"]

Quiet ==
  cause = {} =>
    /\ \A o \in OSVersion, b \in Object : bucket[o][b] = Rest(o)
    /\ \A o \in OSVersion : cache[o] \in {None, Rest(o)}
    /\ pc \in {"asc", "parse"} => manifest = Rest(osVersion)
    /\ pc = "parse" /\ ~noVerifySig => asc = Rest(osVersion)
    /\ pc = "validate" => tmpfile = Rest(osVersion)

IInv ==
  /\ FetchTypeOK /\ SignaturePublished /\ CachedIsSigned
  /\ HandedImageFits /\ NoFile /\ NotCached
  /\ Missed /\ ImageOfManifest /\ Quiet /\ FailsForCause

-----------------------------------------------------------------------------
(* No marker is a generation, and there is at least one try.              *)
LEMMA ConstantFacts ==
  /\ Cut # None /\ Cut \notin Generation /\ None \notin Generation
  /\ 1 \in Generation /\ 1 \in 1 .. Tries /\ Tries \in 0 .. Tries
  /\ Tries \in Nat /\ Generation \subseteq Nat
BY FetchAssumption DEF Generation

(* It holds at the start.                                                 *)
LEMMA InitInv == Init => IInv
<1> SUFFICES ASSUME Init PROVE IInv
  OBVIOUS
<1> USE ConstantFacts
<1>1. FetchTypeOK
  <2>1. bucket \in [OSVersion -> [Object -> Generation]]
    BY DEF Init
  <2>2. cache \in [OSVersion -> Generation \cup {None}]
    BY DEF Init
  <2>3. tries \in 1 .. Tries /\ misses \in 0 .. Tries
    BY DEF Init
  <2> QED
    BY <2>1, <2>2, <2>3 DEF Init, FetchTypeOK, Object
<1>2. SignaturePublished /\ CachedIsSigned /\ HandedImageFits /\ NoFile
        /\ NotCached /\ Missed /\ ImageOfManifest /\ FailsForCause
  BY DEF Init, SignaturePublished, CachedIsSigned, HandedImageFits, NoFile,
         NotCached, Missed, ImageOfManifest, FailsForCause, Object
<1>3. Quiet
  BY DEF Init, Quiet, Rest, Object
<1> QED
  BY <1>1, <1>2, <1>3 DEF IInv

-----------------------------------------------------------------------------
(* Types *)
LEMMA TypeStep == FetchTypeOK /\ [Next]_vars => FetchTypeOK'
<1> SUFFICES ASSUME FetchTypeOK, [Next]_vars PROVE FetchTypeOK'
  OBVIOUS
<1> USE ConstantFacts
<1>t. /\ bucket \in [OSVersion -> [Object -> Generation]]
      /\ cache \in [OSVersion -> Generation \cup {None}]
      /\ tries \in 1 .. Tries /\ misses \in 0 .. Tries
  BY DEF FetchTypeOK
<1>1. CASE Publish
  <2>1. PICK o \in OSVersion, b \in Object :
          /\ bucket[o][b] < MaxGeneration
          /\ bucket' = [bucket EXCEPT ![o][b] = @ + 1]
    BY <1>1 DEF Publish
  <2>2. bucket[o][b] + 1 \in Generation
    <3>1. bucket[o][b] \in Generation
      BY <1>t
    <3> QED
      BY <2>1, <3>1, FetchAssumption DEF Generation
  <2>3. bucket' \in [OSVersion -> [Object -> Generation]]
    BY <1>t, <2>1, <2>2
  <2>4. cause' \subseteq {"published", "response", "open", "disk"}
    BY <1>1 DEF Publish, FetchTypeOK
  <2> QED
    BY <1>1, <2>3, <2>4 DEF Publish, FetchTypeOK, settings, buffers
<1>2. CASE NewProgram
  <2>1. cache' \in [OSVersion -> Generation \cup {None}]
    BY <1>2 DEF NewProgram
  <2>2. misses' \in 0 .. Tries
    BY <1>2 DEF NewProgram
  <2>3. cause' \subseteq {"published", "response", "open", "disk"}
    BY <1>2 DEF NewProgram
  <2> QED
    BY <1>2, <2>1, <2>2, <2>3 DEF NewProgram, FetchTypeOK, settings, buffers, Object
<1>3. CASE GetPackageManifest
  BY <1>3 DEF GetPackageManifest, FetchTypeOK, settings, Object
<1>4. CASE FetchAddon
  BY <1>4 DEF FetchAddon, FetchTypeOK, settings, buffers, Object, Body
<1>5. CASE GetError
  <2>1. misses' \in 0 .. Tries
    BY <1>5, <1>t DEF GetError
  <2>2. CASE LastTry
    BY <1>5, <2>1, <2>2
    DEF GetError, Fails, Cleanup, FetchTypeOK, settings, buffers, Object
  <2>3. CASE ~LastTry
    <3>1. tries' \in 1 .. Tries /\ pc' = pc /\ tmpfile' = tmpfile
      BY <1>5, <1>t, <2>3 DEF GetError, NextTry, LastTry
    <3> QED
      BY <1>5, <2>1, <3>1 DEF GetError, FetchTypeOK, settings, buffers
  <2> QED
    BY <2>2, <2>3
<1>6. CASE BadResponse
  <2>1. misses' \in 0 .. Tries
    BY <1>6 DEF BadResponse
  <2> QED
    BY <1>6, <2>1 DEF BadResponse, Fails, Cleanup, FetchTypeOK, settings, buffers, Object
<1>7. CASE Response
  <2>1. pc \in Object /\ bucket[osVersion][pc] \in Generation
    BY <1>7, <1>t DEF Response, FetchTypeOK
  <2>2. PICK body \in {bucket[osVersion][pc], Cut} :
          /\ manifest' = IF pc = "manifest" THEN body ELSE manifest
          /\ asc'      = IF pc = "asc"      THEN body ELSE asc
          /\ tmpfile'  = IF pc = "image"    THEN body ELSE tmpfile
          /\ cause'    = IF body = Cut THEN cause \cup {"response"} ELSE cause
    BY <1>7 DEF Response
  <2>3. {manifest', asc', tmpfile'} \subseteq Body \cup {None}
    BY <2>1, <2>2 DEF FetchTypeOK, Body
  <2>4. pc' \in {"asc", "parse", "validate"}
    BY <1>7, <2>1 DEF Response, AfterBody, Object
  <2>5. misses' \in 0 .. Tries /\ tries' \in 1 .. Tries /\ tries' = 1
    BY <1>7 DEF Response
  <2>6. cause' \subseteq {"published", "response", "open", "disk"}
    BY <2>2 DEF FetchTypeOK
  <2> QED
    BY <1>7, <2>3, <2>4, <2>5, <2>6 DEF Response, FetchTypeOK, settings, Object
<1>8. CASE ParseManifest
  <2>1. CASE Verified /\ manifest # Cut
    <3>1. manifest \in Generation \cup {None}
      BY <2>1 DEF FetchTypeOK, Body
    <3>2. cache' \in [OSVersion -> Generation \cup {None}]
      BY <1>8, <1>t, <2>1, <3>1 DEF ParseManifest
    <3> QED
      BY <1>8, <2>1, <3>2 DEF ParseManifest, FetchTypeOK, settings, buffers, Object
  <2>2. CASE ~(Verified /\ manifest # Cut)
    BY <1>8, <2>2
    DEF ParseManifest, Fails, Cleanup, FetchTypeOK, settings, buffers, Object
  <2> QED
    BY <2>1, <2>2
<1>9. CASE Validate
  <2>1. tries = 1
    BY <1>9 DEF Validate, FetchTypeOK, Object
  <2> QED
    BY <1>9, <2>1 DEF Validate, Fails, Cleanup, FetchTypeOK, settings, buffers, Object
<1>10. CASE CopyToStore
  <2>1. cause' \subseteq {"published", "response", "open", "disk"}
    BY <1>10 DEF CopyToStore, FetchTypeOK
  <2> QED
    BY <1>10, <2>1 DEF CopyToStore, FetchTypeOK, settings, buffers, Object
<1>11. CASE UNCHANGED vars
  BY <1>11 DEF vars, settings, buffers, FetchTypeOK
<1> QED
  BY <1>1, <1>2, <1>3, <1>4, <1>5, <1>6, <1>7, <1>8, <1>9, <1>10, <1>11
  DEF Next, Calls

-----------------------------------------------------------------------------
(* Signatures and digests *)

(* Published generations only grow.                                       *)
LEMMA BucketGrows ==
  ASSUME FetchTypeOK, [Next]_vars, NEW o \in OSVersion
  PROVE  /\ bucket[o]["asc"] \in Nat /\ bucket'[o]["asc"] \in Nat
         /\ bucket[o]["asc"] <= bucket'[o]["asc"]
<1>1. \A p \in OSVersion, b \in Object : bucket[p][b] \in Generation
  BY DEF FetchTypeOK
<1>2. bucket[o]["asc"] \in Nat
  BY <1>1, ConstantFacts DEF Object
<1>3. CASE Publish
  <2>1. PICK p \in OSVersion, b \in Object :
          bucket' = [bucket EXCEPT ![p][b] = @ + 1]
    BY <1>3 DEF Publish
  <2>2. bucket'[o]["asc"] \in {bucket[o]["asc"], bucket[o]["asc"] + 1}
    BY <2>1 DEF FetchTypeOK, Object
  <2> QED
    BY <1>2, <2>2
<1>4. CASE bucket' = bucket
  BY <1>2, <1>4
<1> QED
  BY <1>3, <1>4
  DEF Next, Calls, vars, NewProgram, GetPackageManifest, FetchAddon, GetError,
      BadResponse, Response, ParseManifest, Validate, CopyToStore

(* What was verified stays published: the bucket only grows.              *)
LEMMA SignatureStep ==
  FetchTypeOK /\ SignaturePublished /\ [Next]_vars => SignaturePublished'
<1> SUFFICES ASSUME FetchTypeOK, SignaturePublished, [Next]_vars,
                    pc' = "parse", ~noVerifySig', asc' \in Generation
             PROVE  asc' <= bucket'[osVersion']["asc"]
  BY DEF SignaturePublished, Generation
<1>t. osVersion \in OSVersion /\ noVerifySig' = noVerifySig
        /\ Generation \subseteq Nat
  BY ConstantFacts
  DEF FetchTypeOK, Next, Calls, vars, settings, Publish, NewProgram,
      GetPackageManifest, FetchAddon, GetError, BadResponse, Response,
      ParseManifest, Validate, CopyToStore
<1>1. CASE Response
  <2>1. pc = "asc"
    BY <1>1, <1>t DEF Response, AfterBody, Object
  <2>2. asc' \in {bucket[osVersion]["asc"], Cut}
    BY <1>1, <2>1 DEF Response
  <2>3. asc' = bucket[osVersion]["asc"]
    BY <2>2, ConstantFacts
  <2>4. UNCHANGED <<bucket, osVersion>>
    BY <1>1 DEF Response
  <2> QED
    BY <1>t, <2>3, <2>4
<1>2. CASE ~Response
  <2>1. pc = "parse" /\ UNCHANGED <<osVersion, asc>>
    BY <1>2
    DEF Next, Calls, vars, settings, buffers, Publish, NewProgram, GetPackageManifest,
        FetchAddon, GetError, Fails, BadResponse, ParseManifest, Validate,
        CopyToStore, Object
  <2>2. asc <= bucket[osVersion]["asc"]
    BY <1>t, <2>1 DEF SignaturePublished
  <2>3. bucket[osVersion]["asc"] \in Nat /\ bucket'[osVersion]["asc"] \in Nat
          /\ bucket[osVersion]["asc"] <= bucket'[osVersion]["asc"]
    BY <1>t, BucketGrows
  <2>4. asc \in Nat
    BY <1>t, <2>1
  <2> HIDE DEF Generation
  <2> QED
    BY <2>1, <2>2, <2>3, <2>4
<1> QED
  BY <1>1, <1>2

(* What a program adds to its cache has just been verified.               *)
LEMMA CachedStep ==
  FetchTypeOK /\ SignaturePublished /\ CachedIsSigned /\ [Next]_vars
    => CachedIsSigned'
<1> SUFFICES ASSUME FetchTypeOK, SignaturePublished, CachedIsSigned, [Next]_vars,
                    ~noVerifySig', NEW o \in OSVersion, cache'[o] # None
             PROVE  cache'[o] <= bucket'[o]["asc"]
  BY DEF CachedIsSigned
<1>t. /\ osVersion \in OSVersion /\ noVerifySig' = noVerifySig
      /\ cache \in [OSVersion -> Generation \cup {None}]
      /\ manifest \in Generation \cup {Cut, None}
  BY DEF FetchTypeOK, Body, Next, Calls, vars, settings, Publish, NewProgram,
         GetPackageManifest, FetchAddon, GetError, BadResponse, Response,
         ParseManifest, Validate, CopyToStore
<1>1. CASE cache'[o] = cache[o]
  <2>1. cache[o] <= bucket[o]["asc"] /\ cache[o] \in Nat
    BY <1>1, <1>t, ConstantFacts DEF CachedIsSigned
  <2> QED
    BY <1>1, <2>1, BucketGrows
<1>2. CASE cache'[o] # cache[o]
  <2>1. ParseManifest
    BY <1>2
    DEF Next, Calls, vars, Publish, NewProgram, GetPackageManifest, FetchAddon,
        GetError, BadResponse, Response, Validate, CopyToStore
  <2>2. /\ pc = "parse" /\ Verified /\ manifest # Cut
        /\ cache' = [cache EXCEPT ![osVersion] = manifest]
        /\ bucket' = bucket
    BY <1>2, <2>1 DEF ParseManifest
  <2>3. o = osVersion /\ cache'[o] = manifest
    BY <1>2, <1>t, <2>2
  <2>4. manifest = asc /\ asc \in Generation
    BY <1>t, <2>2, <2>3 DEF Verified
  <2> QED
    BY <1>t, <2>2, <2>3, <2>4 DEF SignaturePublished
<1> QED
  BY <1>1, <1>2

(* An image is handed on only after its digest was compared.              *)
LEMMA HandedStep ==
  FetchTypeOK /\ HandedImageFits /\ ImageOfManifest /\ [Next]_vars
    => HandedImageFits' /\ ImageOfManifest'
<1> SUFFICES ASSUME FetchTypeOK, HandedImageFits, ImageOfManifest, [Next]_vars
             PROVE  HandedImageFits' /\ ImageOfManifest'
  OBVIOUS
<1>t. cache[osVersion] \in Generation \cup {None}
  BY DEF FetchTypeOK
<1>1. CASE Validate
  <2>1. pc = "validate" /\ cache[osVersion] \in Generation
    BY <1>1, <1>t DEF Validate, ImageOfManifest
  <2> QED
    BY <1>1, <2>1
    DEF Validate, Fails, ValidHash, HandedImageFits, ImageOfManifest
<1>2. CASE Response
  <2>1. pc' \in {"asc", "parse", "validate"} /\ (pc' = "validate" => pc = "image")
    BY <1>2 DEF Response, AfterBody, Object
  <2>2. UNCHANGED <<cache, osVersion>>
    BY <1>2 DEF Response
  <2> QED
    BY <2>1, <2>2 DEF HandedImageFits, ImageOfManifest
<1>3. CASE Publish \/ NewProgram \/ GetPackageManifest \/ FetchAddon
  BY <1>3
  DEF Publish, NewProgram, GetPackageManifest, FetchAddon, HandedImageFits,
      ImageOfManifest
<1>4. CASE GetError \/ BadResponse \/ ParseManifest \/ CopyToStore
  BY <1>4
  DEF GetError, BadResponse, ParseManifest, CopyToStore, Fails, HandedImageFits,
      ImageOfManifest, Object
<1>5. CASE UNCHANGED vars
  BY <1>5 DEF vars, HandedImageFits, ImageOfManifest
<1> QED
  BY <1>1, <1>2, <1>3, <1>4, <1>5 DEF Next, Calls

-----------------------------------------------------------------------------
(* Files and tries *)
LEMMA NoFileStep == FetchTypeOK /\ NoFile /\ [Next]_vars => NoFile'
<1> SUFFICES ASSUME FetchTypeOK, NoFile, [Next]_vars PROVE NoFile'
  OBVIOUS
<1>1. CASE Publish \/ NewProgram \/ GetPackageManifest \/ FetchAddon
  BY <1>1 DEF Publish, NewProgram, GetPackageManifest, FetchAddon, settings, NoFile
<1>2. CASE Response
  <2>1. cause \subseteq cause' /\ inTmp' = inTmp
    BY <1>2 DEF Response, settings
  <2> QED
    BY <1>2, <2>1 DEF Response, AfterBody, Object, NoFile
<1>3. CASE GetError \/ BadResponse \/ ParseManifest \/ Validate
  BY <1>3
  DEF GetError, BadResponse, ParseManifest, Validate, Fails, Cleanup, settings,
      NoFile, Object
<1>4. CASE CopyToStore
  BY <1>4 DEF CopyToStore, settings, NoFile
<1>5. CASE UNCHANGED vars
  BY <1>5 DEF vars, settings, NoFile
<1> QED
  BY <1>1, <1>2, <1>3, <1>4, <1>5 DEF Next, Calls

(* A manifest is requested only while it is not cached.                   *)
LEMMA NotCachedStep == FetchTypeOK /\ NotCached /\ [Next]_vars => NotCached'
<1> SUFFICES ASSUME FetchTypeOK, NotCached, [Next]_vars PROVE NotCached'
  OBVIOUS
<1>1. CASE Response
  BY <1>1 DEF Response, AfterBody, Object, NotCached
<1>2. CASE Publish \/ NewProgram \/ GetPackageManifest \/ FetchAddon
  BY <1>2
  DEF Publish, NewProgram, GetPackageManifest, NeedsManifest, FetchAddon,
      NotCached
<1>3. CASE GetError \/ BadResponse \/ ParseManifest \/ Validate \/ CopyToStore
  BY <1>3
  DEF GetError, BadResponse, ParseManifest, Validate, CopyToStore, Fails,
      NotCached
<1>4. CASE UNCHANGED vars
  BY <1>4 DEF vars, NotCached
<1> QED
  BY <1>1, <1>2, <1>3, <1>4 DEF Next, Calls

(* Every step keeps the count of the failed tries.                        *)
LEMMA MissedStep == FetchTypeOK /\ Missed /\ [Next]_vars => Missed'
<1> SUFFICES ASSUME FetchTypeOK, Missed, [Next]_vars PROVE Missed'
  OBVIOUS
<1>t. /\ tries \in Nat /\ misses \in Nat /\ tries <= Tries /\ Tries \in Nat
      /\ pc \notin Object => tries = 1
  BY ConstantFacts DEF FetchTypeOK
<1>1. CASE Publish \/ NewProgram \/ GetPackageManifest \/ FetchAddon
  BY <1>1, <1>t
  DEF Publish, NewProgram, GetPackageManifest, FetchAddon, Missed, Object
<1>2. CASE GetError
  <2>1. CASE LastTry
    BY <1>2, <2>1 DEF GetError, Fails, Missed, Object
  <2>2. CASE ~LastTry
    BY <1>2, <1>t, <2>2 DEF GetError, LastTry, NextTry, Missed, Object
  <2> QED
    BY <2>1, <2>2
<1>3. CASE Response
  BY <1>3 DEF Response, AfterBody, Object, Missed
<1>4. CASE BadResponse \/ ParseManifest \/ Validate \/ CopyToStore
  BY <1>4, <1>t
  DEF BadResponse, ParseManifest, Validate, CopyToStore, Fails, Missed, Object
<1>5. CASE UNCHANGED vars
  BY <1>5 DEF vars, Missed
<1> QED
  BY <1>1, <1>2, <1>3, <1>4, <1>5 DEF Next, Calls

-----------------------------------------------------------------------------
(* Causes *)
LEMMA QuietStep ==
  FetchTypeOK /\ ImageOfManifest /\ Quiet /\ [Next]_vars => Quiet'
<1> SUFFICES ASSUME FetchTypeOK, ImageOfManifest, Quiet, [Next]_vars, cause' = {}
             PROVE  Quiet'
  BY DEF Quiet
<1>t. /\ osVersion \in OSVersion
      /\ cache \in [OSVersion -> Generation \cup {None}]
  BY DEF FetchTypeOK
<1>1. CASE Publish
  BY <1>1 DEF Publish
<1>2. CASE NewProgram
  <2>1. \A o \in OSVersion, b \in Object : bucket[o][b] = bucket[o]["asc"]
    BY <1>2 DEF NewProgram
  <2> QED
    BY <1>2, <2>1 DEF NewProgram, settings, buffers, Quiet, Rest
<1>3. CASE GetPackageManifest \/ FetchAddon
  BY <1>3 DEF GetPackageManifest, FetchAddon, settings, buffers, Quiet, Rest
<1>4. CASE Response
  <2>1. cause = {} /\ pc \in Object /\ UNCHANGED <<noVerifySig, bucket, cache, osVersion>>
    BY <1>4 DEF Response, settings
  <2>2. bucket[osVersion][pc] = Rest(osVersion)
    BY <1>t, <2>1 DEF Quiet
  <2>3. /\ manifest' = IF pc = "manifest" THEN Rest(osVersion) ELSE manifest
        /\ asc'      = IF pc = "asc"      THEN Rest(osVersion) ELSE asc
        /\ tmpfile'  = IF pc = "image"    THEN Rest(osVersion) ELSE tmpfile
    BY <1>4, <2>2 DEF Response
  <2>4. /\ pc = "manifest" => pc' \in {"asc", "parse"}
                              /\ (pc' = "parse" => noVerifySig)
        /\ pc = "asc" => pc' = "parse"
        /\ pc = "image" => pc' = "validate"
    BY <1>4 DEF Response, AfterBody
  <2>5. Rest(osVersion)' = Rest(osVersion)
    BY <2>1 DEF Rest
  <2>6. /\ pc' \in {"asc", "parse"} => manifest' = Rest(osVersion)'
        /\ pc' = "parse" /\ ~noVerifySig' => asc' = Rest(osVersion)'
        /\ pc' = "validate" => tmpfile' = Rest(osVersion)'
    BY <2>1, <2>3, <2>4, <2>5 DEF Quiet, Object
  <2>7. /\ \A o \in OSVersion, b \in Object : bucket'[o][b] = bucket'[o]["asc"]
        /\ \A o \in OSVersion : cache'[o] \in {None, bucket'[o]["asc"]}
    BY <2>1 DEF Quiet, Rest
  <2> QED
    BY <2>6, <2>7 DEF Quiet, Rest
<1>5. CASE ParseManifest
  <2>1. cause = {} /\ pc = "parse" /\ UNCHANGED <<bucket, osVersion>>
          /\ pc' \in {"idle", "failed"}
    BY <1>5 DEF ParseManifest, Fails
  <2>2. manifest = Rest(osVersion)
    BY <2>1 DEF Quiet
  <2>3. \A o \in OSVersion : cache'[o] \in {None, Rest(o)}
    BY <1>5, <1>t, <2>1, <2>2 DEF ParseManifest, Quiet
  <2> QED
    BY <2>1, <2>3 DEF Quiet, Rest
<1>6. CASE GetError \/ BadResponse \/ Validate \/ CopyToStore
  BY <1>6
  DEF GetError, BadResponse, Validate, CopyToStore, Fails, settings, buffers, Quiet, Rest
<1>7. CASE UNCHANGED vars
  BY <1>7 DEF vars, settings, buffers, Quiet, Rest
<1> QED
  BY <1>1, <1>2, <1>3, <1>4, <1>5, <1>6, <1>7 DEF Next, Calls

(* A program fails only for a cause that the history knows.               *)
LEMMA CauseStep ==
  IInv /\ [Next]_vars => FailsForCause'
<1> SUFFICES ASSUME IInv, [Next]_vars, pc' = "failed", cause' = {}
             PROVE  misses' = Tries
  BY DEF FailsForCause
<1>t. /\ FetchTypeOK /\ Missed /\ ImageOfManifest /\ Quiet /\ FailsForCause
      /\ osVersion \in OSVersion /\ bucket[osVersion]["asc"] \in Generation
  BY DEF IInv, FetchTypeOK, Object
<1>1. CASE GetError
  <2>1. pc \in Object /\ LastTry
    BY <1>1 DEF GetError, Object
  <2>2. tries = Tries /\ misses = tries - 1 /\ Tries \in Nat
    BY <1>t, <2>1, ConstantFacts DEF LastTry, Missed
  <2> QED
    BY <1>1, <2>2 DEF GetError
<1>2. CASE ParseManifest
  <2>1. cause = {} /\ pc = "parse" /\ ~(Verified /\ manifest # Cut)
    BY <1>2 DEF ParseManifest
  <2>2. manifest = Rest(osVersion) /\ (~noVerifySig => asc = Rest(osVersion))
    BY <1>t, <2>1 DEF Quiet
  <2>3. Rest(osVersion) # Cut
    BY <1>t, ConstantFacts DEF Rest
  <2> QED
    BY <2>1, <2>2, <2>3 DEF Verified
<1>3. CASE Validate
  <2>1. cause = {} /\ pc = "validate" /\ ~ValidHash
    BY <1>3 DEF Validate
  <2>2. tmpfile = Rest(osVersion) /\ cache[osVersion] = Rest(osVersion)
    BY <1>t, <2>1 DEF Quiet, ImageOfManifest
  <2> QED
    BY <2>1, <2>2 DEF ValidHash
<1>4. CASE Response
  BY <1>4 DEF Response, AfterBody, Object
<1>5. CASE Publish \/ NewProgram \/ GetPackageManifest \/ FetchAddon
             \/ BadResponse \/ CopyToStore
  BY <1>5
  DEF Publish, NewProgram, GetPackageManifest, FetchAddon, BadResponse,
      CopyToStore
<1>6. CASE UNCHANGED vars
  BY <1>t, <1>6 DEF vars, FailsForCause
<1> QED
  BY <1>1, <1>2, <1>3, <1>4, <1>5, <1>6 DEF Next, Calls

(* Every step keeps the invariant, part by part.                          *)
LEMMA InductiveInv == IInv /\ [Next]_vars => IInv'
<1> SUFFICES ASSUME IInv, [Next]_vars PROVE IInv'
  OBVIOUS
<1>1. /\ FetchTypeOK /\ SignaturePublished /\ CachedIsSigned
      /\ HandedImageFits /\ NoFile /\ NotCached /\ Missed /\ ImageOfManifest
      /\ Quiet
  BY DEF IInv
<1>2. FetchTypeOK' /\ SignaturePublished' /\ CachedIsSigned'
  BY <1>1, TypeStep, SignatureStep, CachedStep
<1>3. HandedImageFits' /\ ImageOfManifest' /\ NoFile' /\ NotCached' /\ Missed'
  BY <1>1, HandedStep, NoFileStep, NotCachedStep, MissedStep
<1>4. Quiet' /\ FailsForCause'
  BY <1>1, QuietStep, CauseStep
<1> QED
  BY <1>2, <1>3, <1>4 DEF IInv

(* So it holds at all times.                                              *)
LEMMA Invariant == Spec => []IInv
BY InitInv, InductiveInv, PTL DEF Spec

-----------------------------------------------------------------------------
(* Every variable of the fetcher keeps its type, and no retry exceeds its *)
(* tries.                                                                 *)
THEOREM FetchTypeCorrect == Spec => []FetchTypeOK
<1>1. IInv => FetchTypeOK
  BY DEF IInv
<1> QED
  BY <1>1, Invariant, PTL

(* GetPackageManifest caches only what the publisher has signed, whatever *)
(* is replaced between its two requests.                                  *)
THEOREM OnlySignedIsCached == Spec => []CachedIsSigned
<1>1. IInv => CachedIsSigned
  BY DEF IInv
<1> QED
  BY <1>1, Invariant, PTL

(* FetchAddon hands on nothing but whole images whose digest the          *)
(* publisher has signed, whatever is replaced between its requests.       *)
THEOREM HandedImageIsSigned == Spec => []HandedImageSigned
<1>1. IInv => HandedImageSigned
  <2> SUFFICES ASSUME IInv, ~noVerifySig, pc = "fetched"
               PROVE  tmpfile # Cut /\ tmpfile <= bucket[osVersion]["asc"]
    BY DEF HandedImageSigned
  <2>1. /\ tmpfile = cache[osVersion] /\ tmpfile \in Generation
        /\ osVersion \in OSVersion
    BY DEF IInv, HandedImageFits, FetchTypeOK
  <2>2. tmpfile # Cut /\ tmpfile # None
    BY <2>1, ConstantFacts
  <2> QED
    BY <2>1, <2>2 DEF IInv, CachedIsSigned
<1> QED
  BY <1>1, Invariant, PTL

(* A temporary file survives FetchAddon and copyToStore only if it cannot *)
(* be opened or is not below /tmp/.                                       *)
THEOREM NoFileIsLeft == Spec => []NoFileLeft
<1>1. IInv => NoFileLeft
  BY DEF IInv, NoFile, NoFileLeft
<1> QED
  BY <1>1, Invariant, PTL

(* A program that fetches fails for a republication, a bad response or    *)
(* Tries failed requests in a row.                                        *)
THEOREM FailuresHaveCauses == Spec => []FailsForCause
<1>1. IInv => FailsForCause
  BY DEF IInv
<1> QED
  BY <1>1, Invariant, PTL

(* The cached manifest of an OS version stays the same until the program  *)
(* ends.                                                                  *)
THEOREM ManifestIsKept == Spec => OneManifestPerProgram
<1> DEFINE Kept ==
      \A o \in OSVersion :
        cache[o] # None /\ ~NewProgram => cache'[o] = cache[o]
<1>1. IInv /\ [Next]_vars => [Kept]_vars
  <2> SUFFICES ASSUME IInv, Next, ~NewProgram, NEW o \in OSVersion,
                      cache[o] # None
               PROVE  cache'[o] = cache[o]
    BY DEF vars
  <2>1. CASE ParseManifest
    <3>1. cache[osVersion] = None
      BY <2>1 DEF IInv, NotCached, ParseManifest
    <3>2. cache \in [OSVersion -> Generation \cup {None}]
      BY DEF IInv, FetchTypeOK
    <3> QED
      BY <2>1, <3>1, <3>2 DEF ParseManifest
  <2>2. CASE ~ParseManifest
    BY <2>2
    DEF Next, Calls, Publish, GetPackageManifest, FetchAddon, GetError,
        BadResponse, Response, Validate, CopyToStore
  <2> QED
    BY <2>1, <2>2
<1> QED
  BY <1>1, Invariant, PTL DEF Spec, OneManifestPerProgram
=============================================================================
