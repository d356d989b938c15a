-------------------------------- MODULE Fetch --------------------------------
(***************************************************************************)
(* Downloads from the release bucket: GetPackageManifest with its cache    *)
(* (internal/package_manifest.go), FetchAddon and fetchURL (fetch.go), and *)
(* retry (kube.go), while the bucket is being published to.                *)
(*                                                                         *)
(* For an OS version the bucket has three objects, each of which is        *)
(* replaced on its own.  An object is known by its generation: the "asc"   *)
(* of generation g is the signature of manifest g, whose digest is that of *)
(* image g.  A body that is cut off unnoticed is Cut.                      *)
(***************************************************************************)
EXTENDS Naturals

CONSTANTS OSVersion, MaxGeneration,
          Cut, None,
          Tries       \* retry(5, ...)

ASSUME FetchAssumption ==
  /\ MaxGeneration \in Nat \ {0}
  /\ {Cut, None} \cap Nat = {} /\ Cut # None
  /\ Tries \in Nat \ {0}

Object     == {"manifest", "asc", "image"}
Generation == 1 .. MaxGeneration
Body       == Generation \cup {Cut}

VARIABLES
  noVerifySig,   \* Conf.NoVerifySig
  inTmp,         \* temporary files are below /tmp/: no other TMPDIR is set
  bucket,     \* bucket[o][object]: its generation
  cache,      \* App.packageManifestCache
  pc,         \* the object that is fetched, or what is done next
  osVersion,  \* the OS version for which
  manifest, asc,   \* manifestBuff and manifestSigB
  tmpfile,    \* the temporary file of this program's last FetchAddon
  tries,      \* of retry
  misses,     \* history: failed http.Gets since the last answer
  cause       \* history: why the program may fail

settings == <<noVerifySig, inTmp>>
buffers == <<manifest, asc>>
vars == <<settings, bucket, cache, pc, osVersion, buffers, tmpfile, tries, misses, cause>>

Init ==
  /\ noVerifySig \in BOOLEAN /\ inTmp \in BOOLEAN
  /\ bucket = [o \in OSVersion |-> [b \in Object |-> 1]]
  /\ cache = [o \in OSVersion |-> None]
  /\ pc = "idle"
  /\ osVersion \in OSVersion
  /\ manifest = None /\ asc = None /\ tmpfile = None
  /\ tries = 1 /\ misses = 0 /\ cause = {}
-----------------------------------------------------------------------------
Publish ==
  /\ \E o \in OSVersion, b \in Object :
       /\ bucket[o][b] < MaxGeneration
       /\ bucket' = [bucket EXCEPT ![o][b] = @ + 1]
  /\ cause' = cause \cup {"published"}
  /\ UNCHANGED <<settings, cache, pc, osVersion, buffers, tmpfile, tries, misses>>

(* The program ends, and another one starts some time.                    *)
NewProgram ==
  /\ pc \in {"idle", "failed"}
  /\ pc' = "idle"
  /\ cache' = [o \in OSVersion |-> None]
  /\ cause' = IF \A o \in OSVersion, b \in Object : bucket[o][b] = bucket[o]["asc"]
              THEN {} ELSE {"published"}
  /\ misses' = 0
  /\ tmpfile' = None
  /\ UNCHANGED <<settings, bucket, osVersion, buffers, tries>>
-----------------------------------------------------------------------------
(* GetPackageManifest and FetchAddon begin.                               *)

NeedsManifest(o) == cache[o] = None

GetPackageManifest ==
  /\ pc = "idle"
  /\ \E o \in OSVersion : NeedsManifest(o) /\ osVersion' = o
  /\ pc' = "manifest"
  /\ manifest' = None /\ asc' = None
  /\ UNCHANGED <<settings, bucket, cache, tmpfile, tries, misses, cause>>

(* For a location that InstallAddon has from the cached manifest, if      *)
(* tryFindExisting finds nothing.                                         *)
FetchAddon ==
  /\ pc = "idle"
  /\ \E o \in OSVersion : cache[o] # None /\ osVersion' = o
  /\ pc' = "image"
  /\ tmpfile' = Cut      \* empty so far
  /\ UNCHANGED <<settings, bucket, cache, buffers, tries, misses, cause>>
-----------------------------------------------------------------------------
(* fetchURL *)

(* Mutation of Cleanup: a download that fails stays where it is.          *)
Cleanup_None == UNCHANGED tmpfile

(* os.Remove on every error of FetchAddon                                 *)
Cleanup == tmpfile' = IF pc \in {"image", "validate"} THEN None ELSE tmpfile

(* Mutation of Fails: the error is not passed on, the fetch starts over.  *)
Fails_StartsOver == tries' = 1 /\ UNCHANGED <<pc, tmpfile>>

Fails ==
  /\ pc' = "failed"
  /\ tries' = 1
  /\ Cleanup

(* Mutations of LastTry: one try less, one more.                          *)
LastTry_Early == tries >= Tries - 1
LastTry_Late  == tries > Tries

LastTry == tries = Tries

NextTry == tries' = tries + 1

(* http.Get returns an error: no connection, no answer.                   *)
GetError ==
  /\ pc \in Object
  /\ misses' = IF misses < Tries THEN misses + 1 ELSE misses
  /\ IF LastTry THEN Fails
     ELSE NextTry /\ UNCHANGED <<pc, tmpfile>>
  /\ UNCHANGED <<settings, bucket, cache, osVersion, buffers, cause>>

(* Another status than 200, or a body that io.Copy cannot read to its end *)
(* (or creating, writing, syncing or rewinding the temporary file): not   *)
(* tried again.                                                           *)
BadResponse ==
  /\ pc \in Object
  /\ Fails
  /\ misses' = 0
  /\ cause' = cause \cup {"response"}
  /\ UNCHANGED <<settings, bucket, cache, osVersion, buffers>>

AfterBody == [manifest |-> IF noVerifySig THEN "parse" ELSE "asc",
              asc      |-> "parse",
              image    |-> "validate"]

Response ==
  /\ pc \in Object
  /\ \E body \in {bucket[osVersion][pc], Cut} :
       /\ manifest' = IF pc = "manifest" THEN body ELSE manifest
       /\ asc'      = IF pc = "asc"      THEN body ELSE asc
       /\ tmpfile'  = IF pc = "image"    THEN body ELSE tmpfile
       /\ cause'    = IF body = Cut THEN cause \cup {"response"} ELSE cause
  /\ pc' = AfterBody[pc]
  /\ tries' = 1
  /\ misses' = 0
  /\ UNCHANGED <<settings, bucket, cache, osVersion>>
-----------------------------------------------------------------------------
(* ... and what is done with it.                                          *)

(* Mutation of Verified: any signature will do.                           *)
Verified_Any == TRUE

(* gpgVerify                                                              *)
Verified == noVerifySig \/ (manifest = asc /\ asc # Cut)

(* Half of a JSON object does not parse.                                  *)
ParseManifest ==
  /\ pc = "parse"
  /\ IF Verified /\ manifest # Cut
     THEN /\ cache' = [cache EXCEPT ![osVersion] = manifest]
          /\ pc' = "idle"
          /\ UNCHANGED <<tries, tmpfile>>
     ELSE Fails /\ UNCHANGED cache
  /\ UNCHANGED <<settings, bucket, osVersion, buffers, misses, cause>>

(* Mutation of ValidHash: the digest is not checked.                      *)
ValidHash_Any == TRUE

(* ValidateHash, with the digest of the cached manifest                   *)
ValidHash == tmpfile = cache[osVersion]

Validate ==
  /\ pc = "validate"
  /\ IF ValidHash THEN pc' = "fetched" /\ UNCHANGED <<tries, tmpfile>> ELSE Fails
  /\ UNCHANGED <<settings, bucket, cache, osVersion, buffers, misses, cause>>

(* copyToStore, as to the file.  It is opened, then its removal deferred  *)
(* if it is below /tmp/, then copied.                                     *)
CopyToStore ==
  /\ pc = "fetched"
  /\ \/ pc' = "failed" /\ cause' = cause \cup {"open"} /\ UNCHANGED tmpfile
     \/ /\ \/ pc' = "idle" /\ UNCHANGED cause
           \/ pc' = "failed" /\ cause' = cause \cup {"disk"}
        /\ tmpfile' = IF inTmp THEN None ELSE tmpfile
  /\ UNCHANGED <<settings, bucket, cache, osVersion, buffers, tries, misses>>

Calls == \/ GetError \/ BadResponse \/ Response
         \/ ParseManifest \/ Validate \/ CopyToStore

Next == Publish \/ NewProgram \/ GetPackageManifest \/ FetchAddon \/ Calls

(* A request is answered, in whatever way, or times out: http.Get itself  *)
(* sets no limit, so this assumes that no server stalls for ever.         *)
Spec == Init /\ [][Next]_vars /\ WF_vars(Calls)
-----------------------------------------------------------------------------
(* Types, with every retry within its tries.                              *)
FetchTypeOK ==
  /\ noVerifySig \in BOOLEAN /\ inTmp \in BOOLEAN
  /\ bucket \in [OSVersion -> [Object -> Generation]]
  /\ cache \in [OSVersion -> Generation \cup {None}]
  /\ pc \in Object \cup {"idle", "parse", "validate", "fetched", "failed"}
  /\ osVersion \in OSVersion
  /\ {manifest, asc, tmpfile} \subseteq Body \cup {None}
  /\ tries \in 1 .. Tries
  /\ misses \in 0 .. Tries
  /\ cause \subseteq {"published", "response", "open", "disk"}
  /\ pc \notin Object => tries = 1

(* A manifest is relied on only if the publisher has signed it, although  *)
(* it may be replaced between the request for it and the one for its      *)
(* signature, and either may arrive cut off.                              *)
CachedIsSigned ==
  ~noVerifySig =>
    \A o \in OSVersion : cache[o] # None => cache[o] <= bucket[o]["asc"]

(* PickVersion and InstallAddon of one program see the same manifest of   *)
(* an OS version, whatever is published in between: it is only forgotten  *)
(* when the program ends.                                                 *)
OneManifestPerProgram ==
  [][\A o \in OSVersion :
       cache[o] # None /\ ~NewProgram => cache'[o] = cache[o]]_vars

(* The file that is handed on for the store is whole, and its digest is   *)
(* one that the publisher has signed: the signature vouches for it by way *)
(* of the cached manifest, although image, manifest and signature may     *)
(* each be replaced between the requests for them.                        *)
HandedImageSigned ==
  ~noVerifySig /\ pc = "fetched" =>
    tmpfile # Cut /\ tmpfile <= bucket[osVersion]["asc"]

(* Whichever way a fetch and the copy to the store end, the temporary     *)
(* file does not stay behind; but copyToStore leaves one that it cannot   *)
(* open, and any that is not below /tmp/.                                 *)
NoFileLeft ==
  inTmp /\ "open" \notin cause /\ pc \in {"idle", "failed"} => tmpfile = None

(* "All network requests are retried a few times": with a bucket at rest  *)
(* that serves what it has, only Tries failed requests in a row fail the  *)
(* program, however many fail in all.                                     *)
FailsForCause == pc = "failed" => misses = Tries \/ cause # {}

(* A call of the fetcher comes to an end.                                 *)
FetchEnds == pc # "idle" ~> pc \in {"idle", "failed"}
=============================================================================
