--------------------------- MODULE NodeAnnotation ---------------------------
(***************************************************************************)
(* WriteNodeAnnotation: the hook's read-modify-write of the Node object    *)
(* (internal/kube.go over CLUO's k8sutil), among other writers of the same *)
(* object and over a connection that loses and delays.                     *)
(*                                                                         *)
(* The API server refuses an update whose resourceVersion is not that of   *)
(* the Node any more.  Versions do not repeat, so a request only records   *)
(* whether its version still is "current".                                 *)
(***************************************************************************)
EXTENDS Naturals, FiniteSets

CONSTANTS
  Key, Ours,     \* annotations; Conf.WriteNodeAnnotation is one of them
  Value, Mine,   \* their values, and "true", the one we write
  Unset,         \* no such annotation
  Tries, Steps   \* retry(5, ...), and DefaultBackoff.Steps, 4

ASSUME AnnotationAssumption ==
  /\ Ours \in Key /\ Mine \in Value /\ Unset \notin Value
  /\ Tries \in Nat \ {0} /\ Steps \in Nat \ {0}

VARIABLES
  annotations,   \* of the Node, in the API server
  pending,       \* the update request the hook waits for: none or one
  delayed,       \* those it gave up on, which may still arrive
  answer,        \* the server's answer to the pending one
  pc,            \* where WriteNodeAnnotation is
  tries, steps,  \* of retry and, within one try, of ExponentialBackoff
  done,          \* history: an update of ours was accepted
  wrote          \* history: what its owner last made of each annotation

counters == <<tries, steps>>
vars == <<annotations, pending, delayed, answer, pc, counters, done, wrote>>

Annotations == [Key -> Value \cup {Unset}]
Request     == [annotations : Annotations, current : BOOLEAN]

Init ==
  /\ annotations \in [Key -> Value \cup {Unset}]
  /\ pending = {} /\ delayed = {} /\ answer = "none"
  /\ pc = "start"
  /\ tries = 1 /\ steps = 1
  /\ done = FALSE
  /\ wrote = annotations
-----------------------------------------------------------------------------
(* The API server *)

(* Requests R once the node's annotations are a.                          *)
Outdated(R, a) ==
  IF a = annotations THEN R ELSE {[r EXCEPT !.current = FALSE] : r \in R}

(* Mutation of Accepts: the resourceVersion is not compared.              *)
Accepts_Any(r) == TRUE

Accepts(r) == r.current

(* The Node when r has been served.                                       *)
After(r) == IF Accepts(r) THEN r.annotations ELSE annotations

ServePending ==
  /\ \E r \in pending :
       /\ annotations' = After(r)
       /\ done' = (done \/ Accepts(r))
       /\ answer' = IF Accepts(r) THEN "ok" ELSE "conflict"
       /\ delayed' = Outdated(delayed, After(r))
  /\ pending' = {}
  /\ UNCHANGED <<pc, counters, wrote>>

(* Nobody waits for the answer any more.                                  *)
ServeDelayed ==
  /\ \E r \in delayed :
       /\ annotations' = After(r)
       /\ done' = (done \/ Accepts(r))
       /\ delayed' = Outdated(delayed \ {r}, After(r))
       /\ pending' = Outdated(pending, After(r))
  /\ UNCHANGED <<answer, pc, counters, wrote>>

(* Kubelet, CLUO and others change their annotations; CLUO takes ours     *)
(* away when it has seen it.                                              *)
OwnerWrites ==
  /\ \E k \in Key, v \in Value \cup {Unset} :
       /\ v # annotations[k]
       /\ k = Ours => v = Unset
       /\ annotations' = [annotations EXCEPT ![k] = v]
       /\ wrote' = [wrote EXCEPT ![k] = v]
  /\ pending' = Outdated(pending, annotations')
  /\ delayed' = Outdated(delayed, annotations')
  /\ UNCHANGED <<answer, pc, counters, done>>
-----------------------------------------------------------------------------
(* WriteNodeAnnotation *)

BuildClient ==
  /\ pc = "start"
  /\ pc' \in {"get", "failed"}
  /\ UNCHANGED <<annotations, pending, delayed, answer, counters, done, wrote>>

(* nc.Get, the change to the copy, and nc.Update.  A Node without any     *)
(* annotation is read with a nil map, and the change to that panics.      *)
GetAndUpdate ==
  /\ pc = "get"
  /\ IF \A k \in Key : annotations[k] = Unset
     THEN pc' = "panicked" /\ UNCHANGED pending
     ELSE /\ pending' = {[annotations |-> [annotations EXCEPT ![Ours] = Mine],
                          current     |-> TRUE]}
          /\ pc' = "wait"
  /\ UNCHANGED <<annotations, delayed, answer, counters, done, wrote>>

(* retry: the next try, unless this was the last.                         *)
TryFails ==
  /\ pc' = IF tries = Tries THEN "failed" ELSE "get"
  /\ tries' = IF tries = Tries THEN tries ELSE tries + 1
  /\ steps' = 1

GetFails ==
  /\ pc = "get"
  /\ TryFails
  /\ UNCHANGED <<annotations, pending, delayed, answer, done, wrote>>

(* The server has refused the update, or the connection is lost: before   *)
(* the server had the request, after it served it, or in between.         *)
UpdateFails ==
  /\ pc = "wait"
  /\ TryFails
  /\ answer' = "none"
  /\ pending' = {}
  /\ \/ delayed' = delayed \cup pending
     \/ delayed' = delayed
  /\ UNCHANGED <<annotations, done, wrote>>

Updated ==
  /\ answer = "ok"
  /\ answer' = "none"
  /\ pc' = "ok"
  /\ UNCHANGED <<annotations, pending, delayed, counters, done, wrote>>

(* Mutations of RetryOnConflict: conflicts do not use up the steps, or    *)
(* there is one step too many.                                            *)
RetryOnConflict_Forever == pc' = "get" /\ UNCHANGED counters
RetryOnConflict_OneMore ==
  \/ steps <= Steps /\ pc' = "get" /\ steps' = steps + 1 /\ UNCHANGED tries
  \/ steps > Steps /\ TryFails

(* The next step of the backoff, unless this was the last.                *)
RetryOnConflict ==
  \/ steps < Steps /\ pc' = "get" /\ steps' = steps + 1 /\ UNCHANGED tries
  \/ steps = Steps /\ TryFails

Conflict ==
  /\ answer = "conflict"
  /\ answer' = "none"
  /\ RetryOnConflict
  /\ UNCHANGED <<annotations, pending, delayed, done, wrote>>

Hook == \/ BuildClient \/ GetAndUpdate \/ GetFails \/ UpdateFails \/ Updated
        \/ Conflict

Next == Hook \/ ServePending \/ ServeDelayed \/ OwnerWrites

SafeSpec == Init /\ [][Next]_vars

(* Every call of the hook comes back, at the latest when TCP gives up.    *)
Spec == SafeSpec /\ WF_vars(Hook)
-----------------------------------------------------------------------------
Returned == {"ok", "failed", "panicked"}

(* Types; there is a pending request or its answer only while the hook    *)
(* waits, and never both.                                                 *)
AnnotationTypeOK ==
  /\ annotations \in Annotations /\ wrote \in Annotations
  /\ pending \in SUBSET Request /\ delayed \in SUBSET Request
  /\ answer \in {"none", "ok", "conflict"}
  /\ pc \in {"start", "get", "wait"} \cup Returned
  /\ tries \in 1 .. Tries /\ steps \in 1 .. Steps
  /\ done \in BOOLEAN
  /\ pc # "wait" => pending = {} /\ answer = "none"
  /\ answer # "none" => pending = {}

(* No annotation of somebody else is ever reset to what the hook read     *)
(* before its owner changed it, whichever requests are late.              *)
NoLostUpdate == \A k \in Key \ {Ours} : annotations[k] = wrote[k]

(* Once the hook has reported success and CLUO has taken the annotation   *)
(* away, no late request of an earlier try brings it back, which would    *)
(* allow the next reboot before the next hook has run.                    *)
TakenAwayForGood ==
  [][pc = "ok" /\ annotations[Ours] # Mine => annotations'[Ours] # Mine]_vars

(* All of it looks like one atomic step, and it comes to an end however   *)
(* often others write: at most Tries * Steps times it reads and writes.   *)
Atomic == INSTANCE AtomicAnnotation
            WITH outcome <- IF pc \in Returned THEN pc ELSE "none"

IsAtomic == Atomic!Spec
=============================================================================
