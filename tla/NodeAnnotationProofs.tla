------------------------ MODULE NodeAnnotationProofs ------------------------
(***************************************************************************)
(* NodeAnnotation: no update of others is lost, a taken away annotation is *)
(* gone, and the whole of it implements AtomicAnnotation, for any number   *)
(* of annotations, tries and late requests.                                *)
(***************************************************************************)
EXTENDS NodeAnnotation, TLAPS

(* A request the server would still accept holds the Node as it is, with  *)
(* our annotation.                                                        *)
FreshAgree ==
  \A r \in pending \cup delayed :
    r.current => r.annotations = [annotations EXCEPT ![Ours] = Mine]

(* After the success a request that would be accepted changes nothing.    *)
Settled ==
  answer = "ok" \/ pc = "ok" =>
    /\ done
    /\ \A r \in delayed : r.current => r.annotations = annotations

IInv == AnnotationTypeOK /\ FreshAgree /\ NoLostUpdate /\ Settled

-----------------------------------------------------------------------------
(* Outdating keeps requests requests, and keeps none fresh when the Node  *)
(* changes.                                                               *)
LEMMA OutdatedType ==
  ASSUME NEW R \in SUBSET Request, NEW a
  PROVE  Outdated(R, a) \in SUBSET Request
BY DEF Outdated, Request

(* A request that is still current saw the annotations as they are.       *)
LEMMA OutdatedFresh ==
  ASSUME NEW R \in SUBSET Request, NEW a,
         NEW r \in Outdated(R, a), r.current
  PROVE  a = annotations /\ r \in R
BY DEF Outdated, Request

(* The annotations with the one of the hook are annotations.              *)
LEMMA OursType ==
  ASSUME AnnotationTypeOK
  PROVE  [annotations EXCEPT ![Ours] = Mine] \in Annotations
BY AnnotationAssumption DEF AnnotationTypeOK, Annotations

(* So are those that serving a request leaves.                            *)
LEMMA AfterType ==
  ASSUME AnnotationTypeOK, NEW r \in Request
  PROVE  After(r) \in Annotations
BY DEF AnnotationTypeOK, After, Request

(* What serving a request makes of the Node is the Node or the Node with  *)
(* our annotation set.                                                    *)
LEMMA AfterIsOurs ==
  ASSUME FreshAgree, NEW r \in pending \cup delayed
  PROVE  \/ ~Accepts(r) /\ After(r) = annotations
         \/ Accepts(r) /\ After(r) = [annotations EXCEPT ![Ours] = Mine]
BY DEF FreshAgree, After, Accepts

-----------------------------------------------------------------------------
(* It holds at the start.                                                 *)
LEMMA InitInv == Init => IInv
<1> SUFFICES ASSUME Init PROVE IInv
  OBVIOUS
<1> USE AnnotationAssumption
<1>1. AnnotationTypeOK
  <2>1. tries \in 1 .. Tries /\ steps \in 1 .. Steps
    BY DEF Init
  <2>2. annotations \in Annotations /\ wrote \in Annotations
    BY DEF Init, Annotations
  <2>3. pending \in SUBSET Request /\ delayed \in SUBSET Request
    BY DEF Init
  <2> QED
    BY <2>1, <2>2, <2>3 DEF Init, AnnotationTypeOK, Returned
<1>2. FreshAgree /\ NoLostUpdate /\ Settled
  BY DEF Init, FreshAgree, NoLostUpdate, Settled
<1> QED
  BY <1>1, <1>2 DEF IInv

-----------------------------------------------------------------------------
(* Types *)
LEMMA TypeStep == AnnotationTypeOK /\ [Next]_vars => AnnotationTypeOK'
<1> SUFFICES ASSUME AnnotationTypeOK, [Next]_vars PROVE AnnotationTypeOK'
  OBVIOUS
<1> USE AnnotationAssumption
<1>1. CASE ServePending
  <2> PICK r \in pending :
        /\ annotations' = After(r)
        /\ done' = (done \/ Accepts(r))
        /\ answer' = IF Accepts(r) THEN "ok" ELSE "conflict"
        /\ delayed' = Outdated(delayed, After(r))
    BY <1>1 DEF ServePending
  <2>1. r \in Request /\ delayed \in SUBSET Request
    BY DEF AnnotationTypeOK
  <2>2. annotations' \in Annotations /\ delayed' \in SUBSET Request
    BY <2>1, AfterType, OutdatedType
  <2>3. done' \in BOOLEAN
    BY <2>1 DEF AnnotationTypeOK, Accepts, Request
  <2>4. answer' \in {"ok", "conflict"}
    OBVIOUS
  <2>5. pc = "wait"
    BY DEF AnnotationTypeOK
  <2> QED
    BY <1>1, <2>2, <2>3, <2>4, <2>5 DEF ServePending, AnnotationTypeOK, counters
<1>2. CASE ServeDelayed
  <2> PICK r \in delayed :
        /\ annotations' = After(r)
        /\ done' = (done \/ Accepts(r))
        /\ delayed' = Outdated(delayed \ {r}, After(r))
        /\ pending' = Outdated(pending, After(r))
    BY <1>2 DEF ServeDelayed
  <2>1. r \in Request /\ pending \in SUBSET Request
          /\ delayed \ {r} \in SUBSET Request
    BY DEF AnnotationTypeOK
  <2>2. /\ annotations' \in Annotations
        /\ delayed' \in SUBSET Request /\ pending' \in SUBSET Request
    BY <2>1, AfterType, OutdatedType
  <2>3. done' \in BOOLEAN
    BY <2>1 DEF AnnotationTypeOK, Accepts, Request
  <2>4. pending = {} => pending' = {}
    BY DEF Outdated
  <2> QED
    BY <1>2, <2>2, <2>3, <2>4 DEF ServeDelayed, AnnotationTypeOK, counters
<1>3. CASE OwnerWrites
  <2>1. annotations' \in Annotations /\ wrote' \in Annotations
    BY <1>3 DEF OwnerWrites, AnnotationTypeOK, Annotations
  <2>2. delayed' \in SUBSET Request /\ pending' \in SUBSET Request
    BY <1>3, OutdatedType DEF OwnerWrites, AnnotationTypeOK
  <2>3. pending = {} => pending' = {}
    BY <1>3 DEF OwnerWrites, Outdated
  <2> QED
    BY <1>3, <2>1, <2>2, <2>3 DEF OwnerWrites, AnnotationTypeOK, counters
<1>4. CASE BuildClient
  BY <1>4 DEF BuildClient, AnnotationTypeOK, counters, Returned
<1>5. CASE GetAndUpdate
  <2>1. [annotations |-> [annotations EXCEPT ![Ours] = Mine],
         current     |-> TRUE] \in Request
    BY OursType DEF Request
  <2> QED
    BY <1>5, <2>1 DEF GetAndUpdate, AnnotationTypeOK, counters, Returned
<1>6. CASE GetFails
  BY <1>6 DEF GetFails, TryFails, AnnotationTypeOK, Returned
<1>7. CASE UpdateFails
  BY <1>7 DEF UpdateFails, TryFails, AnnotationTypeOK, Returned
<1>8. CASE Updated
  BY <1>8 DEF Updated, AnnotationTypeOK, counters, Returned
<1>9. CASE Conflict
  BY <1>9 DEF Conflict, RetryOnConflict, TryFails, AnnotationTypeOK, Returned
<1>10. CASE UNCHANGED vars
  BY <1>10 DEF vars, counters, AnnotationTypeOK
<1> QED
  BY <1>1, <1>2, <1>3, <1>4, <1>5, <1>6, <1>7, <1>8, <1>9, <1>10 DEF Next, Hook

-----------------------------------------------------------------------------
(* When an owner writes the Node changes, and no request stays fresh.     *)
LEMMA OwnerOutdates ==
  ASSUME AnnotationTypeOK, OwnerWrites
  PROVE  /\ annotations' # annotations
         /\ \A r \in pending' \cup delayed' : ~r.current
<1>1. annotations' # annotations
  BY DEF OwnerWrites, AnnotationTypeOK, Annotations
<1>2. /\ pending' = Outdated(pending, annotations')
      /\ delayed' = Outdated(delayed, annotations')
  BY DEF OwnerWrites
<1>3. pending \in SUBSET Request /\ delayed \in SUBSET Request
  BY DEF AnnotationTypeOK
<1>4. \A r \in pending' : ~r.current
  BY <1>1, <1>2, <1>3, OutdatedFresh
<1>5. \A r \in delayed' : ~r.current
  BY <1>1, <1>2, <1>3, OutdatedFresh
<1> QED
  BY <1>1, <1>4, <1>5

(* Every other step of Next leaves the Node and what is fresh alone, but  *)
(* for the request that GetAndUpdate sends.                               *)
LEMMA FreshStep == AnnotationTypeOK /\ FreshAgree /\ [Next]_vars => FreshAgree'
<1> SUFFICES ASSUME AnnotationTypeOK, FreshAgree, [Next]_vars,
                    NEW s \in pending' \cup delayed', s.current
             PROVE  s.annotations = [annotations' EXCEPT ![Ours] = Mine]
  BY DEF FreshAgree
<1>t. pending \in SUBSET Request /\ delayed \in SUBSET Request
  BY DEF AnnotationTypeOK
<1>1. CASE ServePending
  <2>1. PICK r \in pending : /\ annotations' = After(r)
                             /\ delayed' = Outdated(delayed, After(r))
    BY <1>1 DEF ServePending
  <2>2. s \in Outdated(delayed, After(r))
    BY <1>1, <2>1 DEF ServePending
  <2>3. After(r) = annotations /\ s \in delayed
    BY <1>t, <2>2, OutdatedFresh
  <2> QED
    BY <2>1, <2>3 DEF FreshAgree
<1>2. CASE ServeDelayed
  <2>1. PICK r \in delayed : /\ annotations' = After(r)
                             /\ delayed' = Outdated(delayed \ {r}, After(r))
                             /\ pending' = Outdated(pending, After(r))
    BY <1>2 DEF ServeDelayed
  <2>2. After(r) = annotations /\ s \in pending \cup delayed
    <3>1. CASE s \in pending'
      BY <1>t, <2>1, <3>1, OutdatedFresh
    <3>2. CASE s \in delayed'
      <4>1. delayed \ {r} \in SUBSET Request
        BY <1>t
      <4> QED
        BY <2>1, <3>2, <4>1, OutdatedFresh
    <3> QED
      BY <3>1, <3>2
  <2> QED
    BY <2>1, <2>2 DEF FreshAgree
<1>3. CASE OwnerWrites
  BY <1>3, OwnerOutdates
<1>4. CASE BuildClient
  BY <1>4 DEF BuildClient, FreshAgree
<1>5. CASE GetAndUpdate
  <2> DEFINE new == [annotations |-> [annotations EXCEPT ![Ours] = Mine],
                     current     |-> TRUE]
  <2>1. new.annotations = [annotations EXCEPT ![Ours] = Mine]
    OBVIOUS
  <2>2. pending' \in {pending, {new}} /\ UNCHANGED <<annotations, delayed>>
    BY <1>5 DEF GetAndUpdate
  <2> HIDE DEF new
  <2>3. s \in pending \cup delayed \/ s = new
    BY <2>2
  <2> QED
    BY <2>1, <2>2, <2>3 DEF FreshAgree
<1>6. CASE GetFails
  BY <1>6 DEF GetFails, FreshAgree
<1>7. CASE UpdateFails
  BY <1>7 DEF UpdateFails, FreshAgree
<1>8. CASE Updated
  BY <1>8 DEF Updated, FreshAgree
<1>9. CASE Conflict
  BY <1>9 DEF Conflict, FreshAgree
<1>10. CASE UNCHANGED vars
  BY <1>10 DEF vars, FreshAgree
<1> QED
  BY <1>1, <1>2, <1>3, <1>4, <1>5, <1>6, <1>7, <1>8, <1>9, <1>10 DEF Next, Hook

-----------------------------------------------------------------------------
(* Serving a request changes our annotation at most.                      *)
LEMMA ServeKeepsOthers ==
  ASSUME AnnotationTypeOK, FreshAgree, NEW r \in pending \cup delayed,
         NEW k \in Key \ {Ours}
  PROVE  After(r)[k] = annotations[k]
BY AfterIsOurs DEF AnnotationTypeOK, Annotations

(* The steps of the other writers keep it.                                *)
LEMMA OthersStep ==
  AnnotationTypeOK /\ FreshAgree /\ NoLostUpdate /\ [Next]_vars => NoLostUpdate'
<1> SUFFICES ASSUME AnnotationTypeOK, FreshAgree, NoLostUpdate, [Next]_vars,
                    NEW k \in Key \ {Ours}
             PROVE  annotations'[k] = wrote'[k]
  BY DEF NoLostUpdate
<1>0. annotations[k] = wrote[k]
  BY DEF NoLostUpdate
<1>1. CASE ServePending
  <2>1. PICK r \in pending : annotations' = After(r)
    BY <1>1 DEF ServePending
  <2> QED
    BY <1>0, <1>1, <2>1, ServeKeepsOthers DEF ServePending
<1>2. CASE ServeDelayed
  <2>1. PICK r \in delayed : annotations' = After(r)
    BY <1>2 DEF ServeDelayed
  <2> QED
    BY <1>0, <1>2, <2>1, ServeKeepsOthers DEF ServeDelayed
<1>3. CASE OwnerWrites
  BY <1>0, <1>3 DEF OwnerWrites, AnnotationTypeOK, Annotations
<1>4. CASE Hook
  BY <1>0, <1>4
  DEF Hook, BuildClient, GetAndUpdate, GetFails, UpdateFails, Updated, Conflict
<1>5. CASE UNCHANGED vars
  BY <1>0, <1>5 DEF vars
<1> QED
  BY <1>1, <1>2, <1>3, <1>4, <1>5 DEF Next

-----------------------------------------------------------------------------
(* What is accepted before the success leaves requests fresh that ask for *)
(* what the Node is already; afterwards nothing fresh can be sent.        *)
LEMMA SettledStep ==
  AnnotationTypeOK /\ FreshAgree /\ Settled /\ [Next]_vars => Settled'
<1> SUFFICES ASSUME AnnotationTypeOK, FreshAgree, Settled, [Next]_vars,
                    answer' = "ok" \/ pc' = "ok"
             PROVE  /\ done'
                    /\ \A s \in delayed' :
                         s.current => s.annotations = annotations'
  BY DEF Settled
<1>t. pending \in SUBSET Request /\ delayed \in SUBSET Request
  BY DEF AnnotationTypeOK
<1>w. (pending # {} => pc = "wait" /\ answer = "none")
        /\ (answer # "none" => pc = "wait")
  BY DEF AnnotationTypeOK
<1>1. CASE ServePending
  <2>1. PICK r \in pending :
          /\ annotations' = After(r)
          /\ done' = (done \/ Accepts(r))
          /\ answer' = IF Accepts(r) THEN "ok" ELSE "conflict"
          /\ delayed' = Outdated(delayed, After(r))
    BY <1>1 DEF ServePending
  <2>2. pc' # "ok"
    BY <1>1, <1>w, <2>1 DEF ServePending
  <2>3. Accepts(r)
    BY <2>1, <2>2
  <2>4. annotations' = [annotations EXCEPT ![Ours] = Mine]
    BY <2>1, <2>3, AfterIsOurs
  <2>5. ASSUME NEW s \in delayed', s.current
        PROVE  s.annotations = annotations'
    <3>1. s \in delayed /\ s.current
      BY <1>t, <2>1, <2>5, OutdatedFresh
    <3> QED
      BY <2>4, <3>1 DEF FreshAgree
  <2> QED
    BY <2>1, <2>3, <2>5
<1>2. CASE ServeDelayed
  <2>1. PICK r \in delayed :
          /\ annotations' = After(r)
          /\ done' = (done \/ Accepts(r))
          /\ delayed' = Outdated(delayed \ {r}, After(r))
    BY <1>2 DEF ServeDelayed
  <2>2. answer = "ok" \/ pc = "ok"
    BY <1>2 DEF ServeDelayed
  <2>3. ASSUME NEW s \in delayed', s.current
        PROVE  s.annotations = annotations'
    <3>1. delayed \ {r} \in SUBSET Request
      BY <1>t
    <3>2. After(r) = annotations /\ s \in delayed
      BY <2>1, <2>3, <3>1, OutdatedFresh
    <3> QED
      BY <2>1, <2>2, <2>3, <3>2 DEF Settled
  <2> QED
    BY <2>1, <2>2, <2>3 DEF Settled
<1>3. CASE OwnerWrites
  <2>1. answer = "ok" \/ pc = "ok"
    BY <1>3 DEF OwnerWrites
  <2>2. done' = done
    BY <1>3 DEF OwnerWrites
  <2> QED
    BY <1>3, <2>1, <2>2, OwnerOutdates DEF Settled
<1>4. CASE BuildClient \/ GetAndUpdate \/ GetFails \/ UpdateFails \/ Conflict
  BY <1>4, <1>w
  DEF BuildClient, GetAndUpdate, GetFails, UpdateFails, Conflict, TryFails,
      RetryOnConflict
<1>5. CASE Updated
  BY <1>5 DEF Updated, Settled
<1>6. CASE UNCHANGED vars
  BY <1>6 DEF vars, Settled
<1> QED
  BY <1>1, <1>2, <1>3, <1>4, <1>5, <1>6 DEF Next, Hook

(* Every step keeps the invariant.                                        *)
LEMMA InductiveInv == IInv /\ [Next]_vars => IInv'
BY TypeStep, FreshStep, OthersStep, SettledStep DEF IInv

(* So it holds at all times.                                              *)
LEMMA Invariant == SafeSpec => []IInv
BY InitInv, InductiveInv, PTL DEF SafeSpec

-----------------------------------------------------------------------------
(* Every variable of WriteNodeAnnotation and of the API server keeps its  *)
(* type, and the hook waits for at most one request or its answer.        *)
THEOREM AnnotationTypeCorrect == Spec => []AnnotationTypeOK
<1>1. IInv => AnnotationTypeOK
  BY DEF IInv
<1> QED
  BY <1>1, Invariant, PTL DEF Spec

(* WriteNodeAnnotation never resets an annotation of anybody else to an   *)
(* older value.                                                           *)
THEOREM NoUpdateLost == Spec => []NoLostUpdate
<1>1. IInv => NoLostUpdate
  BY DEF IInv
<1> QED
  BY <1>1, Invariant, PTL DEF Spec

(* After its success the annotation that CLUO took away is not set again  *)
(* by a late request of WriteNodeAnnotation.                              *)
THEOREM TakenAwayStays == Spec => TakenAwayForGood
<1> DEFINE Stays ==
      pc = "ok" /\ annotations[Ours] # Mine => annotations'[Ours] # Mine
<1>1. IInv /\ [Next]_vars => [Stays]_vars
  <2> SUFFICES ASSUME IInv, Next, pc = "ok", annotations[Ours] # Mine
               PROVE  annotations'[Ours] # Mine
    BY DEF vars
  <2>1. AnnotationTypeOK /\ Settled /\ pending = {} /\ answer = "none"
    BY DEF IInv, AnnotationTypeOK
  <2>2. CASE ServePending
    BY <2>1, <2>2 DEF ServePending
  <2>3. CASE ServeDelayed
    <3>1. PICK r \in delayed : annotations' = After(r)
      BY <2>3 DEF ServeDelayed
    <3> QED
      BY <2>1, <3>1 DEF After, Accepts, Settled
  <2>4. CASE OwnerWrites
    BY <2>1, <2>4, AnnotationAssumption
    DEF OwnerWrites, AnnotationTypeOK, Annotations
  <2>5. CASE Hook
    BY <2>1, <2>5
    DEF Hook, BuildClient, GetAndUpdate, GetFails, UpdateFails, Updated,
        Conflict
  <2> QED
    BY <2>2, <2>3, <2>4, <2>5 DEF Next
<1> QED
  BY <1>1, Invariant, PTL DEF Spec, SafeSpec, TakenAwayForGood

-----------------------------------------------------------------------------
(* WriteNodeAnnotation, its retries and its late requests do nothing that *)
(* one atomic update, before or after the call has failed, would not do.  *)
(* (That it returns needs fairness, and is left to TLC.)                  *)
THEOREM ImplementsAtomic == Spec => Atomic!SafeSpec
<1> DEFINE outcome == IF pc \in Returned THEN pc ELSE "none"
<1>1. Init => Atomic!Init
  BY DEF Init, Atomic!Init, Returned
<1>2. IInv /\ [Next]_vars => [Atomic!Next]_Atomic!vars
  <2> SUFFICES ASSUME IInv, [Next]_vars PROVE [Atomic!Next]_Atomic!vars
    OBVIOUS
  <2>1. AnnotationTypeOK /\ FreshAgree /\ Settled
    BY DEF IInv
  <2>w. (pending # {} => pc = "wait" /\ answer = "none")
          /\ (answer # "none" => pc = "wait")
    BY <2>1 DEF AnnotationTypeOK
  <2>2. CASE ServePending
    <3>1. PICK r \in pending : /\ annotations' = After(r)
                               /\ done' = (done \/ Accepts(r))
      BY <2>2 DEF ServePending
    <3>2. pc = "wait" /\ pc' = pc
      BY <2>2, <2>w, <3>1 DEF ServePending
    <3>3. CASE Accepts(r)
      BY <2>1, <3>1, <3>2, <3>3, AfterIsOurs
      DEF Atomic!Next, Atomic!SetOurs, Returned
    <3>4. CASE ~Accepts(r)
      BY <2>1, <3>1, <3>2, <3>4, AfterIsOurs
      DEF Atomic!vars, Returned, AnnotationTypeOK
    <3> QED
      BY <3>3, <3>4
  <2>3. CASE ServeDelayed
    <3>1. PICK r \in delayed : /\ annotations' = After(r)
                               /\ done' = (done \/ Accepts(r))
      BY <2>3 DEF ServeDelayed
    <3>2. pc' = pc
      BY <2>3 DEF ServeDelayed
    <3>3. CASE Accepts(r) /\ pc # "ok"
      BY <2>1, <3>1, <3>2, <3>3, AfterIsOurs
      DEF Atomic!Next, Atomic!SetOurs, Returned
    <3>4. CASE Accepts(r) /\ pc = "ok"
      BY <2>1, <3>1, <3>2, <3>4
      DEF Atomic!vars, Returned, After, Accepts, Settled, AnnotationTypeOK
    <3>5. CASE ~Accepts(r)
      BY <2>1, <3>1, <3>2, <3>5, AfterIsOurs
      DEF Atomic!vars, Returned, AnnotationTypeOK
    <3> QED
      BY <3>3, <3>4, <3>5
  <2>4. CASE OwnerWrites
    BY <2>4 DEF OwnerWrites, Atomic!Next, Atomic!OwnerWrites, Returned
  <2>5. CASE BuildClient
    BY <2>5 DEF BuildClient, Atomic!Next, Atomic!Return, Atomic!vars, Returned
  <2>6. CASE GetAndUpdate
    BY <2>6 DEF GetAndUpdate, Atomic!Next, Atomic!Return, Atomic!vars, Returned
  <2>7. CASE GetFails
    BY <2>7
    DEF GetFails, TryFails, Atomic!Next, Atomic!Return, Atomic!vars, Returned
  <2>8. CASE UpdateFails
    BY <2>8
    DEF UpdateFails, TryFails, Atomic!Next, Atomic!Return, Atomic!vars, Returned
  <2>9. CASE Updated
    BY <2>1, <2>9, <2>w
    DEF Updated, Settled, Atomic!Next, Atomic!Return, Atomic!vars, Returned
  <2>10. CASE Conflict
    BY <2>10, <2>w
    DEF Conflict, RetryOnConflict, TryFails, Atomic!Next, Atomic!Return,
        Atomic!vars, Returned
  <2>11. CASE UNCHANGED vars
    BY <2>11 DEF vars, Atomic!vars, Returned
  <2> QED
    BY <2>2, <2>3, <2>4, <2>5, <2>6, <2>7, <2>8, <2>9, <2>10, <2>11
    DEF Next, Hook
<1> QED
  BY <1>1, <1>2, Invariant, PTL DEF Spec, SafeSpec, Atomic!SafeSpec
=============================================================================
