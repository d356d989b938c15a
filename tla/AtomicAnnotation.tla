-------------------------- MODULE AtomicAnnotation --------------------------
(***************************************************************************)
(* What WriteNodeAnnotation promises to the owners of a node's other       *)
(* annotations and to CLUO: it sets one annotation in one step, says "ok"  *)
(* only if it did, and does not touch the node once it has said so.  If it *)
(* fails it may have had its effect, and may have it later.                *)
(***************************************************************************)
CONSTANTS Key, Ours, Value, Mine, Unset

VARIABLES annotations,   \* of the Node
          done,          \* the annotation has been set at some time
          outcome        \* "none" until WriteNodeAnnotation returns

vars == <<annotations, done, outcome>>

Init ==
  /\ annotations \in [Key -> Value \cup {Unset}]
  /\ done = FALSE
  /\ outcome = "none"

SetOurs ==
  /\ outcome # "ok"
  /\ annotations' = [annotations EXCEPT ![Ours] = Mine]
  /\ done' = TRUE
  /\ UNCHANGED outcome

(* CLUO takes our annotation away; any other may change as its owner likes *)
OwnerWrites ==
  /\ \E k \in Key, v \in Value \cup {Unset} :
       /\ k = Ours => v = Unset
       /\ annotations' = [annotations EXCEPT ![k] = v]
  /\ UNCHANGED <<done, outcome>>

(* A node without any annotation makes the call panic.                    *)
Return ==
  /\ outcome = "none"
  /\ outcome' \in {"ok", "failed", "panicked"}
  /\ outcome' = "ok" => done
  /\ outcome' = "panicked" => \A k \in Key : annotations[k] = Unset
  /\ UNCHANGED <<annotations, done>>

Next == SetOurs \/ OwnerWrites \/ Return

SafeSpec == Init /\ [][Next]_vars

Spec == SafeSpec /\ WF_vars(Return)
=============================================================================
