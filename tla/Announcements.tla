---------------------------- MODULE Announcements ----------------------------
(***************************************************************************)
(* The detections and losses on their way from the HAL to the adapter, as  *)
(* they are found in the callback queue q: the order they are in, and the  *)
(* detections alone.  Both kinds of sessions are announced like this.      *)
(*                                                                         *)
(* shown is the set of ids the adapter has objects for, present the set of *)
(* the id of the session that is under way, or not announced to be over.   *)
(***************************************************************************)
EXTENDS Naturals, Sequences, FiniteSets

Detects(cb, id) == cb.type = "detected" /\ cb.id = id
Loses(cb, id)   == cb.type = "lost" /\ cb.id = id

DetectionIn(q, id)     == \E i \in DOMAIN q : Detects(q[i], id)
LossIn(q, id)          == \E i \in DOMAIN q : Loses(q[i], id)
LossBefore(q, id, j)   == \E i \in DOMAIN q : i < j /\ Loses(q[i], id)
DetectionBefore(q, id, j) == \E i \in DOMAIN q : i < j /\ Detects(q[i], id)

\* A session is detected once ...
DetectedOnce(q, shown) ==
  /\ \A i, j \in DOMAIN q :
       q[i].type = "detected" /\ q[j].type = "detected" /\ q[i].id = q[j].id => i = j
  /\ \A id \in shown : ~DetectionIn(q, id)

\* ... and lost once, after its detection ...
LostOnce(q, shown) ==
  \A i \in DOMAIN q : q[i].type = "lost" =>
    /\ q[i].id \in shown \/ DetectionBefore(q, q[i].id, i)
    /\ \A j \in DOMAIN q : Loses(q[j], q[i].id) => i = j

\* ... except for the one that is not over ...
PresentAnnounced(q, shown, present) ==
  \A id \in present : (id \in shown \/ DetectionIn(q, id)) /\ ~LossIn(q, id)

OthersEnd(q, shown, present) ==
  /\ \A id \in shown : LossIn(q, id) \/ id \in present
  /\ \A i \in DOMAIN q :
       q[i].type = "detected" => LossIn(q, q[i].id) \/ q[i].id \in present

\* ... and before any later detection.
OneAtATime(q, shown) ==
  /\ \A a, b \in shown : a = b
  /\ \A j \in DOMAIN q : q[j].type = "detected" =>
       /\ \A id \in shown : LossBefore(q, id, j)
       /\ \A i \in DOMAIN q : i < j /\ q[i].type = "detected" => LossBefore(q, q[i].id, j)

InOrder(q, shown, present) ==
  /\ DetectedOnce(q, shown)
  /\ LostOnce(q, shown)
  /\ PresentAnnounced(q, shown, present)
  /\ OthersEnd(q, shown, present)
  /\ OneAtATime(q, shown)

-----------------------------------------------------------------------------
(***************************************************************************)
(* The detections alone, oldest first.                                     *)
(***************************************************************************)
\* The place of a member in a set of positions, and the member at a place.
Place(D, i) == Cardinality({j \in D : j <= i})
NthOf(D, n) == CHOOSE i \in D : Place(D, i) = n

DetectionsAt(q) == {i \in DOMAIN q : q[i].type = "detected"}

DetectionsOf(q) ==
  [n \in 1..Cardinality(DetectionsAt(q)) |-> q[NthOf(DetectionsAt(q), n)]]

\* What the detections are of: things is a function of the ids.
DetectedThings(q, things) ==
  [n \in DOMAIN DetectionsOf(q) |-> things[DetectionsOf(q)[n].id]]

=============================================================================
