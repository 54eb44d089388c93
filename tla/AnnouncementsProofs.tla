------------------------- MODULE AnnouncementsProofs -------------------------
(***************************************************************************)
(* What each step of the HAL and of the main context does to the order of  *)
(* the announcements, and to the sequence of detections alone.  No state   *)
(* here: q is any sequence of callbacks.                                   *)
(***************************************************************************)
EXTENDS Announcements, FiniteSetTheorems, TLAPS

-----------------------------------------------------------------------------
(***************************************************************************)
(* Sequences.                                                              *)
(***************************************************************************)
LEMMA AppendAt ==
  ASSUME NEW T, NEW q \in Seq(T), NEW e \in T
  PROVE  /\ Len(q) \in Nat /\ DOMAIN q = 1..Len(q)
         /\ Append(q, e) \in Seq(T)
         /\ DOMAIN Append(q, e) = 1..(Len(q) + 1)
         /\ \A i \in DOMAIN q : i \in DOMAIN Append(q, e) /\ Append(q, e)[i] = q[i]
         /\ Append(q, e)[Len(q) + 1] = e
         /\ \A i \in DOMAIN Append(q, e) : i \in DOMAIN q \/ i = Len(q) + 1
OBVIOUS

LEMMA TailAt ==
  ASSUME NEW T, NEW q \in Seq(T), q # <<>>
  PROVE  /\ Len(q) \in Nat \ {0} /\ DOMAIN q = 1..Len(q) /\ 1 \in DOMAIN q
         /\ Head(q) = q[1] /\ Head(q) \in T
         /\ Tail(q) \in Seq(T)
         /\ DOMAIN Tail(q) = 1..(Len(q) - 1)
         /\ \A i \in DOMAIN Tail(q) : i + 1 \in DOMAIN q /\ Tail(q)[i] = q[i + 1]
         /\ \A i, j \in DOMAIN Tail(q) : i + 1 # 1 /\ (i < j <=> i + 1 < j + 1) /\ (i + 1 = j + 1 => i = j)
         /\ \A i \in DOMAIN q : i # 1 => i - 1 \in DOMAIN Tail(q) /\ Tail(q)[i - 1] = q[i]
         /\ \A i \in DOMAIN q : \A j \in DOMAIN Tail(q) : i < j + 1 <=> i - 1 < j
OBVIOUS

-----------------------------------------------------------------------------
(***************************************************************************)
(* The order.  A callback that announces nothing does not matter.          *)
(***************************************************************************)
Announces(cb) == cb.type \in {"detected", "lost"}

LEMMA OtherPosted ==
  ASSUME NEW T, NEW q \in Seq(T), NEW e \in T, ~Announces(e),
         NEW shown, NEW present, InOrder(q, shown, present)
  PROVE  InOrder(Append(q, e), shown, present)
<1> DEFINE p == Append(q, e)
<1>1. /\ \A i \in DOMAIN q : i \in DOMAIN p /\ p[i] = q[i]
      /\ \A i \in DOMAIN p : Announces(p[i]) => i \in DOMAIN q /\ p[i] = q[i]
  BY AppendAt
<1> HIDE DEF p
<1>2. \A i \in DOMAIN p : p[i].type = "detected" \/ p[i].type = "lost" => i \in DOMAIN q /\ p[i] = q[i]
  BY <1>1 DEF Announces
<1>3. \A id : /\ DetectionIn(p, id) <=> DetectionIn(q, id)
              /\ LossIn(p, id) <=> LossIn(q, id)
  BY <1>1, <1>2 DEF DetectionIn, LossIn, Detects, Loses
<1>4. \A id : \A j : /\ DetectionBefore(p, id, j) <=> DetectionBefore(q, id, j)
                     /\ LossBefore(p, id, j) <=> LossBefore(q, id, j)
  BY <1>1, <1>2 DEF DetectionBefore, LossBefore, Detects, Loses
<1>5. DetectedOnce(p, shown)
  BY <1>1, <1>2, <1>3 DEF InOrder, DetectedOnce
<1>6. LostOnce(p, shown)
  BY <1>1, <1>2, <1>4 DEF InOrder, LostOnce, Loses
<1>7. PresentAnnounced(p, shown, present)
  BY <1>3 DEF InOrder, PresentAnnounced
<1>8. OthersEnd(p, shown, present)
  BY <1>2, <1>3 DEF InOrder, OthersEnd
<1>9. OneAtATime(p, shown)
  BY <1>2, <1>4 DEF InOrder, OneAtATime
<1>10. QED
  BY <1>5, <1>6, <1>7, <1>8, <1>9 DEF InOrder, p

\* What is behind the head of the queue stays, and stays in its order.
LEMMA BehindTheHead ==
  ASSUME NEW T, NEW q \in Seq(T), q # <<>>, NEW id
  PROVE  /\ ~Detects(Head(q), id) =>
              /\ DetectionIn(Tail(q), id) <=> DetectionIn(q, id)
              /\ \A j \in DOMAIN Tail(q) :
                   DetectionBefore(Tail(q), id, j) <=> DetectionBefore(q, id, j + 1)
         /\ ~Loses(Head(q), id) =>
              /\ LossIn(Tail(q), id) <=> LossIn(q, id)
              /\ \A j \in DOMAIN Tail(q) :
                   LossBefore(Tail(q), id, j) <=> LossBefore(q, id, j + 1)
<1> DEFINE p == Tail(q)
<1>1. /\ Head(q) = q[1]
      /\ \A i \in DOMAIN p : i + 1 \in DOMAIN q /\ p[i] = q[i + 1]
      /\ \A i, j \in DOMAIN p : i < j <=> i + 1 < j + 1
      /\ \A i \in DOMAIN q : i # 1 => i - 1 \in DOMAIN p /\ p[i - 1] = q[i]
      /\ \A i \in DOMAIN q : \A j \in DOMAIN p : i < j + 1 <=> i - 1 < j
  BY TailAt
<1> HIDE DEF p
<1>2. ASSUME ~Detects(q[1], id)
      PROVE  /\ DetectionIn(p, id) <=> DetectionIn(q, id)
             /\ \A j \in DOMAIN p : DetectionBefore(p, id, j) <=> DetectionBefore(q, id, j + 1)
  <2>1. \A i \in DOMAIN q : Detects(q[i], id) => i # 1
    BY <1>2
  <2>2. DetectionIn(p, id) <=> DetectionIn(q, id)
    BY <1>1, <2>1 DEF DetectionIn
  <2>3. ASSUME NEW j \in DOMAIN p, DetectionBefore(p, id, j)
        PROVE  DetectionBefore(q, id, j + 1)
    BY <1>1, <2>3 DEF DetectionBefore
  <2>4. ASSUME NEW j \in DOMAIN p, DetectionBefore(q, id, j + 1)
        PROVE  DetectionBefore(p, id, j)
    BY <1>1, <2>1, <2>4 DEF DetectionBefore
  <2>5. QED
    BY <2>2, <2>3, <2>4
<1>3. ASSUME ~Loses(q[1], id)
      PROVE  /\ LossIn(p, id) <=> LossIn(q, id)
             /\ \A j \in DOMAIN p : LossBefore(p, id, j) <=> LossBefore(q, id, j + 1)
  <2>1. \A i \in DOMAIN q : Loses(q[i], id) => i # 1
    BY <1>3
  <2>2. LossIn(p, id) <=> LossIn(q, id)
    BY <1>1, <2>1 DEF LossIn
  <2>3. ASSUME NEW j \in DOMAIN p, LossBefore(p, id, j)
        PROVE  LossBefore(q, id, j + 1)
    BY <1>1, <2>3 DEF LossBefore
  <2>4. ASSUME NEW j \in DOMAIN p, LossBefore(q, id, j + 1)
        PROVE  LossBefore(p, id, j)
    BY <1>1, <2>1, <2>4 DEF LossBefore
  <2>5. QED
    BY <2>2, <2>3, <2>4
<1>4. QED
  BY <1>1, <1>2, <1>3 DEF p

LEMMA StillDetectedOnce ==
  ASSUME NEW T, NEW q \in Seq(T), q # <<>>, NEW shown, DetectedOnce(q, shown)
  PROVE  /\ \A i, j \in DOMAIN Tail(q) :
              Tail(q)[i].type = "detected" /\ Tail(q)[j].type = "detected"
                /\ Tail(q)[i].id = Tail(q)[j].id => i = j
         /\ Head(q).type = "detected" => ~DetectionIn(Tail(q), Head(q).id)
<1> DEFINE p == Tail(q)
<1>1. /\ Head(q) = q[1] /\ 1 \in DOMAIN q
      /\ \A i \in DOMAIN p : i + 1 \in DOMAIN q /\ p[i] = q[i + 1]
      /\ \A i, j \in DOMAIN p : i + 1 # 1 /\ (i + 1 = j + 1 => i = j)
  BY TailAt
<1> HIDE DEF p
<1>2. ASSUME NEW i \in DOMAIN p, NEW j \in DOMAIN p,
             p[i].type = "detected", p[j].type = "detected", p[i].id = p[j].id
      PROVE  i = j
  <2>1. /\ i + 1 \in DOMAIN q /\ j + 1 \in DOMAIN q
        /\ q[i + 1].type = "detected" /\ q[j + 1].type = "detected" /\ q[i + 1].id = q[j + 1].id
    BY <1>1, <1>2
  <2>2. i + 1 = j + 1
    BY <2>1 DEF DetectedOnce
  <2>3. QED
    BY <1>1, <2>2
<1>3. ASSUME q[1].type = "detected", NEW i \in DOMAIN p, Detects(p[i], q[1].id)
      PROVE  FALSE
  <2>1. i + 1 \in DOMAIN q /\ q[i + 1].type = "detected" /\ q[i + 1].id = q[1].id
    BY <1>1, <1>3 DEF Detects
  <2>2. i + 1 = 1
    BY <1>1, <1>3, <2>1 DEF DetectedOnce
  <2>3. QED
    BY <1>1, <2>2
<1>4. QED
  BY <1>1, <1>2, <1>3 DEF p, DetectionIn

LEMMA OtherDispatched ==
  ASSUME NEW T, NEW q \in Seq(T), q # <<>>, ~Announces(Head(q)),
         NEW shown, NEW present, InOrder(q, shown, present)
  PROVE  InOrder(Tail(q), shown, present)
<1> DEFINE p == Tail(q)
<1>1. /\ DOMAIN p \subseteq Nat /\ DOMAIN q \subseteq Nat
      /\ \A i \in DOMAIN p : i + 1 \in DOMAIN q /\ p[i] = q[i + 1]
      /\ \A i, j \in DOMAIN p : (i < j <=> i + 1 < j + 1) /\ (i + 1 = j + 1 => i = j)
  BY TailAt
<1>2. \A id : ~Detects(Head(q), id) /\ ~Loses(Head(q), id)
  BY DEF Announces, Detects, Loses
<1>3. \A id : /\ DetectionIn(p, id) <=> DetectionIn(q, id)
              /\ LossIn(p, id) <=> LossIn(q, id)
  BY <1>2, BehindTheHead
<1>4. \A id : \A j \in DOMAIN p :
                     /\ DetectionBefore(p, id, j) <=> DetectionBefore(q, id, j + 1)
                     /\ LossBefore(p, id, j) <=> LossBefore(q, id, j + 1)
  BY <1>2, BehindTheHead
<1>5. DetectedOnce(p, shown)
  BY <1>3, StillDetectedOnce DEF InOrder, DetectedOnce
<1> HIDE DEF p
<1>6. LostOnce(p, shown)
  BY <1>1, <1>4 DEF InOrder, LostOnce, Loses
<1>7. PresentAnnounced(p, shown, present)
  BY <1>3 DEF InOrder, PresentAnnounced
<1>8. OthersEnd(p, shown, present)
  BY <1>1, <1>3 DEF InOrder, OthersEnd
<1>9. OneAtATime(p, shown)
  BY <1>1, <1>4 DEF InOrder, OneAtATime
<1>10. QED
  BY <1>5, <1>6, <1>7, <1>8, <1>9 DEF InOrder, p

\* A session begins: everything before it has been announced to be over.
LEMMA DetectionPosted ==
  ASSUME NEW T, NEW q \in Seq(T), NEW e \in T, NEW id, Detects(e, id),
         NEW shown, InOrder(q, shown, {}),
         id \notin shown, ~DetectionIn(q, id)
  PROVE  InOrder(Append(q, e), shown, {id})
<1> DEFINE p == Append(q, e)
           n == Len(q) + 1
<1>1. /\ n \in Nat /\ n \in DOMAIN p /\ p[n] = e /\ DOMAIN q \subseteq Nat
      /\ \A i \in DOMAIN q : i \in DOMAIN p /\ p[i] = q[i] /\ i < n
      /\ \A i \in DOMAIN p : i # n => i \in DOMAIN q /\ p[i] = q[i]
  BY AppendAt
<1> HIDE DEF p, n
<1>2. e.type = "detected" /\ e.id = id
  BY DEF Detects
<1>3. /\ \A x : LossIn(p, x) <=> LossIn(q, x)
      /\ \A x : DetectionIn(p, x) <=> DetectionIn(q, x) \/ x = id
  BY <1>1, <1>2 DEF LossIn, DetectionIn, Detects, Loses
<1>4. \A x : \A j \in DOMAIN q :
        /\ DetectionBefore(p, x, j) <=> DetectionBefore(q, x, j)
        /\ LossBefore(p, x, j) <=> LossBefore(q, x, j)
  BY <1>1 DEF DetectionBefore, LossBefore
<1>5. \A x : LossIn(q, x) => LossBefore(p, x, n)
  BY <1>1 DEF LossIn, LossBefore, Loses
<1>6. ~LossIn(q, id)
  BY DEF InOrder, LostOnce, LossIn, Loses, DetectionBefore, DetectionIn
<1>7. DetectedOnce(p, shown)
  BY <1>1, <1>2, <1>3 DEF InOrder, DetectedOnce, DetectionIn, Detects
<1>8. LostOnce(p, shown)
  BY <1>1, <1>2, <1>4 DEF InOrder, LostOnce, Loses
<1>9. PresentAnnounced(p, shown, {id})
  BY <1>3, <1>6 DEF PresentAnnounced
<1>10. OthersEnd(p, shown, {id})
  BY <1>1, <1>2, <1>3 DEF InOrder, OthersEnd
<1>11. OneAtATime(p, shown)
  <2>1. \A x \in shown : LossBefore(p, x, n)
    BY <1>5 DEF InOrder, OthersEnd
  <2>2. \A i \in DOMAIN q : q[i].type = "detected" => LossBefore(p, q[i].id, n)
    BY <1>5 DEF InOrder, OthersEnd
  <2>3. QED
    BY <1>1, <1>4, <2>1, <2>2 DEF InOrder, OneAtATime
<1>12. QED
  BY <1>7, <1>8, <1>9, <1>10, <1>11 DEF InOrder, p

\* A session has ended.
LEMMA LossPosted ==
  ASSUME NEW T, NEW q \in Seq(T), NEW e \in T, NEW id, Loses(e, id),
         NEW shown, InOrder(q, shown, {id})
  PROVE  InOrder(Append(q, e), shown, {})
<1> DEFINE p == Append(q, e)
           n == Len(q) + 1
<1>1. /\ n \in Nat /\ n \in DOMAIN p /\ p[n] = e /\ DOMAIN q \subseteq Nat
      /\ \A i \in DOMAIN q : i \in DOMAIN p /\ p[i] = q[i] /\ i < n
      /\ \A i \in DOMAIN p : i # n => i \in DOMAIN q /\ p[i] = q[i]
  BY AppendAt
<1> HIDE DEF p, n
<1>2. e.type = "lost" /\ e.id = id
  BY DEF Loses
<1>3. /\ \A x : DetectionIn(p, x) <=> DetectionIn(q, x)
      /\ \A x : LossIn(p, x) <=> LossIn(q, x) \/ x = id
  BY <1>1, <1>2 DEF LossIn, DetectionIn, Detects, Loses
<1>4. \A x : \A j \in DOMAIN q :
        /\ DetectionBefore(p, x, j) <=> DetectionBefore(q, x, j)
        /\ LossBefore(p, x, j) <=> LossBefore(q, x, j)
  BY <1>1 DEF DetectionBefore, LossBefore
<1>5. \A x : DetectionIn(q, x) => DetectionBefore(p, x, n)
  BY <1>1 DEF DetectionIn, DetectionBefore, Detects
<1>6. (id \in shown \/ DetectionIn(q, id)) /\ ~LossIn(q, id)
  BY DEF InOrder, PresentAnnounced
<1>7. DetectedOnce(p, shown)
  BY <1>1, <1>2, <1>3 DEF InOrder, DetectedOnce
<1>8. LostOnce(p, shown)
  <2>1. ASSUME NEW i \in DOMAIN p, p[i].type = "lost", i # n
        PROVE  /\ p[i].id \in shown \/ DetectionBefore(p, p[i].id, i)
               /\ \A j \in DOMAIN p : Loses(p[j], p[i].id) => i = j
    <3>1. i \in DOMAIN q /\ p[i] = q[i] /\ q[i].id # id
      BY <1>1, <1>6, <2>1 DEF LossIn, Loses
    <3>2. QED
      BY <1>1, <1>2, <1>4, <2>1, <3>1 DEF InOrder, LostOnce, Loses
  <2>2. /\ id \in shown \/ DetectionBefore(p, id, n)
        /\ \A j \in DOMAIN p : Loses(p[j], id) => n = j
    BY <1>1, <1>5, <1>6 DEF LossIn
  <2>3. QED
    BY <1>1, <1>2, <2>1, <2>2 DEF LostOnce
<1>9. PresentAnnounced(p, shown, {})
  BY DEF PresentAnnounced
<1>10. OthersEnd(p, shown, {})
  BY <1>1, <1>2, <1>3 DEF InOrder, OthersEnd
<1>11. OneAtATime(p, shown)
  BY <1>1, <1>2, <1>4 DEF InOrder, OneAtATime
<1>12. QED
  BY <1>7, <1>8, <1>9, <1>10, <1>11 DEF InOrder, p

\* The adapter learns of a session: it has no object then, and gets one.
LEMMA DetectionDispatched ==
  ASSUME NEW T, NEW q \in Seq(T), q # <<>>, NEW id, Detects(Head(q), id),
         NEW shown, NEW present, InOrder(q, shown, present)
  PROVE  shown = {} /\ InOrder(Tail(q), {id}, present)
<1> DEFINE p == Tail(q)
<1>1. /\ DOMAIN p \subseteq Nat /\ DOMAIN q \subseteq Nat \ {0}
      /\ \A i \in DOMAIN p : i + 1 \in DOMAIN q /\ p[i] = q[i + 1]
      /\ \A i, j \in DOMAIN p : 1 < i + 1 /\ (i < j <=> i + 1 < j + 1) /\ (i + 1 = j + 1 => i = j)
      /\ 1 \in DOMAIN q /\ Head(q) = q[1]
  BY TailAt
<1>2. q[1].type = "detected" /\ q[1].id = id
  BY <1>1 DEF Detects
<1>3. shown = {}
  <2>1. \A i \in DOMAIN q : ~(i < 1)
    BY <1>1
  <2>2. QED
    BY <1>1, <1>2, <2>1 DEF InOrder, OneAtATime, LossBefore
<1>4. \A x : /\ ~Loses(Head(q), x)
             /\ Detects(Head(q), x) <=> x = id
  BY DEF Detects, Loses
<1>5. /\ \A x : LossIn(p, x) <=> LossIn(q, x)
      /\ \A x : x # id => (DetectionIn(p, x) <=> DetectionIn(q, x))
  BY <1>4, BehindTheHead
<1>6. /\ \A x : \A j \in DOMAIN p : LossBefore(p, x, j) <=> LossBefore(q, x, j + 1)
      /\ \A x : \A j \in DOMAIN p : x # id => (DetectionBefore(p, x, j) <=> DetectionBefore(q, x, j + 1))
  BY <1>4, BehindTheHead
<1>7. DetectedOnce(p, {id})
  <2>1. DetectedOnce(q, shown)
    BY DEF InOrder
  <2>2. /\ \A i, j \in DOMAIN p :
             p[i].type = "detected" /\ p[j].type = "detected" /\ p[i].id = p[j].id => i = j
        /\ ~DetectionIn(p, id)
    BY <1>1, <1>2, <2>1, StillDetectedOnce
  <2>3. QED
    BY <2>2 DEF DetectedOnce
<1> HIDE DEF p
<1>8. LostOnce(p, {id})
  BY <1>1, <1>3, <1>6 DEF InOrder, LostOnce, Loses
<1>9. PresentAnnounced(p, {id}, present)
  BY <1>3, <1>5 DEF InOrder, PresentAnnounced
<1>10. OthersEnd(p, {id}, present)
  BY <1>1, <1>2, <1>5 DEF InOrder, OthersEnd
<1>11. OneAtATime(p, {id})
  <2>1. ASSUME NEW j \in DOMAIN p, p[j].type = "detected"
        PROVE  LossBefore(p, id, j)
    <3>1. j + 1 \in DOMAIN q /\ 1 < j + 1 /\ q[j + 1].type = "detected"
      BY <1>1, <2>1
    <3>2. LossBefore(q, q[1].id, j + 1)
      BY <1>1, <1>2, <3>1 DEF InOrder, OneAtATime
    <3>3. QED
      BY <1>2, <1>6, <3>2
  <2>2. ASSUME NEW j \in DOMAIN p, p[j].type = "detected",
               NEW i \in DOMAIN p, i < j, p[i].type = "detected"
        PROVE  LossBefore(p, p[i].id, j)
    <3>1. /\ j + 1 \in DOMAIN q /\ q[j + 1].type = "detected"
          /\ i + 1 \in DOMAIN q /\ q[i + 1] = p[i] /\ i + 1 < j + 1
      BY <1>1, <2>2
    <3>2. LossBefore(q, q[i + 1].id, j + 1)
      BY <2>2, <3>1 DEF InOrder, OneAtATime
    <3>3. QED
      BY <1>6, <3>1, <3>2
  <2>3. QED
    BY <2>1, <2>2 DEF OneAtATime
<1>12. QED
  BY <1>3, <1>7, <1>8, <1>9, <1>10, <1>11 DEF InOrder, p

\* The adapter learns of its end: it has the object of this session and no other.
LEMMA LossDispatched ==
  ASSUME NEW T, NEW q \in Seq(T), q # <<>>, NEW id, Loses(Head(q), id),
         NEW shown, NEW present, InOrder(q, shown, present)
  PROVE  shown = {id} /\ id \notin present /\ InOrder(Tail(q), {}, present)
<1> DEFINE p == Tail(q)
<1>1. /\ DOMAIN p \subseteq Nat /\ DOMAIN q \subseteq Nat \ {0}
      /\ \A i \in DOMAIN p : i + 1 \in DOMAIN q /\ p[i] = q[i + 1]
      /\ \A i, j \in DOMAIN p : i + 1 # 1 /\ (i < j <=> i + 1 < j + 1) /\ (i + 1 = j + 1 => i = j)
      /\ 1 \in DOMAIN q /\ Head(q) = q[1]
  BY TailAt
<1>2. q[1].type = "lost" /\ q[1].id = id
  BY <1>1 DEF Loses
<1>3. shown = {id}
  <2>1. \A i \in DOMAIN q : ~(i < 1)
    BY <1>1
  <2>2. id \in shown
    BY <1>1, <1>2, <2>1 DEF InOrder, LostOnce, DetectionBefore
  <2>3. QED
    BY <2>2 DEF InOrder, OneAtATime
<1>4. id \notin present /\ ~DetectionIn(q, id) /\ LossIn(q, id)
  BY <1>1, <1>3 DEF InOrder, PresentAnnounced, DetectedOnce, LossIn
<1>5. \A x : /\ ~Detects(Head(q), x)
             /\ Loses(Head(q), x) <=> x = id
  BY DEF Detects, Loses
<1>6. /\ \A x : DetectionIn(p, x) <=> DetectionIn(q, x)
      /\ \A x : x # id => (LossIn(p, x) <=> LossIn(q, x))
  BY <1>5, BehindTheHead
<1>7. /\ \A x : \A j \in DOMAIN p : DetectionBefore(p, x, j) <=> DetectionBefore(q, x, j + 1)
      /\ \A x : \A j \in DOMAIN p : x # id => (LossBefore(p, x, j) <=> LossBefore(q, x, j + 1))
  BY <1>5, BehindTheHead
<1>8. DetectedOnce(p, {})
  BY StillDetectedOnce DEF InOrder, DetectedOnce
<1> HIDE DEF p
<1>9. ~LossIn(p, id)
  <2>1. ASSUME NEW i \in DOMAIN p, Loses(p[i], id)
        PROVE  FALSE
    <3>1. i + 1 \in DOMAIN q /\ Loses(q[i + 1], id) /\ i + 1 # 1
      BY <1>1, <2>1
    <3>2. QED
      BY <1>1, <1>2, <3>1 DEF InOrder, LostOnce
  <2>2. QED
    BY <2>1 DEF LossIn
<1>10. LostOnce(p, {})
  <2>1. ASSUME NEW i \in DOMAIN p, p[i].type = "lost"
        PROVE  /\ DetectionBefore(p, p[i].id, i)
               /\ \A j \in DOMAIN p : Loses(p[j], p[i].id) => i = j
    <3>1. i + 1 \in DOMAIN q /\ q[i + 1] = p[i] /\ p[i].id # id
      BY <1>1, <1>9, <2>1 DEF LossIn, Loses
    <3>2. /\ q[i + 1].id \in shown \/ DetectionBefore(q, q[i + 1].id, i + 1)
          /\ \A j \in DOMAIN q : Loses(q[j], q[i + 1].id) => i + 1 = j
      BY <2>1, <3>1 DEF InOrder, LostOnce
    <3>3. QED
      BY <1>1, <1>3, <1>7, <3>1, <3>2
  <2>2. QED
    BY <2>1 DEF LostOnce
<1>11. PresentAnnounced(p, {}, present)
  BY <1>3, <1>4, <1>6 DEF InOrder, PresentAnnounced
<1>12. OthersEnd(p, {}, present)
  <2>1. ASSUME NEW i \in DOMAIN p, p[i].type = "detected"
        PROVE  LossIn(p, p[i].id) \/ p[i].id \in present
    <3>1. i + 1 \in DOMAIN q /\ q[i + 1] = p[i] /\ p[i].id # id
      BY <1>1, <1>4, <2>1 DEF DetectionIn, Detects
    <3>2. QED
      BY <1>6, <2>1, <3>1 DEF InOrder, OthersEnd
  <2>2. QED
    BY <2>1 DEF OthersEnd
<1>13. OneAtATime(p, {})
  <2>1. ASSUME NEW j \in DOMAIN p, p[j].type = "detected",
               NEW i \in DOMAIN p, i < j, p[i].type = "detected"
        PROVE  LossBefore(p, p[i].id, j)
    <3>1. /\ i + 1 \in DOMAIN q /\ q[i + 1] = p[i] /\ p[i].id # id
          /\ j + 1 \in DOMAIN q /\ q[j + 1] = p[j] /\ i + 1 < j + 1
      BY <1>1, <1>4, <2>1 DEF DetectionIn, Detects
    <3>2. LossBefore(q, q[i + 1].id, j + 1)
      BY <2>1, <3>1 DEF InOrder, OneAtATime
    <3>3. QED
      BY <1>7, <3>1, <3>2
  <2>2. QED
    BY <2>1 DEF OneAtATime
<1>14. QED
  BY <1>3, <1>4, <1>8, <1>10, <1>11, <1>12, <1>13 DEF InOrder, p

-----------------------------------------------------------------------------
(***************************************************************************)
(* How many callbacks of a kind are queued.                                *)
(***************************************************************************)
Copies(q, cb) == Cardinality({i \in DOMAIN q : q[i] = cb})

LEMMA Positions ==
  ASSUME NEW T, NEW q \in Seq(T), NEW D, D \subseteq DOMAIN q
  PROVE  IsFiniteSet(D) /\ Cardinality(D) \in Nat /\ D \subseteq Nat \ {0}
<1>1. DOMAIN q = 1..Len(q) /\ Len(q) \in Nat
  OBVIOUS
<1>2. IsFiniteSet(DOMAIN q)
  BY <1>1, FS_Interval
<1>3. QED
  BY <1>1, <1>2, FS_Subset, FS_CardinalityType

LEMMA CopiesType ==
  ASSUME NEW T, NEW q \in Seq(T), NEW cb
  PROVE  /\ Copies(q, cb) \in Nat
         /\ Copies(q, cb) = 0 <=> \A i \in DOMAIN q : q[i] # cb
<1> DEFINE D == {i \in DOMAIN q : q[i] = cb}
<1>1. IsFiniteSet(D) /\ Cardinality(D) \in Nat
  BY Positions
<1>2. Cardinality(D) = 0 <=> D = {}
  BY <1>1, FS_EmptySet
<1>3. QED
  BY <1>1, <1>2 DEF Copies

\* Positions counted from one place further on.
LEMMA Shifted ==
  ASSUME NEW D, IsFiniteSet(D), D \subseteq Nat \ {0},
         NEW E, E = {i - 1 : i \in D}
  PROVE  IsFiniteSet(E) /\ Cardinality(E) = Cardinality(D)
<1> DEFINE f == [i \in D |-> i - 1]
<1>1. f \in Surjection(D, E)
  BY DEF Surjection
<1>2. f \in Injection(D, E)
  <2>1. f \in [D -> E]
    OBVIOUS
  <2>2. \A i, j \in D : i - 1 = j - 1 => i = j
    OBVIOUS
  <2>3. QED
    BY <2>1, <2>2 DEF Injection, IsInjective
<1>3. QED
  BY <1>1, <1>2, FS_Surjection

LEMMA CopiesPosted ==
  ASSUME NEW T, NEW q \in Seq(T), NEW e \in T, NEW cb
  PROVE  Copies(Append(q, e), cb) = IF e = cb THEN Copies(q, cb) + 1 ELSE Copies(q, cb)
<1> DEFINE p == Append(q, e)
           D == {i \in DOMAIN q : q[i] = cb}
           E == {i \in DOMAIN p : p[i] = cb}
<1>1. /\ Len(q) + 1 \in DOMAIN p /\ Len(q) + 1 \notin DOMAIN q /\ p[Len(q) + 1] = e
      /\ \A i \in DOMAIN q : i \in DOMAIN p /\ p[i] = q[i]
      /\ \A i \in DOMAIN p : i \in DOMAIN q \/ i = Len(q) + 1
  BY AppendAt
<1>2. IsFiniteSet(D)
  BY Positions
<1> HIDE DEF p
<1>3. CASE e = cb
  <2>1. E = D \cup {Len(q) + 1} /\ Len(q) + 1 \notin D
    BY <1>1, <1>3
  <2>2. QED
    BY <1>2, <1>3, <2>1, FS_AddElement DEF Copies, p
<1>4. CASE e # cb
  <2>1. E = D
    BY <1>1, <1>4
  <2>2. QED
    BY <1>4, <2>1 DEF Copies, p
<1>5. QED
  BY <1>3, <1>4

LEMMA CopiesDispatched ==
  ASSUME NEW T, NEW q \in Seq(T), q # <<>>, NEW cb
  PROVE  Copies(Tail(q), cb) = IF Head(q) = cb THEN Copies(q, cb) - 1 ELSE Copies(q, cb)
<1> DEFINE p == Tail(q)
           D == {i \in DOMAIN q : q[i] = cb}
           E == {i \in DOMAIN p : p[i] = cb}
<1>1. /\ Head(q) = q[1] /\ 1 \in DOMAIN q /\ DOMAIN q \subseteq Nat \ {0} /\ DOMAIN p \subseteq Nat
      /\ \A i \in DOMAIN p : i + 1 \in DOMAIN q /\ p[i] = q[i + 1] /\ i + 1 # 1
      /\ \A i \in DOMAIN q : i # 1 => i - 1 \in DOMAIN p /\ p[i - 1] = q[i]
  BY TailAt
<1>2. IsFiniteSet(D) /\ D \ {1} \subseteq Nat \ {0}
  BY <1>1, Positions
<1> HIDE DEF p
<1>3. E = {i - 1 : i \in D \ {1}}
  <2>1. \A i \in E : i + 1 \in D \ {1} /\ i = (i + 1) - 1
    BY <1>1
  <2>2. \A i \in D \ {1} : i - 1 \in E
    BY <1>1
  <2>3. QED
    BY <2>1, <2>2
<1>4. IsFiniteSet(D \ {1}) /\ Cardinality(D \ {1}) = IF 1 \in D THEN Cardinality(D) - 1 ELSE Cardinality(D)
  BY <1>2, FS_RemoveElement
<1>5. Cardinality(E) = Cardinality(D \ {1})
  BY <1>2, <1>3, <1>4, Shifted
<1>6. 1 \in D <=> Head(q) = cb
  BY <1>1
<1>7. QED
  BY <1>4, <1>5, <1>6 DEF Copies, p

-----------------------------------------------------------------------------
(***************************************************************************)
(* The sequence of detections.  A detection has as its place in it the     *)
(* number of detections up to and including it.                            *)
(***************************************************************************)
LEMMA Places ==
  ASSUME NEW D, IsFiniteSet(D), D \subseteq Nat
  PROVE  /\ \A i \in D : Place(D, i) \in 1..Cardinality(D) /\ NthOf(D, Place(D, i)) = i
         /\ \A n \in 1..Cardinality(D) : NthOf(D, n) \in D /\ Place(D, NthOf(D, n)) = n
<1> DEFINE f == [i \in D |-> Place(D, i)]
           U(i) == {j \in D : j <= i}
<1>1. Cardinality(D) \in Nat
  BY FS_CardinalityType
<1>2. ASSUME NEW i \in D
      PROVE  IsFiniteSet(U(i)) /\ Cardinality(U(i)) \in 1..Cardinality(D)
  <2>1. U(i) \subseteq D /\ i \in U(i)
    OBVIOUS
  <2>2. IsFiniteSet(U(i)) /\ Cardinality(U(i)) <= Cardinality(D)
    BY <2>1, FS_Subset
  <2>3. Cardinality(U(i)) \in Nat /\ Cardinality(U(i)) # 0
    BY <2>1, <2>2, FS_CardinalityType, FS_EmptySet
  <2>4. QED
    BY <1>1, <2>2, <2>3
<1>3. ASSUME NEW i \in D, NEW j \in D, i < j
      PROVE  Cardinality(U(i)) # Cardinality(U(j))
  <2>0. i \in Nat /\ j \in Nat
    OBVIOUS
  <2>1. U(i) \subseteq U(j) /\ j \in U(j) /\ j \notin U(i)
    <3>1. \A k \in D : k <= i => k <= j
      BY <1>3, <2>0
    <3>2. j <= j /\ ~(j <= i)
      BY <1>3, <2>0
    <3>3. QED
      BY <3>1, <3>2
  <2>2. U(i) # U(j)
    BY <2>1
  <2>3. QED
    BY <1>2, <2>1, <2>2, FS_Subset
<1>4. f \in Injection(D, 1..Cardinality(D))
  <2>1. f \in [D -> 1..Cardinality(D)]
    BY <1>2 DEF Place
  <2>2. \A i, j \in D : f[i] = f[j] => i = j
    BY <1>3 DEF Place
  <2>3. QED
    BY <2>1, <2>2 DEF Injection, IsInjective
<1>5. IsFiniteSet(1..Cardinality(D)) /\ Cardinality(1..Cardinality(D)) = Cardinality(D)
  BY <1>1, FS_Interval
<1>6. f \in Surjection(D, 1..Cardinality(D))
  BY <1>4, <1>5, FS_Injection
<1>7. \A n \in 1..Cardinality(D) : \E i \in D : Place(D, i) = n
  BY <1>6 DEF Surjection
<1>8. \A i, j \in D : Place(D, i) = Place(D, j) => i = j
  BY <1>4 DEF Injection, IsInjective
<1>9. \A i \in D : Place(D, i) \in 1..Cardinality(D)
  BY <1>2 DEF Place
<1>10. QED
  BY <1>7, <1>8, <1>9 DEF NthOf

LEMMA DetectionsAre ==
  ASSUME NEW T, NEW q \in Seq(T)
  PROVE  LET D == DetectionsAt(q)
         IN  /\ Cardinality(D) \in Nat
             /\ DetectionsOf(q) \in Seq(T)
             /\ Len(DetectionsOf(q)) = Cardinality(D)
             /\ \A i \in D : Place(D, i) \in 1..Cardinality(D) /\ DetectionsOf(q)[Place(D, i)] = q[i]
             /\ \A s \in Seq(T) :
                  Len(s) = Cardinality(D) /\ (\A i \in D : s[Place(D, i)] = q[i]) => DetectionsOf(q) = s
<1> DEFINE D == DetectionsAt(q)
           n == Cardinality(D)
<1>1. IsFiniteSet(D) /\ n \in Nat /\ D \subseteq Nat /\ D \subseteq DOMAIN q
  BY Positions DEF DetectionsAt
<1> HIDE DEF D
<1>2. /\ \A i \in D : Place(D, i) \in 1..n /\ NthOf(D, Place(D, i)) = i
      /\ \A k \in 1..n : NthOf(D, k) \in D /\ Place(D, NthOf(D, k)) = k
  BY <1>1, Places
<1>3. DetectionsOf(q) = [k \in 1..n |-> q[NthOf(D, k)]]
  BY DEF DetectionsOf, D
<1> HIDE DEF n
<1>4. \A k \in 1..n : q[NthOf(D, k)] \in T
  <2>1. \A i \in DOMAIN q : q[i] \in T
    OBVIOUS
  <2>2. QED
    BY <1>1, <1>2, <2>1
<1>5. DetectionsOf(q) \in Seq(T) /\ Len(DetectionsOf(q)) = n
  BY <1>1, <1>3, <1>4
<1>6. \A i \in D : DetectionsOf(q)[Place(D, i)] = q[i]
  BY <1>2, <1>3
<1>7. ASSUME NEW s \in Seq(T), Len(s) = n, \A i \in D : s[Place(D, i)] = q[i]
      PROVE  DetectionsOf(q) = s
  <2>1. \A k \in 1..n : s[k] = q[NthOf(D, k)]
    BY <1>2, <1>7
  <2>2. s = [k \in 1..n |-> s[k]]
    BY <1>7
  <2>3. QED
    BY <1>3, <2>1, <2>2
<1>8. QED
  BY <1>1, <1>2, <1>5, <1>6, <1>7 DEF n, D

LEMMA OtherPostedDetections ==
  ASSUME NEW T, NEW q \in Seq(T), NEW e \in T, e.type # "detected"
  PROVE  DetectionsOf(Append(q, e)) = DetectionsOf(q)
<1> DEFINE p == Append(q, e)
           D == DetectionsAt(q)
<1>1. /\ p \in Seq(T) /\ p[Len(q) + 1] = e
      /\ \A i \in DOMAIN q : i \in DOMAIN p /\ p[i] = q[i]
      /\ \A i \in DOMAIN p : i \in DOMAIN q \/ i = Len(q) + 1
  BY AppendAt
<1> HIDE DEF p
<1>2. DetectionsAt(p) = D
  BY <1>1 DEF DetectionsAt
<1>3. /\ DetectionsOf(q) \in Seq(T) /\ Len(DetectionsOf(q)) = Cardinality(D)
      /\ \A i \in D : DetectionsOf(q)[Place(D, i)] = q[i]
  BY DetectionsAre
<1>4. \A i \in D : p[i] = q[i]
  BY <1>1 DEF DetectionsAt
<1>5. \A s \in Seq(T) :
        Len(s) = Cardinality(D) /\ (\A i \in D : s[Place(D, i)] = p[i]) => DetectionsOf(p) = s
  BY <1>1, <1>2, DetectionsAre
<1> HIDE DEF D
<1>6. DetectionsOf(p) = DetectionsOf(q)
  BY <1>3, <1>4, <1>5
<1>7. QED
  BY <1>6 DEF p

LEMMA DetectionPostedDetections ==
  ASSUME NEW T, NEW q \in Seq(T), NEW e \in T, e.type = "detected"
  PROVE  DetectionsOf(Append(q, e)) = Append(DetectionsOf(q), e)
<1> DEFINE p == Append(q, e)
           m == Len(q) + 1
           D == DetectionsAt(q)
           E == DetectionsAt(p)
           s == Append(DetectionsOf(q), e)
<1>1. /\ p \in Seq(T) /\ m \in DOMAIN p /\ m \notin DOMAIN q /\ p[m] = e
      /\ \A i \in DOMAIN q : i \in DOMAIN p /\ p[i] = q[i] /\ i < m
      /\ \A i \in DOMAIN p : (i \in DOMAIN q \/ i = m) /\ i <= m
      /\ \A i \in DOMAIN q : ~(m <= i)
  <2>1. Len(q) \in Nat /\ DOMAIN q = 1..Len(q) /\ DOMAIN p = 1..(Len(q) + 1)
    BY AppendAt
  <2>2. QED
    BY <2>1, AppendAt
<1>2. IsFiniteSet(D) /\ Cardinality(D) \in Nat /\ D \subseteq DOMAIN q
  BY Positions DEF DetectionsAt
<1> HIDE DEF p, m
<1>3. E = D \cup {m} /\ m \notin D
  BY <1>1 DEF DetectionsAt
<1>4. \A i \in D : p[i] = q[i]
  BY <1>1, <1>2
<1>5. Cardinality(E) = Cardinality(D) + 1
  BY <1>2, <1>3, FS_AddElement
<1>6. \A i \in D : Place(E, i) = Place(D, i)
  <2>1. ASSUME NEW i \in D
        PROVE  {j \in E : j <= i} = {j \in D : j <= i}
    BY <1>1, <1>2, <1>3
  <2>2. QED
    BY <2>1 DEF Place
<1>7. Place(E, m) = Cardinality(D) + 1
  <2>1. {j \in E : j <= m} = E
    <3>1. E \subseteq DOMAIN p
      BY DEF DetectionsAt
    <3>2. QED
      BY <1>1, <3>1
  <2>2. QED
    BY <1>5, <2>1 DEF Place
<1>8. /\ DetectionsOf(q) \in Seq(T) /\ Len(DetectionsOf(q)) = Cardinality(D)
      /\ \A i \in D : Place(D, i) \in 1..Cardinality(D) /\ DetectionsOf(q)[Place(D, i)] = q[i]
  BY DetectionsAre
<1> HIDE DEF D, E
<1>9. /\ s \in Seq(T) /\ Len(s) = Cardinality(D) + 1
      /\ \A k \in 1..Cardinality(D) : s[k] = DetectionsOf(q)[k]
      /\ s[Cardinality(D) + 1] = e
  <2>1. DetectionsOf(q) \in Seq(T) /\ Len(DetectionsOf(q)) = Cardinality(D)
    BY <1>8
  <2>2. QED
    BY <2>1
<1> HIDE DEF s
<1>10. \A i \in E : s[Place(E, i)] = p[i]
  <2>1. ASSUME NEW i \in D
        PROVE  s[Place(E, i)] = p[i]
    <3>1. Place(D, i) \in 1..Cardinality(D) /\ DetectionsOf(q)[Place(D, i)] = q[i]
      BY <1>8
    <3>2. s[Place(D, i)] = q[i]
      BY <1>9, <3>1
    <3>3. QED
      BY <1>4, <1>6, <3>2
  <2>2. s[Place(E, m)] = p[m]
    BY <1>1, <1>7, <1>9
  <2>3. QED
    BY <1>3, <2>1, <2>2
<1>11. DetectionsOf(p) = s
  BY <1>1, <1>5, <1>9, <1>10, DetectionsAre DEF E
<1>12. QED
  BY <1>11 DEF p, s

\* Behind the head of the queue, the detections and their places.
LEMMA DetectionsBehind ==
  ASSUME NEW T, NEW q \in Seq(T), q # <<>>
  PROVE  LET D == DetectionsAt(q)
             E == DetectionsAt(Tail(q))
             d == IF Head(q).type = "detected" THEN 1 ELSE 0
         IN  /\ Cardinality(E) = Cardinality(D) - d
             /\ \A i \in E : /\ i + 1 \in D /\ Tail(q)[i] = q[i + 1]
                             /\ Place(E, i) = Place(D, i + 1) - d
<1> DEFINE p == Tail(q)
           D == DetectionsAt(q)
           E == DetectionsAt(p)
           d == IF Head(q).type = "detected" THEN 1 ELSE 0
<1>1. /\ Head(q) = q[1] /\ 1 \in DOMAIN q /\ DOMAIN q \subseteq Nat \ {0} /\ DOMAIN p \subseteq Nat \ {0}
      /\ \A i \in DOMAIN p : i + 1 \in DOMAIN q /\ p[i] = q[i + 1] /\ i + 1 # 1
      /\ \A i \in DOMAIN q : i # 1 => i - 1 \in DOMAIN p /\ p[i - 1] = q[i]
  BY TailAt
<1>2. IsFiniteSet(D) /\ Cardinality(D) \in Nat /\ D \subseteq DOMAIN q /\ E \subseteq DOMAIN p
  BY Positions DEF DetectionsAt
<1>3. 1 \in D <=> d = 1
  BY <1>1 DEF DetectionsAt
<1>4. d = 0 \/ d = 1
  OBVIOUS
<1> HIDE DEF p
<1>5. \A i \in E : i + 1 \in D \ {1} /\ p[i] = q[i + 1] /\ i = (i + 1) - 1
  BY <1>1, <1>2 DEF DetectionsAt
<1>6. \A i \in D \ {1} : i - 1 \in E
  BY <1>1, <1>2 DEF DetectionsAt
<1> HIDE DEF D, E, d
<1>7. ASSUME NEW A, A \subseteq D,
             NEW B, B = {i - 1 : i \in A \ {1}}
      PROVE  Cardinality(B) = IF 1 \in A THEN Cardinality(A) - 1 ELSE Cardinality(A)
  <2>1. IsFiniteSet(A)
    BY <1>2, <1>7, FS_Subset
  <2>2. /\ IsFiniteSet(A \ {1})
        /\ Cardinality(A \ {1}) = IF 1 \in A THEN Cardinality(A) - 1 ELSE Cardinality(A)
    BY <2>1, FS_RemoveElement
  <2>3. A \ {1} \subseteq Nat \ {0}
    BY <1>1, <1>2, <1>7
  <2>4. Cardinality(B) = Cardinality(A \ {1})
    BY <1>7, <2>2, <2>3, Shifted
  <2>5. QED
    BY <2>2, <2>4
<1>8. E = {i - 1 : i \in D \ {1}}
  BY <1>5, <1>6
<1>9. Cardinality(E) = Cardinality(D) - d
  <2>1. Cardinality(E) = IF 1 \in D THEN Cardinality(D) - 1 ELSE Cardinality(D)
    BY <1>7, <1>8
  <2>2. QED
    BY <1>2, <1>3, <1>4, <2>1
<1>10. ASSUME NEW i \in E
       PROVE  Place(E, i) = Place(D, i + 1) - d
  <2> DEFINE A == {j \in D : j <= i + 1}
             B == {j \in E : j <= i}
  <2>1. i \in Nat \ {0} /\ E \subseteq Nat /\ D \subseteq Nat
    BY <1>1, <1>2
  <2>2. \A j \in B : j + 1 \in A \ {1} /\ j = (j + 1) - 1
    <3>1. \A j \in E : j <= i => j + 1 <= i + 1
      BY <2>1
    <3>2. QED
      BY <1>5, <3>1
  <2>3. \A j \in A \ {1} : j - 1 \in B
    <3>1. \A j \in D : j <= i + 1 => j - 1 <= i
      BY <2>1
    <3>2. QED
      BY <1>6, <3>1
  <2>4. B = {j - 1 : j \in A \ {1}}
    BY <2>2, <2>3
  <2>5. Cardinality(B) = IF 1 \in A THEN Cardinality(A) - 1 ELSE Cardinality(A)
    <3>1. A \subseteq D
      OBVIOUS
    <3> HIDE DEF A, B
    <3>2. QED
      BY <1>7, <2>4, <3>1
  <2>6. 1 \in A <=> d = 1
    BY <1>3, <2>1
  <2>7. Cardinality(A) \in Nat
    <3>1. IsFiniteSet(A)
      BY <1>2, FS_Subset
    <3>2. QED
      BY <3>1, FS_CardinalityType
  <2> HIDE DEF A, B
  <2>8. Cardinality(B) = Cardinality(A) - d
    BY <1>4, <2>5, <2>6, <2>7
  <2>9. QED
    BY <2>8 DEF Place, A, B
<1>11. QED
  BY <1>5, <1>9, <1>10 DEF D, E, d, p

LEMMA OtherDispatchedDetections ==
  ASSUME NEW T, NEW q \in Seq(T), q # <<>>, Head(q).type # "detected"
  PROVE  DetectionsOf(Tail(q)) = DetectionsOf(q)
<1> DEFINE p == Tail(q)
           D == DetectionsAt(q)
           E == DetectionsAt(p)
<1>1. p \in Seq(T)
  BY TailAt
<1>2. /\ Cardinality(D) \in Nat
      /\ DetectionsOf(q) \in Seq(T) /\ Len(DetectionsOf(q)) = Cardinality(D)
      /\ \A i \in D : Place(D, i) \in 1..Cardinality(D) /\ DetectionsOf(q)[Place(D, i)] = q[i]
  BY DetectionsAre
<1>3. /\ Cardinality(E) = Cardinality(D) - 0
      /\ \A i \in E : i + 1 \in D /\ p[i] = q[i + 1] /\ Place(E, i) = Place(D, i + 1) - 0
  BY DetectionsBehind
<1> HIDE DEF p, D, E
<1>4. /\ Cardinality(E) = Cardinality(D)
      /\ \A i \in E : Place(E, i) = Place(D, i + 1)
  BY <1>2, <1>3
<1>5. \A i \in E : DetectionsOf(q)[Place(E, i)] = p[i]
  BY <1>2, <1>3, <1>4
<1>6. DetectionsOf(p) = DetectionsOf(q)
  BY <1>1, <1>2, <1>4, <1>5, DetectionsAre DEF E
<1>7. QED
  BY <1>6 DEF p

LEMMA DetectionDispatchedDetections ==
  ASSUME NEW T, NEW q \in Seq(T), q # <<>>, Head(q).type = "detected"
  PROVE  /\ DetectionsOf(q) # <<>> /\ Head(DetectionsOf(q)) = Head(q)
         /\ DetectionsOf(Tail(q)) = Tail(DetectionsOf(q))
<1> DEFINE p == Tail(q)
           D == DetectionsAt(q)
           E == DetectionsAt(p)
           s == DetectionsOf(q)
<1>1. p \in Seq(T) /\ Head(q) = q[1] /\ 1 \in D /\ DOMAIN q \subseteq Nat \ {0}
  BY TailAt DEF DetectionsAt
<1>2. /\ Cardinality(D) \in Nat
      /\ s \in Seq(T) /\ Len(s) = Cardinality(D)
      /\ \A i \in D : Place(D, i) \in 1..Cardinality(D) /\ s[Place(D, i)] = q[i]
  BY DetectionsAre
<1>3. /\ Cardinality(E) = Cardinality(D) - 1
      /\ \A i \in E : i + 1 \in D /\ p[i] = q[i + 1] /\ Place(E, i) = Place(D, i + 1) - 1
  BY DetectionsBehind
<1>4. Place(D, 1) = 1
  <2>1. D \subseteq Nat \ {0}
    BY <1>1 DEF DetectionsAt
  <2>2. {j \in D : j <= 1} = {1}
    <3>1. \A j \in D : j <= 1 <=> j = 1
      BY <2>1
    <3>2. QED
      BY <1>1, <3>1
  <2>3. QED
    BY <2>2, FS_Singleton DEF Place
<1>5. /\ \A i \in E : Place(E, i) \in 1..Cardinality(E)
      /\ \A r \in Seq(T) :
           Len(r) = Cardinality(E) /\ (\A i \in E : r[Place(E, i)] = p[i]) => DetectionsOf(p) = r
  BY <1>1, DetectionsAre
<1> HIDE DEF p, D, E, s
<1>6. s # <<>> /\ s[1] = q[1] /\ 1 \in 1..Cardinality(D)
  BY <1>1, <1>2, <1>4
<1>7. /\ Head(s) = s[1] /\ Tail(s) \in Seq(T) /\ Len(Tail(s)) = Cardinality(D) - 1
      /\ \A k \in 1..(Cardinality(D) - 1) : Tail(s)[k] = s[k + 1]
  BY <1>2, <1>6
<1>8. \A i \in E : Tail(s)[Place(E, i)] = p[i]
  <2>1. ASSUME NEW i \in E
        PROVE  Tail(s)[Place(E, i)] = p[i]
    <3>1. /\ i + 1 \in D /\ p[i] = q[i + 1] /\ s[Place(D, i + 1)] = q[i + 1]
          /\ Place(D, i + 1) \in 1..Cardinality(D)
          /\ Place(E, i) = Place(D, i + 1) - 1
      BY <1>2, <1>3
    <3>2. Place(E, i) \in 1..(Cardinality(D) - 1)
      BY <1>3, <1>5
    <3>3. Tail(s)[Place(E, i)] = s[Place(E, i) + 1]
      BY <1>7, <3>2
    <3>4. Place(E, i) + 1 = Place(D, i + 1)
      BY <3>1
    <3>5. QED
      BY <3>1, <3>3, <3>4
  <2>2. QED
    BY <2>1
<1>9. DetectionsOf(p) = Tail(s)
  BY <1>3, <1>5, <1>7, <1>8
<1>10. QED
  BY <1>1, <1>6, <1>7, <1>9 DEF p, s

\* The sequence is made of the detections in the queue.
LEMMA DetectionsQueued ==
  ASSUME NEW T, NEW q \in Seq(T)
  PROVE  /\ \A n \in DOMAIN DetectionsOf(q) : DetectionIn(q, DetectionsOf(q)[n].id)
         /\ \A id : DetectionIn(q, id) => DetectionsOf(q) # <<>>
<1> DEFINE D == DetectionsAt(q)
<1>1. IsFiniteSet(D) /\ D \subseteq Nat /\ D \subseteq DOMAIN q
  <2>1. Len(q) \in Nat /\ DOMAIN q = 1..Len(q)
    BY AppendAt
  <2>2. IsFiniteSet(1..Len(q)) /\ D \subseteq 1..Len(q)
    BY <2>1, FS_Interval DEF DetectionsAt
  <2>3. QED
    BY <2>1, <2>2, FS_Subset
<1>2. \A n \in 1..Cardinality(D) : NthOf(D, n) \in D
  BY <1>1, Places
<1>3. ASSUME NEW n \in DOMAIN DetectionsOf(q)
      PROVE  DetectionIn(q, DetectionsOf(q)[n].id)
  <2>1. n \in 1..Cardinality(D) /\ DetectionsOf(q)[n] = q[NthOf(D, n)]
    BY DEF DetectionsOf
  <2>2. NthOf(D, n) \in DOMAIN q /\ q[NthOf(D, n)].type = "detected"
    BY <1>2, <2>1 DEF DetectionsAt
  <2>3. QED
    BY <2>1, <2>2 DEF DetectionIn, Detects
<1>4. ASSUME NEW id, DetectionIn(q, id)
      PROVE  DetectionsOf(q) # <<>>
  <2>1. PICK i \in D : TRUE
    BY <1>4 DEF DetectionIn, Detects, DetectionsAt
  <2>2. Place(D, i) \in 1..Cardinality(D)
    BY <1>1, Places
  <2>3. Place(D, i) \in DOMAIN DetectionsOf(q)
    BY <2>2 DEF DetectionsOf
  <2>4. QED
    BY <2>3
<1>5. QED
  BY <1>3, <1>4

-----------------------------------------------------------------------------
(***************************************************************************)
(* What was detected.                                                      *)
(***************************************************************************)
LEMMA ThingsType ==
  ASSUME NEW T, NEW q \in Seq(T), NEW S, NEW things,
         \A id : DetectionIn(q, id) => things[id] \in S
  PROVE  /\ DetectedThings(q, things) \in Seq(S)
         /\ Len(DetectedThings(q, things)) = Len(DetectionsOf(q))
<1> DEFINE d == DetectionsOf(q)
           t == DetectedThings(q, things)
<1>1. d \in Seq(T)
  BY DetectionsAre
<1>2. \A n \in DOMAIN d : things[d[n].id] \in S
  BY DetectionsQueued
<1>3. t = [n \in DOMAIN d |-> things[d[n].id]]
  BY DEF DetectedThings
<1> HIDE DEF d, t
<1>4. Len(d) \in Nat /\ DOMAIN d = 1..Len(d)
  BY <1>1
<1>5. t \in [1..Len(d) -> S]
  BY <1>2, <1>3, <1>4
<1>6. QED
  BY <1>4, <1>5 DEF d, t

LEMMA SameThings ==
  ASSUME NEW T, NEW q \in Seq(T), NEW p, DetectionsOf(p) = DetectionsOf(q),
         NEW things, NEW others, \A id : DetectionIn(q, id) => others[id] = things[id]
  PROVE  DetectedThings(p, others) = DetectedThings(q, things)
<1>1. \A n \in DOMAIN DetectionsOf(q) : others[DetectionsOf(q)[n].id] = things[DetectionsOf(q)[n].id]
  BY DetectionsQueued
<1>2. QED
  BY <1>1 DEF DetectedThings

\* A detection adds its thing at the end ...
LEMMA DetectionPostedThings ==
  ASSUME NEW T, NEW q \in Seq(T), NEW e \in T, e.type = "detected",
         NEW S, NEW things, \A id : DetectionIn(q, id) => things[id] \in S,
         things[e.id] \in S
  PROVE  DetectedThings(Append(q, e), things) = Append(DetectedThings(q, things), things[e.id])
<1> DEFINE d == DetectionsOf(q)
           p == DetectionsOf(Append(q, e))
           t == DetectedThings(q, things)
           u == DetectedThings(Append(q, e), things)
<1>1. d \in Seq(T) /\ p = Append(d, e)
  BY DetectionsAre, DetectionPostedDetections
<1>2. t \in Seq(S) /\ Len(t) = Len(d)
  BY ThingsType
<1>3. /\ t = [n \in DOMAIN d |-> things[d[n].id]]
      /\ u = [n \in DOMAIN p |-> things[p[n].id]]
  BY DEF DetectedThings
<1> HIDE DEF d, p, t, u
<1>4. Len(d) \in Nat /\ DOMAIN d = 1..Len(d) /\ DOMAIN p = 1..(Len(d) + 1)
  BY <1>1
<1>5. \A n \in 1..Len(d) : p[n] = d[n]
  BY <1>1, <1>4
<1>6. p[Len(d) + 1] = e
  BY <1>1, <1>4
<1>7. /\ DOMAIN u = 1..(Len(d) + 1)
      /\ \A n \in 1..Len(d) : u[n] = t[n]
      /\ u[Len(d) + 1] = things[e.id]
  BY <1>3, <1>4, <1>5, <1>6
<1>8. u \in Seq(S)
  <2>1. \A n \in 1..(Len(d) + 1) : u[n] \in S
    BY <1>2, <1>4, <1>7
  <2>2. u \in [1..(Len(d) + 1) -> S]
    BY <1>3, <1>7, <2>1
  <2>3. QED
    BY <1>4, <2>2
<1>9. u = Append(t, things[e.id])
  BY <1>2, <1>4, <1>7, <1>8
<1>10. QED
  BY <1>9 DEF t, u

\* ... and is the first to go.
LEMMA DetectionDispatchedThings ==
  ASSUME NEW T, NEW q \in Seq(T), q # <<>>, Head(q).type = "detected",
         NEW S, NEW things, \A id : DetectionIn(q, id) => things[id] \in S
  PROVE  /\ DetectedThings(q, things) # <<>>
         /\ Head(DetectedThings(q, things)) = things[Head(q).id]
         /\ DetectedThings(Tail(q), things) = Tail(DetectedThings(q, things))
<1> DEFINE d == DetectionsOf(q)
           p == DetectionsOf(Tail(q))
           t == DetectedThings(q, things)
           u == DetectedThings(Tail(q), things)
<1>1. d \in Seq(T) /\ d # <<>> /\ Head(d) = Head(q) /\ p = Tail(d)
  BY DetectionsAre, DetectionDispatchedDetections
<1>2. t \in Seq(S) /\ Len(t) = Len(d)
  BY ThingsType
<1>3. /\ t = [n \in DOMAIN d |-> things[d[n].id]]
      /\ u = [n \in DOMAIN p |-> things[p[n].id]]
  BY DEF DetectedThings
<1> HIDE DEF d, p, t, u
<1>4. /\ Len(d) \in Nat \ {0} /\ DOMAIN d = 1..Len(d) /\ DOMAIN p = 1..(Len(d) - 1)
      /\ d[1] = Head(q) /\ \A n \in 1..(Len(d) - 1) : p[n] = d[n + 1] /\ n + 1 \in 1..Len(d)
  BY <1>1
<1>5. /\ t # <<>> /\ Head(t) = t[1] /\ t[1] = things[Head(q).id]
  BY <1>2, <1>3, <1>4
<1>6. /\ DOMAIN u = 1..(Len(t) - 1)
      /\ \A n \in 1..(Len(t) - 1) : u[n] = t[n + 1]
  BY <1>2, <1>3, <1>4
<1>7. /\ Tail(t) \in Seq(S) /\ Len(Tail(t)) = Len(t) - 1
      /\ \A n \in 1..(Len(t) - 1) : Tail(t)[n] = t[n + 1]
  BY <1>2, <1>5
<1>8. u = Tail(t)
  <2>1. Len(t) \in Nat \ {0}
    BY <1>2, <1>4
  <2>2. \A n \in 1..(Len(t) - 1) : u[n] \in S
    BY <1>2, <1>6, <2>1
  <2>3. u \in [1..(Len(t) - 1) -> S]
    BY <1>3, <1>6, <2>2
  <2>4. u \in Seq(S) /\ Len(u) = Len(t) - 1
    BY <2>1, <2>3
  <2>5. QED
    BY <1>6, <1>7, <2>1, <2>4
<1>9. QED
  BY <1>5, <1>8 DEF t, u

=============================================================================
