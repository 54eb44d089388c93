---------------------------- MODULE ObjectsProofs ----------------------------
(***************************************************************************)
(* Theorems about Objects and their proofs: the tree on the bus is that of *)
(* the registered containers, tags come and go with their records, and a   *)
(* client that follows the signals has the tree.                           *)
(***************************************************************************)
EXTENDS ObjectsInv, AnnouncementsProofs, SequenceTheorems, TLAPS

-----------------------------------------------------------------------------
(***************************************************************************)
(* Paths.                                                                  *)
(***************************************************************************)
LEMMA ContainerIs ==
  ASSUME NEW c \in Containers
  PROVE  /\ c = [kind |-> c.kind, id |-> c.id, record |-> 0]
         /\ c.kind \in {"tag", "device"} /\ c.id \in Ids /\ c.record = 0
         /\ c \in Path /\ c # Adapter /\ c # Nowhere
BY DEF Containers, Object, Path, Adapter, Nowhere

LEMMA RecordIs ==
  ASSUME NEW c \in Containers, NEW n
  PROVE  /\ Record(c, n) = [kind |-> c.kind, id |-> c.id, record |-> n]
         /\ Record(c, n).kind = c.kind /\ Record(c, n).id = c.id /\ Record(c, n).record = n
<1>1. c = [kind |-> c.kind, id |-> c.id, record |-> 0]
  BY ContainerIs
<1> QED
  BY <1>1 DEF Record

\* A record belongs to one container, is none itself, and is not the adapter.
LEMMA RecordsApart ==
  ASSUME NEW c \in Containers, NEW n \in 1..MaxRecords
  PROVE  /\ Record(c, n) \in Records(c) /\ Record(c, n) \in Path
         /\ Record(c, n) \notin Containers /\ Record(c, n) # Adapter /\ Record(c, n) # Nowhere
         /\ \A d \in Containers, m \in 1..MaxRecords :
              Record(c, n) = Record(d, m) => c = d /\ n = m
<1>1. n # 0
  BY ObjectsAssumption
<1>2. Record(c, n) \notin Containers /\ Record(c, n) # Adapter /\ Record(c, n) # Nowhere
  BY <1>1, RecordIs, ContainerIs DEF Adapter, Nowhere, Object
<1>3. ASSUME NEW d \in Containers, NEW m \in 1..MaxRecords, Record(c, n) = Record(d, m)
      PROVE  c = d /\ n = m
  BY <1>3, RecordIs, ContainerIs
<1> QED
  BY <1>2, <1>3 DEF Records, Path

LEMMA PathCases ==
  ASSUME NEW p \in Path
  PROVE  \/ p = Adapter
         \/ p \in Containers
         \/ \E c \in Containers : p \in Records(c)
BY DEF Path

LEMMA RecordsAre ==
  ASSUME NEW c \in Containers, NEW p \in Records(c)
  PROVE  /\ p \in Path /\ p \notin Containers /\ p # Adapter /\ p # Nowhere /\ p.kind = c.kind
         /\ \A d \in Containers : p \in Records(d) => d = c
BY RecordsApart, RecordIs DEF Records

LEMMA AdapterApart ==
  /\ Adapter \in Path /\ Adapter \notin Containers /\ Adapter # Nowhere /\ Adapter.kind = "adapter"
  /\ Nowhere \notin Path
<1>1. Adapter # Nowhere /\ Adapter \in Path /\ Adapter.kind = "adapter"
  BY DEF Adapter, Nowhere, Object, Path
<1>2. Adapter \notin Containers /\ Nowhere \notin Containers
  BY ContainerIs
<1> QED
  BY <1>1, <1>2, RecordsAre, PathCases

-----------------------------------------------------------------------------
(***************************************************************************)
(* Lists of tasks.                                                         *)
(***************************************************************************)
LEMMA TaskIs ==
  ASSUME NEW tasks, OnceEach(tasks), NEW k \in DOMAIN tasks, NEW p \in tasks[k].paths
  PROVE  Pending(tasks, p) /\ TaskFor(tasks, p) = tasks[k]
<1> DEFINE j == CHOOSE i \in DOMAIN tasks : p \in tasks[i].paths
<1>1. j \in DOMAIN tasks /\ p \in tasks[j].paths
  OBVIOUS
<1>2. tasks[j].paths \cap tasks[k].paths # {}
  BY <1>1
<1>3. j = k
  BY <1>1, <1>2 DEF OnceEach
<1> QED
  BY <1>3 DEF Pending, TaskFor

\* The tree there will be, object by object.
LEMMA FinalAt ==
  ASSUME NEW t, NEW tasks, OnceEach(tasks), DOMAIN t \subseteq Path
  PROVE  /\ \A p \in DOMAIN Final(t, tasks) : p \in Path
         /\ \A k \in DOMAIN tasks : \A p \in tasks[k].paths \cap Path :
              /\ p \in DOMAIN Final(t, tasks) <=> tasks[k].do # "withdraw"
              /\ tasks[k].do # "withdraw" => Final(t, tasks)[p] = tasks[k].value
         /\ \A p : ~Pending(tasks, p) =>
              /\ p \in DOMAIN Final(t, tasks) <=> p \in DOMAIN t
              /\ p \in DOMAIN t => Final(t, tasks)[p] = t[p]
<1>1. ASSUME NEW k \in DOMAIN tasks, NEW p \in tasks[k].paths \cap Path
      PROVE  /\ p \in DOMAIN Final(t, tasks) <=> tasks[k].do # "withdraw"
             /\ tasks[k].do # "withdraw" => Final(t, tasks)[p] = tasks[k].value
  <2>1. Pending(tasks, p) /\ TaskFor(tasks, p) = tasks[k]
    BY TaskIs
  <2> QED
    BY <2>1 DEF Final, Stays
<1> QED
  BY <1>1 DEF Final, Stays

LEMMA NothingToDo ==
  ASSUME NEW t, DOMAIN t \subseteq Path
  PROVE  DOMAIN Final(t, <<>>) = DOMAIN t /\ \A p \in DOMAIN t : Final(t, <<>>)[p] = t[p]
BY DEF Final, Stays, Pending

\* rest is tasks without p in the first task, and without that task if s = 1.
Shortened(tasks, rest, p, s) ==
  /\ Len(tasks) \in Nat /\ DOMAIN tasks = 1..Len(tasks)
  /\ DOMAIN rest = 1..(Len(tasks) - s)
  /\ rest \in Seq(Tasks)
  /\ s = 1 => tasks[1].paths = {p}
  /\ \A k \in DOMAIN rest :
       /\ k + s \in DOMAIN tasks
       /\ rest[k].do = tasks[k + s].do
       /\ rest[k].value = tasks[k + s].value
       /\ rest[k].paths = IF k + s = 1 THEN tasks[1].paths \ {p} ELSE tasks[k + s].paths

\* What is left when one object has been done: a list without it.
LEMMA RestAt ==
  ASSUME NEW tasks \in Seq(Tasks), tasks # <<>>, NEW p \in Head(tasks).paths
  PROVE  \E s \in {0, 1} : Shortened(tasks, Rest(tasks, p), p, s)
<1>1. /\ Len(tasks) \in Nat \ {0} /\ DOMAIN tasks = 1..Len(tasks)
      /\ Head(tasks) = tasks[1] /\ tasks[1] \in Tasks
  OBVIOUS
<1>2. CASE tasks[1].paths = {p}
  <2>1. Rest(tasks, p) = Tail(tasks)
    BY <1>1, <1>2 DEF Rest
  <2>2. /\ Tail(tasks) \in Seq(Tasks) /\ DOMAIN Tail(tasks) = 1..(Len(tasks) - 1)
        /\ \A k \in DOMAIN Tail(tasks) : Tail(tasks)[k] = tasks[k + 1] /\ k + 1 \in DOMAIN tasks /\ k + 1 # 1
    OBVIOUS
  <2>3. Shortened(tasks, Rest(tasks, p), p, 1)
    BY <1>1, <1>2, <2>1, <2>2 DEF Shortened
  <2> QED
    BY <2>3
<1>3. CASE tasks[1].paths # {p}
  <2> DEFINE first == [tasks[1] EXCEPT !.paths = tasks[1].paths \ {p}]
  <2>1. Rest(tasks, p) = [tasks EXCEPT ![1] = first]
    BY <1>1, <1>3 DEF Rest
  <2>2. first \in Tasks /\ first.do = tasks[1].do /\ first.value = tasks[1].value
        /\ first.paths = tasks[1].paths \ {p}
    BY <1>1, <1>3 DEF Tasks
  <2> HIDE DEF first
  <2>3. Rest(tasks, p) \in Seq(Tasks) /\ DOMAIN Rest(tasks, p) = 1..Len(tasks)
        /\ \A k \in DOMAIN tasks : Rest(tasks, p)[k] = IF k = 1 THEN first ELSE tasks[k]
    BY <1>1, <2>1, <2>2
  <2>4. \A k \in DOMAIN Rest(tasks, p) :
          /\ k \in DOMAIN tasks /\ k + 0 = k
          /\ Rest(tasks, p)[k].do = tasks[k].do
          /\ Rest(tasks, p)[k].value = tasks[k].value
          /\ Rest(tasks, p)[k].paths = IF k = 1 THEN tasks[1].paths \ {p} ELSE tasks[k].paths
    <3> SUFFICES ASSUME NEW k \in DOMAIN Rest(tasks, p)
                 PROVE  /\ k \in DOMAIN tasks /\ k + 0 = k
                        /\ Rest(tasks, p)[k] = IF k = 1 THEN first ELSE tasks[k]
      BY <2>2
    <3> QED
      BY <1>1, <2>3
  <2>5. Len(tasks) - 0 = Len(tasks)
    BY <1>1
  <2>6. \A k \in DOMAIN Rest(tasks, p) :
          /\ k + 0 \in DOMAIN tasks
          /\ Rest(tasks, p)[k].do = tasks[k + 0].do
          /\ Rest(tasks, p)[k].value = tasks[k + 0].value
          /\ Rest(tasks, p)[k].paths =
               IF k + 0 = 1 THEN tasks[1].paths \ {p} ELSE tasks[k + 0].paths
    <3> SUFFICES ASSUME NEW k \in DOMAIN Rest(tasks, p)
                 PROVE  /\ k + 0 \in DOMAIN tasks
                        /\ Rest(tasks, p)[k].do = tasks[k + 0].do
                        /\ Rest(tasks, p)[k].value = tasks[k + 0].value
                        /\ Rest(tasks, p)[k].paths =
                             IF k + 0 = 1 THEN tasks[1].paths \ {p} ELSE tasks[k + 0].paths
      OBVIOUS
    <3>1. k + 0 = k
      BY <2>4
    <3> QED
      BY <2>4, <3>1
  <2>7. DOMAIN Rest(tasks, p) = 1..(Len(tasks) - 0)
    BY <2>3, <2>5
  <2>8. 0 = 1 => tasks[1].paths = {p}
    OBVIOUS
  <2>9. Shortened(tasks, Rest(tasks, p), p, 0)
    BY <1>1, <2>3, <2>6, <2>7, <2>8 DEF Shortened
  <2> QED
    BY <2>9
<1> QED
  BY <1>2, <1>3

\* Doing it does not change the tree there will be.
LEMMA FinalKept ==
  ASSUME NEW tasks \in Seq(Tasks), tasks # <<>>, OnceEach(tasks),
         NEW p \in Head(tasks).paths, NEW t, NEW u, DOMAIN t \subseteq Path,
         DOMAIN u = IF Head(tasks).do = "withdraw" THEN DOMAIN t \ {p} ELSE DOMAIN t \cup {p},
         Head(tasks).do # "withdraw" => u[p] = Head(tasks).value,
         \A q \in DOMAIN t \ {p} : u[q] = t[q]
  PROVE  /\ OnceEach(Rest(tasks, p))
         /\ ~Pending(Rest(tasks, p), p)
         /\ Final(u, Rest(tasks, p)) = Final(t, tasks)
<1> DEFINE rest == Rest(tasks, p)
<1>1. PICK s \in {0, 1} : Shortened(tasks, rest, p, s)
  BY RestAt
<1> USE DEF Shortened
<1>2. Head(tasks) = tasks[1] /\ 1 \in DOMAIN tasks /\ p \in Path
  <2>1. Head(tasks) = tasks[1] /\ 1 \in DOMAIN tasks /\ tasks[1] \in Tasks
    OBVIOUS
  <2> QED
    BY <2>1 DEF Tasks
<1> HIDE DEF rest
<1>3. \A k \in DOMAIN tasks : p \in tasks[k].paths => k = 1
  BY <1>2 DEF OnceEach
<1>4. \A k \in DOMAIN rest : rest[k].paths = tasks[k + s].paths \ {p}
  BY <1>1, <1>3
<1>5. OnceEach(rest)
  <2> SUFFICES ASSUME NEW j \in DOMAIN rest, NEW k \in DOMAIN rest,
                      rest[j].paths \cap rest[k].paths # {}
               PROVE  j = k
    BY DEF OnceEach
  <2>1. tasks[j + s].paths \cap tasks[k + s].paths # {} /\ j + s \in DOMAIN tasks /\ k + s \in DOMAIN tasks
    BY <1>1, <1>4
  <2>2. j + s = k + s
    BY <2>1 DEF OnceEach
  <2> QED
    BY <1>1, <2>2
<1>6. ~Pending(rest, p)
  BY <1>4 DEF Pending
<1>7. \A k \in DOMAIN tasks : \A q \in tasks[k].paths \ {p} :
        \E j \in DOMAIN rest : q \in rest[j].paths /\ rest[j].do = tasks[k].do /\ rest[j].value = tasks[k].value
  <2> SUFFICES ASSUME NEW k \in DOMAIN tasks, NEW q \in tasks[k].paths \ {p}
               PROVE  k - s \in DOMAIN rest /\ (k - s) + s = k
    BY <1>4, <1>1
  <2> QED
    BY <1>1
<1>8. \A q : q # p => (Pending(rest, q) <=> Pending(tasks, q))
  BY <1>1, <1>4, <1>7 DEF Pending
<1>9. ASSUME NEW q, q # p, Pending(tasks, q)
      PROVE  TaskFor(rest, q).do = TaskFor(tasks, q).do /\ TaskFor(rest, q).value = TaskFor(tasks, q).value
  <2>1. PICK k \in DOMAIN tasks : q \in tasks[k].paths
    BY <1>9 DEF Pending
  <2>2. PICK j \in DOMAIN rest : q \in rest[j].paths /\ rest[j].do = tasks[k].do /\ rest[j].value = tasks[k].value
    BY <1>7, <1>9, <2>1
  <2>3. TaskFor(rest, q) = rest[j]
    BY <1>5, <2>2, TaskIs
  <2>4. TaskFor(tasks, q) = tasks[k]
    BY <2>1, TaskIs
  <2> QED
    BY <2>2, <2>3, <2>4
<1>10. Pending(tasks, p) /\ TaskFor(tasks, p) = Head(tasks)
  BY <1>2, TaskIs
<1>11. \A q \in Path : Stays(u, rest, q) <=> Stays(t, tasks, q)
  BY <1>6, <1>8, <1>9, <1>10 DEF Stays
<1>12. \A q \in Path : Stays(t, tasks, q) =>
          (IF Pending(rest, q) THEN TaskFor(rest, q).value ELSE u[q])
            = (IF Pending(tasks, q) THEN TaskFor(tasks, q).value ELSE t[q])
  BY <1>6, <1>8, <1>9, <1>10 DEF Stays
<1> QED
  BY <1>5, <1>6, <1>11, <1>12 DEF Final, rest

-----------------------------------------------------------------------------
(***************************************************************************)
(* The initial state.                                                      *)
(***************************************************************************)
LEMMA InvInit == Init => IInv
<1> SUFFICES ASSUME Init PROVE IInv
  OBVIOUS
<1>1. /\ DOMAIN table = {} /\ DOMAIN before = {} /\ DOMAIN sources = {} /\ DOMAIN todo = {}
      /\ DOMAIN tree = {Adapter}
      /\ tree[Adapter] = [tags |-> {}, devices |-> {}]
      /\ mirror = tree
  BY DEF Init
<1>2. TypeOK
  <2>1. sources \in Seq(Sources) /\ todo \in Seq(Tasks)
    BY DEF Init
  <2>2. tree[Adapter] \in Values(Adapter)
    BY <1>1 DEF Values
  <2>3. registered \in BOOLEAN /\ radio = Nowhere
    BY DEF Init
  <2> QED
    BY <1>1, <2>1, <2>2, <2>3, AdapterApart DEF TypeOK
<1>3. TasksAreRight
  <2>1. OnceEach(todo)
    BY <1>1 DEF OnceEach
  <2>2. TagsAreTouchedWhole
    BY <1>1 DEF TagsAreTouchedWhole
  <2> QED
    BY <1>1, <2>1, <2>2 DEF TasksAreRight
<1>4. /\ DOMAIN Final(tree, todo) = {Adapter}
      /\ Final(tree, todo)[Adapter] = [tags |-> {}, devices |-> {}]
  <2>1. todo = <<>> /\ DOMAIN tree \subseteq Path
    BY <1>1, AdapterApart DEF Init
  <2>2. DOMAIN Final(tree, todo) = DOMAIN tree /\ \A p \in DOMAIN tree : Final(tree, todo)[p] = tree[p]
    BY <2>1, NothingToDo
  <2> QED
    BY <1>1, <2>2
<1>5. Registered("tag", table) = {}
  BY <1>1 DEF Registered
<1>6. FinalIsSound
  <2>1. IsTreeOf(Final(tree, todo), table)
    BY <1>1, <1>4, <1>5 DEF IsTreeOf
  <2>2. registered
    BY DEF Init
  <2>3. Adapter \in DOMAIN Final(tree, todo)
    BY <1>4
  <2> QED
    BY <2>1, <2>2, <2>3 DEF FinalIsSound
<1>7. TagsAreWhole(tree) /\ TagsAreWhole(mirror)
  BY <1>1, AdapterApart DEF TagsAreWhole
<1>8. EmissionsArePending
  BY <1>1 DEF EmissionsArePending
<1>9. CallbacksInOrder
  BY <1>1 DEF CallbacksInOrder, Present, Init, ReceivedInSession, InOrder, DetectedOnce, LostOnce,
     PresentAnnounced, OthersEnd, OneAtATime
<1>10. Told = mirror
  BY <1>1 DEF Told, Init
<1>11. Informing
  BY <1>10 DEF Informing, Init
<1> QED
  BY <1>2, <1>3, <1>6, <1>7, <1>8, <1>9, <1>11 DEF IInv

-----------------------------------------------------------------------------
(***************************************************************************)
(* The HAL.                                                                *)
(***************************************************************************)
LEMMA AttachKeeps ==
  ASSUME IInv, NEW s \in Sources, s.type # "emit", Attach(s),
         radio' \in Containers \cup {Nowhere},
         InOrder(sources', DOMAIN table, Present'),
         ReceivedInSession(sources', DOMAIN table)
  PROVE  IInv'
<1> USE DEF Attach
<1>1. TypeOK /\ sources \in Seq(Sources)
  BY DEF IInv, TypeOK
<1>2. TypeOK'
  <2>1. sources' \in Seq(Sources)
    BY <1>1, AppendAt
  <2> QED
    BY <1>1, <2>1 DEF TypeOK
<1>3. TasksAreRight'
  BY DEF IInv, TasksAreRight, OnceEach, CanBeDone, TagsAreTouchedWhole
<1>4. FinalIsSound'
  BY DEF IInv, FinalIsSound
<1>5. TagsAreWhole(tree)' /\ TagsAreWhole(mirror)'
  BY DEF IInv
<1>6. EmissionsArePending'
  <2>1. EmissionsArePending
    BY DEF IInv
  <2>2. /\ \A i \in DOMAIN sources' : sources'[i].type = "emit" => i \in DOMAIN sources /\ sources'[i] = sources[i]
    BY <1>1, AppendAt
  <2> QED
    BY <2>1, <2>2 DEF EmissionsArePending
<1>7. CallbacksInOrder'
  BY DEF CallbacksInOrder
<1>8. Informing'
  BY DEF IInv, Informing, Told, ClientIsInformed
<1> QED
  BY <1>2, <1>3, <1>4, <1>5, <1>6, <1>7, <1>8 DEF IInv

\* A message is received as long as its session lasts.
LEMMA ReceivedPosted ==
  ASSUME NEW q \in Seq(Sources), NEW s \in Sources, NEW shown, ReceivedInSession(q, shown),
         s.type = "received" =>
           /\ s.id.kind = "device"
           /\ s.id \in shown \/ DetectionIn(q, s.id)
           /\ ~LossIn(q, s.id)
  PROVE  ReceivedInSession(Append(q, s), shown)
<1> DEFINE p == Append(q, s)
           n == Len(q) + 1
<1>1. /\ n \in Nat /\ n \in DOMAIN p /\ p[n] = s /\ DOMAIN q \subseteq Nat
      /\ \A i \in DOMAIN q : i \in DOMAIN p /\ p[i] = q[i] /\ i < n
      /\ \A i \in DOMAIN p : i # n => i \in DOMAIN q /\ p[i] = q[i]
  BY AppendAt
<1> HIDE DEF p, n
<1>2. \A id : \A j \in DOMAIN q :
        /\ DetectionBefore(p, id, j) <=> DetectionBefore(q, id, j)
        /\ LossBefore(p, id, j) <=> LossBefore(q, id, j)
  BY <1>1 DEF DetectionBefore, LossBefore
<1>3. \A id : /\ DetectionBefore(p, id, n) <=> DetectionIn(q, id)
              /\ LossBefore(p, id, n) <=> LossIn(q, id)
  BY <1>1 DEF DetectionBefore, LossBefore, DetectionIn, LossIn
<1>4. ASSUME NEW i \in DOMAIN p, p[i].type = "received"
      PROVE  /\ p[i].id.kind = "device"
             /\ p[i].id \in shown \/ DetectionBefore(p, p[i].id, i)
             /\ ~LossBefore(p, p[i].id, i)
  <2>1. CASE i = n
    BY <1>1, <1>3, <1>4, <2>1
  <2>2. CASE i # n
    BY <1>1, <1>2, <1>4, <2>2 DEF ReceivedInSession
  <2> QED
    BY <2>1, <2>2
<1> QED
  BY <1>4 DEF ReceivedInSession, p

LEMMA MeetsKeeps ==
  ASSUME IInv, NEW c \in Containers, Meets(c)
  PROVE  IInv'
<1>1. PICK m \in Messages, n \in 0..MaxRecords : Attach(Found(c, m, n))
  BY DEF Meets
<1> DEFINE s == Found(c, m, n)
<1>2. s \in Sources /\ s.type = "detected" /\ s.id = c
  BY DEF Found, Sources
<1>3. radio = Nowhere /\ radio' = c /\ c \notin DOMAIN table /\ ~DetectionIn(sources, c)
  BY DEF Meets, InUse, DetectionIn, Detects
<1> HIDE DEF s
<1>4. registered /\ sources' = Append(sources, s) /\ sources \in Seq(Sources) /\ c # Nowhere
  BY <1>1, ContainerIs DEF IInv, TypeOK, Attach, s
<1>5. InOrder(sources, DOMAIN table, {}) /\ ReceivedInSession(sources, DOMAIN table)
  <2>1. Present = {}
    BY <1>3 DEF Present
  <2> QED
    BY <1>4, <2>1 DEF IInv, CallbacksInOrder
<1>6. Detects(s, c)
  BY <1>2 DEF Detects
<1>7. InOrder(sources', DOMAIN table, Present')
  <2>1. Present' = {c}
    BY <1>3, <1>4 DEF Present
  <2>2. InOrder(Append(sources, s), DOMAIN table, {c})
    BY <1>2, <1>3, <1>4, <1>5, <1>6, DetectionPosted
  <2> QED
    BY <1>4, <2>1, <2>2
<1>8. ReceivedInSession(sources', DOMAIN table)
  BY <1>2, <1>4, <1>5, ReceivedPosted
<1> QED
  BY <1>1, <1>2, <1>3, <1>7, <1>8, AttachKeeps DEF s

LEMMA ReceivesKeeps ==
  ASSUME IInv, Receives
  PROVE  IInv'
<1>1. PICK m \in Messages, n \in 0..MaxRecords : Attach(Received(radio, m, n))
  BY DEF Receives
<1> DEFINE s == Received(radio, m, n)
<1>2. radio \in Containers /\ radio # Nowhere /\ radio.kind = "device" /\ radio' = radio
  BY ContainerIs DEF Receives, IInv, TypeOK, Nowhere, Object
<1>3. s \in Sources /\ s.type = "received" /\ s.id = radio
  BY <1>2 DEF Received, Sources
<1> HIDE DEF s
<1>4. registered /\ sources' = Append(sources, s) /\ sources \in Seq(Sources)
  BY <1>1 DEF IInv, TypeOK, Attach, s
<1>5. Present = {radio} /\ Present' = {radio}
  BY <1>2 DEF Present
<1>6. InOrder(sources, DOMAIN table, {radio}) /\ ReceivedInSession(sources, DOMAIN table)
  BY <1>4, <1>5 DEF IInv, CallbacksInOrder
<1>7. ~Announces(s)
  BY <1>3 DEF Announces
<1>8. InOrder(sources', DOMAIN table, Present')
  BY <1>4, <1>3, <1>5, <1>6, <1>7, OtherPosted
<1>9. /\ radio \in DOMAIN table \/ DetectionIn(sources, radio)
      /\ ~LossIn(sources, radio)
  BY <1>6 DEF InOrder, PresentAnnounced
<1>10. ReceivedInSession(sources', DOMAIN table)
  BY <1>2, <1>3, <1>4, <1>6, <1>9, ReceivedPosted
<1> QED
  BY <1>1, <1>2, <1>3, <1>8, <1>10, AttachKeeps DEF s

LEMMA PartsKeeps ==
  ASSUME IInv, Parts
  PROVE  IInv'
<1> DEFINE s == Gone(radio)
<1>1. Attach(s) /\ radio' = Nowhere /\ radio \in Containers /\ radio # Nowhere
  BY DEF Parts, IInv, TypeOK
<1>2. s \in Sources /\ s.type = "lost" /\ s.id = radio /\ Loses(s, radio)
  BY <1>1 DEF Gone, Sources, Loses
<1> HIDE DEF s
<1>3. registered /\ sources' = Append(sources, s) /\ sources \in Seq(Sources)
  BY <1>1 DEF IInv, TypeOK, Attach
<1>4. Present = {radio} /\ Present' = {}
  BY <1>1 DEF Present
<1>5. InOrder(sources, DOMAIN table, {radio}) /\ ReceivedInSession(sources, DOMAIN table)
  BY <1>3, <1>4 DEF IInv, CallbacksInOrder
<1>6. InOrder(sources', DOMAIN table, Present')
  BY <1>2, <1>3, <1>4, <1>5, LossPosted
<1>7. ReceivedInSession(sources', DOMAIN table)
  BY <1>2, <1>3, <1>5, ReceivedPosted
<1> QED
  BY <1>1, <1>2, <1>6, <1>7, AttachKeeps

-----------------------------------------------------------------------------
(***************************************************************************)
(* The idle sources of the skeletons.                                      *)
(***************************************************************************)
LEMMA CancelAt ==
  ASSUME NEW q \in Seq(Sources), NEW p
  PROVE  /\ Cancel(q, p) \in Seq(Sources)
         /\ DOMAIN Cancel(q, p) = DOMAIN q
         /\ \A i \in DOMAIN q :
              /\ q[i] = Emission(p) => Cancel(q, p)[i] = Emission(Nowhere)
              /\ q[i] # Emission(p) => Cancel(q, p)[i] = q[i]
<1>1. Emission(Nowhere) \in Sources
  BY DEF Emission, Sources
<1>2. Len(q) \in Nat /\ DOMAIN q = 1..Len(q) /\ \A i \in DOMAIN q : q[i] \in Sources
  OBVIOUS
<1>3. Cancel(q, p) = [i \in 1..Len(q) |-> IF q[i] = Emission(p) THEN Emission(Nowhere) ELSE q[i]]
  BY <1>2 DEF Cancel
<1>4. \A i \in 1..Len(q) : (IF q[i] = Emission(p) THEN Emission(Nowhere) ELSE q[i]) \in Sources
  BY <1>1, <1>2
<1>5. Cancel(q, p) \in [1..Len(q) -> Sources]
  BY <1>3, <1>4
<1>6. Cancel(q, p) \in Seq(Sources)
  BY <1>2, <1>5
<1> QED
  BY <1>2, <1>3, <1>6

\* Only what announces something matters to the order of the callbacks.
LEMMA CancelledOrder ==
  ASSUME NEW q \in Seq(Sources), NEW p, NEW shown, NEW present,
         InOrder(q, shown, present), ReceivedInSession(q, shown)
  PROVE  InOrder(Cancel(q, p), shown, present) /\ ReceivedInSession(Cancel(q, p), shown)
<1> DEFINE r == Cancel(q, p)
<1>1. /\ DOMAIN r = DOMAIN q
      /\ \A i \in DOMAIN q : q[i].type # "emit" \/ r[i].type # "emit" => r[i] = q[i]
  BY CancelAt DEF Emission
<1> HIDE DEF r
<1>2. \A i \in DOMAIN q : r[i].type \in {"detected", "lost", "received"} \/ q[i].type \in {"detected", "lost", "received"}
        => r[i] = q[i]
  BY <1>1
<1>3. \A id : /\ DetectionIn(r, id) <=> DetectionIn(q, id)
              /\ LossIn(r, id) <=> LossIn(q, id)
  BY <1>1, <1>2 DEF DetectionIn, LossIn, Detects, Loses
<1>4. \A id : \A j : /\ DetectionBefore(r, id, j) <=> DetectionBefore(q, id, j)
                     /\ LossBefore(r, id, j) <=> LossBefore(q, id, j)
  BY <1>1, <1>2 DEF DetectionBefore, LossBefore, Detects, Loses
<1>5. DetectedOnce(r, shown)
  BY <1>1, <1>2, <1>3 DEF InOrder, DetectedOnce
<1>6. LostOnce(r, shown)
  BY <1>1, <1>2, <1>4 DEF InOrder, LostOnce, Loses
<1>7. PresentAnnounced(r, shown, present)
  BY <1>3 DEF InOrder, PresentAnnounced
<1>8. OthersEnd(r, shown, present)
  BY <1>1, <1>2, <1>3 DEF InOrder, OthersEnd
<1>9. OneAtATime(r, shown)
  BY <1>1, <1>2, <1>4 DEF InOrder, OneAtATime
<1>10. ReceivedInSession(r, shown)
  BY <1>1, <1>2, <1>4 DEF ReceivedInSession
<1> QED
  BY <1>5, <1>6, <1>7, <1>8, <1>9, <1>10 DEF InOrder, r

\* An object is taken off the bus, or off its path.
LEMMA CancelKeeps ==
  ASSUME IInv, NEW p, p # Nowhere,
         sources' = Cancel(sources, p), before' = Drop(before, p),
         UNCHANGED <<radio, registered, table>>
  PROVE  /\ sources' \in Seq(Sources)
         /\ EmissionsArePending'
         /\ CallbacksInOrder'
<1>1. sources \in Seq(Sources) /\ EmissionsArePending /\ CallbacksInOrder
  BY DEF IInv, TypeOK
<1>2. /\ sources' \in Seq(Sources)
      /\ DOMAIN sources' = DOMAIN sources
      /\ \A i \in DOMAIN sources :
           /\ sources[i] = Emission(p) => sources'[i] = Emission(Nowhere)
           /\ sources[i] # Emission(p) => sources'[i] = sources[i]
  BY <1>1, CancelAt
<1>3. DOMAIN before' = DOMAIN before \ {p}
  BY DEF Drop
<1>4. ASSUME NEW i \in DOMAIN sources', sources'[i].type = "emit", sources'[i].id # Nowhere
      PROVE  /\ i \in DOMAIN sources /\ sources'[i] = sources[i]
             /\ sources[i].type = "emit" /\ sources[i].id # Nowhere /\ sources[i].id # p
  <2>1. sources[i] # Emission(p)
    BY <1>2, <1>4 DEF Emission
  <2>2. sources'[i] = sources[i] /\ i \in DOMAIN sources
    BY <1>2, <2>1
  <2>3. sources[i] \in Sources
    BY <1>1, <2>2
  <2>4. sources[i] = [type |-> "emit", id |-> sources[i].id]
    BY <1>4, <2>2, <2>3 DEF Sources
  <2>5. sources[i].id # p
    BY <2>1, <2>4 DEF Emission
  <2> QED
    BY <1>4, <2>2, <2>5
<1>5. EmissionsArePending'
  <2>1. ASSUME NEW i \in DOMAIN sources', NEW j \in DOMAIN sources',
               sources'[i].type = "emit", sources'[i].id # Nowhere
        PROVE  /\ sources'[i].id \in DOMAIN before'
               /\ sources'[j] = sources'[i] => i = j
    <3>1. sources'[i].id \in DOMAIN before'
      BY <1>1, <1>3, <1>4, <2>1 DEF EmissionsArePending
    <3>2. ASSUME sources'[j] = sources'[i] PROVE i = j
      BY <1>1, <1>4, <2>1, <3>2 DEF EmissionsArePending
    <3> QED
      BY <3>1, <3>2
  <2>2. \A x \in DOMAIN before' : x.kind # "tag"
    BY <1>1, <1>3 DEF EmissionsArePending
  <2> QED
    BY <2>1, <2>2 DEF EmissionsArePending
<1>6. CASE registered
  <2>1. InOrder(sources, DOMAIN table, Present) /\ ReceivedInSession(sources, DOMAIN table)
    BY <1>1, <1>6 DEF CallbacksInOrder
  <2>2. InOrder(sources', DOMAIN table, Present) /\ ReceivedInSession(sources', DOMAIN table)
    BY <1>1, <2>1, CancelledOrder
  <2> QED
    BY <1>2, <1>5, <1>6, <2>2 DEF CallbacksInOrder, Present
<1>7. CASE ~registered
  <2>1. sources = <<>>
    BY <1>1, <1>7 DEF CallbacksInOrder
  <2>2. Len(sources') = 0
    BY <1>2, <2>1
  <2>3. sources' = <<>>
    BY <1>2, <2>2
  <2> QED
    BY <1>2, <1>5, <1>7, <2>3 DEF CallbacksInOrder
<1> QED
  BY <1>6, <1>7

\* An idle source is attached for an old value that is kept.
LEMMA EmissionPosted ==
  ASSUME IInv, NEW p \in DOMAIN tree \ DOMAIN before, p.kind # "tag", registered,
         sources' = Append(sources, Emission(p)), DOMAIN before' = DOMAIN before \cup {p},
         UNCHANGED <<radio, registered, table>>
  PROVE  /\ sources' \in Seq(Sources)
         /\ EmissionsArePending'
         /\ CallbacksInOrder'
<1> DEFINE e == Emission(p)
<1>1. sources \in Seq(Sources) /\ EmissionsArePending /\ CallbacksInOrder /\ p \in Path
  BY DEF IInv, TypeOK
<1>2. e \in Sources /\ e.type = "emit" /\ e.id = p /\ p # Nowhere
  BY <1>1, AdapterApart DEF Sources, Emission
<1> HIDE DEF e
<1>3. ~Announces(e)
  BY <1>2 DEF Announces
<1>4. sources' = Append(sources, e)
  BY DEF e
<1>5. /\ Len(sources) + 1 \in DOMAIN sources' /\ sources'[Len(sources) + 1] = e
      /\ \A i \in DOMAIN sources' :
           (i \in DOMAIN sources /\ sources'[i] = sources[i]) \/ i = Len(sources) + 1
      /\ sources' \in Seq(Sources)
  BY <1>1, <1>2, <1>4, AppendAt
<1>6. \A i \in DOMAIN sources : sources[i].type = "emit" /\ sources[i].id # Nowhere => sources[i] # e
  BY <1>1, <1>2 DEF EmissionsArePending
<1>7. EmissionsArePending'
  <2>1. ASSUME NEW i \in DOMAIN sources', NEW j \in DOMAIN sources',
               sources'[i].type = "emit", sources'[i].id # Nowhere
        PROVE  /\ sources'[i].id \in DOMAIN before'
               /\ sources'[j] = sources'[i] => i = j
    <3>1. CASE i \in DOMAIN sources /\ sources'[i] = sources[i]
      BY <1>1, <1>5, <1>6, <2>1, <3>1 DEF EmissionsArePending
    <3>2. CASE i = Len(sources) + 1
      BY <1>2, <1>5, <1>6, <2>1, <3>2
    <3> QED
      BY <1>5, <3>1, <3>2
  <2>2. \A x \in DOMAIN before' : x.kind # "tag"
    BY <1>1 DEF EmissionsArePending
  <2> QED
    BY <2>1, <2>2 DEF EmissionsArePending
<1>8. InOrder(sources, DOMAIN table, Present) /\ ReceivedInSession(sources, DOMAIN table)
  BY <1>1 DEF CallbacksInOrder
<1>9. InOrder(sources', DOMAIN table, Present)
  BY <1>1, <1>2, <1>3, <1>4, <1>8, OtherPosted
<1>10. ReceivedInSession(sources', DOMAIN table)
  BY <1>1, <1>2, <1>4, <1>8, ReceivedPosted
<1> QED
  BY <1>5, <1>7, <1>9, <1>10 DEF CallbacksInOrder, Present

-----------------------------------------------------------------------------
(***************************************************************************)
(* One object is exported, withdrawn or set.                               *)
(***************************************************************************)
\* The step, as far as the tree is concerned.
WorksOn(p) ==
  /\ todo # <<>>
  /\ p \in First(Head(todo).paths)
  /\ todo' = Rest(todo, p)
  /\ tree' = IF Head(todo).do = "withdraw" THEN Drop(tree, p) ELSE Put(tree, p, Head(todo).value)
  /\ UNCHANGED <<radio, registered, table, mirror>>

LEMMA WorkAt ==
  ASSUME IInv, NEW p, WorksOn(p)
  PROVE  /\ Head(todo) = todo[1] /\ 1 \in DOMAIN todo /\ Head(todo) \in Tasks
         /\ p \in Head(todo).paths /\ p \in Path /\ p # Nowhere
         /\ Head(todo).paths \cap Containers # {} => p \in Containers
         /\ CanBeDone(Head(todo))
         /\ Head(todo).do # "withdraw" => Head(todo).paths = {p} /\ Head(todo).value \in Values(p)
         /\ Head(todo).do # "export" => p \in DOMAIN tree
         /\ DOMAIN tree' = IF Head(todo).do = "withdraw" THEN DOMAIN tree \ {p} ELSE DOMAIN tree \cup {p}
         /\ Head(todo).do # "withdraw" => tree'[p] = Head(todo).value
         /\ \A q : q # p => (q \in DOMAIN tree' <=> q \in DOMAIN tree)
         /\ \A q \in DOMAIN tree \ {p} : tree'[q] = tree[q]
<1>1. todo \in Seq(Tasks) /\ todo # <<>> /\ TasksAreRight
  BY DEF IInv, TypeOK, WorksOn
<1>2. Head(todo) = todo[1] /\ 1 \in DOMAIN todo /\ Head(todo) \in Tasks
  BY <1>1
<1>3. /\ p \in Head(todo).paths
      /\ Head(todo).paths \cap Containers # {} => p \in Containers
  BY DEF WorksOn, First
<1>4. p \in Path /\ p # Nowhere
  BY <1>2, <1>3, AdapterApart DEF Tasks
<1>5. CanBeDone(Head(todo))
  BY <1>1, <1>2 DEF TasksAreRight
<1>6. /\ Head(todo).do # "withdraw" => Head(todo).paths = {p} /\ Head(todo).value \in Values(p)
      /\ Head(todo).do # "export" => p \in DOMAIN tree
  BY <1>3, <1>5 DEF CanBeDone
<1>7. /\ DOMAIN tree' = IF Head(todo).do = "withdraw" THEN DOMAIN tree \ {p} ELSE DOMAIN tree \cup {p}
      /\ Head(todo).do # "withdraw" => tree'[p] = Head(todo).value
      /\ \A q \in DOMAIN tree \ {p} : tree'[q] = tree[q]
  BY DEF WorksOn, Drop, Put
<1> QED
  BY <1>2, <1>3, <1>4, <1>5, <1>6, <1>7

LEMMA WorkKeepsFinal ==
  ASSUME IInv, NEW p, WorksOn(p)
  PROVE  OnceEach(todo)' /\ ~Pending(todo', p) /\ FinalIsSound'
<1>1. todo \in Seq(Tasks) /\ OnceEach(todo) /\ DOMAIN tree \subseteq Path /\ FinalIsSound
  BY DEF IInv, TypeOK, TasksAreRight
<1>2. todo' = Rest(todo, p) /\ todo # <<>> /\ UNCHANGED <<registered, table>>
  BY DEF WorksOn
<1>3. /\ OnceEach(Rest(todo, p))
      /\ ~Pending(Rest(todo, p), p)
      /\ Final(tree', Rest(todo, p)) = Final(tree, todo)
  <2>1. /\ p \in Head(todo).paths
        /\ DOMAIN tree' = IF Head(todo).do = "withdraw" THEN DOMAIN tree \ {p} ELSE DOMAIN tree \cup {p}
        /\ Head(todo).do # "withdraw" => tree'[p] = Head(todo).value
        /\ \A q \in DOMAIN tree \ {p} : tree'[q] = tree[q]
    BY WorkAt
  <2> QED
    BY <1>1, <1>2, <2>1, FinalKept
<1>4. Final(tree, todo)' = Final(tree, todo)
  BY <1>2, <1>3
<1>5. FinalIsSound'
  BY <1>1, <1>2, <1>4 DEF FinalIsSound
<1> QED
  BY <1>2, <1>3, <1>5

LEMMA WorkKeepsTasks ==
  ASSUME IInv, NEW p, WorksOn(p)
  PROVE  todo' \in Seq(Tasks) /\ TasksAreRight'
<1>1. todo \in Seq(Tasks) /\ todo # <<>> /\ TasksAreRight /\ todo' = Rest(todo, p) /\ registered' = registered
  BY DEF IInv, TypeOK, WorksOn
<1>2. p \in Head(todo).paths
  BY WorkAt
<1>3. PICK s \in {0, 1} : Shortened(todo, todo', p, s)
  BY <1>1, <1>2, RestAt
<1> USE DEF Shortened
<1>4. OnceEach(todo)' /\ ~Pending(todo', p)
  BY WorkKeepsFinal
<1>5. \A k \in DOMAIN todo' : p \notin todo'[k].paths
  BY <1>4 DEF Pending
<1>6. ASSUME NEW k \in DOMAIN todo'
      PROVE  /\ k + s \in DOMAIN todo
             /\ todo'[k].do = todo[k + s].do /\ todo'[k].value = todo[k + s].value
             /\ todo'[k].paths = todo[k + s].paths \ {p}
             /\ todo'[k].paths # {}
             /\ todo'[k].do # "withdraw" => todo'[k].paths = todo[k + s].paths
  <2>1. /\ k + s \in DOMAIN todo
        /\ todo'[k].do = todo[k + s].do /\ todo'[k].value = todo[k + s].value
        /\ todo'[k].paths = todo[k + s].paths \ {p}
    BY <1>3, <1>5
  <2>2. todo'[k] \in Tasks
    BY <1>3
  <2>3. todo'[k].paths # {}
    BY <2>2 DEF Tasks
  <2>4. CanBeDone(todo[k + s])
    BY <1>1, <2>1 DEF TasksAreRight
  <2>5. ASSUME todo'[k].do # "withdraw" PROVE todo'[k].paths = todo[k + s].paths
    <3>1. PICK q \in todo[k + s].paths : todo[k + s].paths = {q}
      BY <2>1, <2>4, <2>5 DEF CanBeDone
    <3> QED
      BY <2>1, <2>3, <3>1
  <2> QED
    BY <2>1, <2>3, <2>5
<1>7. ASSUME NEW k \in DOMAIN todo' PROVE CanBeDone(todo[k])'
  <2> DEFINE task == todo'[k]
             old  == todo[k + s]
  <2>1. /\ k + s \in DOMAIN todo /\ CanBeDone(old)
        /\ task.do = old.do /\ task.value = old.value /\ task.paths = old.paths \ {p}
        /\ task.do # "withdraw" => task.paths = old.paths
    BY <1>1, <1>6 DEF TasksAreRight
  <2>2. p \notin task.paths
    BY <1>5
  <2> HIDE DEF task, old
  <2>3. \A q : q # p => (q \in DOMAIN tree' <=> q \in DOMAIN tree)
    BY WorkAt
  <2>4. task.do # "export" => task.paths \subseteq DOMAIN tree'
    BY <2>1, <2>2, <2>3 DEF CanBeDone
  <2>5. task.do # "withdraw" => \E q \in task.paths : task.paths = {q} /\ task.value \in Values(q)
    BY <2>1 DEF CanBeDone
  <2>6. task.do = "export" => \A q \in task.paths : q.kind = "tag" => q \notin DOMAIN tree'
    BY <2>1, <2>2, <2>3 DEF CanBeDone
  <2>7. task.do = "set" => \A q \in task.paths : q.kind # "tag"
    BY <2>1 DEF CanBeDone
  <2> QED
    BY <2>4, <2>5, <2>6, <2>7 DEF CanBeDone, task
<1>8. TagsAreTouchedWhole'
  <2> SUFFICES ASSUME NEW c \in Containers, c.kind = "tag", NEW k \in DOMAIN todo'
               PROVE  /\ c \in DOMAIN tree' /\ todo'[k].paths \cap Records(c) # {} => c \in todo'[k].paths
                      /\ c \in todo'[k].paths /\ todo'[k].do = "export" =>
                           \A j \in DOMAIN todo' : k < j => todo'[j].paths \cap Records(c) = {}
    BY DEF TagsAreTouchedWhole
  <2>1. /\ k + s \in DOMAIN todo
        /\ todo'[k].do = todo[k + s].do /\ todo'[k].paths = todo[k + s].paths \ {p}
    BY <1>6
  <2>2. /\ c \in DOMAIN tree /\ todo[k + s].paths \cap Records(c) # {} => c \in todo[k + s].paths
        /\ c \in todo[k + s].paths /\ todo[k + s].do = "export" =>
             \A j \in DOMAIN todo : k + s < j => todo[j].paths \cap Records(c) = {}
    BY <1>1, <2>1 DEF TasksAreRight, TagsAreTouchedWhole
  <2>3. ASSUME c \in todo'[k].paths, todo'[k].do = "export", NEW j \in DOMAIN todo', k < j
        PROVE  todo'[j].paths \cap Records(c) = {}
    <3>1. j + s \in DOMAIN todo /\ todo'[j].paths = todo[j + s].paths \ {p} /\ k + s < j + s
      BY <1>3, <1>6, <2>3
    <3>2. todo[j + s].paths \cap Records(c) = {}
      BY <2>1, <2>2, <2>3, <3>1
    <3> QED
      BY <3>1, <3>2
  <2>4. ASSUME c \in DOMAIN tree', todo'[k].paths \cap Records(c) # {}
        PROVE  c \in todo'[k].paths
    <3>1. CASE c # p
      <4>1. c \in DOMAIN tree
        BY <2>4, <3>1, WorkAt
      <4> QED
        BY <2>1, <2>2, <2>4, <3>1, <4>1
    <3>2. CASE c = p
      <4>1. Head(todo).do # "withdraw" /\ Head(todo).paths = {p} /\ Head(todo) = todo[1] /\ 1 \in DOMAIN todo
        BY <2>4, <3>2, WorkAt
      <4>2. Head(todo).do = "export"
        <5>1. Head(todo) \in Tasks /\ CanBeDone(Head(todo))
          BY WorkAt
        <5>2. Head(todo).do # "set"
          BY <3>2, <4>1, <5>1 DEF CanBeDone
        <5> QED
          BY <4>1, <5>1, <5>2 DEF Tasks
      <4>3. \A j \in DOMAIN todo : 1 < j => todo[j].paths \cap Records(c) = {}
        BY <1>1, <1>2, <3>2, <4>1, <4>2 DEF TasksAreRight, TagsAreTouchedWhole
      <4>4. k + s = 1
        BY <1>3, <2>1, <2>4, <4>3
      <4>5. todo'[k].paths = {}
        BY <2>1, <4>1, <4>4
      <4> QED
        BY <2>4, <4>5
    <3> QED
      BY <3>1, <3>2
  <2> QED
    BY <2>3, <2>4
<1>9. ~registered' => \A k \in DOMAIN todo' : todo'[k].do = "withdraw"
  BY <1>1, <1>6 DEF TasksAreRight
<1> QED
  BY <1>3, <1>4, <1>7, <1>8, <1>9 DEF TasksAreRight

\* In the tree there will be, the containers are the registered ones.
LEMMA TreeContainers ==
  ASSUME NEW t, IsTreeOf(t, table), TypeOK, NEW c \in DOMAIN t \cap Containers
  PROVE  c \in DOMAIN table
<1>1. DOMAIN t \ {Adapter} =
        DOMAIN table \cup UNION {{Record(d, n) : n \in table[d].ids} : d \in DOMAIN table}
  BY DEF IsTreeOf
<1>2. c # Adapter
  BY ContainerIs
<1>3. ASSUME NEW d \in DOMAIN table, NEW n \in table[d].ids PROVE c # Record(d, n)
  BY RecordsApart DEF TypeOK, Registrations
<1> QED
  BY <1>1, <1>2, <1>3

LEMMA WorkKeepsTags ==
  ASSUME IInv, NEW p, WorksOn(p)
  PROVE  TagsAreWhole(tree)'
<1> SUFFICES ASSUME NEW c \in DOMAIN tree' \cap Containers, c.kind = "tag"
             PROVE  tree'[c].records = On(tree', c)
  BY DEF TagsAreWhole
<1>1. TagsAreWhole(tree) /\ TagsAreTouchedWhole /\ todo \in Seq(Tasks) /\ todo # <<>> /\ todo' = Rest(todo, p)
  BY DEF IInv, TasksAreRight, TypeOK, WorksOn
<1>2. Head(todo) = todo[1] /\ 1 \in DOMAIN todo /\ p \in Head(todo).paths
  BY WorkAt
<1>3. CASE c # p
  <2>1. c \in DOMAIN tree /\ tree'[c] = tree[c]
    BY <1>3, WorkAt
  <2>2. p \notin Records(c)
    <3> SUFFICES ASSUME p \in Records(c) PROVE FALSE
      OBVIOUS
    <3>1. c \in Head(todo).paths
      BY <1>1, <1>2, <2>1 DEF TagsAreTouchedWhole
    <3>2. p \in Containers
      BY <3>1, WorkAt
    <3> QED
      BY <3>2, RecordsAre
  <2>3. On(tree', c) = On(tree, c)
    <3>1. \A q : q # p => (q \in DOMAIN tree' <=> q \in DOMAIN tree)
      BY WorkAt
    <3> QED
      BY <2>2, <3>1 DEF On
  <2> QED
    BY <1>1, <2>1, <2>3 DEF TagsAreWhole
<1>4. CASE c = p
  <2>1. Head(todo).do # "withdraw"
    BY <1>4, WorkAt
  <2>2. Head(todo).paths = {p} /\ Head(todo).do = "export"
    <3>1. Head(todo) \in Tasks /\ CanBeDone(Head(todo)) /\ Head(todo).paths = {p}
      BY <2>1, WorkAt
    <3>2. Head(todo).do # "set"
      BY <1>4, <3>1 DEF CanBeDone
    <3> QED
      BY <2>1, <3>1, <3>2 DEF Tasks
  <2>3. \A j \in DOMAIN todo : 1 < j => todo[j].paths \cap Records(c) = {}
    BY <1>1, <1>2, <1>4, <2>2 DEF TagsAreTouchedWhole
  <2>4. PICK s \in {0, 1} : Shortened(todo, todo', p, s)
    BY <1>1, <1>2, RestAt
  <2>5. \A k \in DOMAIN todo' : todo'[k].paths \cap Records(c) = {}
    <3> SUFFICES ASSUME NEW k \in DOMAIN todo' PROVE todo'[k].paths \cap Records(c) = {}
      OBVIOUS
    <3>1. CASE k + s = 1
      BY <1>2, <2>2, <2>4, <3>1 DEF Shortened
    <3>2. CASE k + s # 1
      <4>1. k + s \in DOMAIN todo /\ todo'[k].paths = todo[k + s].paths /\ 1 < k + s
        BY <2>4, <3>2 DEF Shortened
      <4> QED
        BY <2>3, <4>1
    <3> QED
      BY <3>1, <3>2
  <2>6. \A r \in Records(c) : ~Pending(todo', r)
    BY <2>5 DEF Pending
  <2>7. OnceEach(todo') /\ ~Pending(todo', p) /\ FinalIsSound'
    BY WorkKeepsFinal
  <2>8. DOMAIN tree' \subseteq Path
    <3>1. DOMAIN tree \subseteq Path /\ p \in Path
      BY WorkAt DEF IInv, TypeOK
    <3> QED
      BY <3>1, WorkAt
  <2> DEFINE f == Final(tree', todo')
  <2>9. \A q : ~Pending(todo', q) => /\ q \in DOMAIN f <=> q \in DOMAIN tree'
                                     /\ q \in DOMAIN tree' => f[q] = tree'[q]
    BY <2>7, <2>8, FinalAt
  <2>10. IsTreeOf(f, table)
    BY <2>7 DEF FinalIsSound, WorksOn
  <2> HIDE DEF f
  <2>11. On(f, c) = On(tree', c)
    BY <2>6, <2>9 DEF On
  <2>12. c \in DOMAIN f /\ f[c] = tree'[c]
    BY <1>4, <2>7, <2>9
  <2>13. c \in DOMAIN table
    BY <2>10, <2>12, TreeContainers DEF IInv
  <2>14. f[c].records = On(f, c)
    BY <2>10, <2>13 DEF IsTreeOf
  <2> QED
    BY <2>11, <2>12, <2>14
<1> QED
  BY <1>3, <1>4

\* All that is not about the idle sources and the client.
LEMMA WorkKeepsTree ==
  ASSUME IInv, NEW p, WorksOn(p), sources' \in Seq(Sources), DOMAIN before' \subseteq DOMAIN tree'
  PROVE  TypeOK' /\ TasksAreRight' /\ FinalIsSound' /\ TagsAreWhole(tree)' /\ TagsAreWhole(mirror)'
<1>1. TypeOK /\ TagsAreWhole(mirror) /\ UNCHANGED <<radio, registered, table, mirror>>
  BY DEF IInv, WorksOn
<1>2. DOMAIN tree' \subseteq Path
  <2>1. DOMAIN tree \subseteq Path /\ p \in Path
    BY <1>1, WorkAt DEF TypeOK
  <2> QED
    BY <2>1, WorkAt
<1>3. \A q \in DOMAIN tree' : tree'[q] \in Values(q)
  <2> SUFFICES ASSUME NEW q \in DOMAIN tree' PROVE tree'[q] \in Values(q)
    OBVIOUS
  <2>1. CASE q = p
    <3>1. Head(todo).do # "withdraw"
      BY <2>1, WorkAt
    <3> QED
      BY <2>1, <3>1, WorkAt
  <2>2. CASE q # p
    <3>1. q \in DOMAIN tree /\ tree'[q] = tree[q]
      BY <2>2, WorkAt
    <3> QED
      BY <1>1, <3>1 DEF TypeOK
  <2> QED
    BY <2>1, <2>2
<1>4. todo' \in Seq(Tasks) /\ TasksAreRight'
  BY WorkKeepsTasks
<1>5. TypeOK'
  BY <1>1, <1>2, <1>3, <1>4 DEF TypeOK
<1>6. TagsAreWhole(mirror)'
  BY <1>1
<1> QED
  BY <1>4, <1>5, <1>6, WorkKeepsFinal, WorkKeepsTags

-----------------------------------------------------------------------------
(***************************************************************************)
(* What the client is told.                                                *)
(***************************************************************************)
LEMMA RemovedIs ==
  ASSUME NEW p
  PROVE  /\ Removed(p).type = "removed" /\ Removed(p).path = p
         /\ \A m : After(m, Removed(p)) = Drop(m, p)
BY DEF Removed, After

LEMMA AddedIs ==
  ASSUME NEW p, NEW v
  PROVE  /\ Added(p, v).type = "added" /\ Added(p, v).path = p
         /\ \A m : After(m, Added(p, v)) = Put(m, p, v)
BY DEF Added, After

LEMMA ChangedIs ==
  ASSUME NEW p, NEW v
  PROVE  /\ Changed(p, v).type = "changed" /\ Changed(p, v).path = p
         /\ \A m : After(m, Changed(p, v)) = Put(m, p, v)
BY DEF Changed, After

LEMMA DropIs ==
  ASSUME NEW f, NEW p
  PROVE  /\ DOMAIN Drop(f, p) = DOMAIN f \ {p}
         /\ \A q \in DOMAIN f \ {p} : Drop(f, p)[q] = f[q]
BY DEF Drop

LEMMA PutIs ==
  ASSUME NEW f, NEW p, NEW v
  PROVE  /\ DOMAIN Put(f, p, v) = DOMAIN f \cup {p}
         /\ Put(f, p, v)[p] = v
         /\ \A q \in DOMAIN f \ {p} : Put(f, p, v)[q] = f[q]
BY DEF Put

LEMMA SaysOne ==
  ASSUME NEW s, signals' = <<s>>, After(mirror', s) = Told',
         s.type = "added" <=> s.path \notin DOMAIN mirror'
  PROVE  Informing'
<1>1. /\ Len(signals') = 1 /\ signals'[1] = s /\ Head(signals') = s
      /\ signals' # <<>> /\ signals' = <<signals'[1]>>
  OBVIOUS
<1> QED
  BY <1>1 DEF Informing, ClientIsInformed

LEMMA SaysNothing ==
  ASSUME signals' = <<>>, mirror' = Told'
  PROVE  Informing'
BY DEF Informing

LEMMA Quiet ==
  ASSUME IInv, signals = <<>>
  PROVE  mirror = Told /\ DOMAIN before \subseteq DOMAIN tree /\ DOMAIN mirror = DOMAIN tree
<1>1. mirror = Told
  BY DEF IInv, Informing
<1> QED
  BY <1>1 DEF IInv, TypeOK, Told

LEMMA WithdrawInforms ==
  ASSUME IInv, signals = <<>>, NEW p \in DOMAIN tree, Unexport(p), UNCHANGED mirror
  PROVE  Informing' /\ DOMAIN before' \subseteq DOMAIN tree'
<1>1. mirror = Told /\ DOMAIN before \subseteq DOMAIN tree /\ DOMAIN mirror = DOMAIN tree
  BY Quiet
<1>2. tree' = Drop(tree, p) /\ before' = Drop(before, p) /\ signals' = <<Removed(p)>> /\ mirror' = mirror
  BY DEF Unexport
<1>3. DOMAIN tree' = DOMAIN tree \ {p} /\ DOMAIN before' = DOMAIN before \ {p}
  BY <1>2, DropIs
<1>4. DOMAIN before' \subseteq DOMAIN tree'
  BY <1>1, <1>3
<1>5. Told' = Drop(Told, p)
  <2>1. Told' = [q \in DOMAIN tree' |-> IF q \in DOMAIN before' THEN before'[q] ELSE tree'[q]]
    BY DEF Told
  <2>2. Drop(Told, p) = [q \in DOMAIN tree \ {p} |-> IF q \in DOMAIN before THEN before[q] ELSE tree[q]]
    BY DEF Told, Drop
  <2>3. \A q \in DOMAIN tree \ {p} :
          (IF q \in DOMAIN before' THEN before'[q] ELSE tree'[q])
            = (IF q \in DOMAIN before THEN before[q] ELSE tree[q])
    BY <1>2, DropIs, <1>3
  <2> QED
    BY <1>3, <2>1, <2>2, <2>3
<1>6. After(mirror', Removed(p)) = Told'
  BY <1>1, <1>2, <1>5, RemovedIs
<1>7. Informing'
  BY <1>1, <1>2, <1>6, RemovedIs, SaysOne
<1> QED
  BY <1>7, <1>4

LEMMA ExportInforms ==
  ASSUME IInv, signals = <<>>, NEW p, NEW v, Export(p, v), UNCHANGED mirror,
         p \in DOMAIN tree => p.kind # "tag"
  PROVE  Informing' /\ DOMAIN before' \subseteq DOMAIN tree'
<1>1. mirror = Told /\ DOMAIN before \subseteq DOMAIN tree /\ DOMAIN mirror = DOMAIN tree
  BY Quiet
<1>2. tree' = Put(tree, p, v) /\ before' = Drop(before, p) /\ mirror' = mirror
  BY DEF Export
<1>3. DOMAIN tree' = DOMAIN tree \cup {p} /\ DOMAIN before' = DOMAIN before \ {p}
  <2>1. DOMAIN Put(tree, p, v) = DOMAIN tree \cup {p}
    BY PutIs
  <2>2. DOMAIN Drop(before, p) = DOMAIN before \ {p}
    BY DropIs
  <2> QED
    BY <1>2, <2>1, <2>2
<1>4. DOMAIN before' \subseteq DOMAIN tree'
  BY <1>1, <1>3
<1>5. /\ tree'[p] = v
      /\ \A q \in DOMAIN tree \ {p} : tree'[q] = tree[q]
      /\ \A q \in DOMAIN before \ {p} : before'[q] = before[q]
  <2>1. Put(tree, p, v)[p] = v /\ \A q \in DOMAIN tree \ {p} : Put(tree, p, v)[q] = tree[q]
    BY DEF Put
  <2>2. \A q \in DOMAIN before \ {p} : Drop(before, p)[q] = before[q]
    BY DropIs
  <2> QED
    BY <1>2, <2>1, <2>2
<1>6. /\ Told' = Put(Told, p, v)
      /\ Told' = Put(Drop(Told, p), p, v)
  <2>1. Told' = [q \in DOMAIN tree' |-> IF q \in DOMAIN before' THEN before'[q] ELSE tree'[q]]
    BY DEF Told
  <2>2. /\ Put(Told, p, v) = [q \in DOMAIN tree \cup {p} |-> IF q = p THEN v ELSE Told[q]]
        /\ Put(Drop(Told, p), p, v) = [q \in DOMAIN tree \cup {p} |-> IF q = p THEN v ELSE Told[q]]
    <3>1. DOMAIN Told = DOMAIN tree
      BY DEF Told
    <3>2. /\ DOMAIN Drop(Told, p) = DOMAIN Told \ {p}
          /\ \A q \in DOMAIN Told \ {p} : Drop(Told, p)[q] = Told[q]
      BY DropIs
    <3>3. DOMAIN Drop(Told, p) \cup {p} = DOMAIN tree \cup {p}
      BY <3>1, <3>2
    <3>4. \A q \in DOMAIN tree \cup {p} : q # p => Drop(Told, p)[q] = Told[q]
      BY <3>1, <3>2
    <3> QED
      BY <3>1, <3>3, <3>4 DEF Put
  <2>3. \A q \in DOMAIN tree \cup {p} :
          (IF q \in DOMAIN before' THEN before'[q] ELSE tree'[q]) = (IF q = p THEN v ELSE Told[q])
    <3>1. \A q \in DOMAIN tree : Told[q] = IF q \in DOMAIN before THEN before[q] ELSE tree[q]
      BY DEF Told
    <3> QED
      BY <1>1, <1>3, <1>5, <3>1
  <2> QED
    BY <1>3, <2>1, <2>2, <2>3
<1>7. CASE p \notin DOMAIN tree
  <2>1. signals' = <<Added(p, v)>>
    BY <1>7 DEF Export
  <2>2. After(mirror', Added(p, v)) = Told'
    <3>1. After(mirror, Added(p, v)) = Put(mirror, p, v)
      BY AddedIs
    <3> QED
      BY <1>1, <1>2, <1>6, <3>1
  <2>3. Informing'
    BY <1>1, <1>2, <1>7, <2>1, <2>2, RemovedIs, AddedIs, SaysOne
  <2> QED
    BY <1>4, <2>3
<1>8. CASE p \in DOMAIN tree
  <2> DEFINE r == Removed(p)
             a == Added(p, v)
  <2>1. signals' = <<r, a>>
    BY <1>8 DEF Export
  <2>2. After(After(mirror', r), a) = Told'
    BY <1>1, <1>2, <1>6, RemovedIs, AddedIs
  <2>3. r.type = "removed" /\ r.path = p /\ a.type = "added" /\ a.path = p
    BY RemovedIs, AddedIs
  <2> HIDE DEF r, a
  <2>4. /\ Len(signals') = 2 /\ signals'[1] = r /\ signals'[2] = a
        /\ Head(signals') = r /\ signals' # <<>> /\ signals' = <<signals'[1], signals'[2]>>
    BY <2>1
  <2>5. ClientIsInformed'
    BY <1>1, <1>2, <1>8, <2>3, <2>4 DEF ClientIsInformed
  <2>6. Informing'
    BY <1>8, <2>2, <2>3, <2>4, <2>5 DEF Informing
  <2> QED
    BY <1>4, <2>6
<1> QED
  BY <1>7, <1>8

LEMMA SetInforms ==
  ASSUME IInv, signals = <<>>, NEW p \in DOMAIN tree, NEW v, Set(p, v), UNCHANGED mirror
  PROVE  Informing' /\ DOMAIN before' \subseteq DOMAIN tree'
<1>1. mirror = Told /\ DOMAIN before \subseteq DOMAIN tree /\ DOMAIN mirror = DOMAIN tree
  BY Quiet
<1>2. tree' = Put(tree, p, v) /\ signals' = <<>> /\ mirror' = mirror
      /\ (tree[p] = v \/ p \in DOMAIN before => before' = before)
      /\ (~(tree[p] = v \/ p \in DOMAIN before) => before' = Put(before, p, tree[p]))
  BY DEF Set
<1>3. /\ DOMAIN Put(tree, p, v) = DOMAIN tree \cup {p}
      /\ Put(tree, p, v)[p] = v
      /\ \A q \in DOMAIN tree \ {p} : Put(tree, p, v)[q] = tree[q]
  BY DEF Put
<1>4. /\ DOMAIN Put(before, p, tree[p]) = DOMAIN before \cup {p}
      /\ Put(before, p, tree[p])[p] = tree[p]
      /\ \A q \in DOMAIN before \ {p} : Put(before, p, tree[p])[q] = before[q]
  BY DEF Put
<1>5. DOMAIN tree' = DOMAIN tree /\ DOMAIN before' \subseteq DOMAIN tree'
  BY <1>1, <1>2, <1>3, <1>4
<1>6. \A q \in DOMAIN tree :
        (IF q \in DOMAIN before' THEN before'[q] ELSE tree'[q])
          = (IF q \in DOMAIN before THEN before[q] ELSE tree[q])
  <2> SUFFICES ASSUME NEW q \in DOMAIN tree
               PROVE  (IF q \in DOMAIN before' THEN before'[q] ELSE tree'[q])
                        = (IF q \in DOMAIN before THEN before[q] ELSE tree[q])
    OBVIOUS
  <2>1. CASE q # p
    BY <1>2, <1>3, <1>4, <2>1
  <2>2. CASE q = p
    BY <1>2, <1>3, <1>4, <2>2
  <2> QED
    BY <2>1, <2>2
<1>7. Told' = Told
  <2>1. Told' = [q \in DOMAIN tree' |-> IF q \in DOMAIN before' THEN before'[q] ELSE tree'[q]]
    BY DEF Told
  <2>2. Told = [q \in DOMAIN tree |-> IF q \in DOMAIN before THEN before[q] ELSE tree[q]]
    BY DEF Told
  <2> QED
    BY <1>5, <1>6, <2>1, <2>2
<1> QED
  BY <1>1, <1>2, <1>5, <1>7, SaysNothing

LEMMA WorkKeeps ==
  ASSUME IInv, Work
  PROVE  IInv'
<1>1. PICK p \in First(Head(todo).paths) :
        /\ todo' = Rest(todo, p)
        /\ \/ Head(todo).do = "export" /\ Export(p, Head(todo).value)
           \/ Head(todo).do = "set" /\ Set(p, Head(todo).value)
           \/ Head(todo).do = "withdraw" /\ Unexport(p)
  BY DEF Work
<1>2. /\ signals = <<>> /\ todo # <<>>
      /\ radio' = radio /\ registered' = registered /\ table' = table /\ mirror' = mirror
  BY DEF Work, halVars
<1>3. WorksOn(p)
  BY <1>1, <1>2 DEF WorksOn, Export, Set, Unexport
<1>4. p # Nowhere
  BY <1>3, WorkAt
<1>5. CASE Head(todo).do = "export" /\ Export(p, Head(todo).value)
  <2>1. p \in DOMAIN tree => p.kind # "tag"
    BY <1>3, <1>5, WorkAt DEF CanBeDone
  <2>2. Informing' /\ DOMAIN before' \subseteq DOMAIN tree'
    BY <1>2, <1>5, <2>1, ExportInforms
  <2>3. sources' \in Seq(Sources) /\ EmissionsArePending' /\ CallbacksInOrder'
    BY <1>2, <1>4, <1>5, CancelKeeps DEF Export
  <2> QED
    BY <1>3, <2>2, <2>3, WorkKeepsTree DEF IInv
<1>6. CASE Head(todo).do = "withdraw" /\ Unexport(p)
  <2>1. p \in DOMAIN tree
    BY <1>3, <1>6, WorkAt
  <2>2. Informing' /\ DOMAIN before' \subseteq DOMAIN tree'
    BY <1>2, <1>6, <2>1, WithdrawInforms
  <2>3. sources' \in Seq(Sources) /\ EmissionsArePending' /\ CallbacksInOrder'
    BY <1>2, <1>4, <1>6, CancelKeeps DEF Unexport
  <2> QED
    BY <1>3, <2>2, <2>3, WorkKeepsTree DEF IInv
<1>7. CASE Head(todo).do = "set" /\ Set(p, Head(todo).value)
  <2>1. p \in DOMAIN tree /\ p.kind # "tag" /\ registered
    <3>1. p \in DOMAIN tree /\ CanBeDone(Head(todo)) /\ p \in Head(todo).paths
          /\ Head(todo) = todo[1] /\ 1 \in DOMAIN todo
      BY <1>3, <1>7, WorkAt
    <3>2. registered
      BY <1>7, <3>1 DEF IInv, TasksAreRight
    <3> QED
      BY <1>7, <3>1, <3>2 DEF CanBeDone
  <2>2. Informing' /\ DOMAIN before' \subseteq DOMAIN tree'
    BY <1>2, <1>7, <2>1, SetInforms
  <2>3. sources' \in Seq(Sources) /\ EmissionsArePending' /\ CallbacksInOrder'
    <3>1. CASE tree[p] = Head(todo).value \/ p \in DOMAIN before
      <4>1. before' = before /\ sources' = sources
        BY <1>7, <3>1 DEF Set
      <4> QED
        BY <1>2, <4>1 DEF IInv, TypeOK, EmissionsArePending, CallbacksInOrder, Present
    <3>2. CASE ~(tree[p] = Head(todo).value \/ p \in DOMAIN before)
      <4>1. before' = Put(before, p, tree[p]) /\ sources' = Append(sources, Emission(p))
        BY <1>7, <3>2 DEF Set
      <4>2. DOMAIN before' = DOMAIN before \cup {p}
        BY <4>1, PutIs
      <4> QED
        BY <1>2, <2>1, <3>2, <4>1, <4>2, EmissionPosted
    <3> QED
      BY <3>1, <3>2
  <2> QED
    BY <1>3, <2>2, <2>3, WorkKeepsTree DEF IInv
<1> QED
  BY <1>1, <1>5, <1>6, <1>7

-----------------------------------------------------------------------------
(***************************************************************************)
(* What the main thread dispatches: an idle source.                        *)
(***************************************************************************)
LEMMA ReceivedDispatched ==
  ASSUME NEW q \in Seq(Sources), q # <<>>, NEW shown, ReceivedInSession(q, shown), NEW later,
         \A id \in shown : id \in later \/ Loses(Head(q), id),
         \A id : Detects(Head(q), id) => id \in later
  PROVE  ReceivedInSession(Tail(q), later)
<1> DEFINE p == Tail(q)
<1>1. /\ DOMAIN q \subseteq Nat /\ 1 \in DOMAIN q /\ Head(q) = q[1] /\ DOMAIN p \subseteq Nat \ {0}
      /\ \A i \in DOMAIN p : i + 1 \in DOMAIN q /\ p[i] = q[i + 1]
  BY TailAt
<1> HIDE DEF p
<1>2. ASSUME NEW i \in DOMAIN p, p[i].type = "received"
      PROVE  /\ p[i].id.kind = "device"
             /\ p[i].id \in later \/ DetectionBefore(p, p[i].id, i)
             /\ ~LossBefore(p, p[i].id, i)
  <2> DEFINE id == p[i].id
  <2>1. /\ i + 1 \in DOMAIN q /\ p[i] = q[i + 1] /\ 1 < i + 1
    BY <1>1, <1>2
  <2>2. /\ id.kind = "device"
        /\ id \in shown \/ DetectionBefore(q, id, i + 1)
        /\ ~LossBefore(q, id, i + 1)
    BY <1>2, <2>1 DEF ReceivedInSession
  <2> HIDE DEF id
  <2>3. ~Loses(Head(q), id)
    BY <1>1, <2>1, <2>2 DEF LossBefore
  <2>4. ~LossBefore(p, id, i)
    BY <1>2, <2>2, <2>3, BehindTheHead DEF p
  <2>5. CASE id \in shown
    BY <2>2, <2>3, <2>4, <2>5 DEF id
  <2>6. CASE Detects(Head(q), id)
    BY <2>2, <2>4, <2>6 DEF id
  <2>7. CASE DetectionBefore(q, id, i + 1) /\ ~Detects(Head(q), id)
    <3>1. DetectionBefore(p, id, i)
      BY <1>2, <2>7, BehindTheHead DEF p
    <3> QED
      BY <2>2, <2>4, <3>1 DEF id
  <2> QED
    BY <2>2, <2>5, <2>6, <2>7
<1> QED
  BY <1>2 DEF ReceivedInSession, p

\* Between two callbacks there is nothing on its way.
LEMMA Dispatching ==
  ASSUME IInv, Idle, sources # <<>>
  PROVE  /\ todo = <<>> /\ signals = <<>> /\ registered
         /\ sources \in Seq(Sources) /\ Head(sources) = sources[1] /\ 1 \in DOMAIN sources
         /\ Head(sources) \in Sources
         /\ Tail(sources) \in Seq(Sources)
         /\ InOrder(sources, DOMAIN table, Present) /\ ReceivedInSession(sources, DOMAIN table)
<1>1. sources \in Seq(Sources) /\ todo = <<>> /\ signals = <<>>
  BY DEF IInv, TypeOK, Idle
<1>2. registered /\ InOrder(sources, DOMAIN table, Present) /\ ReceivedInSession(sources, DOMAIN table)
  BY DEF IInv, CallbacksInOrder
<1> QED
  BY <1>1, <1>2, TailAt

\* The old values of the sources that are left are still there.
LEMMA EmissionsBehind ==
  ASSUME IInv, Idle, sources # <<>>, sources' = Tail(sources),
         \/ Head(sources).type # "emit" /\ UNCHANGED before
         \/ Head(sources).type = "emit" /\ before' = Drop(before, Head(sources).id)
  PROVE  EmissionsArePending'
<1>1. EmissionsArePending /\ sources \in Seq(Sources) /\ 1 \in DOMAIN sources /\ Head(sources) = sources[1]
      /\ \A k \in DOMAIN sources : sources[k] \in Sources
  BY Dispatching DEF IInv
<1>2. \A i \in DOMAIN sources' : i + 1 \in DOMAIN sources /\ sources'[i] = sources[i + 1] /\ i + 1 # 1
  BY <1>1, TailAt
<1>3. \A i, j \in DOMAIN sources' : i + 1 = j + 1 => i = j
  BY <1>1, TailAt
<1>4. ASSUME NEW i \in DOMAIN sources', NEW j \in DOMAIN sources',
             sources'[i].type = "emit", sources'[i].id # Nowhere
      PROVE  /\ sources'[i].id \in DOMAIN before'
             /\ sources'[j] = sources'[i] => i = j
  <2> DEFINE e == sources[i + 1]
  <2>1. e \in Sources /\ e.type = "emit" /\ e.id # Nowhere /\ e.id \in DOMAIN before
        /\ \A k \in DOMAIN sources : sources[k] = e => i + 1 = k
    BY <1>1, <1>2, <1>4 DEF EmissionsArePending
  <2>2. sources'[i] = e
    BY <1>2
  <2> HIDE DEF e
  <2>3. sources'[j] = sources'[i] => i = j
    BY <1>2, <1>3, <2>1, <2>2
  <2>4. CASE Head(sources).type = "emit"
    <3>1. sources[1] # e
      BY <1>1, <1>2, <2>1
    <3>2. sources[1].id # e.id
      <4>1. e = [type |-> "emit", id |-> e.id]
        BY <2>1 DEF Sources
      <4>2. sources[1] \in Sources /\ sources[1].type = "emit"
        BY <1>1, <2>4
      <4>3. sources[1] = [type |-> "emit", id |-> sources[1].id]
        BY <4>2 DEF Sources
      <4> QED
        BY <3>1, <4>1, <4>3
    <3>3. DOMAIN before' = DOMAIN before \ {sources[1].id}
      BY <1>1, <2>4 DEF Drop
    <3> QED
      BY <2>1, <2>2, <2>3, <3>2, <3>3
  <2>5. CASE Head(sources).type # "emit"
    BY <2>1, <2>2, <2>3, <2>5
  <2> QED
    BY <2>4, <2>5
<1>5. DOMAIN before' \subseteq DOMAIN before
  BY DropIs
<1> QED
  BY <1>1, <1>4, <1>5 DEF EmissionsArePending

LEMMA EmitInforms ==
  ASSUME IInv, Idle, sources # <<>>, Emit
  PROVE  Informing' /\ DOMAIN before' \subseteq DOMAIN tree'
<1> DEFINE p == Head(sources).id
<1>1. todo = <<>> /\ signals = <<>> /\ Head(sources) \in Sources /\ EmissionsArePending
      /\ Head(sources) = sources[1] /\ 1 \in DOMAIN sources
  BY Dispatching DEF IInv
<1>2. mirror = Told /\ DOMAIN before \subseteq DOMAIN tree /\ DOMAIN tree \subseteq Path
  BY <1>1, Quiet DEF IInv, TypeOK
<1>3. /\ Head(sources).type = "emit" /\ before' = Drop(before, p) /\ UNCHANGED <<tree, mirror>>
      /\ signals' = IF p = Nowhere \/ tree[p] = before[p] THEN <<>> ELSE <<Changed(p, tree[p])>>
  BY DEF Emit
<1>4. p \in Path \cup {Nowhere} /\ (p # Nowhere => p \in DOMAIN before)
  BY <1>1, <1>3 DEF Sources, EmissionsArePending
<1> HIDE DEF p
<1>5. DOMAIN before' = DOMAIN before \ {p} /\ \A q \in DOMAIN before \ {p} : before'[q] = before[q]
  BY <1>3, DropIs
<1>6. DOMAIN before' \subseteq DOMAIN tree'
  BY <1>2, <1>3, <1>5
<1>7. Told' = [q \in DOMAIN tree |-> IF q \in DOMAIN before' THEN before'[q] ELSE tree[q]]
  BY <1>3 DEF Told
<1>8. Told = [q \in DOMAIN tree |-> IF q \in DOMAIN before THEN before[q] ELSE tree[q]]
  BY DEF Told
<1>9. CASE p = Nowhere \/ tree[p] = before[p]
  <2>1. p \in DOMAIN before => tree[p] = before[p]
    BY <1>2, <1>9, AdapterApart
  <2>2. \A q \in DOMAIN tree : (IF q \in DOMAIN before' THEN before'[q] ELSE tree[q])
                                 = (IF q \in DOMAIN before THEN before[q] ELSE tree[q])
    BY <1>5, <2>1
  <2>3. Told' = Told
    BY <1>7, <1>8, <2>2
  <2>4. Informing'
    BY <1>2, <1>3, <1>9, <2>3, SaysNothing
  <2> QED
    BY <1>6, <2>4
<1>10. CASE ~(p = Nowhere \/ tree[p] = before[p])
  <2> DEFINE s == Changed(p, tree[p])
  <2>1. p \in DOMAIN before /\ p \in DOMAIN tree /\ signals' = <<s>>
    BY <1>2, <1>3, <1>4, <1>10
  <2>2. Put(Told, p, tree[p]) = [q \in DOMAIN tree |-> IF q = p THEN tree[p] ELSE Told[q]]
    <3>1. DOMAIN Told \cup {p} = DOMAIN tree
      BY <2>1 DEF Told
    <3> QED
      BY <3>1 DEF Put
  <2>3. \A q \in DOMAIN tree : (IF q \in DOMAIN before' THEN before'[q] ELSE tree[q])
                                 = (IF q = p THEN tree[p] ELSE Told[q])
    BY <1>5, <1>8
  <2>4. Told' = Put(Told, p, tree[p])
    BY <1>7, <2>2, <2>3
  <2>5. After(mirror', s) = Told'
    BY <1>2, <1>3, <2>4, ChangedIs
  <2>6. s.type # "added" /\ s.path \in DOMAIN mirror'
    <3>1. s.type = "changed" /\ s.path = p
      BY ChangedIs
    <3>2. DOMAIN mirror' = DOMAIN tree
      BY <1>2, <1>3, <1>8
    <3> QED
      BY <2>1, <3>1, <3>2
  <2> HIDE DEF s
  <2>7. Informing'
    BY <2>1, <2>5, <2>6, SaysOne
  <2> QED
    BY <1>6, <2>7
<1> QED
  BY <1>9, <1>10

LEMMA EmitKeeps ==
  ASSUME IInv, Idle, sources # <<>>, Emit
  PROVE  IInv'
<1>1. /\ Head(sources).type = "emit" /\ before' = Drop(before, Head(sources).id) /\ sources' = Tail(sources)
      /\ radio' = radio /\ registered' = registered /\ todo' = todo /\ tree' = tree /\ table' = table
      /\ mirror' = mirror
  BY DEF Emit, halVars
<1>2. Informing' /\ DOMAIN before' \subseteq DOMAIN tree'
  BY EmitInforms
<1>3. EmissionsArePending'
  BY <1>1, EmissionsBehind
<1>4. TypeOK'
  BY <1>1, <1>2, Dispatching DEF IInv, TypeOK
<1>5. CallbacksInOrder'
  <2>1. ~Announces(Head(sources))
    BY <1>1 DEF Announces
  <2>2. sources \in Seq(Sources) /\ registered
        /\ InOrder(sources, DOMAIN table, Present) /\ ReceivedInSession(sources, DOMAIN table)
    BY Dispatching
  <2>3. InOrder(Tail(sources), DOMAIN table, Present)
    BY <2>1, <2>2, OtherDispatched
  <2>4. ReceivedInSession(Tail(sources), DOMAIN table)
    BY <1>1, <2>2, ReceivedDispatched DEF Detects
  <2> QED
    BY <1>1, <2>2, <2>3, <2>4 DEF CallbacksInOrder, Present
<1>6. TasksAreRight'
  BY <1>1 DEF IInv, TasksAreRight, OnceEach, CanBeDone, TagsAreTouchedWhole
<1>7. FinalIsSound' /\ TagsAreWhole(tree)' /\ TagsAreWhole(mirror)'
  BY <1>1 DEF IInv, FinalIsSound
<1> QED
  BY <1>2, <1>3, <1>4, <1>5, <1>6, <1>7 DEF IInv

-----------------------------------------------------------------------------
(***************************************************************************)
(* What the main thread dispatches: a callback.                            *)
(***************************************************************************)
LEMMA SameTree ==
  ASSUME NEW t, NEW u, NEW containers, DOMAIN t = DOMAIN u, \A p \in DOMAIN t : t[p] = u[p],
         IsTreeOf(t, containers)
  PROVE  IsTreeOf(u, containers)
<1>1. DOMAIN u \ {Adapter} =
        DOMAIN containers \cup UNION {{Record(c, n) : n \in containers[c].ids} : c \in DOMAIN containers}
  BY DEF IsTreeOf
<1>2. \A c \in DOMAIN containers : c \in DOMAIN t
  BY <1>1
<1>3. IF Adapter \in DOMAIN u THEN u[Adapter].tags = Registered("tag", containers)
                              ELSE Registered("tag", containers) = {}
  BY DEF IsTreeOf
<1>4. ASSUME NEW c \in DOMAIN containers
      PROVE  /\ u[c].records \subseteq On(u, c)
             /\ c.kind = "tag" => u[c].records = On(u, c)
             /\ \A r \in u[c].records : u[r].says = containers[c].raw
  <2>1. On(u, c) = On(t, c) /\ u[c] = t[c]
    BY <1>2 DEF On
  <2>2. /\ t[c].records \subseteq On(t, c)
        /\ c.kind = "tag" => t[c].records = On(t, c)
        /\ \A r \in t[c].records : t[r].says = containers[c].raw
    BY DEF IsTreeOf
  <2>3. \A r \in On(t, c) : u[r] = t[r]
    BY DEF On
  <2> QED
    BY <2>1, <2>2, <2>3
<1> QED
  BY <1>1, <1>3, <1>4 DEF IsTreeOf

\* Between two callbacks the tree is what it is going to be.
LEMMA TreeWhenIdle ==
  ASSUME IInv, todo = <<>>
  PROVE  IsTreeOf(tree, table) /\ (registered <=> Adapter \in DOMAIN tree)
<1>1. DOMAIN tree \subseteq Path /\ FinalIsSound
  BY DEF IInv, TypeOK
<1> DEFINE f == Final(tree, todo)
<1>2. DOMAIN f = DOMAIN tree /\ \A p \in DOMAIN f : f[p] = tree[p]
  BY <1>1, NothingToDo
<1>3. IsTreeOf(f, table) /\ (registered <=> Adapter \in DOMAIN f)
  BY <1>1 DEF FinalIsSound
<1> HIDE DEF f
<1>4. IsTreeOf(tree, table)
  BY <1>2, <1>3, SameTree
<1> QED
  BY <1>2, <1>3, <1>4

LEMMA TaskTyped ==
  /\ \A p \in Path : \A v \in Values(p) : \A do \in {"export", "set"} : Task(do, {p}, v) \in Tasks
  /\ \A ps \in (SUBSET Path) \ {{}} : Task("withdraw", ps, NoMessage) \in Tasks
<1>1. ASSUME NEW p \in Path, NEW v \in Values(p), NEW do \in {"export", "set"}
      PROVE  Task(do, {p}, v) \in Tasks
  <2>1. v \in AllValues /\ {p} \in (SUBSET Path) \ {{}}
    BY DEF AllValues
  <2> QED
    BY <2>1 DEF Task, Tasks
<1>2. \A ps \in (SUBSET Path) \ {{}} : Task("withdraw", ps, NoMessage) \in Tasks
  BY DEF Task, Tasks, AllValues
<1> QED
  BY <1>1, <1>2

LEMMA TaskHas ==
  ASSUME NEW do, NEW ps, NEW v
  PROVE  Task(do, ps, v).do = do /\ Task(do, ps, v).paths = ps /\ Task(do, ps, v).value = v
BY DEF Task

LEMMA ValueTyped ==
  ASSUME NEW c \in Containers
  PROVE  /\ \A rs \in SUBSET Path : [records |-> rs] \in Values(c)
         /\ \A n \in 1..MaxRecords : \A m \in Messages : [says |-> m] \in Values(Record(c, n))
<1>1. \A rs \in SUBSET Path : [records |-> rs] \in Values(c)
  BY ContainerIs DEF Values
<1>2. ASSUME NEW n \in 1..MaxRecords, NEW m \in Messages
      PROVE  [says |-> m] \in Values(Record(c, n))
  BY RecordsApart DEF Values
<1> QED
  BY <1>1, <1>2

LEMMA ListedAre ==
  ASSUME NEW c \in Containers, NEW n \in 0..MaxRecords
  PROVE  /\ 1..n \subseteq 1..MaxRecords
         /\ Listed(c, n) \subseteq Records(c) /\ Listed(c, n) \subseteq Path
         /\ \A i \in 1..n : Record(c, i) \in Listed(c, n)
         /\ \A p \in Listed(c, n) : \E i \in 1..n : p = Record(c, i)
<1>1. 1..n \subseteq 1..MaxRecords
  BY ObjectsAssumption
<1>2. \A i \in 1..n : Record(c, i) \in Records(c) /\ Record(c, i) \in Path
  BY <1>1, RecordsApart
<1> QED
  BY <1>1, <1>2 DEF Listed

LEMMA ExportRecordsAre ==
  ASSUME NEW c \in Containers, NEW m \in Messages, NEW n \in 0..MaxRecords
  PROVE  /\ ExportRecords(c, m, n) \in Seq(Tasks) /\ Len(ExportRecords(c, m, n)) = n
         /\ \A i \in 1..n : ExportRecords(c, m, n)[i] = Task("export", {Record(c, i)}, [says |-> m])
<1>1. n \in Nat
  BY ObjectsAssumption
<1>2. ASSUME NEW i \in 1..n PROVE Task("export", {Record(c, i)}, [says |-> m]) \in Tasks
  <2>1. i \in 1..MaxRecords
    BY <1>2, ListedAre
  <2>2. Record(c, i) \in Path /\ [says |-> m] \in Values(Record(c, i))
    BY <2>1, RecordsApart, ValueTyped
  <2> QED
    BY <2>2, TaskTyped
<1>3. ExportRecords(c, m, n) \in [1..n -> Tasks]
  BY <1>2 DEF ExportRecords
<1>4. ExportRecords(c, m, n) \in Seq(Tasks) /\ Len(ExportRecords(c, m, n)) = n
  BY <1>1, <1>3
<1> QED
  BY <1>4 DEF ExportRecords

\* A callback of the HAL is taken, and its tasks are right.
LEMMA BeginKeeps ==
  ASSUME IInv, Idle, sources # <<>>, Head(sources).type # "emit", NEW tasks, Begin(tasks),
         tasks \in Seq(Tasks),
         DOMAIN table' \subseteq Containers, \A c \in DOMAIN table' : table'[c] \in Registrations,
         TasksAreRight', FinalIsSound',
         InOrder(Tail(sources), DOMAIN table', Present), ReceivedInSession(Tail(sources), DOMAIN table')
  PROVE  IInv'
<1>1. /\ todo' = tasks /\ sources' = Tail(sources)
      /\ radio' = radio /\ registered' = registered /\ tree' = tree /\ before' = before
      /\ signals' = signals /\ mirror' = mirror
  BY DEF Begin, halVars
<1>2. Tail(sources) \in Seq(Sources) /\ registered
  BY Dispatching
<1>3. TypeOK'
  BY <1>1, <1>2 DEF IInv, TypeOK
<1>4. TagsAreWhole(tree)' /\ TagsAreWhole(mirror)'
  BY <1>1 DEF IInv
<1>5. EmissionsArePending'
  BY <1>1, EmissionsBehind
<1>6. CallbacksInOrder'
  BY <1>1, <1>2 DEF CallbacksInOrder, Present
<1>7. Informing'
  BY <1>1 DEF IInv, Informing, Told, ClientIsInformed
<1> QED
  BY <1>3, <1>4, <1>5, <1>6, <1>7 DEF IInv

LEMMA TasksBegun ==
  ASSUME NEW tasks, Begin(tasks), registered, OnceEach(tasks),
         \A k \in DOMAIN tasks : CanBeDone(tasks[k]),
         \A c \in Containers : c.kind = "tag" =>
           \A k \in DOMAIN tasks :
             /\ c \in DOMAIN tree /\ tasks[k].paths \cap Records(c) # {} => c \in tasks[k].paths
             /\ c \in tasks[k].paths /\ tasks[k].do = "export" =>
                  \A j \in DOMAIN tasks : k < j => tasks[j].paths \cap Records(c) = {},
         IsTreeOf(Final(tree, tasks), table'), Adapter \in DOMAIN Final(tree, tasks)
  PROVE  TasksAreRight' /\ FinalIsSound'
<1>1. todo' = tasks /\ tree' = tree /\ registered' = registered
  BY DEF Begin, halVars
<1>2. TasksAreRight'
  <2>1. OnceEach(todo)'
    BY <1>1
  <2>2. \A k \in DOMAIN todo' : CanBeDone(todo[k])'
    BY <1>1 DEF CanBeDone
  <2>3. TagsAreTouchedWhole'
    BY <1>1 DEF TagsAreTouchedWhole
  <2> QED
    BY <1>1, <2>1, <2>2, <2>3 DEF TasksAreRight
<1>3. Final(tree, todo)' = Final(tree, tasks)
  BY <1>1
<1>4. FinalIsSound'
  BY <1>1, <1>3 DEF FinalIsSound
<1> QED
  BY <1>2, <1>4

LEMMA OneMore ==
  ASSUME NEW s \in Seq(Tasks), NEW n \in Nat, Len(s) = n, NEW t \in Seq(Tasks), Len(t) = 1
  PROVE  /\ s \o t \in Seq(Tasks) /\ Len(s \o t) = n + 1 /\ DOMAIN (s \o t) = 1..(n + 1)
         /\ \A i \in 1..n : (s \o t)[i] = s[i]
         /\ (s \o t)[n + 1] = t[1]
<1>1. s \o t \in Seq(Tasks) /\ Len(s \o t) = n + 1
      /\ \A i \in 1..(n + 1) : (s \o t)[i] = IF i <= n THEN s[i] ELSE t[i - n]
  <2>1. /\ s \o t \in Seq(Tasks)
        /\ Len(s \o t) = Len(s) + Len(t)
        /\ \A i \in 1 .. Len(s) + Len(t) : (s \o t)[i] =
             IF i <= Len(s) THEN s[i] ELSE t[i - Len(s)]
    BY ConcatProperties, Zenon
  <2> QED
    BY <2>1
<1>2. DOMAIN (s \o t) = 1..(n + 1)
  BY <1>1
<1>3. \A i \in 1..n : (s \o t)[i] = s[i]
  BY <1>1
<1>4. (s \o t)[n + 1] = t[1]
  BY <1>1
<1> QED
  BY <1>1, <1>2, <1>3, <1>4

LEMMA AdapterListsAre ==
  ASSUME tree[Adapter] \in Values(Adapter), NEW t, DOMAIN t \subseteq Containers
  PROVE  /\ \E v \in Values(Adapter) : v.tags = Registered("tag", t) /\ TagList(t) = <<Task("set", {Adapter}, v)>>
         /\ \E v \in Values(Adapter) : v.tags = tree[Adapter].tags /\ DeviceList(t) = <<Task("set", {Adapter}, v)>>
<1>1. \A kind : Registered(kind, t) \subseteq Containers
  BY DEF Registered
<1>2. [tree[Adapter] EXCEPT !.tags = Registered("tag", t)] \in Values(Adapter)
      /\ [tree[Adapter] EXCEPT !.tags = Registered("tag", t)].tags = Registered("tag", t)
  BY <1>1 DEF Values
<1>3. [tree[Adapter] EXCEPT !.devices = Registered("device", t)] \in Values(Adapter)
      /\ [tree[Adapter] EXCEPT !.devices = Registered("device", t)].tags = tree[Adapter].tags
  BY <1>1 DEF Values
<1> QED
  BY <1>2, <1>3 DEF TagList, DeviceList, SetObject

LEMMA SingleTask ==
  ASSUME NEW p \in Path, NEW v \in Values(p), NEW do \in {"export", "set"}
  PROVE  /\ <<Task(do, {p}, v)>> \in Seq(Tasks) /\ Len(<<Task(do, {p}, v)>>) = 1
         /\ <<Task(do, {p}, v)>>[1] = Task(do, {p}, v)
<1>1. Task(do, {p}, v) \in Tasks
  BY TaskTyped
<1> QED
  BY <1>1

\* The tasks of tag_register and the list of tags.
RegistersTag(tasks, c, m, n, v) ==
  /\ tasks \in Seq(Tasks) /\ n \in Nat /\ DOMAIN tasks = 1..(n + 2)
  /\ \A i \in 1..n : tasks[i] = Task("export", {Record(c, i)}, [says |-> m])
  /\ tasks[n + 1] = Task("export", {c}, [records |-> Listed(c, n)])
  /\ tasks[n + 2] = Task("set", {Adapter}, v)

LEMMA RegisterTagAre ==
  ASSUME NEW c \in Containers, NEW m \in Messages, NEW n \in 0..MaxRecords,
         NEW tasks, NEW v \in Values(Adapter),
         tasks = RegisterTag(c, m, n) \o <<Task("set", {Adapter}, v)>>
  PROVE  RegistersTag(tasks, c, m, n, v)
<1> DEFINE a == ExportRecords(c, m, n)
           b == <<Task("export", {c}, [records |-> Listed(c, n)])>>
           d == <<Task("set", {Adapter}, v)>>
<1>1. n \in Nat
  BY ObjectsAssumption
<1>2. /\ a \in Seq(Tasks) /\ Len(a) = n
      /\ \A i \in 1..n : a[i] = Task("export", {Record(c, i)}, [says |-> m])
  BY ExportRecordsAre
<1>3. b \in Seq(Tasks) /\ Len(b) = 1 /\ b[1] = Task("export", {c}, [records |-> Listed(c, n)])
  <2>1. c \in Path /\ [records |-> Listed(c, n)] \in Values(c)
    BY ContainerIs, ListedAre, ValueTyped
  <2> QED
    BY <2>1, SingleTask
<1>4. d \in Seq(Tasks) /\ Len(d) = 1 /\ d[1] = Task("set", {Adapter}, v)
  BY AdapterApart, SingleTask
<1>5. tasks = (a \o b) \o d
  BY DEF RegisterTag, ExportObject
<1> HIDE DEF a, b, d
<1>6. /\ a \o b \in Seq(Tasks) /\ Len(a \o b) = n + 1
      /\ \A i \in 1..n : (a \o b)[i] = a[i]
      /\ (a \o b)[n + 1] = b[1]
  BY <1>1, <1>2, <1>3, OneMore
<1>7. /\ tasks \in Seq(Tasks) /\ DOMAIN tasks = 1..((n + 1) + 1)
      /\ \A i \in 1..(n + 1) : tasks[i] = (a \o b)[i]
      /\ tasks[(n + 1) + 1] = d[1]
  <2>1. n + 1 \in Nat
    BY <1>1
  <2>2. /\ (a \o b) \o d \in Seq(Tasks) /\ DOMAIN ((a \o b) \o d) = 1..((n + 1) + 1)
        /\ \A i \in 1..(n + 1) : ((a \o b) \o d)[i] = (a \o b)[i]
        /\ ((a \o b) \o d)[(n + 1) + 1] = d[1]
    BY <1>4, <1>6, <2>1, OneMore
  <2> QED
    BY <1>5, <2>2
<1> QED
  BY <1>1, <1>2, <1>3, <1>4, <1>6, <1>7 DEF RegistersTag

\* The trees of one container and of none.
Under(c, ids) == {Record(c, i) : i \in ids}

LEMMA UnderIs ==
  ASSUME NEW c \in Containers, NEW ids \in SUBSET (1..MaxRecords)
  PROVE  /\ Under(c, ids) \subseteq Records(c) /\ Under(c, ids) \subseteq Path
         /\ \A p \in Under(c, ids) : p \notin Containers /\ p # Adapter /\ p.kind = c.kind
         /\ \A p \in Under(c, ids) : \A d \in Containers : p \in Records(d) => d = c
         /\ c \notin Records(c) /\ Adapter \notin Records(c)
<1>1. Under(c, ids) \subseteq Records(c)
  BY DEF Under, Records
<1> QED
  BY <1>1, RecordsAre

LEMMA TreeOfOne ==
  ASSUME NEW c \in Containers, NEW containers, DOMAIN containers = {c},
         containers[c].ids \subseteq 1..MaxRecords, NEW t,
         DOMAIN t = {Adapter, c} \cup Under(c, containers[c].ids),
         t[Adapter].tags = Registered("tag", containers),
         t[c].records \subseteq Under(c, containers[c].ids),
         c.kind = "tag" => t[c].records = Under(c, containers[c].ids),
         \A r \in t[c].records : t[r].says = containers[c].raw
  PROVE  IsTreeOf(t, containers)
<1>1. On(t, c) = Under(c, containers[c].ids)
  BY UnderIs DEF On
<1>2. DOMAIN t \ {Adapter} = {c} \cup Under(c, containers[c].ids)
  BY UnderIs, ContainerIs
<1>3. UNION {{Record(d, n) : n \in containers[d].ids} : d \in DOMAIN containers}
        = Under(c, containers[c].ids)
  BY DEF Under
<1> QED
  BY <1>1, <1>2, <1>3 DEF IsTreeOf

LEMMA OneTreeIs ==
  ASSUME NEW c \in Containers, NEW containers, DOMAIN containers = {c},
         NEW t, IsTreeOf(t, containers), Adapter \in DOMAIN t
  PROVE  /\ DOMAIN t = {Adapter, c} \cup Under(c, containers[c].ids)
         /\ t[Adapter].tags = Registered("tag", containers)
<1>1. UNION {{Record(d, n) : n \in containers[d].ids} : d \in DOMAIN containers}
        = Under(c, containers[c].ids)
  BY DEF Under
<1> QED
  BY <1>1 DEF IsTreeOf

LEMMA TreeOfNone ==
  ASSUME NEW containers, DOMAIN containers = {}, NEW t
  PROVE  /\ DOMAIN t = {Adapter} /\ t[Adapter].tags = {} => IsTreeOf(t, containers)
         /\ IsTreeOf(t, containers) /\ Adapter \in DOMAIN t => DOMAIN t = {Adapter}
<1>1. Registered("tag", containers) = {}
  BY DEF Registered
<1> QED
  BY <1>1 DEF IsTreeOf

\* The containers that are registered when a callback is dispatched.
LEMMA BeforeDetection ==
  ASSUME IInv, Idle, sources # <<>>, Head(sources).type = "detected"
  PROVE  /\ Head(sources).id \in Containers /\ Head(sources).says \in Messages
         /\ Head(sources).records \in 0..MaxRecords
         /\ DOMAIN table = {} /\ DOMAIN tree = {Adapter} /\ tree[Adapter] \in Values(Adapter)
         /\ InOrder(Tail(sources), {Head(sources).id}, Present)
         /\ ReceivedInSession(Tail(sources), {Head(sources).id})
<1> DEFINE s == Head(sources)
<1>1. /\ s \in Sources /\ registered /\ todo = <<>> /\ sources \in Seq(Sources)
      /\ InOrder(sources, DOMAIN table, Present) /\ ReceivedInSession(sources, DOMAIN table)
  BY Dispatching
<1>2. s.id \in Containers /\ s.says \in Messages /\ s.records \in 0..MaxRecords
  BY <1>1 DEF Sources
<1>3. Detects(s, s.id)
  BY DEF Detects
<1>4. DOMAIN table = {} /\ InOrder(Tail(sources), {s.id}, Present)
  BY <1>1, <1>3, DetectionDispatched
<1>5. ReceivedInSession(Tail(sources), {s.id})
  <2>1. \A id : Detects(s, id) => id \in {s.id}
    BY DEF Detects
  <2>2. \A id \in DOMAIN table : id \in {s.id} \/ Loses(s, id)
    BY <1>4
  <2> QED
    BY <1>1, <2>1, <2>2, ReceivedDispatched
<1>6. IsTreeOf(tree, table) /\ Adapter \in DOMAIN tree
  BY <1>1, TreeWhenIdle
<1>7. DOMAIN tree = {Adapter} /\ tree[Adapter] \in Values(Adapter)
  BY <1>4, <1>6, TreeOfNone DEF IInv, TypeOK
<1> QED
  BY <1>2, <1>4, <1>5, <1>7

LEMMA BeforeLoss ==
  ASSUME IInv, Idle, sources # <<>>, Head(sources).type = "lost"
  PROVE  /\ Head(sources).id \in Containers
         /\ DOMAIN table = {Head(sources).id}
         /\ table[Head(sources).id].ids \in SUBSET (1..MaxRecords)
         /\ DOMAIN tree = {Adapter, Head(sources).id}
                            \cup Under(Head(sources).id, table[Head(sources).id].ids)
         /\ tree[Adapter] \in Values(Adapter)
         /\ tree[Adapter].tags = Registered("tag", table)
         /\ InOrder(Tail(sources), {}, Present)
         /\ ReceivedInSession(Tail(sources), {})
<1> DEFINE s == Head(sources)
<1>1. /\ s \in Sources /\ registered /\ todo = <<>> /\ sources \in Seq(Sources)
      /\ InOrder(sources, DOMAIN table, Present) /\ ReceivedInSession(sources, DOMAIN table)
  BY Dispatching
<1>2. s.id \in Containers
  BY <1>1 DEF Sources
<1>3. Loses(s, s.id)
  BY DEF Loses
<1>4. DOMAIN table = {s.id} /\ InOrder(Tail(sources), {}, Present)
  <2>1. /\ sources \in Seq(Sources) /\ InOrder(sources, DOMAIN table, Present)
        /\ Loses(Head(sources), s.id)
    BY <1>1, <1>3
  <2>2. DOMAIN table = {s.id} /\ s.id \notin Present /\ InOrder(Tail(sources), {}, Present)
    BY <2>1, LossDispatched
  <2> QED
    BY <2>2
<1>5. ReceivedInSession(Tail(sources), {})
  <2>1. \A id : Detects(s, id) => id \in {}
    BY DEF Detects
  <2>2. \A id \in DOMAIN table : id \in {} \/ Loses(s, id)
    BY <1>3, <1>4
  <2> QED
    BY <1>1, <2>1, <2>2, ReceivedDispatched
<1>6. IsTreeOf(tree, table) /\ Adapter \in DOMAIN tree
  BY <1>1, TreeWhenIdle
<1>7. /\ DOMAIN tree = {Adapter, s.id} \cup Under(s.id, table[s.id].ids)
      /\ tree[Adapter].tags = Registered("tag", table)
  BY <1>2, <1>4, <1>6, OneTreeIs
<1>8. tree[Adapter] \in Values(Adapter) /\ table[s.id].ids \in SUBSET (1..MaxRecords)
  BY <1>4, <1>6 DEF IInv, TypeOK, Registrations
<1> QED
  BY <1>2, <1>4, <1>5, <1>7, <1>8

LEMMA BeforeReceipt ==
  ASSUME IInv, Idle, sources # <<>>, Head(sources).type = "received"
  PROVE  /\ Head(sources).id \in Containers /\ Head(sources).says \in Messages
         /\ Head(sources).records \in 0..MaxRecords /\ Head(sources).id.kind = "device"
         /\ DOMAIN table = {Head(sources).id}
         /\ table[Head(sources).id].ids \in SUBSET (1..MaxRecords)
         /\ DOMAIN tree = {Adapter, Head(sources).id}
                            \cup Under(Head(sources).id, table[Head(sources).id].ids)
         /\ tree[Adapter].tags = Registered("tag", table)
         /\ InOrder(Tail(sources), DOMAIN table, Present)
         /\ ReceivedInSession(Tail(sources), DOMAIN table)
<1> DEFINE s == Head(sources)
<1>1. /\ s \in Sources /\ registered /\ todo = <<>> /\ sources \in Seq(Sources)
      /\ InOrder(sources, DOMAIN table, Present) /\ ReceivedInSession(sources, DOMAIN table)
      /\ s = sources[1] /\ 1 \in DOMAIN sources
  BY Dispatching
<1>2. s.id \in Containers /\ s.says \in Messages /\ s.records \in 0..MaxRecords
  BY <1>1 DEF Sources
<1>3. DOMAIN table = {s.id} /\ s.id.kind = "device"
  <2>1. s.id.kind = "device" /\ (s.id \in DOMAIN table \/ DetectionBefore(sources, s.id, 1))
    BY <1>1 DEF ReceivedInSession
  <2>2. ~DetectionBefore(sources, s.id, 1)
    BY <1>1 DEF DetectionBefore
  <2>3. \A a, b \in DOMAIN table : a = b
    BY <1>1 DEF InOrder, OneAtATime
  <2> QED
    BY <2>1, <2>2, <2>3
<1>4. ~Announces(s)
  BY DEF Announces
<1>5. InOrder(Tail(sources), DOMAIN table, Present)
  BY <1>1, <1>4, OtherDispatched
<1>6. ReceivedInSession(Tail(sources), DOMAIN table)
  BY <1>1, ReceivedDispatched DEF Detects
<1>7. IsTreeOf(tree, table) /\ Adapter \in DOMAIN tree
  BY <1>1, TreeWhenIdle
<1>8. /\ DOMAIN tree = {Adapter, s.id} \cup Under(s.id, table[s.id].ids)
      /\ tree[Adapter].tags = Registered("tag", table)
  BY <1>2, <1>3, <1>7, OneTreeIs
<1>9. table[s.id].ids \in SUBSET (1..MaxRecords)
  BY <1>3 DEF IInv, TypeOK, Registrations
<1> QED
  BY <1>2, <1>3, <1>5, <1>6, <1>8, <1>9

-----------------------------------------------------------------------------
(***************************************************************************)
(* The callbacks, one by one.                                              *)
(***************************************************************************)
LEMMA TagDetectedKeeps ==
  ASSUME IInv, Idle, sources # <<>>, TagDetected
  PROVE  IInv'
<1> DEFINE s == Head(sources)
           c == s.id
           m == s.says
           n == s.records
           tasks == RegisterTag(c, m, n) \o TagList(table')
           f == Final(tree, tasks)
<1>1. /\ s.type = "detected" /\ c.kind = "tag" /\ Begin(tasks)
      /\ table' = Put(table, c, [raw |-> m, ids |-> 1..n])
  BY DEF TagDetected
<1>2. /\ c \in Containers /\ m \in Messages /\ n \in 0..MaxRecords
      /\ DOMAIN table = {} /\ DOMAIN tree = {Adapter} /\ tree[Adapter] \in Values(Adapter)
      /\ InOrder(Tail(sources), {c}, Present) /\ ReceivedInSession(Tail(sources), {c})
      /\ registered
  BY <1>1, BeforeDetection, Dispatching
<1> HIDE DEF tasks, f
<1>3. DOMAIN table' = {c} /\ table'[c] = [raw |-> m, ids |-> 1..n] /\ 1..n \in SUBSET (1..MaxRecords)
  BY <1>1, <1>2, ListedAre DEF Put
<1>4. PICK v \in Values(Adapter) : v.tags = Registered("tag", table')
                                   /\ TagList(table') = <<Task("set", {Adapter}, v)>>
  BY <1>2, <1>3, AdapterListsAre
<1> HIDE DEF s, c, m, n
<1>5. /\ tasks \in Seq(Tasks) /\ n \in Nat /\ DOMAIN tasks = 1..(n + 2)
      /\ \A i \in 1..n : tasks[i] = Task("export", {Record(c, i)}, [says |-> m])
      /\ tasks[n + 1] = Task("export", {c}, [records |-> Listed(c, n)])
      /\ tasks[n + 2] = Task("set", {Adapter}, v)
  <2>1. tasks = RegisterTag(c, m, n) \o <<Task("set", {Adapter}, v)>>
    BY <1>4 DEF tasks
  <2>2. RegistersTag(tasks, c, m, n, v)
    BY <1>2, <2>1, RegisterTagAre
  <2> QED
    BY <2>2 DEF RegistersTag
<1>6. /\ \A i \in 1..n : i \in DOMAIN tasks /\ i \in 1..MaxRecords
      /\ n + 1 \in DOMAIN tasks /\ n + 2 \in DOMAIN tasks
      /\ \A k \in DOMAIN tasks : k \in 1..n \/ k = n + 1 \/ k = n + 2
      /\ \A i \in 1..n : /\ tasks[i].do = "export" /\ tasks[i].paths = {Record(c, i)}
                         /\ tasks[i].value = [says |-> m]
      /\ tasks[n + 1].do = "export" /\ tasks[n + 1].paths = {c}
      /\ tasks[n + 1].value = [records |-> Listed(c, n)]
      /\ tasks[n + 2].do = "set" /\ tasks[n + 2].paths = {Adapter} /\ tasks[n + 2].value = v
  <2>1. /\ \A i \in 1..n : i \in DOMAIN tasks /\ i \in 1..MaxRecords
        /\ n + 1 \in DOMAIN tasks /\ n + 2 \in DOMAIN tasks
        /\ \A k \in DOMAIN tasks : k \in 1..n \/ k = n + 1 \/ k = n + 2
    <3>1. \A i \in 1..n : i \in 1..MaxRecords
      BY <1>3
    <3>2. n \in Nat /\ DOMAIN tasks = 1..(n + 2)
      BY <1>5
    <3> QED
      BY <3>1, <3>2
  <2>2. \A i \in 1..n : /\ tasks[i].do = "export" /\ tasks[i].paths = {Record(c, i)}
                        /\ tasks[i].value = [says |-> m]
    <3>1. \A i \in 1..n : tasks[i] = Task("export", {Record(c, i)}, [says |-> m])
      BY <1>5
    <3> SUFFICES ASSUME NEW i \in 1..n
                 PROVE  /\ tasks[i].do = "export" /\ tasks[i].paths = {Record(c, i)}
                        /\ tasks[i].value = [says |-> m]
      OBVIOUS
    <3>2. tasks[i] = Task("export", {Record(c, i)}, [says |-> m])
      BY <3>1
    <3> QED
      BY <3>2, TaskHas
  <2>3. /\ tasks[n + 1].do = "export" /\ tasks[n + 1].paths = {c}
        /\ tasks[n + 1].value = [records |-> Listed(c, n)]
    BY <1>5, TaskHas
  <2>4. /\ tasks[n + 2].do = "set" /\ tasks[n + 2].paths = {Adapter} /\ tasks[n + 2].value = v
    BY <1>5, TaskHas
  <2> QED
    BY <2>1, <2>2, <2>3, <2>4
<1>7. /\ c # Adapter /\ c \in Path /\ Adapter \in Path /\ c \notin DOMAIN tree
      /\ \A i \in 1..n : /\ Record(c, i) # Adapter /\ Record(c, i) # c /\ Record(c, i) \in Path
                         /\ Record(c, i) \notin Containers
                         /\ \A j \in 1..n : Record(c, i) = Record(c, j) => i = j
  BY <1>2, <1>6, ContainerIs, AdapterApart, RecordsApart
<1>8. OnceEach(tasks)
  <2> SUFFICES ASSUME NEW j \in DOMAIN tasks, NEW k \in DOMAIN tasks,
                      tasks[j].paths \cap tasks[k].paths # {}
               PROVE  j = k
    BY DEF OnceEach
  <2>1. CASE j \in 1..n
    BY <1>6, <1>7, <2>1
  <2>2. CASE j = n + 1
    BY <1>6, <1>7, <2>2
  <2>3. CASE j = n + 2
    BY <1>6, <1>7, <2>3
  <2> QED
    BY <1>6, <2>1, <2>2, <2>3
<1>9. \A k \in DOMAIN tasks : CanBeDone(tasks[k])
  <2> SUFFICES ASSUME NEW k \in DOMAIN tasks PROVE CanBeDone(tasks[k])
    OBVIOUS
  <2>1. CASE k \in 1..n
    <3>1. [says |-> m] \in Values(Record(c, k)) /\ Record(c, k) \notin DOMAIN tree
      BY <1>2, <1>6, <1>7, <2>1, ValueTyped
    <3> QED
      BY <1>6, <2>1, <3>1 DEF CanBeDone
  <2>2. CASE k = n + 1
    <3>1. [records |-> Listed(c, n)] \in Values(c)
      BY <1>2, ListedAre, ValueTyped
    <3> QED
      BY <1>6, <1>7, <2>2, <3>1 DEF CanBeDone
  <2>3. CASE k = n + 2
    BY <1>2, <1>4, <1>6, <2>3, AdapterApart DEF CanBeDone
  <2> QED
    BY <1>6, <2>1, <2>2, <2>3
<1>10. ASSUME NEW d \in Containers, NEW k \in DOMAIN tasks
       PROVE  /\ d \in DOMAIN tree /\ tasks[k].paths \cap Records(d) # {} => d \in tasks[k].paths
              /\ d \in tasks[k].paths /\ tasks[k].do = "export" =>
                   \A j \in DOMAIN tasks : k < j => tasks[j].paths \cap Records(d) = {}
  <2>1. d \notin DOMAIN tree
    BY <1>2, ContainerIs
  <2>2. ASSUME d \in tasks[k].paths, tasks[k].do = "export", NEW j \in DOMAIN tasks, k < j
        PROVE  tasks[j].paths \cap Records(d) = {}
    <3>1. k = n + 1
      BY <1>6, <1>7, <2>2
    <3>2. j = n + 2
      BY <1>5, <1>6, <2>2, <3>1
    <3>3. Adapter \notin Records(d)
      BY RecordsAre
    <3> QED
      BY <1>6, <3>2, <3>3
  <2> QED
    BY <2>1, <2>2
<1>11. /\ \A k \in DOMAIN tasks : \A p \in tasks[k].paths \cap Path :
            /\ p \in DOMAIN f <=> tasks[k].do # "withdraw"
            /\ tasks[k].do # "withdraw" => f[p] = tasks[k].value
       /\ \A p : ~Pending(tasks, p) => (p \in DOMAIN f <=> p \in DOMAIN tree)
  BY <1>2, <1>7, <1>8, FinalAt DEF f
<1>12. /\ Adapter \in DOMAIN f /\ f[Adapter] = v
       /\ c \in DOMAIN f /\ f[c] = [records |-> Listed(c, n)]
       /\ \A i \in 1..n : Record(c, i) \in DOMAIN f /\ f[Record(c, i)] = [says |-> m]
  BY <1>6, <1>7, <1>11
<1>13. DOMAIN f = {Adapter, c} \cup Under(c, table'[c].ids)
  <2>1. ASSUME NEW p, p \notin {Adapter, c} \cup Under(c, 1..n) PROVE p \notin DOMAIN f
    <3>1. \A k \in DOMAIN tasks : p \notin tasks[k].paths
      BY <1>6, <2>1 DEF Under
    <3> QED
      BY <1>2, <1>11, <2>1, <3>1 DEF Pending
  <2>2. \A p \in Under(c, 1..n) : p \in DOMAIN f
    BY <1>12 DEF Under
  <2> QED
    BY <1>3, <1>12, <2>1, <2>2
<1>14. IsTreeOf(f, table')
  <2>1. Listed(c, n) = Under(c, table'[c].ids) /\ table'[c].raw = m
    BY <1>3 DEF Listed, Under
  <2>2. f[c].records = Under(c, table'[c].ids) /\ f[Adapter].tags = Registered("tag", table')
    BY <1>4, <1>12, <2>1
  <2>3. \A r \in Under(c, table'[c].ids) : f[r].says = table'[c].raw
    BY <1>3, <1>12, <2>1 DEF Under
  <2>4. table'[c].ids \subseteq 1..MaxRecords
    BY <1>3
  <2> QED
    BY <1>2, <1>3, <1>13, <2>2, <2>3, <2>4, TreeOfOne
<1>15. TasksAreRight' /\ FinalIsSound'
  BY <1>1, <1>2, <1>8, <1>9, <1>10, <1>12, <1>14, TasksBegun DEF f
<1>16. \A d \in DOMAIN table' : table'[d] \in Registrations
  BY <1>2, <1>3 DEF Registrations
<1> QED
  BY <1>1, <1>2, <1>3, <1>5, <1>15, <1>16, BeginKeeps DEF s, c

LEMMA TwoTasks ==
  ASSUME NEW a \in Tasks, NEW b \in Tasks
  PROVE  /\ <<a>> \o <<b>> \in Seq(Tasks) /\ DOMAIN (<<a>> \o <<b>>) = {1, 2}
         /\ (<<a>> \o <<b>>)[1] = a /\ (<<a>> \o <<b>>)[2] = b
<1>1. /\ <<a>> \in Seq(Tasks) /\ Len(<<a>>) = 1 /\ <<a>>[1] = a
      /\ <<b>> \in Seq(Tasks) /\ Len(<<b>>) = 1 /\ <<b>>[1] = b
  OBVIOUS
<1> DEFINE s == <<a>>
           t == <<b>>
<1>2. s \in Seq(Tasks) /\ Len(s) = 1 /\ t \in Seq(Tasks) /\ Len(t) = 1 /\ s[1] = a /\ t[1] = b
  BY <1>1
<1> HIDE DEF s, t
<1>3. /\ s \o t \in Seq(Tasks) /\ DOMAIN (s \o t) = 1..(1 + 1)
      /\ \A i \in 1..1 : (s \o t)[i] = s[i]
      /\ (s \o t)[1 + 1] = t[1]
  BY <1>2, OneMore
<1>4. /\ s \o t \in Seq(Tasks) /\ DOMAIN (s \o t) = {1, 2}
      /\ (s \o t)[1] = a /\ (s \o t)[2] = b
  BY <1>2, <1>3
<1> QED
  BY <1>4 DEF s, t

LEMMA DeviceDetectedKeeps ==
  ASSUME IInv, Idle, sources # <<>>, DeviceDetected
  PROVE  IInv'
<1> DEFINE s == Head(sources)
           c == s.id
           tasks == ExportObject(c, [records |-> {}]) \o TagList(table')
           f == Final(tree, tasks)
<1>1. /\ s.type = "detected" /\ c.kind = "device" /\ Begin(tasks)
      /\ table' = Put(table, c, [raw |-> NoMessage, ids |-> {}])
  BY DEF DeviceDetected
<1>2. /\ c \in Containers
      /\ DOMAIN table = {} /\ DOMAIN tree = {Adapter} /\ tree[Adapter] \in Values(Adapter)
      /\ InOrder(Tail(sources), {c}, Present) /\ ReceivedInSession(Tail(sources), {c})
      /\ registered
  BY <1>1, BeforeDetection, Dispatching
<1> HIDE DEF tasks, f
<1>3. DOMAIN table' = {c} /\ table'[c] = [raw |-> NoMessage, ids |-> {}]
  BY <1>1, <1>2 DEF Put
<1>4. PICK v \in Values(Adapter) : v.tags = Registered("tag", table')
                                   /\ TagList(table') = <<Task("set", {Adapter}, v)>>
  BY <1>2, <1>3, AdapterListsAre
<1> DEFINE a == Task("export", {c}, [records |-> {}])
           b == Task("set", {Adapter}, v)
<1>5. /\ c # Adapter /\ c \in Path /\ Adapter \in Path /\ c \notin DOMAIN tree
      /\ [records |-> {}] \in Values(c)
  BY <1>2, ContainerIs, AdapterApart, ValueTyped
<1>6. a \in Tasks /\ b \in Tasks /\ tasks = <<a>> \o <<b>>
  BY <1>4, <1>5, TaskTyped DEF tasks, ExportObject
<1>7. /\ a.do = "export" /\ a.paths = {c} /\ a.value = [records |-> {}]
      /\ b.do = "set" /\ b.paths = {Adapter} /\ b.value = v
  BY TaskHas
<1> HIDE DEF s, c, a, b
<1>8. tasks \in Seq(Tasks) /\ DOMAIN tasks = {1, 2} /\ tasks[1] = a /\ tasks[2] = b
  BY <1>6, TwoTasks
<1>9. OnceEach(tasks)
  BY <1>5, <1>7, <1>8 DEF OnceEach
<1>10. \A k \in DOMAIN tasks : CanBeDone(tasks[k])
  <2>1. CanBeDone(a)
    BY <1>5, <1>7 DEF CanBeDone
  <2>2. CanBeDone(b)
    BY <1>2, <1>7, AdapterApart DEF CanBeDone
  <2> QED
    BY <1>8, <2>1, <2>2
<1>11. ASSUME NEW d \in Containers, d.kind = "tag", NEW k \in DOMAIN tasks
       PROVE  /\ d \in DOMAIN tree /\ tasks[k].paths \cap Records(d) # {} => d \in tasks[k].paths
              /\ d \in tasks[k].paths /\ tasks[k].do = "export" =>
                   \A j \in DOMAIN tasks : k < j => tasks[j].paths \cap Records(d) = {}
  <2>1. d \notin DOMAIN tree /\ d # Adapter /\ d # c
    BY <1>1, <1>2, <1>11, ContainerIs DEF c
  <2> QED
    BY <1>7, <1>8, <2>1
<1>12. /\ \A k \in DOMAIN tasks : \A p \in tasks[k].paths \cap Path :
            /\ p \in DOMAIN f <=> tasks[k].do # "withdraw"
            /\ tasks[k].do # "withdraw" => f[p] = tasks[k].value
       /\ \A p : ~Pending(tasks, p) => (p \in DOMAIN f <=> p \in DOMAIN tree)
  BY <1>2, <1>5, <1>9, FinalAt DEF f
<1>13. /\ Adapter \in DOMAIN f /\ f[Adapter] = v
       /\ c \in DOMAIN f /\ f[c] = [records |-> {}]
  BY <1>5, <1>7, <1>8, <1>12
<1>14. DOMAIN f = {Adapter, c} \cup Under(c, table'[c].ids)
  <2>1. ASSUME NEW p, p \notin {Adapter, c} PROVE p \notin DOMAIN f
    <3>1. \A k \in DOMAIN tasks : p \notin tasks[k].paths
      BY <1>7, <1>8, <2>1
    <3> QED
      BY <1>2, <1>12, <2>1, <3>1 DEF Pending
  <2>2. Under(c, table'[c].ids) = {}
    BY <1>3 DEF Under
  <2> QED
    BY <1>13, <2>1, <2>2
<1>15. IsTreeOf(f, table')
  <2>1. Under(c, table'[c].ids) = {} /\ table'[c].ids \subseteq 1..MaxRecords
    BY <1>3 DEF Under
  <2>2. f[c].records = {} /\ f[Adapter].tags = Registered("tag", table')
    BY <1>4, <1>13
  <2> QED
    BY <1>2, <1>3, <1>14, <2>1, <2>2, TreeOfOne
<1>16. TasksAreRight' /\ FinalIsSound'
  BY <1>1, <1>2, <1>9, <1>10, <1>11, <1>13, <1>15, TasksBegun DEF f
<1>17. \A d \in DOMAIN table' : table'[d] \in Registrations
  BY <1>3 DEF Registrations
<1> QED
  BY <1>1, <1>2, <1>3, <1>8, <1>16, <1>17, BeginKeeps DEF s, c

\* A container goes: the list of the adapter is written, and then the container
\* and its records are withdrawn.
LEMMA LossKeeps ==
  ASSUME IInv, Idle, sources # <<>>, Head(sources).type = "lost",
         table' = Drop(table, Head(sources).id),
         NEW v \in Values(Adapter), v.tags = {},
         Begin(<<Task("set", {Adapter}, v)>> \o <<Withdraw(Head(sources).id, table[Head(sources).id].ids)>>)
  PROVE  IInv'
<1> DEFINE s == Head(sources)
           c == s.id
           us == {c} \cup Under(c, table[c].ids)
           a == Task("set", {Adapter}, v)
           b == Withdraw(c, table[c].ids)
           tasks == <<a>> \o <<b>>
           f == Final(tree, tasks)
<1>1. /\ c \in Containers /\ DOMAIN table = {c} /\ table[c].ids \in SUBSET (1..MaxRecords)
      /\ DOMAIN tree = {Adapter, c} \cup Under(c, table[c].ids)
      /\ InOrder(Tail(sources), {}, Present) /\ ReceivedInSession(Tail(sources), {})
      /\ registered
  BY BeforeLoss, Dispatching
<1>2. DOMAIN table' = {}
  BY <1>1 DEF Drop
<1>3. b = Task("withdraw", us, NoMessage)
  BY DEF Withdraw, Under
<1>4. Under(c, table[c].ids) \subseteq Path /\ Under(c, table[c].ids) \subseteq Records(c)
      /\ Adapter \notin Under(c, table[c].ids)
  BY <1>1, UnderIs
<1>5. c # Adapter /\ c \in Path /\ Adapter \in Path
  BY <1>1, ContainerIs, AdapterApart
<1> HIDE DEF us, b
<1>6. /\ us \subseteq Path /\ us # {} /\ Adapter \notin us /\ DOMAIN tree = {Adapter} \cup us
      /\ us \subseteq {c} \cup Records(c) /\ c \in us
  BY <1>1, <1>4, <1>5 DEF us
<1>7. a \in Tasks /\ b \in Tasks
  BY <1>3, <1>5, <1>6, TaskTyped
<1>8. /\ a.do = "set" /\ a.paths = {Adapter} /\ a.value = v
      /\ b.do = "withdraw" /\ b.paths = us
  BY <1>3, TaskHas
<1>9. Begin(tasks)
  BY DEF b
<1> HIDE DEF s, c, a
<1>10. tasks \in Seq(Tasks) /\ DOMAIN tasks = {1, 2} /\ tasks[1] = a /\ tasks[2] = b
  BY <1>7, TwoTasks
<1> HIDE DEF tasks, f
<1>11. OnceEach(tasks)
  BY <1>6, <1>8, <1>10 DEF OnceEach
<1>12. \A k \in DOMAIN tasks : CanBeDone(tasks[k])
  <2>1. CanBeDone(a)
    BY <1>6, <1>8, AdapterApart DEF CanBeDone
  <2>2. CanBeDone(b)
    BY <1>6, <1>8 DEF CanBeDone
  <2> QED
    BY <1>10, <2>1, <2>2
<1>13. ASSUME NEW d \in Containers, NEW k \in DOMAIN tasks
       PROVE  /\ d \in DOMAIN tree /\ tasks[k].paths \cap Records(d) # {} => d \in tasks[k].paths
              /\ d \in tasks[k].paths /\ tasks[k].do = "export" =>
                   \A j \in DOMAIN tasks : k < j => tasks[j].paths \cap Records(d) = {}
  <2>1. d # Adapter /\ Adapter \notin Records(d)
    BY ContainerIs, RecordsAre
  <2>2. d \in DOMAIN tree => d = c
    BY <1>1, <1>6, <2>1, RecordsAre
  <2> QED
    BY <1>6, <1>8, <1>10, <2>1, <2>2
<1>14. /\ \A k \in DOMAIN tasks : \A p \in tasks[k].paths \cap Path :
            /\ p \in DOMAIN f <=> tasks[k].do # "withdraw"
            /\ tasks[k].do # "withdraw" => f[p] = tasks[k].value
       /\ \A p : ~Pending(tasks, p) => (p \in DOMAIN f <=> p \in DOMAIN tree)
  <2>1. DOMAIN tree \subseteq Path
    BY <1>5, <1>6
  <2> QED
    BY <1>11, <2>1, FinalAt DEF f
<1>15. Adapter \in DOMAIN f /\ f[Adapter] = v
  BY <1>5, <1>8, <1>10, <1>14
<1>16. DOMAIN f = {Adapter}
  <2>1. ASSUME NEW p, p # Adapter PROVE p \notin DOMAIN f
    <3>1. CASE p \in us
      BY <1>6, <1>8, <1>10, <1>14, <3>1
    <3>2. CASE p \notin us
      <4>1. \A k \in DOMAIN tasks : p \notin tasks[k].paths
        BY <1>8, <1>10, <2>1, <3>2
      <4> QED
        BY <1>6, <1>14, <2>1, <3>2, <4>1 DEF Pending
    <3> QED
      BY <3>1, <3>2
  <2> QED
    BY <1>15, <2>1
<1>17. IsTreeOf(f, table')
  BY <1>2, <1>15, <1>16, TreeOfNone
<1>18. TasksAreRight' /\ FinalIsSound'
  BY <1>1, <1>9, <1>11, <1>12, <1>13, <1>15, <1>17, TasksBegun DEF f
<1> QED
  BY <1>1, <1>2, <1>9, <1>10, <1>18, BeginKeeps DEF s, c

LEMMA TagLostKeeps ==
  ASSUME IInv, Idle, sources # <<>>, TagLost
  PROVE  IInv'
<1> DEFINE c == Head(sources).id
<1>1. /\ Head(sources).type = "lost" /\ table' = Drop(table, c)
      /\ Begin(TagList(table') \o <<Withdraw(c, table[c].ids)>>)
  BY DEF TagLost
<1>2. DOMAIN table = {c} /\ tree[Adapter] \in Values(Adapter)
  BY <1>1, BeforeLoss
<1> HIDE DEF c
<1>3. DOMAIN table' = {}
  BY <1>1, <1>2 DEF Drop
<1>4. PICK v \in Values(Adapter) : v.tags = Registered("tag", table')
                                   /\ TagList(table') = <<Task("set", {Adapter}, v)>>
  BY <1>2, <1>3, AdapterListsAre
<1>5. v.tags = {}
  BY <1>3, <1>4 DEF Registered
<1> QED
  BY <1>1, <1>4, <1>5, LossKeeps DEF c

LEMMA DeviceLostKeeps ==
  ASSUME IInv, Idle, sources # <<>>, DeviceLost
  PROVE  IInv'
<1> DEFINE c == Head(sources).id
<1>1. /\ Head(sources).type = "lost" /\ table' = Drop(table, c) /\ c.kind = "device"
      /\ Begin(DeviceList(table') \o <<Withdraw(c, table[c].ids)>>)
  BY DEF DeviceLost
<1>2. /\ DOMAIN table = {c} /\ tree[Adapter] \in Values(Adapter)
      /\ tree[Adapter].tags = Registered("tag", table)
  BY <1>1, BeforeLoss
<1> HIDE DEF c
<1>3. DOMAIN table' = {}
  BY <1>1, <1>2 DEF Drop
<1>4. PICK v \in Values(Adapter) : v.tags = tree[Adapter].tags
                                   /\ DeviceList(table') = <<Task("set", {Adapter}, v)>>
  BY <1>2, <1>3, AdapterListsAre
<1>5. v.tags = {}
  BY <1>1, <1>2, <1>4 DEF Registered
<1> QED
  BY <1>1, <1>4, <1>5, LossKeeps DEF c

LEMMA NdefReceivedKeeps ==
  ASSUME IInv, Idle, sources # <<>>, NdefReceived
  PROVE  IInv'
<1> DEFINE s == Head(sources)
           c == s.id
           m == s.says
           n == s.records
           ids == table[c].ids \cup 1..n
           e == ExportRecords(c, m, n)
           a == Task("set", {c}, [records |-> Listed(c, n)])
           tasks == e \o <<a>>
           f == Final(tree, tasks)
<1>1. /\ s.type = "received" /\ Begin(tasks)
      /\ table' = [table EXCEPT ![c] = [raw |-> m, ids |-> ids]]
  BY DEF NdefReceived, SetObject
<1>2. /\ c \in Containers /\ m \in Messages /\ n \in 0..MaxRecords /\ c.kind = "device"
      /\ DOMAIN table = {c} /\ table[c].ids \in SUBSET (1..MaxRecords)
      /\ DOMAIN tree = {Adapter, c} \cup Under(c, table[c].ids)
      /\ tree[Adapter].tags = Registered("tag", table)
      /\ InOrder(Tail(sources), DOMAIN table, Present)
      /\ ReceivedInSession(Tail(sources), DOMAIN table)
      /\ registered
  BY <1>1, BeforeReceipt, Dispatching
<1>3. DOMAIN table' = {c} /\ table'[c] = [raw |-> m, ids |-> ids] /\ ids \in SUBSET (1..MaxRecords)
  <2>1. ids \in SUBSET (1..MaxRecords)
    BY <1>2, ListedAre
  <2> QED
    BY <1>1, <1>2, <2>1
<1>4. /\ c # Adapter /\ c \in Path /\ Adapter \in Path
      /\ [records |-> Listed(c, n)] \in Values(c)
      /\ Listed(c, n) = Under(c, 1..n)
      /\ DOMAIN tree \subseteq Path
  BY <1>2, ContainerIs, AdapterApart, ListedAre, ValueTyped DEF Listed, Under, IInv, TypeOK
<1> HIDE DEF tasks, f, s, c, m, n, ids, e
<1>5. a \in Tasks /\ a.do = "set" /\ a.paths = {c} /\ a.value = [records |-> Listed(c, n)]
  <2>1. a \in Tasks
    BY <1>4, TaskTyped
  <2>2. a.do = "set" /\ a.paths = {c} /\ a.value = [records |-> Listed(c, n)]
    BY TaskHas
  <2> QED
    BY <2>1, <2>2
<1>6. /\ e \in Seq(Tasks) /\ n \in Nat /\ Len(e) = n
      /\ \A i \in 1..n : e[i] = Task("export", {Record(c, i)}, [says |-> m])
  BY <1>2, ExportRecordsAre, ObjectsAssumption DEF e
<1> HIDE DEF a
<1>7. <<a>> \in Seq(Tasks) /\ Len(<<a>>) = 1 /\ <<a>>[1] = a
  BY <1>5
<1>8. /\ tasks \in Seq(Tasks) /\ DOMAIN tasks = 1..(n + 1)
      /\ \A i \in 1..n : tasks[i] = e[i]
      /\ tasks[n + 1] = a
  <2> DEFINE t == <<a>>
  <2>1. t \in Seq(Tasks) /\ Len(t) = 1 /\ t[1] = a /\ tasks = e \o t
    BY <1>7 DEF tasks
  <2> HIDE DEF t
  <2>2. /\ e \o t \in Seq(Tasks) /\ DOMAIN (e \o t) = 1..(n + 1)
        /\ \A i \in 1..n : (e \o t)[i] = e[i]
        /\ (e \o t)[n + 1] = t[1]
    BY <1>6, <2>1, OneMore
  <2> QED
    BY <2>1, <2>2
<1>9. \A i \in 1..n : /\ tasks[i].do = "export" /\ tasks[i].paths = {Record(c, i)}
                      /\ tasks[i].value = [says |-> m]
  <2> SUFFICES ASSUME NEW i \in 1..n
               PROVE  /\ tasks[i].do = "export" /\ tasks[i].paths = {Record(c, i)}
                      /\ tasks[i].value = [says |-> m]
    OBVIOUS
  <2>1. tasks[i] = Task("export", {Record(c, i)}, [says |-> m])
    BY <1>6, <1>8
  <2> QED
    BY <2>1, TaskHas
<1>10. /\ \A i \in 1..n : i \in DOMAIN tasks /\ i \in 1..MaxRecords
       /\ n + 1 \in DOMAIN tasks
       /\ \A k \in DOMAIN tasks : k \in 1..n \/ k = n + 1
  <2>1. \A i \in 1..n : i \in 1..MaxRecords
    BY <1>2, ListedAre
  <2>2. n \in Nat /\ DOMAIN tasks = 1..(n + 1)
    BY <1>6, <1>8
  <2> QED
    BY <2>1, <2>2
<1>11. \A i \in 1..n : /\ Record(c, i) # Adapter /\ Record(c, i) # c /\ Record(c, i) \in Path
                       /\ Record(c, i) \notin Containers /\ Record(c, i).kind = "device"
                       /\ \A d \in Containers : Record(c, i) \in Records(d) => d = c
                       /\ \A j \in 1..n : Record(c, i) = Record(c, j) => i = j
  BY <1>2, <1>10, RecordIs, RecordsApart, RecordsAre
<1>12. OnceEach(tasks)
  <2> SUFFICES ASSUME NEW j \in DOMAIN tasks, NEW k \in DOMAIN tasks,
                      tasks[j].paths \cap tasks[k].paths # {}
               PROVE  j = k
    BY DEF OnceEach
  <2>1. CASE j \in 1..n
    BY <1>5, <1>8, <1>9, <1>10, <1>11, <2>1
  <2>2. CASE j = n + 1
    BY <1>5, <1>8, <1>9, <1>10, <1>11, <2>2
  <2> QED
    BY <1>10, <2>1, <2>2
<1>13. \A k \in DOMAIN tasks : CanBeDone(tasks[k])
  <2> SUFFICES ASSUME NEW k \in DOMAIN tasks PROVE CanBeDone(tasks[k])
    OBVIOUS
  <2>1. CASE k \in 1..n
    <3>1. [says |-> m] \in Values(Record(c, k))
      BY <1>2, <1>10, <2>1, ValueTyped
    <3> QED
      BY <1>9, <1>11, <2>1, <3>1 DEF CanBeDone
  <2>2. CASE k = n + 1
    BY <1>2, <1>4, <1>5, <1>8, <2>2 DEF CanBeDone
  <2> QED
    BY <1>10, <2>1, <2>2
<1>14. ASSUME NEW d \in Containers, d.kind = "tag", NEW k \in DOMAIN tasks
       PROVE  /\ d \in DOMAIN tree /\ tasks[k].paths \cap Records(d) # {} => d \in tasks[k].paths
              /\ d \in tasks[k].paths /\ tasks[k].do = "export" =>
                   \A j \in DOMAIN tasks : k < j => tasks[j].paths \cap Records(d) = {}
  <2>1. d # c
    BY <1>2, <1>14
  <2>2. c \notin Records(d)
    BY <1>2, RecordsAre
  <2>3. tasks[k].paths \cap Records(d) = {} /\ d \notin tasks[k].paths
    BY <1>5, <1>8, <1>9, <1>10, <1>11, <2>1, <2>2
  <2> QED
    BY <2>3
<1>15. /\ \A k \in DOMAIN tasks : \A p \in tasks[k].paths \cap Path :
            /\ p \in DOMAIN f <=> tasks[k].do # "withdraw"
            /\ tasks[k].do # "withdraw" => f[p] = tasks[k].value
       /\ \A p : ~Pending(tasks, p) => /\ p \in DOMAIN f <=> p \in DOMAIN tree
                                       /\ p \in DOMAIN tree => f[p] = tree[p]
  BY <1>4, <1>12, FinalAt DEF f
<1>16. /\ c \in DOMAIN f /\ f[c] = [records |-> Listed(c, n)]
       /\ \A i \in 1..n : Record(c, i) \in DOMAIN f /\ f[Record(c, i)] = [says |-> m]
  BY <1>4, <1>5, <1>8, <1>9, <1>10, <1>11, <1>15
<1>17. \A p : p \notin {c} \cup Under(c, 1..n) => ~Pending(tasks, p)
  <2> SUFFICES ASSUME NEW p, p \notin {c} \cup Under(c, 1..n), NEW k \in DOMAIN tasks
               PROVE  p \notin tasks[k].paths
    BY DEF Pending
  <2> QED
    BY <1>5, <1>8, <1>9, <1>10 DEF Under
<1>18. Adapter \in DOMAIN f /\ f[Adapter] = tree[Adapter]
  <2>1. Adapter \notin {c} \cup Under(c, 1..n)
    BY <1>4, <1>11 DEF Under
  <2> QED
    BY <1>2, <1>15, <1>17, <2>1
<1>19. DOMAIN f = {Adapter, c} \cup Under(c, table'[c].ids)
  <2>1. Under(c, table'[c].ids) = Under(c, table[c].ids) \cup Under(c, 1..n)
    BY <1>3 DEF Under, ids
  <2>2. \A p \in Under(c, 1..n) : p \in DOMAIN f
    BY <1>16 DEF Under
  <2>3. \A p : p \notin {c} \cup Under(c, 1..n) => (p \in DOMAIN f <=> p \in DOMAIN tree)
    BY <1>15, <1>17
  <2> QED
    BY <1>2, <1>16, <1>18, <2>1, <2>2, <2>3
<1>20. IsTreeOf(f, table')
  <2>1. f[c].records = Under(c, 1..n)
    BY <1>4, <1>16
  <2>2. Under(c, 1..n) \subseteq Under(c, table'[c].ids)
    BY <1>3 DEF Under, ids
  <2>3. \A r \in Under(c, 1..n) : f[r].says = table'[c].raw
    BY <1>3, <1>16 DEF Under
  <2>4. f[Adapter].tags = Registered("tag", table')
    BY <1>2, <1>3, <1>18 DEF Registered
  <2>5. table'[c].ids \subseteq 1..MaxRecords
    BY <1>3
  <2> QED
    BY <1>2, <1>3, <1>19, <2>1, <2>2, <2>3, <2>4, <2>5, TreeOfOne
<1>21. TasksAreRight' /\ FinalIsSound'
  BY <1>1, <1>2, <1>12, <1>13, <1>14, <1>18, <1>20, TasksBegun DEF f
<1>22. \A d \in DOMAIN table' : table'[d] \in Registrations
  BY <1>2, <1>3 DEF Registrations
<1> QED
  BY <1>1, <1>2, <1>3, <1>8, <1>21, <1>22, BeginKeeps DEF s, c

-----------------------------------------------------------------------------
(***************************************************************************)
(* The adapter goes.                                                       *)
(***************************************************************************)
\* What goes with a tag.
Whole(c) == {c} \cup Under(c, table[c].ids)

\* The tasks of adapter_unregister.
Withdrawals(tasks, tags) ==
  /\ tasks \in Seq(Tasks)
  /\ \A k \in DOMAIN tasks :
       /\ tasks[k].do = "withdraw"
       /\ tasks[k].paths = {Adapter} \/ \E c \in tags : tasks[k].paths = Whole(c)
  /\ \E k \in DOMAIN tasks : tasks[k].paths = {Adapter}
  /\ \A c \in tags : \E k \in DOMAIN tasks : tasks[k].paths = Whole(c)
  /\ OnceEach(tasks)

LEMMA ListOf ==
  ASSUME NEW n \in Nat, NEW s \in [1..n -> Tasks]
  PROVE  s \in Seq(Tasks) /\ Len(s) = n
OBVIOUS

LEMMA WithdrawalsAre ==
  ASSUME TypeOK, NEW tags \in SUBSET DOMAIN table, \A a, b \in tags : a = b,
         NEW order \in SetToSeqs(tags)
  PROVE  Withdrawals([i \in DOMAIN order |-> Withdraw(order[i], table[order[i]].ids)]
                       \o <<Withdraw(Adapter, {})>>, tags)
<1> DEFINE last == Withdraw(Adapter, {})
           t == <<last>>
<1>1. last = Task("withdraw", {Adapter}, NoMessage)
  BY DEF Withdraw
<1>2. last \in Tasks /\ last.do = "withdraw" /\ last.paths = {Adapter}
  <2>1. {Adapter} \in (SUBSET Path) \ {{}}
    BY AdapterApart
  <2>2. last \in Tasks
    BY <1>1, <2>1, TaskTyped
  <2> QED
    BY <1>1, <2>2, TaskHas
<1> HIDE DEF last
<1>3. t \in Seq(Tasks) /\ Len(t) = 1 /\ t[1] = last
  BY <1>2
<1> HIDE DEF t
<1>4. CASE tags = {}
  <2>1. order \in [{} -> {}]
    BY <1>4, FS_EmptySet DEF SetToSeqs
  <2> DEFINE s == [i \in DOMAIN order |-> Withdraw(order[i], table[order[i]].ids)]
  <2>2. s = <<>>
    BY <2>1
  <2> HIDE DEF s
  <2>3. s \in Seq(Tasks) /\ Len(s) = 0
    BY <2>2
  <2>4. s \o t \in Seq(Tasks) /\ DOMAIN (s \o t) = 1..(0 + 1) /\ (s \o t)[0 + 1] = last
    BY <1>3, <2>3, OneMore
  <2> DEFINE tasks == s \o t
  <2>5. tasks \in Seq(Tasks) /\ DOMAIN tasks = {1} /\ tasks[1] = last
    BY <2>4
  <2> HIDE DEF tasks
  <2>6. Withdrawals(tasks, tags)
    BY <1>2, <1>4, <2>5 DEF Withdrawals, OnceEach
  <2> QED
    BY <2>6 DEF tasks, s, t, last
<1>5. CASE tags # {}
  <2>1. PICK c \in tags : tags = {c}
    BY <1>5
  <2>2. order \in [1..1 -> {c}]
    BY <2>1, FS_Singleton DEF SetToSeqs
  <2> DEFINE first == Withdraw(c, table[c].ids)
             s == [i \in DOMAIN order |-> Withdraw(order[i], table[order[i]].ids)]
  <2>3. first = Task("withdraw", Whole(c), NoMessage)
    BY DEF Withdraw, Whole, Under
  <2>4. c \in Containers /\ table[c].ids \in SUBSET (1..MaxRecords)
    BY DEF TypeOK, Registrations
  <2>5. Whole(c) \in (SUBSET Path) \ {{}} /\ Adapter \notin Whole(c)
    BY <2>4, ContainerIs, UnderIs DEF Whole
  <2>6. first \in Tasks /\ first.do = "withdraw" /\ first.paths = Whole(c)
    <3>1. first \in Tasks
      BY <2>3, <2>5, TaskTyped
    <3> QED
      BY <2>3, <3>1, TaskHas
  <2>7. DOMAIN order = 1..1 /\ order[1] = c
    BY <2>2
  <2> HIDE DEF first
  <2>8. s \in [1..1 -> Tasks] /\ s[1] = first
    <3>1. DOMAIN s = 1..1 /\ s[1] = first
      BY <2>7 DEF first
    <3>2. s = [i \in 1..1 |-> first]
      BY <2>2, <2>7 DEF first
    <3> QED
      BY <2>6, <3>1, <3>2
  <2> HIDE DEF s
  <2>9. s \in Seq(Tasks) /\ Len(s) = 1
    BY <2>8, ListOf
  <2>10. /\ s \o t \in Seq(Tasks) /\ DOMAIN (s \o t) = 1..(1 + 1)
         /\ \A i \in 1..1 : (s \o t)[i] = s[i]
         /\ (s \o t)[1 + 1] = t[1]
    BY <1>3, <2>9, OneMore
  <2> DEFINE tasks == s \o t
  <2>11. tasks \in Seq(Tasks) /\ DOMAIN tasks = {1, 2} /\ tasks[1] = first /\ tasks[2] = last
    BY <1>3, <2>8, <2>10
  <2> HIDE DEF tasks
  <2>12. OnceEach(tasks)
    BY <1>2, <2>5, <2>6, <2>11 DEF OnceEach
  <2>13. Withdrawals(tasks, tags)
    BY <1>2, <2>1, <2>6, <2>11, <2>12 DEF Withdrawals
  <2> QED
    BY <2>13 DEF tasks, s, t, last
<1> QED
  BY <1>4, <1>5

\* What is left is the tree of the devices, without the adapter.
LEMMA TreeOfDevices ==
  ASSUME TypeOK, IsTreeOf(tree, table), Adapter \in DOMAIN tree, \A a, b \in DOMAIN table : a = b,
         NEW rest, DOMAIN rest = DOMAIN table \ Registered("tag", table),
         \A c \in DOMAIN rest : rest[c] = table[c],
         NEW t, DOMAIN t = DOMAIN tree \ ({Adapter} \cup UNION {Whole(c) : c \in Registered("tag", table)}),
         \A p \in DOMAIN t : t[p] = tree[p]
  PROVE  IsTreeOf(t, rest) /\ Adapter \notin DOMAIN t
<1>1. \A c \in DOMAIN table : c \in Containers /\ table[c].ids \in SUBSET (1..MaxRecords)
  BY DEF TypeOK, Registrations
<1>2. Registered("tag", rest) = {}
  BY DEF Registered
<1>3. CASE DOMAIN table = {}
  <2>1. DOMAIN tree = {Adapter}
    BY <1>3, TreeOfNone
  <2>2. DOMAIN t = {} /\ DOMAIN rest = {}
    BY <1>3, <2>1
  <2> QED
    BY <1>2, <2>2 DEF IsTreeOf
<1>4. ASSUME NEW c \in DOMAIN table, c.kind = "tag"
      PROVE  IsTreeOf(t, rest) /\ Adapter \notin DOMAIN t
  <2>1. DOMAIN table = {c} /\ Registered("tag", table) = {c}
    BY <1>4 DEF Registered
  <2>2. DOMAIN tree = {Adapter} \cup Whole(c)
    BY <1>1, <2>1, OneTreeIs DEF Whole
  <2>3. DOMAIN t = {} /\ DOMAIN rest = {}
    BY <2>1, <2>2
  <2> QED
    BY <1>2, <2>3 DEF IsTreeOf
<1>5. ASSUME NEW c \in DOMAIN table, c.kind # "tag"
      PROVE  IsTreeOf(t, rest) /\ Adapter \notin DOMAIN t
  <2>1. DOMAIN table = {c} /\ Registered("tag", table) = {} /\ DOMAIN rest = {c} /\ rest[c] = table[c]
    BY <1>5 DEF Registered
  <2>2. DOMAIN tree = {Adapter} \cup Whole(c)
    <3>1. c \in Containers
      BY <1>1
    <3>2. DOMAIN tree = {Adapter, c} \cup Under(c, table[c].ids)
      BY <2>1, <3>1, OneTreeIs
    <3> QED
      BY <3>2 DEF Whole
  <2>3. DOMAIN t = DOMAIN tree \ {Adapter}
    BY <2>1
  <2>4. c # Adapter /\ c \in DOMAIN t /\ t[c] = tree[c]
    BY <1>1, <2>2, <2>3, ContainerIs DEF Whole
  <2>5. On(t, c) = On(tree, c)
    BY <1>1, <2>3, RecordsAre DEF On
  <2>6. tree[c].records \subseteq On(tree, c) /\ \A r \in tree[c].records : tree[r].says = table[c].raw
    BY <2>1 DEF IsTreeOf
  <2>7. \A r \in t[c].records : t[r].says = rest[c].raw
    BY <2>1, <2>4, <2>5, <2>6 DEF On
  <2>8. DOMAIN t \ {Adapter} =
          DOMAIN rest \cup UNION {{Record(d, n) : n \in rest[d].ids} : d \in DOMAIN rest}
    <3>1. DOMAIN tree \ {Adapter} =
            DOMAIN table \cup UNION {{Record(d, n) : n \in table[d].ids} : d \in DOMAIN table}
      BY DEF IsTreeOf
    <3> QED
      BY <2>1, <2>3, <3>1
  <2>9. Adapter \notin DOMAIN t
    BY <2>3
  <2> QED
    BY <1>2, <1>5, <2>1, <2>4, <2>5, <2>6, <2>7, <2>8, <2>9 DEF IsTreeOf
<1> QED
  BY <1>3, <1>4, <1>5

LEMMA UnregisterKeeps ==
  ASSUME IInv, Unregister
  PROVE  IInv'
<1> DEFINE tags == Registered("tag", table)
           gone == {Adapter} \cup UNION {Whole(c) : c \in tags}
           tasks == todo'
           f == Final(tree, tasks)
<1>1. /\ todo = <<>> /\ signals = <<>> /\ registered /\ registered' = FALSE /\ sources' = <<>>
      /\ table' = [c \in DOMAIN table \ tags |-> table[c]]
      /\ radio' = radio /\ tree' = tree /\ before' = before /\ signals' = signals /\ mirror' = mirror
  BY DEF Unregister, Idle
<1>2. PICK order \in SetToSeqs(tags) :
        todo' = [i \in DOMAIN order |-> Withdraw(order[i], table[order[i]].ids)] \o <<Withdraw(Adapter, {})>>
  BY DEF Unregister
<1>3. /\ TypeOK /\ IsTreeOf(tree, table) /\ Adapter \in DOMAIN tree /\ DOMAIN tree \subseteq Path
      /\ InOrder(sources, DOMAIN table, Present)
  BY <1>1, TreeWhenIdle DEF IInv, TypeOK, CallbacksInOrder
<1>4. tags \in SUBSET DOMAIN table /\ DOMAIN table \subseteq Containers
      /\ \A a, b \in DOMAIN table : a = b
  BY <1>3 DEF Registered, TypeOK, InOrder, OneAtATime
<1> HIDE DEF tags, gone, tasks, f
<1>5. Withdrawals(tasks, tags)
  <2>1. \A a, b \in tags : a = b
    BY <1>4
  <2> QED
    BY <1>2, <1>3, <1>4, <2>1, WithdrawalsAre DEF tasks
<1>6. ASSUME NEW c \in tags
      PROVE  /\ c \in Containers /\ Whole(c) \subseteq DOMAIN tree
             /\ Whole(c) \subseteq {c} \cup Records(c) /\ c \in Whole(c)
             /\ DOMAIN tree = {Adapter} \cup Whole(c)
  <2>1. c \in Containers /\ DOMAIN table = {c} /\ table[c].ids \in SUBSET (1..MaxRecords)
    BY <1>3, <1>4, <1>6 DEF TypeOK, Registrations
  <2>2. DOMAIN tree = {Adapter, c} \cup Under(c, table[c].ids)
    BY <1>3, <2>1, OneTreeIs
  <2>3. Under(c, table[c].ids) \subseteq Records(c)
    BY <2>1, UnderIs
  <2> QED
    BY <2>1, <2>2, <2>3 DEF Whole
<1>7. \A k \in DOMAIN tasks : /\ tasks[k].do = "withdraw"
                              /\ tasks[k].paths = {Adapter} \/ \E c \in tags : tasks[k].paths = Whole(c)
  BY <1>5 DEF Withdrawals
<1>8. tasks \in Seq(Tasks) /\ OnceEach(tasks)
  BY <1>5 DEF Withdrawals
<1>9. \A p : Pending(tasks, p) <=> p \in gone
  BY <1>5 DEF Withdrawals, Pending, gone
<1>10. TasksAreRight'
  <2>1. \A k \in DOMAIN todo' : CanBeDone(todo[k])'
    <3> SUFFICES ASSUME NEW k \in DOMAIN tasks
                 PROVE  tasks[k].do = "withdraw" /\ tasks[k].paths \subseteq DOMAIN tree
      BY <1>1 DEF CanBeDone, tasks
    <3> QED
      BY <1>3, <1>6, <1>7
  <2>2. TagsAreTouchedWhole'
    <3> SUFFICES ASSUME NEW c \in Containers, NEW k \in DOMAIN tasks
                 PROVE  /\ tasks[k].do # "export"
                        /\ c \in DOMAIN tree /\ tasks[k].paths \cap Records(c) # {} => c \in tasks[k].paths
      BY <1>1 DEF TagsAreTouchedWhole, tasks
    <3>1. tasks[k].do # "export"
      BY <1>7
    <3>2. ASSUME c \in DOMAIN tree, tasks[k].paths \cap Records(c) # {}
          PROVE  c \in tasks[k].paths
      <4>1. c # Adapter /\ Adapter \notin Records(c)
        BY ContainerIs, RecordsAre
      <4>2. PICK d \in tags : tasks[k].paths = Whole(d)
        BY <1>7, <3>2, <4>1
      <4>3. DOMAIN tree = {Adapter} \cup Whole(d)
        BY <1>6
      <4> QED
        BY <3>2, <4>1, <4>2, <4>3
    <3> QED
      BY <3>1, <3>2
  <2> QED
    BY <1>7, <1>8, <2>1, <2>2 DEF TasksAreRight, tasks
<1>11. DOMAIN f = DOMAIN tree \ gone /\ \A p \in DOMAIN f : f[p] = tree[p]
  <2>1. /\ \A p \in DOMAIN f : p \in Path
        /\ \A k \in DOMAIN tasks : \A p \in tasks[k].paths \cap Path :
             p \in DOMAIN f <=> tasks[k].do # "withdraw"
        /\ \A p : ~Pending(tasks, p) => /\ p \in DOMAIN f <=> p \in DOMAIN tree
                                        /\ p \in DOMAIN tree => f[p] = tree[p]
    BY <1>3, <1>8, FinalAt DEF f
  <2>2. \A p \in DOMAIN f : ~Pending(tasks, p)
    BY <1>7, <2>1 DEF Pending
  <2> QED
    BY <1>9, <2>1, <2>2
<1>12. FinalIsSound'
  <2>1. DOMAIN table' = DOMAIN table \ tags /\ \A c \in DOMAIN table' : table'[c] = table[c]
    BY <1>1
  <2>2. IsTreeOf(f, table') /\ Adapter \notin DOMAIN f
    BY <1>3, <1>4, <1>11, <2>1, TreeOfDevices DEF tags, gone
  <2>3. Final(tree, todo)' = f
    BY <1>1 DEF f, tasks
  <2> QED
    BY <1>1, <2>2, <2>3 DEF FinalIsSound
<1>13. TypeOK'
  <2>1. DOMAIN table' \subseteq Containers /\ \A c \in DOMAIN table' : table'[c] \in Registrations
    BY <1>1, <1>3 DEF TypeOK
  <2>2. sources' \in Seq(Sources) /\ todo' \in Seq(Tasks) /\ registered' \in BOOLEAN
    <3>1. sources' \in Seq(Sources)
      BY <1>1
    <3>2. registered' \in BOOLEAN
      BY <1>1
    <3>3. todo' \in Seq(Tasks)
      BY <1>8 DEF tasks
    <3> QED
      BY <3>1, <3>2, <3>3
  <2> QED
    BY <1>1, <1>3, <2>1, <2>2 DEF TypeOK
<1>14. TagsAreWhole(tree)' /\ TagsAreWhole(mirror)'
  BY <1>1 DEF IInv
<1>15. EmissionsArePending'
  <2>1. DOMAIN sources' = {}
    BY <1>1
  <2> QED
    BY <1>1, <2>1 DEF IInv, EmissionsArePending
<1>16. CallbacksInOrder'
  BY <1>1 DEF CallbacksInOrder
<1>17. Informing'
  BY <1>1 DEF IInv, Informing, Told, ClientIsInformed
<1> QED
  BY <1>10, <1>12, <1>13, <1>14, <1>15, <1>16, <1>17 DEF IInv

-----------------------------------------------------------------------------
(***************************************************************************)
(* The client reads.                                                       *)
(***************************************************************************)
LEMMA ToldIsWhole ==
  ASSUME IInv
  PROVE  TagsAreWhole(Told)
<1>1. TagsAreWhole(tree) /\ \A p \in DOMAIN before : p.kind # "tag"
  BY DEF IInv, EmissionsArePending
<1>2. DOMAIN Told = DOMAIN tree /\ \A p \in DOMAIN tree : p \notin DOMAIN before => Told[p] = tree[p]
  BY DEF Told
<1> DEFINE told == Told
<1> HIDE DEF told
<1>3. DOMAIN told = DOMAIN tree /\ \A p \in DOMAIN tree : p \notin DOMAIN before => told[p] = tree[p]
  BY <1>2 DEF told
<1>4. \A c : On(told, c) = On(tree, c)
  BY <1>3 DEF On
<1>5. TagsAreWhole(told)
  BY <1>1, <1>3, <1>4 DEF TagsAreWhole
<1> QED
  BY <1>5 DEF told

LEMMA ReadKeeps ==
  ASSUME IInv, Read
  PROVE  IInv'
<1>1. /\ signals # <<>> /\ signals' = Tail(signals) /\ mirror' = After(mirror, Head(signals))
      /\ radio' = radio /\ registered' = registered /\ sources' = sources /\ todo' = todo
      /\ tree' = tree /\ table' = table /\ before' = before
  BY DEF Read, halVars
<1>2. Told' = Told
  BY <1>1 DEF Told
<1>3. Informing' /\ TagsAreWhole(mirror)'
  <2>1. CASE signals = <<signals[1]>> /\ After(mirror, signals[1]) = Told
    <3>1. signals' = <<>> /\ mirror' = Told
      <4> DEFINE s == signals[1]
      <4>1. signals = <<s>>
        BY <2>1
      <4> HIDE DEF s
      <4>2. Tail(signals) = <<>> /\ Head(signals) = s
        BY <4>1
      <4>3. Tail(signals) = <<>> /\ Head(signals) = signals[1]
        BY <4>2 DEF s
      <4> QED
        BY <1>1, <2>1, <4>3
    <3>2. TagsAreWhole(Told)
      BY ToldIsWhole
    <3> QED
      BY <1>2, <3>1, <3>2, SaysNothing
  <2>2. CASE /\ signals = <<signals[1], signals[2]>>
             /\ After(After(mirror, signals[1]), signals[2]) = Told
             /\ signals[1].type = "removed" /\ signals[2].type = "added"
             /\ signals[1].path = signals[2].path
             /\ signals[1].path.kind # "tag"
    <3> DEFINE p == signals[1].path
               s == signals[2]
    <3>1. Tail(signals) = <<s>> /\ Head(signals) = signals[1]
      <4> DEFINE r == signals[1]
      <4>1. signals = <<r, s>>
        BY <2>2
      <4> HIDE DEF r, s
      <4>2. Tail(signals) = <<s>> /\ Head(signals) = r
        BY <4>1
      <4> QED
        BY <4>2 DEF r
    <3>2. signals' = <<s>> /\ mirror' = Drop(mirror, p) /\ s.path = p /\ s.type = "added"
      BY <1>1, <2>2, <3>1 DEF After
    <3>3. After(mirror', s) = Told'
      BY <1>1, <1>2, <2>2, <3>1
    <3>4. DOMAIN mirror' = DOMAIN mirror \ {p} /\ \A q \in DOMAIN mirror' : mirror'[q] = mirror[q]
      BY <3>2 DEF Drop
    <3>5. p.kind # "tag"
      BY <2>2
    <3> HIDE DEF p, s
    <3>6. Informing'
      BY <3>2, <3>3, <3>4, SaysOne
    <3>7. TagsAreWhole(mirror)'
      <4> SUFFICES ASSUME NEW c \in DOMAIN mirror' \cap Containers, c.kind = "tag"
                   PROVE  mirror'[c].records = On(mirror', c)
        BY DEF TagsAreWhole
      <4>1. mirror'[c] = mirror[c] /\ c \in DOMAIN mirror
        BY <3>4
      <4>2. p \notin Records(c)
        BY <3>5, RecordsAre
      <4>3. On(mirror', c) = On(mirror, c)
        BY <3>4, <4>2 DEF On
      <4>4. TagsAreWhole(mirror)
        BY DEF IInv
      <4> QED
        BY <4>1, <4>3, <4>4 DEF TagsAreWhole
    <3> QED
      BY <3>6, <3>7
  <2> QED
    BY <1>1, <2>1, <2>2 DEF IInv, Informing
<1>4. TypeOK'
  BY <1>1 DEF IInv, TypeOK
<1>5. TasksAreRight'
  BY <1>1 DEF IInv, TasksAreRight, OnceEach, CanBeDone, TagsAreTouchedWhole
<1>6. FinalIsSound' /\ TagsAreWhole(tree)'
  BY <1>1 DEF IInv, FinalIsSound
<1>7. EmissionsArePending' /\ CallbacksInOrder'
  BY <1>1 DEF IInv, EmissionsArePending, CallbacksInOrder, Present
<1> QED
  BY <1>3, <1>4, <1>5, <1>6, <1>7 DEF IInv

-----------------------------------------------------------------------------
(***************************************************************************)
(* The theorems.                                                           *)
(***************************************************************************)
LEMMA InvNext ==
  ASSUME IInv, [Next]_vars
  PROVE  IInv'
<1>1. ASSUME NEW c \in Containers, Meets(c) PROVE IInv'
  BY <1>1, MeetsKeeps
<1>2. CASE Receives
  BY <1>2, ReceivesKeeps
<1>3. CASE Parts
  BY <1>3, PartsKeeps
<1>4. CASE Work
  BY <1>4, WorkKeeps
<1>5. CASE Dispatch
  <2>1. Idle /\ sources # <<>>
    BY <1>5 DEF Dispatch
  <2>2. CASE Emit
    BY <2>1, <2>2, EmitKeeps
  <2>3. CASE TagDetected
    BY <2>1, <2>3, TagDetectedKeeps
  <2>4. CASE DeviceDetected
    BY <2>1, <2>4, DeviceDetectedKeeps
  <2>5. CASE NdefReceived
    BY <2>1, <2>5, NdefReceivedKeeps
  <2>6. CASE TagLost
    BY <2>1, <2>6, TagLostKeeps
  <2>7. CASE DeviceLost
    BY <2>1, <2>7, DeviceLostKeeps
  <2> QED
    BY <1>5, <2>2, <2>3, <2>4, <2>5, <2>6, <2>7 DEF Dispatch
<1>6. CASE Unregister
  BY <1>6, UnregisterKeeps
<1>7. CASE Read
  BY <1>7, ReadKeeps
<1>8. CASE UNCHANGED vars
  <2>1. /\ radio' = radio /\ registered' = registered /\ sources' = sources /\ todo' = todo
        /\ tree' = tree /\ table' = table /\ before' = before /\ signals' = signals /\ mirror' = mirror
    BY <1>8 DEF vars, halVars
  <2>2. TypeOK'
    BY <2>1 DEF IInv, TypeOK
  <2>3. TasksAreRight'
    BY <2>1 DEF IInv, TasksAreRight, OnceEach, CanBeDone, TagsAreTouchedWhole
  <2>4. FinalIsSound' /\ TagsAreWhole(tree)' /\ TagsAreWhole(mirror)'
    BY <2>1 DEF IInv, FinalIsSound
  <2>5. EmissionsArePending' /\ CallbacksInOrder'
    BY <2>1 DEF IInv, EmissionsArePending, CallbacksInOrder, Present
  <2>6. Informing'
    BY <2>1 DEF IInv, Informing, Told, ClientIsInformed
  <2> QED
    BY <2>2, <2>3, <2>4, <2>5, <2>6 DEF IInv
<1> QED
  BY <1>1, <1>2, <1>3, <1>4, <1>5, <1>6, <1>7, <1>8 DEF Next

\* The invariant behind the others: a callback has its objects before it, in an
\* order in which tags stay whole, the tree there will be is that of the table,
\* and what is on its way to the client makes up what it does not know.
THEOREM ObjectsInvariant == Spec => []IInv
<1>1. Init => IInv
  BY InvInit
<1>2. IInv /\ [Next]_vars => IInv'
  BY InvNext
<1> QED
  BY <1>1, <1>2, PTL DEF Spec

\* Between two callbacks adapter.c, tag.c and device.c have the objects of the
\* registered containers on the bus and no others, and the lists say so.
THEOREM ObjectsTreeIsSound == Spec => []TreeIsSound
<1>1. IInv => TreeIsSound
  BY TreeWhenIdle DEF TreeIsSound
<1> QED
  BY <1>1, ObjectsInvariant, PTL

\* tag_register and tag_unregister show a client no tag without its records.
THEOREM ObjectsTagsComeWithTheirRecords == Spec => []TagsComeWithTheirRecords
<1>1. IInv => TagsComeWithTheirRecords
  BY DEF IInv, TagsComeWithTheirRecords
<1> QED
  BY <1>1, ObjectsInvariant, PTL

\* The signals of the object manager and of the idle sources of the skeletons
\* are enough to keep a copy of the tree.
THEOREM ObjectsClientIsInformed == Spec => []ClientIsInformed
<1>1. IInv => ClientIsInformed
  BY DEF IInv, Informing, ClientIsInformed
<1> QED
  BY <1>1, ObjectsInvariant, PTL

=============================================================================
