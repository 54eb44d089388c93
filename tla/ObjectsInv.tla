----------------------------- MODULE ObjectsInv -----------------------------
(***************************************************************************)
(* What must be true of Objects, and the inductive invariant behind it.    *)
(***************************************************************************)
EXTENDS Objects, Announcements

-----------------------------------------------------------------------------
(***************************************************************************)
(* Types.                                                                  *)
(***************************************************************************)
Sources ==
  [type : {"detected", "received"}, id : Containers, says : Messages, records : 0..MaxRecords]
    \cup [type : {"lost"}, id : Containers]
    \cup [type : {"emit"}, id : Path \cup {Nowhere}]

\* The properties an object may have.
Values(p) ==
  IF p = Adapter THEN [tags : SUBSET Containers, devices : SUBSET Containers]
  ELSE IF p \in Containers THEN [records : SUBSET Path]
  ELSE [says : Messages]

AllValues == {NoMessage} \cup UNION {Values(p) : p \in Path}
Tasks     == [do : {"export", "set", "withdraw"}, paths : (SUBSET Path) \ {{}}, value : AllValues]

Registrations == [raw : Messages \cup {NoMessage}, ids : SUBSET (1..MaxRecords)]

\* Every variable stays within its type, and only an exported object has an old
\* value.
TypeOK ==
  /\ radio \in Containers \cup {Nowhere}
  /\ registered \in BOOLEAN
  /\ sources \in Seq(Sources)
  /\ todo \in Seq(Tasks)
  /\ DOMAIN tree \subseteq Path
  /\ \A p \in DOMAIN tree : tree[p] \in Values(p)
  /\ DOMAIN table \subseteq Containers
  /\ \A c \in DOMAIN table : table[c] \in Registrations
  /\ DOMAIN before \subseteq DOMAIN tree

-----------------------------------------------------------------------------
(***************************************************************************)
(* Safety.                                                                 *)
(***************************************************************************)
On(f, c) == Records(c) \cap DOMAIN f

\* t is the tree of the containers in the table: their objects and their
\* records, the adapter lists the tags among them, and a container lists records
\* that are there and stem from its latest message.
IsTreeOf(t, containers) ==
  /\ DOMAIN t \ {Adapter} =
       DOMAIN containers \cup UNION {{Record(c, n) : n \in containers[c].ids} : c \in DOMAIN containers}
  /\ IF Adapter \in DOMAIN t THEN t[Adapter].tags = Registered("tag", containers)
                             ELSE Registered("tag", containers) = {}
  /\ \A c \in DOMAIN containers :
       /\ t[c].records \subseteq On(t, c)
       /\ c.kind = "tag" => t[c].records = On(t, c)
       /\ \A r \in t[c].records : t[r].says = containers[c].raw

\* Between two callbacks the objects are those of the registered containers.
TreeIsSound == todo = <<>> => IsTreeOf(tree, table)

TagsAreWhole(t) == \A c \in DOMAIN t \cap Containers : c.kind = "tag" => t[c].records = On(t, c)

\* A client never meets a tag some of whose records are missing, neither while
\* it comes nor while it goes.
TagsComeWithTheirRecords == TagsAreWhole(mirror)

\* What the client knows when it has read everything: properties whose idle
\* source has not run still have the first old value.
Told == [p \in DOMAIN tree |-> IF p \in DOMAIN before THEN before[p] ELSE tree[p]]

\* A client that has read everything knows the tree; on its way there nothing is
\* added that it has, and nothing removed or changed that it has not.
ClientIsInformed ==
  IF signals = <<>>
    THEN mirror = Told
    ELSE Head(signals).type = "added" <=> Head(signals).path \notin DOMAIN mirror

-----------------------------------------------------------------------------
(***************************************************************************)
(* The inductive invariant.                                                *)
(***************************************************************************)

\* The tree there will be when the callback is through.
Pending(tasks, p) == \E k \in DOMAIN tasks : p \in tasks[k].paths
TaskFor(tasks, p) == tasks[CHOOSE k \in DOMAIN tasks : p \in tasks[k].paths]

Stays(t, tasks, p) ==
  IF Pending(tasks, p) THEN TaskFor(tasks, p).do # "withdraw" ELSE p \in DOMAIN t

Final(t, tasks) ==
  [p \in {q \in Path : Stays(t, tasks, q)} |->
     IF Pending(tasks, p) THEN TaskFor(tasks, p).value ELSE t[p]]

FinalIsSound ==
  /\ IsTreeOf(Final(tree, todo), table)
  /\ registered <=> Adapter \in DOMAIN Final(tree, todo)

\* A callback touches an object at most once, and an object it can touch; tags
\* come and go and are never changed.
OnceEach(tasks) ==
  \A j, k \in DOMAIN tasks : tasks[j].paths \cap tasks[k].paths # {} => j = k

CanBeDone(task) ==
  /\ task.do # "export" => task.paths \subseteq DOMAIN tree
  /\ task.do # "withdraw" => \E p \in task.paths : task.paths = {p} /\ task.value \in Values(p)
  /\ task.do = "export" => \A p \in task.paths : p.kind = "tag" => p \notin DOMAIN tree
  /\ task.do = "set" => \A p \in task.paths : p.kind # "tag"

\* The records of a tag that is there are touched with it, and those of a tag
\* that is going to be there before it.
TagsAreTouchedWhole ==
  \A c \in Containers : c.kind = "tag" =>
    \A k \in DOMAIN todo :
      /\ c \in DOMAIN tree /\ todo[k].paths \cap Records(c) # {} => c \in todo[k].paths
      /\ c \in todo[k].paths /\ todo[k].do = "export" =>
           \A j \in DOMAIN todo : k < j => todo[j].paths \cap Records(c) = {}

TasksAreRight ==
  /\ OnceEach(todo)
  /\ \A k \in DOMAIN todo : CanBeDone(todo[k])
  /\ TagsAreTouchedWhole
  /\ ~registered => \A k \in DOMAIN todo : todo[k].do = "withdraw"

\* A skeleton with an old value has one idle source, and a tag has none.
EmissionsArePending ==
  /\ \A i, j \in DOMAIN sources :
       sources[i].type = "emit" /\ sources[i].id # Nowhere =>
         /\ sources[i].id \in DOMAIN before
         /\ sources[j] = sources[i] => i = j
  /\ \A p \in DOMAIN before : p.kind # "tag"

\* The callbacks of the HAL come in an order the adapter can follow.
Present == {radio} \ {Nowhere}

ReceivedInSession(q, shown) ==
  \A i \in DOMAIN q : q[i].type = "received" =>
    /\ q[i].id.kind = "device"
    /\ q[i].id \in shown \/ DetectionBefore(q, q[i].id, i)
    /\ ~LossBefore(q, q[i].id, i)

CallbacksInOrder ==
  IF registered
    THEN InOrder(sources, DOMAIN table, Present) /\ ReceivedInSession(sources, DOMAIN table)
    ELSE sources = <<>>

\* What is on its way to the client makes up the difference.
Informing ==
  \/ signals = <<>> /\ mirror = Told
  \/ /\ Len(signals) = 1 /\ signals = <<signals[1]>>
     /\ After(mirror, signals[1]) = Told
     /\ ClientIsInformed
  \/ /\ Len(signals) = 2 /\ signals = <<signals[1], signals[2]>>
     /\ After(After(mirror, signals[1]), signals[2]) = Told
     /\ signals[1].type = "removed" /\ signals[2].type = "added"
     /\ signals[1].path = signals[2].path
     /\ signals[1].path.kind # "tag"
     /\ ClientIsInformed

IInv ==
  /\ TypeOK
  /\ TasksAreRight
  /\ FinalIsSound
  /\ TagsAreWhole(tree)
  /\ TagsAreWhole(mirror)
  /\ EmissionsArePending
  /\ CallbacksInOrder
  /\ Informing

=============================================================================
