------------------------------ MODULE Objects -------------------------------
(***************************************************************************)
(* The objects the daemon exports and what a client makes of them:         *)
(* adapter.c, tag.c, device.c and record.c build and take down a tree of   *)
(* objects behind an object manager; the skeletons of generated-code.c     *)
(* tell of changed properties from an idle source; a client follows the    *)
(* signals and keeps a copy of the tree.                                   *)
(*                                                                         *)
(* The main thread dispatches what is attached to its context in order:    *)
(* callbacks of the HAL and the idle sources of the skeletons.  A callback *)
(* is a list of tasks, each of which exports, withdraws or sets one object *)
(* after the other.  A client only reads, so nothing is lost by letting it *)
(* read what it is told of an object before the next one is touched.       *)
(***************************************************************************)
EXTENDS Naturals, Sequences, FiniteSets, SequencesExt

CONSTANTS
  Ids,         \* ids of tags and devices
  MaxRecords,  \* bound: records in a message
  Messages,    \* what a message says
  NoMessage,   \* no message yet
  MaxSources   \* bound: sources attached to the main context

ASSUME ObjectsAssumption ==
  /\ NoMessage \notin Messages
  /\ Ids \subseteq Nat
  /\ MaxRecords \in Nat
  /\ MaxSources \in Nat

VARIABLES
  radio,      \* the container of the session the HAL is in, Nowhere between two
  registered, \* whether the adapter has callbacks with the HAL
  sources,    \* sources attached to the main context
  todo,       \* what is left to do of the callback being executed
  tree,       \* the properties of the exported objects, by path
  table,      \* the registered containers: their pRawNDEF and the ids in pRecordTable
  before,     \* orig_value of changed properties, by path of their skeleton
  signals,    \* signals on their way to the client
  mirror      \* the client's copy of the tree

halVars == <<radio, registered>>
vars    == <<halVars, sources, todo, tree, table, before, signals, mirror>>

\* Paths; a record has a number under its container.
Object(kind, id) == [kind |-> kind, id |-> id, record |-> 0]
Adapter      == Object("adapter", 0)
Nowhere      == Object("none", 0)
Containers   == {Object(kind, id) : kind \in {"tag", "device"}, id \in Ids}
Record(c, n) == [c EXCEPT !.record = n]
Records(c)   == {Record(c, n) : n \in 1..MaxRecords}
Path         == {Adapter} \cup Containers \cup UNION {Records(c) : c \in Containers}

\* The callbacks of the HAL and the idle source of a skeleton.
Found(c, m, n)    == [type |-> "detected", id |-> c, says |-> m, records |-> n]
Received(c, m, n) == [type |-> "received", id |-> c, says |-> m, records |-> n]
Gone(c)           == [type |-> "lost", id |-> c]
Emission(p)       == [type |-> "emit", id |-> p]

Added(p, v)   == [type |-> "added", path |-> p, value |-> v]
Removed(p)    == [type |-> "removed", path |-> p]
Changed(p, v) == [type |-> "changed", path |-> p, value |-> v]

\* A registered adapter, and a client that has read it.
Init ==
  /\ radio = Nowhere
  /\ registered = TRUE
  /\ sources = <<>>
  /\ todo = <<>>
  /\ tree = [p \in {Adapter} |-> [tags |-> {}, devices |-> {}]]
  /\ table = <<>>
  /\ before = <<>>
  /\ signals = <<>>
  /\ mirror = tree

-----------------------------------------------------------------------------
(***************************************************************************)
(* The HAL, as HalTag and HalDevice have it: one session at a time, with   *)
(* an id that is not in use.                                               *)
(***************************************************************************)
Attach(s) ==
  /\ registered
  /\ Len(sources) < MaxSources
  /\ sources' = Append(sources, s)
  /\ UNCHANGED <<registered, todo, tree, table, before, signals, mirror>>

InUse(c) ==
  \/ c \in DOMAIN table
  \/ \E i \in DOMAIN sources : sources[i].type # "emit" /\ sources[i].id = c

Meets(c) ==
  /\ radio = Nowhere
  /\ ~InUse(c)
  /\ radio' = c
  /\ \E m \in Messages, n \in 0..MaxRecords : Attach(Found(c, m, n))

Receives ==
  /\ radio.kind = "device"
  /\ \E m \in Messages, n \in 0..MaxRecords : Attach(Received(radio, m, n))
  /\ UNCHANGED radio

Parts ==
  /\ radio # Nowhere
  /\ radio' = Nowhere
  /\ Attach(Gone(radio))

-----------------------------------------------------------------------------
(***************************************************************************)
(* The object manager and the skeletons: what is done to one object.       *)
(***************************************************************************)
Put(f, k, v) == [x \in DOMAIN f \cup {k} |-> IF x = k THEN v ELSE f[x]]
Drop(f, k) == [x \in DOMAIN f \ {k} |-> f[x]]

\* The idle source of a skeleton that is no longer exported finds no connection
\* and emits nothing.
Cancel(q, p) == [i \in DOMAIN q |-> IF q[i] = Emission(p) THEN Emission(Nowhere) ELSE q[i]]

Unexport(p) ==
  /\ tree' = Drop(tree, p)
  /\ before' = Drop(before, p)
  /\ sources' = Cancel(sources, p)
  /\ signals' = <<Removed(p)>>

\* Exporting an object takes away the one that had its path.
Export(p, v) ==
  /\ tree' = Put(tree, p, v)
  /\ before' = Drop(before, p)
  /\ sources' = Cancel(sources, p)
  /\ signals' = IF p \in DOMAIN tree THEN <<Removed(p), Added(p, v)>> ELSE <<Added(p, v)>>

\* Slip: the value before the latest change is kept, and not the first one.
SetLatest(p, v) ==
  /\ tree' = Put(tree, p, v)
  /\ before' = IF tree[p] = v THEN before ELSE Put(before, p, tree[p])
  /\ sources' = IF tree[p] = v \/ p \in DOMAIN before THEN sources
                ELSE Append(sources, Emission(p))
  /\ UNCHANGED signals

\* set_property of a skeleton that is exported: the first old value is kept
\* until the idle source runs, and one source is enough.
Set(p, v) ==
  /\ tree' = Put(tree, p, v)
  /\ IF tree[p] = v \/ p \in DOMAIN before
     THEN UNCHANGED <<before, sources>>
     ELSE before' = Put(before, p, tree[p]) /\ sources' = Append(sources, Emission(p))
  /\ UNCHANGED signals

-----------------------------------------------------------------------------
(***************************************************************************)
(* What a callback does, in order.                                         *)
(***************************************************************************)
Task(do, ps, v) == [do |-> do, paths |-> ps, value |-> v]

Listed(c, n) == {Record(c, i) : i \in 1..n}

\* A record for each of the message, from record 0 on, whatever there is.
ExportRecords(c, m, n) == [i \in 1..n |-> Task("export", {Record(c, i)}, [says |-> m])]
ExportObject(c, v)     == <<Task("export", {c}, v)>>
SetObject(c, v)        == <<Task("set", {c}, v)>>

\* tag_unregister and device_unregister: the container, then what is in its
\* pRecordTable, in any order.
Withdraw(c, ids) == Task("withdraw", {c} \cup {Record(c, i) : i \in ids}, NoMessage)

\* Slip: the tag is exported before its records.
RegisterTagFirst(c, m, n) ==
  ExportObject(c, [records |-> Listed(c, n)]) \o ExportRecords(c, m, n)

\* tag_register: records first, the tag with their list when they are all there.
RegisterTag(c, m, n) ==
  ExportRecords(c, m, n) \o ExportObject(c, [records |-> Listed(c, n)])

\* adapter_update_tag_list and adapter_update_device_list.
Registered(kind, t) == {c \in DOMAIN t : c.kind = kind}
TagList(t)    == SetObject(Adapter, [tree[Adapter] EXCEPT !.tags = Registered("tag", t)])
DeviceList(t) == SetObject(Adapter, [tree[Adapter] EXCEPT !.devices = Registered("device", t)])

\* The next object of a task: a container goes before its records.
First(ps) == IF ps \cap Containers # {} THEN ps \cap Containers ELSE ps

Rest(tasks, p) ==
  IF Head(tasks).paths = {p} THEN Tail(tasks) ELSE [tasks EXCEPT ![1].paths = @ \ {p}]

\* One object is exported, withdrawn or set.
Work ==
  /\ signals = <<>>
  /\ todo # <<>>
  /\ \E p \in First(Head(todo).paths) :
       /\ todo' = Rest(todo, p)
       /\ \/ Head(todo).do = "export" /\ Export(p, Head(todo).value)
          \/ Head(todo).do = "set" /\ Set(p, Head(todo).value)
          \/ Head(todo).do = "withdraw" /\ Unexport(p)
  /\ UNCHANGED <<halVars, table, mirror>>

-----------------------------------------------------------------------------
(***************************************************************************)
(* What the main thread dispatches.                                        *)
(***************************************************************************)
Begin(tasks) ==
  /\ todo' = tasks
  /\ sources' = Tail(sources)
  /\ UNCHANGED <<halVars, tree, before, signals, mirror>>

TagDetected ==
  LET s == Head(sources)
  IN /\ s.type = "detected"
     /\ s.id.kind = "tag"
     /\ table' = Put(table, s.id, [raw |-> s.says, ids |-> 1..s.records])
     /\ Begin(RegisterTag(s.id, s.says, s.records) \o TagList(table'))

\* The list of tags is the one that is updated.
DeviceDetected ==
  LET s == Head(sources)
  IN /\ s.type = "detected"
     /\ s.id.kind = "device"
     /\ table' = Put(table, s.id, [raw |-> NoMessage, ids |-> {}])
     /\ Begin(ExportObject(s.id, [records |-> {}]) \o TagList(table'))

\* device_populate_records.  Records of a longer message stay in the table and
\* on the bus.
NdefReceived ==
  LET s == Head(sources)
  IN /\ s.type = "received"
     /\ table' = [table EXCEPT ![s.id] = [raw |-> s.says, ids |-> @.ids \cup 1..s.records]]
     /\ Begin(ExportRecords(s.id, s.says, s.records)
                \o SetObject(s.id, [records |-> Listed(s.id, s.records)]))

\* Slip: the list is written while the tag is still in the table.
TagLostLate ==
  LET s == Head(sources)
  IN /\ s.type = "lost"
     /\ s.id.kind = "tag"
     /\ table' = Drop(table, s.id)
     /\ Begin(TagList(table) \o <<Withdraw(s.id, table[s.id].ids)>>)

TagLost ==
  LET s == Head(sources)
  IN /\ s.type = "lost"
     /\ s.id.kind = "tag"
     /\ table' = Drop(table, s.id)
     /\ Begin(TagList(table') \o <<Withdraw(s.id, table[s.id].ids)>>)

DeviceLost ==
  LET s == Head(sources)
  IN /\ s.type = "lost"
     /\ s.id.kind = "device"
     /\ table' = Drop(table, s.id)
     /\ Begin(DeviceList(table') \o <<Withdraw(s.id, table[s.id].ids)>>)

\* _neard_*_emit_changed: nothing is said of a property that has got its first
\* value back.
Emit ==
  LET p == Head(sources).id
  IN /\ Head(sources).type = "emit"
     /\ before' = Drop(before, p)
     /\ signals' = IF p = Nowhere \/ tree[p] = before[p] THEN <<>> ELSE <<Changed(p, tree[p])>>
     /\ sources' = Tail(sources)
     /\ UNCHANGED <<halVars, todo, tree, table, mirror>>

Idle == todo = <<>> /\ signals = <<>>

Dispatch ==
  /\ Idle
  /\ sources # <<>>
  /\ \/ Emit
     \/ TagDetected
     \/ DeviceDetected
     \/ NdefReceived
     \/ TagLost
     \/ DeviceLost

\* adapter_unregister, when the name is lost: the tags go, in any order, then
\* the adapter; devices stay until the process ends.  No callback has an effect
\* after it.
Unregister ==
  /\ Idle
  /\ registered
  /\ registered' = FALSE
  /\ sources' = <<>>
  /\ LET tags == Registered("tag", table)
     IN /\ table' = [c \in DOMAIN table \ tags |-> table[c]]
        /\ \E order \in SetToSeqs(tags) :
             todo' = [i \in DOMAIN order |-> Withdraw(order[i], table[order[i]].ids)]
                       \o <<Withdraw(Adapter, {})>>
  /\ UNCHANGED <<radio, tree, before, signals, mirror>>

-----------------------------------------------------------------------------
(***************************************************************************)
(* The client.                                                             *)
(***************************************************************************)
After(copy, s) ==
  IF s.type = "removed" THEN Drop(copy, s.path) ELSE Put(copy, s.path, s.value)

Read ==
  /\ signals # <<>>
  /\ signals' = Tail(signals)
  /\ mirror' = After(mirror, Head(signals))
  /\ UNCHANGED <<halVars, sources, todo, tree, table, before>>

Next ==
  \/ \E c \in Containers : Meets(c)
  \/ Receives
  \/ Parts
  \/ Work
  \/ Dispatch
  \/ Unregister
  \/ Read

Spec == Init /\ [][Next]_vars

=============================================================================
