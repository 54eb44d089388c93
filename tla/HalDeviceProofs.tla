-------------------------- MODULE HalDeviceProofs --------------------------
(***************************************************************************)
(* Proofs about HalDevice, for any set of devices and of messages and any  *)
(* value of the bounds.  IInv is an inductive invariant; the safety        *)
(* properties follow from it, and every step is one of SessionService or   *)
(* none that a client could see.                                           *)
(*                                                                         *)
(* Unlike for tags the types cannot be proved first: what an object shows  *)
(* after a message was received is read from the table, where the entry is *)
(* only because the callback holds a reference.                            *)
(***************************************************************************)
EXTENDS HalDeviceInv, AnnouncementsProofs

-----------------------------------------------------------------------------
(***************************************************************************)
(* pDeviceTable: what hal_impl_device_new, hal_device_ref,                 *)
(* hal_device_unref and the two assignments to an entry do to it.          *)
(***************************************************************************)
Table(table) == DOMAIN table \subseteq Ids /\ \A id \in DOMAIN table : table[id] \in Entries

\* The parts of an entry that references do not change.
SameEntry(e, f) == e.dev = f.dev /\ e.connected = f.connected /\ e.message = f.message

LEMMA WithFacts ==
  ASSUME NEW table, Table(table), NEW id \in Ids, NEW entry \in Entries
  PROVE  /\ Table(With(table, id, entry))
         /\ DOMAIN With(table, id, entry) = DOMAIN table \cup {id}
         /\ With(table, id, entry)[id] = entry
         /\ \A i \in DOMAIN table : i # id => With(table, id, entry)[i] = table[i]
BY DEF With, Table

LEMMA RefFacts ==
  ASSUME NEW table, Table(table), NEW id \in DOMAIN table
  PROVE  /\ Table(Ref(table, id))
         /\ DOMAIN Ref(table, id) = DOMAIN table
         /\ Ref(table, id)[id].refs = table[id].refs + 1
         /\ \A i \in DOMAIN table : i # id => Ref(table, id)[i] = table[i]
         /\ \A i \in DOMAIN table : SameEntry(Ref(table, id)[i], table[i])
BY DEF Ref, Table, Entries, SameEntry

LEMMA UnrefFacts ==
  ASSUME NEW table, Table(table), NEW id \in DOMAIN table
  PROVE  /\ Table(Unref(table, id))
         /\ DOMAIN Unref(table, id) =
              IF table[id].refs = 1 THEN DOMAIN table \ {id} ELSE DOMAIN table
         /\ table[id].refs # 1 => Unref(table, id)[id].refs = table[id].refs - 1
         /\ \A i \in DOMAIN Unref(table, id) :
              /\ i \in DOMAIN table
              /\ i # id => Unref(table, id)[i] = table[i]
              /\ SameEntry(Unref(table, id)[i], table[i])
<1>1. CASE table[id].refs = 1
  BY <1>1 DEF Unref, Without, Table, SameEntry
<1>2. CASE table[id].refs # 1
  BY <1>2 DEF Unref, Table, Entries, SameEntry
<1>3. QED
  BY <1>1, <1>2

LEMMA DisconnectedFacts ==
  ASSUME NEW table, Table(table), NEW id \in DOMAIN table
  PROVE  /\ Table(Disconnected(table, id))
         /\ DOMAIN Disconnected(table, id) = DOMAIN table
         /\ \A i \in DOMAIN table : /\ Disconnected(table, id)[i].dev = table[i].dev
                                    /\ Disconnected(table, id)[i].message = table[i].message
                                    /\ Disconnected(table, id)[i].refs = table[i].refs
BY DEF Disconnected, Table, Entries

\* What hal_impl_snep_ndef_received_cb does to an entry: it is found, then written.
Found(table, id) == [table EXCEPT ![id].found = TRUE]
Stored(table, id, message) == [table EXCEPT ![id].message = message, ![id].found = FALSE]

LEMMA FoundFacts ==
  ASSUME NEW table, Table(table), NEW id \in DOMAIN table
  PROVE  /\ Table(Found(table, id))
         /\ DOMAIN Found(table, id) = DOMAIN table
         /\ \A i \in DOMAIN table : /\ SameEntry(Found(table, id)[i], table[i])
                                    /\ Found(table, id)[i].refs = table[i].refs
BY DEF Found, Table, Entries, SameEntry

LEMMA StoredFacts ==
  ASSUME NEW table, Table(table), NEW id \in DOMAIN table, NEW message \in Messages
  PROVE  /\ Table(Stored(table, id, message))
         /\ DOMAIN Stored(table, id, message) = DOMAIN table
         /\ \A i \in DOMAIN table : /\ Stored(table, id, message)[i].dev = table[i].dev
                                    /\ Stored(table, id, message)[i].refs = table[i].refs
                                    /\ i # id => Stored(table, id, message)[i] = table[i]
BY DEF Stored, Table, Entries

\* Unref after Ref leaves the table as it was, entry by entry.
LEMMA RefUnrefFacts ==
  ASSUME NEW table, Table(table), NEW id \in DOMAIN table
  PROVE  /\ Table(Unref(Ref(table, id), id))
         /\ DOMAIN Unref(Ref(table, id), id) = DOMAIN table
         /\ \A i \in DOMAIN table : /\ Unref(Ref(table, id), id)[i].refs = table[i].refs
                                    /\ SameEntry(Unref(Ref(table, id), id)[i], table[i])
<1> DEFINE t == Ref(table, id)
           u == Unref(t, id)
<1>1. /\ Table(t) /\ DOMAIN t = DOMAIN table
      /\ t[id].refs = table[id].refs + 1
      /\ \A i \in DOMAIN table : i # id => t[i] = table[i]
      /\ \A i \in DOMAIN table : SameEntry(t[i], table[i])
  BY RefFacts
<1>2. table[id].refs \in Nat \ {0}
  BY DEF Table, Entries
<1> HIDE DEF t
<1>3. t[id].refs # 1 /\ t[id].refs - 1 = table[id].refs
  BY <1>1, <1>2
<1>4. /\ Table(u) /\ DOMAIN u = DOMAIN t
      /\ u[id].refs = t[id].refs - 1
      /\ \A i \in DOMAIN u : (i # id => u[i] = t[i]) /\ SameEntry(u[i], t[i])
  BY <1>1, <1>3, UnrefFacts
<1> HIDE DEF u
<1>5. \A i \in DOMAIN table : u[i].refs = table[i].refs /\ SameEntry(u[i], table[i])
  BY <1>1, <1>3, <1>4 DEF SameEntry
<1>6. QED
  BY <1>1, <1>4, <1>5 DEF t, u

\* A table has as many references on each id as n says.
Counts(table, n) ==
  \A id \in Ids : IF id \in DOMAIN table THEN table[id].refs = n[id] ELSE n[id] = 0

LEMMA CountsRef ==
  ASSUME NEW table, Table(table), NEW n, Counts(table, n), NEW id \in DOMAIN table,
         NEW m, \A i \in Ids : m[i] = IF i = id THEN n[i] + 1 ELSE n[i]
  PROVE  Counts(Ref(table, id), m)
<1>1. id \in Ids
  BY DEF Table
<1>2. /\ DOMAIN Ref(table, id) = DOMAIN table
      /\ Ref(table, id)[id].refs = table[id].refs + 1
      /\ \A i \in DOMAIN table : i # id => Ref(table, id)[i] = table[i]
  BY RefFacts
<1>3. QED
  BY <1>1, <1>2 DEF Counts

LEMMA CountsUnref ==
  ASSUME NEW table, Table(table), NEW n, Counts(table, n), NEW id \in DOMAIN table,
         NEW m, \A i \in Ids : m[i] = IF i = id THEN n[i] - 1 ELSE n[i]
  PROVE  Counts(Unref(table, id), m)
<1>1. id \in Ids /\ table[id].refs \in Nat /\ n[id] = table[id].refs
  BY DEF Table, Entries, Counts
<1>2. /\ DOMAIN Unref(table, id) = IF table[id].refs = 1 THEN DOMAIN table \ {id} ELSE DOMAIN table
      /\ table[id].refs # 1 => Unref(table, id)[id].refs = table[id].refs - 1
      /\ \A i \in DOMAIN Unref(table, id) : i \in DOMAIN table /\ (i # id => Unref(table, id)[i] = table[i])
  BY UnrefFacts
<1>3. QED
  BY <1>1, <1>2 DEF Counts

-----------------------------------------------------------------------------
(***************************************************************************)
(* Callbacks, commands and the markers.                                    *)
(***************************************************************************)
LEMMA CallbackFacts ==
  /\ \A m \in RadioModes : ModeCb(m) \in Callbacks /\ ModeCb(m).type = "mode"
  /\ \A p \in BOOLEAN : PollingCb(p) \in Callbacks /\ PollingCb(p).type = "polling"
  /\ \A id \in Ids : /\ Detected(id) \in Callbacks /\ Detects(Detected(id), id)
                     /\ Received(id) \in Callbacks /\ Received(id).type = "received"
                     /\ LostCb(id) \in Callbacks /\ Loses(LostCb(id), id)
BY DEF Callbacks, ModeCb, PollingCb, Detected, Received, LostCb, Detects, Loses

LEMMA CallbackTypes ==
  ASSUME NEW cb \in Callbacks
  PROVE  /\ cb.type = "detected" => cb.id \in Ids /\ cb = Detected(cb.id)
         /\ cb.type = "received" => cb.id \in Ids /\ cb = Received(cb.id)
         /\ cb.type = "lost" => cb.id \in Ids /\ cb = LostCb(cb.id)
         /\ cb.type = "mode" => cb.mode \in RadioModes
         /\ cb.type = "polling" => cb.polling \in BOOLEAN
BY DEF Callbacks, Detected, Received, LostCb

\* The callbacks that carry an id.
LEMMA CarriedIds ==
  \A id, o : /\ Detected(id) # Received(o) /\ Detected(id) # LostCb(o) /\ Received(id) # LostCb(o)
             /\ Detected(id) = Detected(o) => id = o
             /\ Received(id) = Received(o) => id = o
BY DEF Detected, Received, LostCb

LEMMA CommandFacts == Start \in Commands /\ Stop \in Commands /\ Join \in Commands
BY DEF Commands, Start, Stop, Join

\* Copies counts what Queued collects.
LEMMA IsQueued ==
  ASSUME NEW q \in Seq(Callbacks)
  PROVE  /\ \A cb : Copies(q, cb) \in Nat
         /\ \A cb : Copies(q, cb) = Cardinality({i \in DOMAIN q : q[i] = cb})
         /\ \A cb : Copies(q, cb) = 0 <=> {i \in DOMAIN q : q[i] = cb} = {}
         /\ \A id \in Ids : Copies(q, Detected(id)) = 0 <=> ~DetectionIn(q, id)
<1>1. \A cb : Copies(q, cb) \in Nat /\ (Copies(q, cb) = 0 <=> \A i \in DOMAIN q : q[i] # cb)
  BY CopiesType
<1>2. \A cb : Copies(q, cb) = Cardinality({i \in DOMAIN q : q[i] = cb})
  BY DEF Copies
<1>3. ASSUME NEW id \in Ids
      PROVE  (\A i \in DOMAIN q : q[i] # Detected(id)) <=> ~DetectionIn(q, id)
  <2>1. \A i \in DOMAIN q : q[i] \in Callbacks
    OBVIOUS
  <2>2. \A i \in DOMAIN q : Detects(q[i], id) <=> q[i] = Detected(id)
    BY <2>1, CallbackTypes, CallbackFacts DEF Detects
  <2>3. QED
    BY <2>2 DEF DetectionIn
<1>4. QED
  BY <1>1, <1>2, <1>3

-----------------------------------------------------------------------------
(***************************************************************************)
(* Types.                                                                  *)
(***************************************************************************)
LEMMA PostedType ==
  ASSUME cbq \in Seq(Callbacks), NEW cb \in Callbacks
  PROVE  Posted(cb) \in Seq(Callbacks)
BY DEF Posted

LEMMA UpdatePollingType ==
  ASSUME HalTypeOK, NEW p \in BOOLEAN, UpdatePolling(p)
  PROVE  /\ cbq' \in Seq(Callbacks)
         /\ params' \in [mode : RadioModes, polling : BOOLEAN]
<1>1. Posted(PollingCb(p)) \in Seq(Callbacks)
  BY CallbackFacts, PostedType DEF HalTypeOK
<1>2. QED
  BY <1>1 DEF HalTypeOK, UpdatePolling

LEMMA UpdateModeType ==
  ASSUME HalTypeOK, NEW m \in RadioModes, UpdateMode(m)
  PROVE  /\ cbq' \in Seq(Callbacks)
         /\ params' \in [mode : RadioModes, polling : BOOLEAN]
<1>1. Posted(ModeCb(m)) \in Seq(Callbacks)
  BY CallbackFacts, PostedType DEF HalTypeOK
<1>2. QED
  BY <1>1 DEF HalTypeOK, UpdateMode

LEMMA DispatchedType ==
  ASSUME cbq \in Seq(Callbacks), NEW type, Dispatched(type)
  PROVE  /\ cbq # <<>> /\ cbq' = Tail(cbq) /\ cbq' \in Seq(Callbacks)
         /\ Head(cbq) \in Callbacks /\ Head(cbq).type = type
BY DEF Dispatched

\* The steps of the RdLib thread that are those of every session ...
HalSteps ==
  \/ PopStart \/ PopStop \/ PopJoin \/ PopNothing \/ PollNothing \/ LeavePolling
  \/ \E mode \in {"initiator", "target"} : EnterSession(mode, "llcp")
  \/ GoIdle

\* ... and of the main thread.
MainSteps ==
  \/ DispatchMode \/ DispatchPolling \/ HalFree \/ ThreadJoined
  \/ StartPollLoop \/ StopPollLoop

LEMMA ReturnFacts ==
  ASSUME pc \in Locations, NEW polling, NEW join
  PROVE  ReturnTo(pc, polling, join) \in {"poll", "close", "wait"}
BY DEF Locations, ReturnTo, LoopHead

LEMMA PoppedType ==
  ASSUME cmdq \in Seq(Commands), NEW type, Popped(type)
  PROVE  cmdq' \in Seq(Commands)
BY DEF Popped

LEMMA HalStepsType ==
  ASSUME HalTypeOK, HalSteps
  PROVE  HalTypeOK'
<1>1. CASE PopStart
  <2>1. cbq' \in Seq(Callbacks) /\ params' \in [mode : RadioModes, polling : BOOLEAN]
    BY <1>1, UpdatePollingType DEF PopStart, HalTypeOK
  <2>2. session' \in [polling : BOOLEAN, present : BOOLEAN]
    BY <1>1 DEF PopStart, HalTypeOK
  <2>3. pc' \in Locations
    BY <1>1, ReturnFacts DEF PopStart, HalTypeOK, Locations
  <2>4. cmdq' \in Seq(Commands) /\ aborted' \in {aborted, "setup"} /\ UNCHANGED <<joining, main, bus>>
    BY <1>1, PoppedType DEF PopStart, HalTypeOK
  <2>5. QED
    BY <2>1, <2>2, <2>3, <2>4 DEF HalTypeOK
<1>2. CASE PopStop
  <2>1. cbq' \in Seq(Callbacks) /\ params' \in [mode : RadioModes, polling : BOOLEAN]
    BY <1>2, UpdatePollingType DEF PopStop, HalTypeOK
  <2>2. session' \in [polling : BOOLEAN, present : BOOLEAN]
    BY <1>2 DEF PopStop, HalTypeOK
  <2>3. pc' \in Locations
    BY <1>2, ReturnFacts DEF PopStop, HalTypeOK, Locations
  <2>4. cmdq' \in Seq(Commands) /\ UNCHANGED <<joining, main, bus, aborted>>
    BY <1>2, PoppedType DEF PopStop, HalTypeOK
  <2>5. QED
    BY <2>1, <2>2, <2>3, <2>4 DEF HalTypeOK
<1>3. CASE PopJoin
  <2>1. pc' \in Locations /\ cmdq' \in Seq(Commands)
    BY <1>3, ReturnFacts, PoppedType DEF PopJoin, HalTypeOK, Locations
  <2>2. QED
    BY <1>3, <2>1 DEF PopJoin, HalTypeOK
<1>4. CASE PopNothing
  BY <1>4, ReturnFacts DEF PopNothing, HalTypeOK, Locations
<1>5. CASE PollNothing
  BY <1>5 DEF PollNothing, HalTypeOK, Locations
<1>6. CASE LeavePolling
  <2>1. cbq' \in Seq(Callbacks) /\ params' \in [mode : RadioModes, polling : BOOLEAN]
    BY <1>6, UpdatePollingType DEF LeavePolling
  <2>2. session' \in [polling : BOOLEAN, present : BOOLEAN]
    BY <1>6 DEF LeavePolling, HalTypeOK
  <2>3. QED
    BY <1>6, <2>1, <2>2 DEF LeavePolling, HalTypeOK, Locations
<1>7. ASSUME NEW mode \in {"initiator", "target"}, EnterSession(mode, "llcp")
      PROVE  HalTypeOK'
  <2>1. cbq' \in Seq(Callbacks) /\ params' \in [mode : RadioModes, polling : BOOLEAN]
    BY <1>7, UpdateModeType DEF EnterSession, RadioModes
  <2>2. QED
    BY <1>7, <2>1 DEF EnterSession, HalTypeOK, Locations
<1>8. CASE GoIdle
  <2>1. cbq' \in Seq(Callbacks) /\ params' \in [mode : RadioModes, polling : BOOLEAN]
    BY <1>8, UpdateModeType DEF GoIdle, RadioModes
  <2>2. QED
    BY <1>8, <2>1 DEF GoIdle, HalTypeOK, Locations
<1>9. QED
  BY <1>1, <1>2, <1>3, <1>4, <1>5, <1>6, <1>7, <1>8 DEF HalSteps

LEMMA MainStepsType ==
  ASSUME HalTypeOK, MainSteps \/ BusAcquired \/ NameLost
  PROVE  HalTypeOK'
<1>1. CASE DispatchMode
  <2>1. Head(cbq) \in Callbacks /\ cbq' \in Seq(Callbacks) /\ Head(cbq).type = "mode"
    BY <1>1, DispatchedType DEF DispatchMode, HalTypeOK
  <2>2. Head(cbq).mode \in RadioModes
    BY <2>1, CallbackTypes
  <2>3. bus' \in [mode : RadioModes, polling : BOOLEAN]
    BY <1>1, <2>2 DEF DispatchMode, HalTypeOK
  <2>4. QED
    BY <1>1, <2>1, <2>3 DEF DispatchMode, HalTypeOK
<1>2. CASE DispatchPolling
  <2>1. Head(cbq) \in Callbacks /\ cbq' \in Seq(Callbacks) /\ Head(cbq).type = "polling"
    BY <1>2, DispatchedType DEF DispatchPolling, HalTypeOK
  <2>2. Head(cbq).polling \in BOOLEAN
    BY <2>1, CallbackTypes
  <2>3. bus' \in [mode : RadioModes, polling : BOOLEAN]
    BY <1>2, <2>2 DEF DispatchPolling, HalTypeOK
  <2>4. QED
    BY <1>2, <2>1, <2>3 DEF DispatchPolling, HalTypeOK
<1>3. ASSUME NEW command \in Commands, cmdq' = cmdq \/ cmdq' = Append(cmdq, command),
             main' \in {main, "run", "join"},
             UNCHANGED <<pc, cbq, session, params, joining, bus, aborted>>
      PROVE  HalTypeOK'
  <2>1. cmdq \in Seq(Commands)
    BY DEF HalTypeOK
  <2>2. Append(cmdq, command) \in Seq(Commands)
    BY <2>1
  <2>3. QED
    BY <1>3, <2>1, <2>2 DEF HalTypeOK
<1>4. CASE HalFree \/ StartPollLoop \/ StopPollLoop \/ BusAcquired
  <2>1. CASE HalFree
    BY <1>3, <2>1, CommandFacts DEF HalFree
  <2>2. CASE StartPollLoop
    BY <1>3, <2>2, CommandFacts DEF StartPollLoop
  <2>3. CASE StopPollLoop
    BY <1>3, <2>3, CommandFacts DEF StopPollLoop
  <2>4. CASE BusAcquired
    BY <1>3, <2>4, CommandFacts DEF BusAcquired
  <2>5. QED
    BY <1>4, <2>1, <2>2, <2>3, <2>4
<1>5. CASE ThreadJoined
  BY <1>5 DEF ThreadJoined, HalTypeOK
<1>6. CASE NameLost
  BY <1>6 DEF NameLost, HalTypeOK
<1>7. QED
  BY <1>1, <1>2, <1>4, <1>5, <1>6 DEF MainSteps

LEMMA NotifyLostType ==
  ASSUME TypeOK, NotifyLost(LostCb(current))
  PROVE  HalTypeOK'
<1>1. cbq' \in Seq(Callbacks)
  BY CallbackFacts, PostedType DEF NotifyLost, TypeOK, HalTypeOK, DeviceTypeOK
<1>2. session' \in [polling : BOOLEAN, present : BOOLEAN]
  BY DEF NotifyLost, TypeOK, HalTypeOK
<1>3. QED
  BY <1>1, <1>2 DEF NotifyLost, TypeOK, HalTypeOK, Locations

\* The variables the SNEP threads, and those the tables, are made of.
LEMMA SnepUnchanged ==
  ASSUME SnepTypeOK, UNCHANGED snepVars
  PROVE  SnepTypeOK'
BY DEF SnepTypeOK, snepVars

LEMMA DeviceUnchanged ==
  ASSUME DeviceTypeOK, UNCHANGED <<radioVars, tableVars>>
  PROVE  DeviceTypeOK'
BY DEF DeviceTypeOK, radioVars, tableVars

LEMMA HalUnchanged ==
  ASSUME HalTypeOK, UNCHANGED halVars
  PROVE  HalTypeOK'
BY DEF HalTypeOK, halVars

LEMMA DeviceTable == DeviceTypeOK <=> /\ peer \in MaybeDevice /\ link \in MaybeDevice /\ event \in BOOLEAN
                                      /\ Table(devices)
                                      /\ current \in Ids
                                      /\ DOMAIN objects \subseteq Ids
                                      /\ \A id \in DOMAIN objects : objects[id] \in [dev : Devices, shown : Messages]
                                      /\ adapterRefs \subseteq Ids
                                      /\ push \in [id : Ids, to : MaybeDevice, connected : BOOLEAN]
BY DEF DeviceTypeOK, Table

-----------------------------------------------------------------------------
(***************************************************************************)
(* Steps that leave the announcements and the received messages in the     *)
(* queue as they are.                                                      *)
(***************************************************************************)
QueueKept ==
  /\ \A shown, present : InOrder(cbq, shown, present) => InOrder(cbq', shown, present)
  /\ \A id \in Ids : /\ Copies(cbq', Detected(id)) = Copies(cbq, Detected(id))
                     /\ Copies(cbq', Received(id)) = Copies(cbq, Received(id))
  /\ DetectionsOf(cbq') = DetectionsOf(cbq)

LEMMA UnchangedQueue ==
  ASSUME UNCHANGED cbq
  PROVE  QueueKept
BY DEF QueueKept

\* Neither a detection, nor a loss, nor a message.
Plain(cb) == cb.type \in {"mode", "polling"}

LEMMA PlainFacts ==
  ASSUME NEW cb, Plain(cb)
  PROVE  /\ ~Announces(cb) /\ cb.type # "detected"
         /\ \A id : cb # Detected(id) /\ cb # Received(id)
BY DEF Plain, Announces, Detected, Received

LEMMA PlainPosted ==
  ASSUME cbq \in Seq(Callbacks), NEW cb \in Callbacks, Plain(cb), cbq' = Posted(cb)
  PROVE  QueueKept
<1>1. CASE main = "join"
  BY <1>1, UnchangedQueue DEF Posted
<1>2. CASE main # "join"
  <2>1. cbq' = Append(cbq, cb)
    BY <1>2 DEF Posted
  <2>2. \A shown, present : InOrder(cbq, shown, present) => InOrder(cbq', shown, present)
    BY <2>1, PlainFacts, OtherPosted
  <2>3. \A c : Copies(cbq', c) = IF cb = c THEN Copies(cbq, c) + 1 ELSE Copies(cbq, c)
    BY <2>1, CopiesPosted
  <2>4. DetectionsOf(cbq') = DetectionsOf(cbq)
    BY <2>1, PlainFacts, OtherPostedDetections
  <2>5. QED
    BY <2>2, <2>3, <2>4, PlainFacts DEF QueueKept
<1>3. QED
  BY <1>1, <1>2

LEMMA PlainDispatched ==
  ASSUME cbq \in Seq(Callbacks), cbq # <<>>, Plain(Head(cbq)), cbq' = Tail(cbq)
  PROVE  QueueKept
<1>1. \A shown, present : InOrder(cbq, shown, present) => InOrder(cbq', shown, present)
  BY PlainFacts, OtherDispatched
<1>2. \A c : Copies(cbq', c) = IF Head(cbq) = c THEN Copies(cbq, c) - 1 ELSE Copies(cbq, c)
  BY CopiesDispatched
<1>3. DetectionsOf(cbq') = DetectionsOf(cbq)
  BY PlainFacts, OtherDispatchedDetections
<1>4. QED
  BY <1>1, <1>2, <1>3, PlainFacts DEF QueueKept

LEMMA UpdatePollingKept ==
  ASSUME cbq \in Seq(Callbacks), NEW p \in BOOLEAN, UpdatePolling(p)
  PROVE  QueueKept
<1>1. PollingCb(p) \in Callbacks /\ Plain(PollingCb(p))
  BY CallbackFacts DEF Plain
<1>2. cbq' = Posted(PollingCb(p)) \/ UNCHANGED cbq
  BY DEF UpdatePolling
<1>3. QED
  BY <1>1, <1>2, PlainPosted, UnchangedQueue

LEMMA UpdateModeKept ==
  ASSUME cbq \in Seq(Callbacks), NEW m \in RadioModes, UpdateMode(m)
  PROVE  QueueKept
<1>1. ModeCb(m) \in Callbacks /\ Plain(ModeCb(m))
  BY CallbackFacts DEF Plain
<1>2. cbq' = Posted(ModeCb(m)) \/ UNCHANGED cbq
  BY DEF UpdateMode
<1>3. QED
  BY <1>1, <1>2, PlainPosted, UnchangedQueue

LEMMA QueueKeptFacts ==
  ASSUME cbq \in Seq(Callbacks), cbq' \in Seq(Callbacks), QueueKept, NEW id \in Ids
  PROVE  /\ DetectionIn(cbq', id) <=> DetectionIn(cbq, id)
         /\ Queued(Received(id)) # {} <=> (Queued(Received(id)) # {})'
<1>1. /\ Copies(cbq, Received(id)) = 0 <=> Queued(Received(id)) = {}
      /\ Copies(cbq, Detected(id)) = 0 <=> ~DetectionIn(cbq, id)
  BY IsQueued DEF Queued
<1>2. /\ Copies(cbq', Received(id)) = 0 <=> Queued(Received(id))' = {}
      /\ Copies(cbq', Detected(id)) = 0 <=> ~DetectionIn(cbq', id)
  BY IsQueued DEF Queued
<1>3. QED
  BY <1>1, <1>2 DEF QueueKept

-----------------------------------------------------------------------------
(***************************************************************************)
(* Holders.                                                                *)
(***************************************************************************)
HolderCount ==
  [id \in Ids |-> One(InSession /\ id = current)
                    + Copies(cbq, Detected(id)) + Copies(cbq, Received(id))
                    + One(id \in adapterRefs) + One(push # NoPush /\ id = push.id)]

LEMMA OneFacts == \A b : One(b) \in {0, 1} /\ (One(b) = 1 <=> b) /\ (One(b) = 0 <=> ~b)
BY DEF One

HoldersAreCounted ==
  TypeOK => /\ HolderCount \in [Ids -> Nat]
            /\ RefsExact <=> (Running => Counts(devices, HolderCount))

LEMMA HoldersCount == HoldersAreCounted
<1> SUFFICES ASSUME TypeOK
             PROVE  /\ HolderCount \in [Ids -> Nat]
                    /\ RefsExact <=> (Running => Counts(devices, HolderCount))
  BY DEF HoldersAreCounted
<1>1. \A cb : Copies(cbq, cb) \in Nat /\ Copies(cbq, cb) = Cardinality(Queued(cb))
  BY IsQueued DEF TypeOK, HalTypeOK, Queued
<1>2. HolderCount \in [Ids -> Nat]
  <2> SUFFICES ASSUME NEW id \in Ids
               PROVE  One(InSession /\ id = current)
                        + Copies(cbq, Detected(id)) + Copies(cbq, Received(id))
                        + One(id \in adapterRefs) + One(push # NoPush /\ id = push.id) \in Nat
    BY DEF HolderCount
  <2>1. QED
    BY <1>1, OneFacts
<1>3. \A id \in Ids :
        HolderCount[id] = One(InSession /\ id = current)
                            + Cardinality(Queued(Detected(id))) + Cardinality(Queued(Received(id)))
                            + One(id \in adapterRefs) + One(push # NoPush /\ id = push.id)
  BY <1>1 DEF HolderCount
<1>4. RefsExact <=> \A id \in Ids :
        Running => IF id \in DOMAIN devices THEN devices[id].refs = HolderCount[id] ELSE HolderCount[id] = 0
  BY <1>3 DEF RefsExact
<1>5. QED
  BY <1>2, <1>4 DEF Counts

LEMMA HoldersCountNext == HoldersAreCounted'
BY HoldersCount, PTL

\* Whatever holds a reference on an id keeps its entry in the table.
LEMMA HeldEntries ==
  ASSUME TypeOK, RefsExact, Running
  PROVE  /\ InSession => current \in DOMAIN devices
         /\ adapterRefs \subseteq DOMAIN devices
         /\ push # NoPush => push.id \in DOMAIN devices
         /\ \A id \in Ids : DetectionIn(cbq, id) \/ Queued(Detected(id)) # {} \/ Queued(Received(id)) # {}
                              => id \in DOMAIN devices
<1>1. HolderCount \in [Ids -> Nat] /\ Counts(devices, HolderCount)
  BY HoldersCount DEF HoldersAreCounted
<1>2. \A id \in Ids : HolderCount[id] # 0 => id \in DOMAIN devices
  BY <1>1 DEF Counts
<1>3. ASSUME NEW id \in Ids
      PROVE  /\ HolderCount[id] = One(InSession /\ id = current)
                                    + Copies(cbq, Detected(id)) + Copies(cbq, Received(id))
                                    + One(id \in adapterRefs) + One(push # NoPush /\ id = push.id)
             /\ Copies(cbq, Detected(id)) \in Nat /\ Copies(cbq, Received(id)) \in Nat
             /\ Copies(cbq, Detected(id)) = 0 <=> Queued(Detected(id)) = {}
             /\ Copies(cbq, Received(id)) = 0 <=> Queued(Received(id)) = {}
             /\ Copies(cbq, Detected(id)) = 0 <=> ~DetectionIn(cbq, id)
  BY IsQueued DEF TypeOK, HalTypeOK, HolderCount, Queued
<1>4. ASSUME NEW id \in Ids,
             \/ InSession /\ id = current
             \/ id \in adapterRefs
             \/ push # NoPush /\ id = push.id
             \/ DetectionIn(cbq, id)
             \/ Queued(Detected(id)) # {}
             \/ Queued(Received(id)) # {}
      PROVE  id \in DOMAIN devices
  <2> DEFINE s == One(InSession /\ id = current)
             a == One(id \in adapterRefs)
             p == One(push # NoPush /\ id = push.id)
             d == Copies(cbq, Detected(id))
             r == Copies(cbq, Received(id))
  <2>1. s \in {0, 1} /\ a \in {0, 1} /\ p \in {0, 1} /\ d \in Nat /\ r \in Nat
    BY <1>3, OneFacts
  <2>2. s = 1 \/ a = 1 \/ p = 1 \/ d # 0 \/ r # 0
    BY <1>3, <1>4, OneFacts
  <2>3. HolderCount[id] = s + d + r + a + p
    BY <1>3
  <2> HIDE DEF s, a, p, d, r
  <2>4. HolderCount[id] # 0
    BY <2>1, <2>2, <2>3
  <2>5. QED
    BY <1>2, <2>4
<1>5. current \in Ids /\ adapterRefs \subseteq Ids /\ push.id \in Ids
  BY DEF TypeOK, DeviceTypeOK
<1>6. QED
  BY <1>4, <1>5

-----------------------------------------------------------------------------
(***************************************************************************)
(* The invariant under the steps that keep what its parts read.            *)
(***************************************************************************)
\* A process that has ended keeps only the types and the markers.
LEMMA AbortStep ==
  ASSUME TypeOK', SnepStages', aborted' \notin {"no", "lookup", "assert"}
  PROVE  IInv'
BY DEF IInv, NoInternalAbort, Running, RefsExact

LEMMA LiveStep ==
  ASSUME TypeOK', SnepStages', aborted' = "no", Counts(devices', HolderCount'),
         QuietBoot', AdapterFollows', ObjectsAreHeld', MessagesArrive'
  PROVE  IInv'
BY HoldersCountNext DEF IInv, NoInternalAbort, HoldersAreCounted

LEMMA InvFacts ==
  ASSUME IInv, Running
  PROVE  /\ TypeOK /\ SnepStages /\ RefsExact /\ aborted = "no"
         /\ QuietBoot /\ AdapterFollows /\ ObjectsAreHeld /\ MessagesArrive
         /\ HolderCount \in [Ids -> Nat] /\ Counts(devices, HolderCount)
         /\ cbq \in Seq(Callbacks) /\ current \in Ids /\ Table(devices)
         /\ DOMAIN objects \subseteq Ids /\ adapterRefs \subseteq Ids
BY HoldersCount, DeviceTable DEF IInv, Running, HoldersAreCounted, TypeOK, HalTypeOK, DeviceTypeOK

\* What the server thread has stored and not announced.
Announcing(id) == server.at = "announce" /\ server.id = id

LEMMA QuietStep ==
  ASSUME IInv, Running, TypeOK', SnepStages', QuietBoot', QueueKept,
         UNCHANGED <<devices, current, objects, adapterRefs, push, aborted>>,
         InSession' = InSession, Ending' = Ending, Registered' => Registered,
         \A id \in Ids : Announcing(id) => Announcing(id)'
  PROVE  IInv'
<1> USE InvFacts
<1>1. cbq' \in Seq(Callbacks)
  BY DEF TypeOK, HalTypeOK
<1>2. Counts(devices', HolderCount')
  <2>1. ASSUME NEW id \in Ids
        PROVE  HolderCount'[id] = HolderCount[id]
    <3>1. /\ Copies(cbq', Detected(id)) = Copies(cbq, Detected(id))
          /\ Copies(cbq', Received(id)) = Copies(cbq, Received(id))
      BY DEF QueueKept
    <3>2. QED
      BY <3>1 DEF HolderCount
  <2>2. QED
    BY <2>1 DEF Counts
<1>3. AdapterFollows'
  <2>1. Present' = Present
    BY DEF Present
  <2>2. QED
    BY <2>1 DEF AdapterFollows, QueueKept
<1>4. ObjectsAreHeld'
  BY DEF ObjectsAreHeld
<1>5. MessagesArrive'
  <2> SUFFICES ASSUME Registered', NEW id \in DOMAIN devices
               PROVE  /\ id \in DOMAIN objects =>
                           objects[id].shown = devices[id].message \/ OnItsWay(id)'
                      /\ DetectionIn(cbq', id) => devices[id].message = Nothing \/ OnItsWay(id)'
    BY DEF MessagesArrive
  <2>1. id \in Ids
    BY DEF Table
  <2>2. DetectionIn(cbq', id) <=> DetectionIn(cbq, id)
    BY <1>1, <2>1, QueueKeptFacts
  <2>3. OnItsWay(id) => OnItsWay(id)'
    <3>1. Queued(Received(id)) # {} => Queued(Received(id))' # {}
      BY <1>1, <2>1, QueueKeptFacts
    <3>2. QED
      BY <2>1, <3>1 DEF OnItsWay, Announcing
  <2>4. QED
    BY <2>2, <2>3 DEF MessagesArrive
<1>6. QED
  BY <1>2, <1>3, <1>4, <1>5, LiveStep

LEMMA QuietBootKept ==
  ASSUME QuietBoot, UNCHANGED <<adapterRefs, push>>, main' = "boot" => UNCHANGED halVars
  PROVE  QuietBoot'
BY DEF QuietBoot, halVars

\* SnepStages as a relation between what its variables come to.
Stages(s, sv, c, n, p) ==
  /\ s \in {"wait", "exit"} => c = "none"
  /\ s # "server" => sv = "none"
  /\ s \in {"server", "client"} => c # "none"
  /\ s = "server" => n <= IF c = "done" THEN 0 ELSE 1
  /\ s = "client" => n <= IF c = "done" THEN 1 ELSE 2
  /\ p # NoPush => p.to \in Devices
  /\ s = "wait" => n <= 1

LEMMA StagesAre == SnepStages <=> Stages(snep, server.at, client.at, Copies(snepq, Marker), push)
BY DEF SnepStages, Stages, Markers, MarkersDoNotPileUp, Copies

LEMMA StagesAreNext ==
  SnepStages' <=> Stages(snep', server'.at, client'.at, Copies(snepq', Marker), push')
BY DEF SnepStages, Stages, Markers, MarkersDoNotPileUp, Copies

LEMMA SnepKept ==
  ASSUME SnepStages, UNCHANGED <<snep, client, snepq, push>>, server'.at = server.at
  PROVE  SnepStages'
BY StagesAre, StagesAreNext

-----------------------------------------------------------------------------
(***************************************************************************)
(* Steps of the RdLib thread that no reference, no object and no           *)
(* announcement is touched by.                                             *)
(***************************************************************************)
LEMMA ReturnIsOutside ==
  ASSUME pc \in Locations, pc \in QueueLocations, NEW polling, NEW join,
         pc' = ReturnTo(pc, polling, join)
  PROVE  InSession' = InSession /\ Ending' = Ending
BY DEF Locations, QueueLocations, ReturnTo, LoopHead, InSession, Ending

LEMMA HalStepsKeep ==
  ASSUME TypeOK, QuietBoot, HalSteps, UNCHANGED deviceVars
  PROVE  /\ QueueKept /\ QuietBoot' /\ UNCHANGED main
         /\ InSession' = InSession /\ Ending' = Ending
         /\ aborted' \in {aborted, "setup"}
<1>0. UNCHANGED <<adapterRefs, push>> /\ cbq \in Seq(Callbacks) /\ pc \in Locations
  BY DEF deviceVars, tableVars, TypeOK, HalTypeOK
<1>1. CASE PopStart
  <2>1. QueueKept
    BY <1>0, <1>1, UpdatePollingKept, UnchangedQueue DEF PopStart
  <2>2. InSession' = InSession /\ Ending' = Ending
    BY <1>0, <1>1, ReturnIsOutside DEF PopStart, Popped
  <2>3. main # "boot"
    BY <1>1 DEF PopStart, Popped, QuietBoot
  <2>4. UNCHANGED main /\ aborted' \in {aborted, "setup"}
    BY <1>1 DEF PopStart
  <2>5. QED
    BY <2>1, <2>2, <2>3, <2>4 DEF QuietBoot
<1>2. CASE PopStop
  <2>1. QueueKept
    BY <1>0, <1>2, UpdatePollingKept, UnchangedQueue DEF PopStop
  <2>2. InSession' = InSession /\ Ending' = Ending
    BY <1>0, <1>2, ReturnIsOutside DEF PopStop, Popped
  <2>3. main # "boot"
    BY <1>2 DEF PopStop, Popped, QuietBoot
  <2>4. UNCHANGED main /\ aborted' = aborted
    BY <1>2 DEF PopStop
  <2>5. QED
    BY <2>1, <2>2, <2>3, <2>4 DEF QuietBoot
<1>3. CASE PopJoin
  <2>1. QueueKept
    BY <1>3, UnchangedQueue DEF PopJoin
  <2>2. InSession' = InSession /\ Ending' = Ending
    BY <1>0, <1>3, ReturnIsOutside DEF PopJoin, Popped
  <2>3. main # "boot"
    BY <1>3 DEF PopJoin, Popped, QuietBoot
  <2>4. UNCHANGED main /\ aborted' = aborted
    BY <1>3 DEF PopJoin
  <2>5. QED
    BY <2>1, <2>2, <2>3, <2>4 DEF QuietBoot
<1>4. CASE PopNothing
  <2>1. QueueKept
    BY <1>4, UnchangedQueue DEF PopNothing
  <2>2. InSession' = InSession /\ Ending' = Ending
    BY <1>0, <1>4, ReturnIsOutside DEF PopNothing
  <2>3. QuietBoot'
    BY <1>0, <1>4 DEF PopNothing, QuietBoot, ReturnTo, LoopHead
  <2>4. QED
    BY <1>4, <2>1, <2>2, <2>3 DEF PopNothing
<1>5. CASE PollNothing
  <2>1. QueueKept
    BY <1>5, UnchangedQueue DEF PollNothing
  <2>2. InSession' = InSession /\ Ending' = Ending
    BY <1>5 DEF PollNothing, InSession, Ending
  <2>3. main # "boot" /\ UNCHANGED main /\ aborted' = aborted
    BY <1>5 DEF PollNothing, QuietBoot
  <2>4. QED
    BY <2>1, <2>2, <2>3 DEF QuietBoot
<1>6. CASE LeavePolling
  <2>1. QueueKept
    BY <1>0, <1>6, UpdatePollingKept DEF LeavePolling
  <2>2. InSession' = InSession /\ Ending' = Ending
    BY <1>6 DEF LeavePolling, InSession, Ending
  <2>3. main # "boot" /\ UNCHANGED main /\ aborted' = aborted
    BY <1>6 DEF LeavePolling, QuietBoot
  <2>4. QED
    BY <2>1, <2>2, <2>3 DEF QuietBoot
<1>7. ASSUME NEW mode \in {"initiator", "target"}, EnterSession(mode, "llcp")
      PROVE  /\ QueueKept /\ QuietBoot' /\ UNCHANGED main
             /\ InSession' = InSession /\ Ending' = Ending
             /\ aborted' \in {aborted, "setup"}
  <2>1. QueueKept
    BY <1>0, <1>7, UpdateModeKept DEF EnterSession, RadioModes
  <2>2. InSession' = InSession /\ Ending' = Ending
    BY <1>7 DEF EnterSession, InSession, Ending
  <2>3. main # "boot" /\ UNCHANGED main /\ aborted' = aborted
    BY <1>7 DEF EnterSession, QuietBoot
  <2>4. QED
    BY <2>1, <2>2, <2>3 DEF QuietBoot
<1>8. CASE GoIdle
  <2>1. QueueKept
    BY <1>0, <1>8, UpdateModeKept DEF GoIdle, RadioModes
  <2>2. InSession' = InSession /\ Ending' = Ending
    BY <1>8 DEF GoIdle, InSession, Ending
  <2>3. main # "boot" /\ UNCHANGED main /\ aborted' = aborted
    BY <1>8 DEF GoIdle, QuietBoot
  <2>4. QED
    BY <2>1, <2>2, <2>3 DEF QuietBoot
<1>9. QED
  BY <1>1, <1>2, <1>3, <1>4, <1>5, <1>6, <1>7, <1>8 DEF HalSteps

LEMMA HalStepsHold ==
  ASSUME IInv, Running, HalSteps, UNCHANGED deviceVars
  PROVE  IInv'
<1>0. TypeOK /\ SnepStages /\ QuietBoot
  BY InvFacts
<1>1. UNCHANGED <<radioVars, snepVars, tableVars>>
  BY DEF deviceVars
<1>2. TypeOK'
  BY <1>0, <1>1, HalStepsType, SnepUnchanged, DeviceUnchanged DEF TypeOK
<1>3. SnepStages'
  BY <1>0, <1>1, SnepKept DEF snepVars, tableVars
<1>4. /\ QueueKept /\ QuietBoot' /\ UNCHANGED main
      /\ InSession' = InSession /\ Ending' = Ending
      /\ aborted' \in {aborted, "setup"}
  BY <1>0, HalStepsKeep
<1>5. CASE aborted' = "setup"
  BY <1>2, <1>3, <1>5, AbortStep
<1>6. CASE aborted' = aborted
  <2>1. UNCHANGED <<devices, current, objects, adapterRefs, push, server>>
    BY <1>1 DEF tableVars, snepVars
  <2>2. (Registered' => Registered) /\ \A id \in Ids : Announcing(id) => Announcing(id)'
    BY <1>4, <2>1 DEF Registered, Announcing
  <2>3. QED
    BY <1>2, <1>3, <1>4, <1>6, <2>1, <2>2, QuietStep
<1>7. QED
  BY <1>4, <1>5, <1>6

LEMMA LinkStepsHold ==
  ASSUME IInv, Running, Activate \/ LinkEnds \/ UnblockSockets
  PROVE  IInv'
<1>0. TypeOK /\ SnepStages /\ QuietBoot /\ main # "boot"
  BY InvFacts DEF Activate, LinkEnds, UnblockSockets, QuietBoot
<1>1. UNCHANGED <<cmdq, cbq, session, params, joining, main, bus, aborted, peer, tableVars,
                  snep, client, snepq, sent>>
  BY DEF Activate, LinkEnds, UnblockSockets, snepVars
<1>2. /\ pc' \in Locations /\ InSession' = InSession /\ Ending' = Ending
  BY DEF Activate, LinkEnds, UnblockSockets, Locations, InSession, Ending
<1>3. HalTypeOK'
  BY <1>0, <1>1, <1>2 DEF TypeOK, HalTypeOK
<1>4. link' \in MaybeDevice /\ event' \in BOOLEAN
  BY <1>0 DEF Activate, LinkEnds, UnblockSockets, TypeOK, DeviceTypeOK, MaybeDevice
<1>5. DeviceTypeOK'
  BY <1>0, <1>1, <1>4 DEF TypeOK, DeviceTypeOK, tableVars
<1>6. server' = server \/ server' = [server EXCEPT !.open = FALSE]
  BY DEF Activate, LinkEnds, UnblockSockets, snepVars
<1>7. SnepTypeOK' /\ server'.at = server.at /\ server'.id = server.id
  BY <1>0, <1>1, <1>6 DEF TypeOK, SnepTypeOK, Servers
<1>8. SnepStages' /\ QuietBoot' /\ QueueKept
  BY <1>0, <1>1, <1>7, SnepKept, UnchangedQueue DEF tableVars, QuietBoot
<1>9. (Registered' => Registered) /\ \A id \in Ids : Announcing(id) => Announcing(id)'
  BY <1>1, <1>7 DEF Registered, Announcing
<1>10. UNCHANGED <<devices, current, objects, adapterRefs, push, aborted>>
  BY <1>1 DEF tableVars
<1>11. TypeOK'
  BY <1>3, <1>5, <1>7 DEF TypeOK
<1>12. QED
  BY <1>2, <1>8, <1>9, <1>10, <1>11, QuietStep

-----------------------------------------------------------------------------
(***************************************************************************)
(* The SNEP threads, but for the two halves of a message's arrival.        *)
(***************************************************************************)
SnepSteps ==
  \/ StartThreads \/ JoinServer \/ JoinClient \/ WaitFails
  \/ Connected \/ Listened \/ Responded \/ ServerFails
  \/ ClientPops \/ ClientSends \/ ClientClears

LEMMA MarkerFacts ==
  /\ Marker \in SnepMessages
  /\ \A d \in Devices : Message(d) \in SnepMessages /\ Message(d) # Marker
BY DeviceAssumption DEF Marker, Message, MaybeDevice, SnepMessages

\* What the markers in pSnepQueue come to after one more or one less.
LEMMA SnepqFacts ==
  ASSUME snepq \in Seq(SnepMessages)
  PROVE  /\ Copies(snepq, Marker) \in Nat
         /\ Append(snepq, Marker) \in Seq(SnepMessages)
         /\ Copies(Append(snepq, Marker), Marker) = Copies(snepq, Marker) + 1
         /\ \A d \in Devices : /\ Append(snepq, Message(d)) \in Seq(SnepMessages)
                               /\ Copies(Append(snepq, Message(d)), Marker) = Copies(snepq, Marker)
         /\ snepq # <<>> => /\ Head(snepq) \in SnepMessages
                            /\ Tail(snepq) \in Seq(SnepMessages)
                            /\ Copies(Tail(snepq), Marker) \in Nat
                            /\ Copies(Tail(snepq), Marker) <= Copies(snepq, Marker)
         /\ Copies(<<>>, Marker) = 0
<1>1. Copies(snepq, Marker) \in Nat
  BY CopiesType
<1>2. Append(snepq, Marker) \in Seq(SnepMessages)
  BY MarkerFacts
<1>3. Copies(Append(snepq, Marker), Marker) = Copies(snepq, Marker) + 1
  BY MarkerFacts, CopiesPosted
<1>4. ASSUME NEW d \in Devices
      PROVE  /\ Append(snepq, Message(d)) \in Seq(SnepMessages)
             /\ Copies(Append(snepq, Message(d)), Marker) = Copies(snepq, Marker)
  <2>1. Message(d) \in SnepMessages /\ Message(d) # Marker
    BY MarkerFacts
  <2>2. Append(snepq, Message(d)) \in Seq(SnepMessages)
    BY <2>1
  <2>3. Copies(Append(snepq, Message(d)), Marker)
          = IF Message(d) = Marker THEN Copies(snepq, Marker) + 1 ELSE Copies(snepq, Marker)
    BY <2>1, CopiesPosted
  <2>4. QED
    BY <2>1, <2>2, <2>3
<1>5. ASSUME snepq # <<>>
      PROVE  /\ Head(snepq) \in SnepMessages
             /\ Tail(snepq) \in Seq(SnepMessages)
             /\ Copies(Tail(snepq), Marker) \in Nat
             /\ Copies(Tail(snepq), Marker) <= Copies(snepq, Marker)
  <2>1. Head(snepq) \in SnepMessages /\ Tail(snepq) \in Seq(SnepMessages)
    BY <1>5, TailAt
  <2>2. Copies(Tail(snepq), Marker) \in Nat
    BY <2>1, CopiesType
  <2>3. Copies(Tail(snepq), Marker)
          = IF Head(snepq) = Marker THEN Copies(snepq, Marker) - 1 ELSE Copies(snepq, Marker)
    BY <1>5, CopiesDispatched
  <2>4. QED
    BY <1>1, <2>1, <2>2, <2>3
<1>6. Copies(<<>>, Marker) = 0
  <2>1. <<>> \in Seq(SnepMessages) /\ DOMAIN <<>> = {}
    OBVIOUS
  <2>2. QED
    BY <2>1, CopiesType
<1>7. QED
  BY <1>1, <1>2, <1>3, <1>4, <1>5, <1>6

LEMMA ServerFacts ==
  /\ NoServer \in Servers /\ NoServer.at = "none"
  /\ Ended \in Servers /\ Ended.at = "done"
  /\ [NoServer EXCEPT !.at = "init", !.open = TRUE] \in Servers
  /\ [NoServer EXCEPT !.at = "init", !.open = TRUE].at = "init"
<1>1. Nothing \in Messages /\ 0 \in Ids
  BY DeviceAssumption DEF Messages, Ids
<1>2. NoServer \in Servers /\ NoServer.at = "none"
  BY <1>1 DEF NoServer, Servers
<1>3. Ended \in Servers /\ Ended.at = "done"
  BY <1>1 DEF Ended, NoServer, Servers
<1>4. /\ [NoServer EXCEPT !.at = "init", !.open = TRUE] \in Servers
      /\ [NoServer EXCEPT !.at = "init", !.open = TRUE].at = "init"
  BY <1>1 DEF NoServer, Servers
<1>5. QED
  BY <1>2, <1>3, <1>4

LEMMA SnepStep ==
  ASSUME IInv, Running, UNCHANGED <<halVars, tableVars, peer, link>>, event' \in BOOLEAN,
         SnepTypeOK', SnepStages', server.at # "announce" \/ UNCHANGED server
  PROVE  IInv'
<1>0. TypeOK /\ QuietBoot
  BY InvFacts
<1>1. HalTypeOK'
  BY <1>0, HalUnchanged DEF TypeOK
<1>2. DeviceTypeOK'
  BY <1>0 DEF TypeOK, DeviceTypeOK, tableVars
<1>3. TypeOK'
  BY <1>1, <1>2 DEF TypeOK
<1>4. /\ UNCHANGED <<devices, current, objects, adapterRefs, push>>
      /\ UNCHANGED <<pc, cmdq, cbq, session, joining, main, aborted>>
  BY DEF tableVars, halVars
<1>5. QuietBoot' /\ QueueKept
  BY <1>0, <1>4, UnchangedQueue DEF QuietBoot
<1>6. InSession' = InSession /\ Ending' = Ending /\ (Registered' => Registered)
  BY <1>4 DEF InSession, Ending, Registered
<1>7. \A id \in Ids : Announcing(id) => Announcing(id)'
  BY DEF Announcing
<1>8. QED
  BY <1>3, <1>4, <1>5, <1>6, <1>7, QuietStep

\* A step of the server thread that stays within a link.
LEMMA ServerMoves ==
  ASSUME IInv, Running, server.at \notin {"none", "announce"}, server' \in Servers,
         ServerStep(server.at, server'), UNCHANGED <<halVars, devices>>
  PROVE  IInv'
<1>0. TypeOK /\ SnepStages
  BY InvFacts
<1>1. UNCHANGED <<peer, link, event, snep, client, snepq, sent, current, objects, adapterRefs, push>>
  BY DEF ServerStep
<1>2. SnepTypeOK'
  BY <1>0, <1>1 DEF TypeOK, SnepTypeOK
<1>3. SnepStages'
  <2>1. Stages(snep, server.at, client.at, Copies(snepq, Marker), push)
    BY <1>0, StagesAre
  <2>2. Stages(snep, server'.at, client.at, Copies(snepq, Marker), push)
    BY <1>1, <2>1 DEF Stages
  <2>3. QED
    BY <1>1, <2>2, StagesAreNext
<1>4. event' \in BOOLEAN
  BY <1>0, <1>1 DEF TypeOK, DeviceTypeOK
<1>5. UNCHANGED <<halVars, tableVars, peer, link>>
  BY <1>1 DEF tableVars
<1>6. QED
  BY <1>1, <1>2, <1>3, <1>4, <1>5, SnepStep

\* What a PUT or an earlier one leaves in the receive buffer.
LEMMA RespondedType ==
  ASSUME TypeOK, NEW ok \in BOOLEAN,
         NEW rx \in {server.rx} \cup (IF link = NoDevice THEN {} ELSE [from : {link}, text : Texts])
  PROVE  /\ [server EXCEPT !.at = "lookup", !.rx = rx, !.more = ok] \in Servers
         /\ [server EXCEPT !.at = "listen"] \in Servers
<1>1. server \in Servers /\ link \in MaybeDevice
  BY DEF TypeOK, DeviceTypeOK, SnepTypeOK
<1>2. server.rx \in Messages
  BY <1>1 DEF Servers
<1>3. link # NoDevice => link \in Devices
  BY <1>1 DEF MaybeDevice
<1>4. rx \in Messages
  <2>1. CASE rx = server.rx
    BY <1>2, <2>1
  <2>2. CASE link # NoDevice /\ rx \in [from : {link}, text : Texts]
    BY <1>3, <2>2 DEF Messages
  <2>3. QED
    BY <2>1, <2>2
<1>5. QED
  BY <1>1, <1>4 DEF Servers

LEMMA ServerStepsHold ==
  ASSUME IInv, Running, Connected \/ Listened \/ Responded \/ ServerFails
  PROVE  IInv'
<1>0. TypeOK /\ server \in Servers
  BY InvFacts DEF TypeOK, SnepTypeOK
<1>1. /\ [server EXCEPT !.at = "listen"] \in Servers
      /\ [server EXCEPT !.at = "request"] \in Servers
  BY <1>0 DEF Servers
<1>2. CASE Connected
  BY <1>1, <1>2, ServerMoves DEF Connected, ServerStep
<1>3. CASE Listened
  BY <1>1, <1>3, ServerMoves DEF Listened, ServerStep
<1>4. CASE ServerFails
  BY <1>4, ServerFacts, ServerMoves DEF ServerFails, ServerStep
<1>5. CASE Responded
  <2>1. PICK ok \in BOOLEAN,
             rx \in {server.rx} \cup (IF link = NoDevice THEN {} ELSE [from : {link}, text : Texts]) :
          ServerStep("request",
            CASE rx # Nothing        -> [server EXCEPT !.at = "lookup", !.rx = rx, !.more = ok]
              [] rx = Nothing /\ ok  -> [server EXCEPT !.at = "listen"]
              [] rx = Nothing /\ ~ok -> Ended)
    BY <1>5 DEF Responded
  <2>2. UNCHANGED <<halVars, devices>>
    BY <1>5 DEF Responded
  <2>3. /\ [server EXCEPT !.at = "lookup", !.rx = rx, !.more = ok] \in Servers
        /\ [server EXCEPT !.at = "listen"] \in Servers
    BY <1>0, RespondedType
  <2>4. CASE rx # Nothing
    <3>1. ServerStep("request", [server EXCEPT !.at = "lookup", !.rx = rx, !.more = ok])
      BY <2>1, <2>4
    <3>2. QED
      BY <2>2, <2>3, <3>1, ServerMoves DEF ServerStep
  <2>5. CASE rx = Nothing /\ ok
    <3>1. ServerStep("request", [server EXCEPT !.at = "listen"])
      BY <2>1, <2>5
    <3>2. QED
      BY <2>2, <2>3, <3>1, ServerMoves DEF ServerStep
  <2>6. CASE rx = Nothing /\ ~ok
    <3>1. ServerStep("request", Ended)
      BY <2>1, <2>6
    <3>2. QED
      BY <2>2, <3>1, ServerFacts, ServerMoves DEF ServerStep
  <2>7. QED
    BY <2>4, <2>5, <2>6
<1>6. QED
  BY <1>2, <1>3, <1>4, <1>5

LEMMA ClientStepsHold ==
  ASSUME IInv, Running, ClientPops \/ ClientSends \/ ClientClears
  PROVE  IInv'
<1>0. /\ TypeOK /\ SnepTypeOK
      /\ Stages(snep, server.at, client.at, Copies(snepq, Marker), push)
  BY InvFacts, StagesAre DEF TypeOK
<1>1. /\ UNCHANGED <<halVars, tableVars, peer, link, event, server, snep, push>>
      /\ client.at \in {"pop", "send", "clear"}
  BY DEF ClientPops, ClientSends, ClientClears, ClientStep, radioVars, tableVars
<1>2. /\ Copies(snepq, Marker) \in Nat /\ Copies(<<>>, Marker) = 0
      /\ snepq # <<>> => /\ Head(snepq) \in SnepMessages
                         /\ Tail(snepq) \in Seq(SnepMessages)
                         /\ Copies(Tail(snepq), Marker) \in Nat
                         /\ Copies(Tail(snepq), Marker) <= Copies(snepq, Marker)
  BY <1>0, SnepqFacts DEF SnepTypeOK
<1>3. NoDevice \in MaybeDevice
  BY DEF MaybeDevice
<1>4. /\ client' \in Clients /\ client'.at \in {"send", "clear", "done"}
      /\ sent' \in [want : MaybeDevice, got : MaybeDevice]
      /\ snepq' \in Seq(SnepMessages)
      /\ Copies(snepq', Marker) \in Nat /\ Copies(snepq', Marker) <= Copies(snepq, Marker)
      /\ client'.at = "done" => Copies(snepq', Marker) = 0
  <2>1. CASE ClientPops
    <3>1. Head(snepq).to \in MaybeDevice
      BY <1>2, <2>1 DEF ClientPops, SnepMessages
    <3>2. client' \in Clients /\ client'.at \in {"send", "clear"}
      BY <2>1, <3>1 DEF ClientPops, ClientStep, Clients
    <3>3. UNCHANGED sent /\ snepq # <<>> /\ snepq' = Tail(snepq)
      BY <2>1 DEF ClientPops
    <3>4. QED
      BY <1>0, <1>2, <3>2, <3>3 DEF SnepTypeOK
  <2>2. CASE ClientSends
    <3>1. client' \in Clients /\ client'.at = "clear"
      BY <1>3, <2>2 DEF ClientSends, ClientStep, NoClient, Clients
    <3>2. sent' \in [want : MaybeDevice, got : MaybeDevice]
      <4>1. client.to \in MaybeDevice /\ link \in MaybeDevice
        BY <1>0 DEF TypeOK, DeviceTypeOK, SnepTypeOK, Clients
      <4>2. QED
        BY <1>0, <2>2, <4>1 DEF ClientSends, SnepTypeOK
    <3>3. UNCHANGED snepq
      BY <2>2 DEF ClientSends
    <3>4. QED
      BY <1>0, <1>2, <3>1, <3>2, <3>3 DEF SnepTypeOK
  <2>3. CASE ClientClears
    <3>1. client' \in Clients /\ client'.at = "done"
      BY <1>3, <2>3 DEF ClientClears, ClientStep, NoClient, Clients
    <3>2. UNCHANGED sent /\ snepq' = <<>>
      BY <2>3 DEF ClientClears
    <3>3. QED
      BY <1>0, <1>2, <3>1, <3>2 DEF SnepTypeOK
  <2>4. QED
    BY <2>1, <2>2, <2>3
<1>5. SnepTypeOK' /\ event' \in BOOLEAN
  BY <1>0, <1>1, <1>4 DEF TypeOK, SnepTypeOK, DeviceTypeOK
<1>6. SnepStages'
  <2>1. Stages(snep, server.at, client'.at, Copies(snepq', Marker), push)
    BY <1>0, <1>1, <1>2, <1>4 DEF Stages
  <2>2. QED
    BY <1>1, <2>1, StagesAreNext
<1>7. QED
  BY <1>1, <1>5, <1>6, SnepStep

LEMMA SnepThreadStepsHold ==
  ASSUME IInv, Running, StartThreads \/ JoinServer \/ JoinClient \/ WaitFails
  PROVE  IInv'
<1>0. /\ TypeOK /\ SnepTypeOK
      /\ Stages(snep, server.at, client.at, Copies(snepq, Marker), push)
  BY InvFacts, StagesAre DEF TypeOK
<1>1. UNCHANGED <<halVars, tableVars, peer, link, sent, push>>
  BY DEF StartThreads, JoinServer, JoinClient, WaitFails, radioVars, tableVars
<1>2. event' \in BOOLEAN
  BY <1>0 DEF StartThreads, JoinServer, JoinClient, WaitFails, radioVars, TypeOK, DeviceTypeOK
<1>3. /\ Copies(snepq, Marker) \in Nat
      /\ Append(snepq, Marker) \in Seq(SnepMessages)
      /\ Copies(Append(snepq, Marker), Marker) = Copies(snepq, Marker) + 1
  BY <1>0, SnepqFacts DEF SnepTypeOK
<1>4. /\ NoClient \in Clients /\ NoClient.at = "none"
      /\ [NoClient EXCEPT !.at = "pop"] \in Clients /\ [NoClient EXCEPT !.at = "pop"].at = "pop"
  BY DEF NoClient, Clients, MaybeDevice
<1>5. CASE StartThreads
  <2>1. /\ snep = "wait" /\ snep' = "server" /\ UNCHANGED snepq
        /\ server' = [NoServer EXCEPT !.at = "init", !.open = TRUE]
        /\ client' = [NoClient EXCEPT !.at = "pop"]
    BY <1>5 DEF StartThreads
  <2>2. SnepTypeOK'
    BY <1>0, <1>1, <1>4, <2>1, ServerFacts DEF SnepTypeOK
  <2>3. Stages(snep', server'.at, client'.at, Copies(snepq', Marker), push')
    BY <1>0, <1>1, <1>3, <1>4, <2>1 DEF Stages
  <2>4. server.at # "announce"
    BY <1>0, <2>1 DEF Stages
  <2>5. QED
    BY <1>1, <1>2, <2>2, <2>3, <2>4, SnepStep, StagesAreNext
<1>6. CASE JoinServer
  <2>1. /\ snep = "server" /\ snep' = "client" /\ snepq' = Append(snepq, Marker)
        /\ server.at = "done" /\ server' = NoServer /\ UNCHANGED client
    BY <1>6 DEF JoinServer
  <2>2. SnepTypeOK'
    BY <1>0, <1>1, <1>3, <2>1, ServerFacts DEF SnepTypeOK
  <2>3. Stages(snep', server'.at, client'.at, Copies(snepq', Marker), push')
    BY <1>0, <1>1, <1>3, <2>1, ServerFacts DEF Stages
  <2>4. QED
    BY <1>1, <1>2, <2>1, <2>2, <2>3, SnepStep, StagesAreNext
<1>7. CASE JoinClient
  <2>1. /\ snep = "client" /\ snep' \in {"exit", "wait"} /\ UNCHANGED <<snepq, server>>
        /\ client.at = "done" /\ client' = NoClient
    BY <1>7 DEF JoinClient
  <2>2. SnepTypeOK'
    BY <1>0, <1>1, <1>4, <2>1 DEF SnepTypeOK
  <2>3. Stages(snep', server'.at, client'.at, Copies(snepq', Marker), push')
    BY <1>0, <1>1, <1>3, <1>4, <2>1 DEF Stages
  <2>4. QED
    BY <1>1, <1>2, <2>1, <2>2, <2>3, SnepStep, StagesAreNext
<1>8. CASE WaitFails
  <2>1. snep = "wait" /\ snep' = "exit" /\ UNCHANGED <<snepq, server, client>>
    BY <1>8 DEF WaitFails
  <2>2. SnepTypeOK'
    BY <1>0, <1>1, <2>1 DEF SnepTypeOK
  <2>3. Stages(snep', server'.at, client'.at, Copies(snepq', Marker), push')
    BY <1>0, <1>1, <2>1 DEF Stages
  <2>4. QED
    BY <1>1, <1>2, <2>1, <2>2, <2>3, SnepStep, StagesAreNext
<1>9. QED
  BY <1>5, <1>6, <1>7, <1>8

-----------------------------------------------------------------------------
(***************************************************************************)
(* The main thread and the bus, where no device is concerned.              *)
(***************************************************************************)
LEMMA MainStepsHold ==
  ASSUME IInv, Running, MainSteps \/ BusAcquired \/ NameLost, UNCHANGED deviceVars
  PROVE  IInv'
<1>0. /\ TypeOK /\ SnepStages /\ QuietBoot /\ AdapterFollows /\ MessagesArrive /\ ObjectsAreHeld
      /\ aborted = "no" /\ Counts(devices, HolderCount) /\ cbq \in Seq(Callbacks)
  BY InvFacts
<1>1. UNCHANGED <<radioVars, snepVars, tableVars>>
  BY DEF deviceVars
<1>2. TypeOK'
  BY <1>0, <1>1, MainStepsType, SnepUnchanged, DeviceUnchanged DEF TypeOK
<1>3. SnepStages'
  BY <1>0, <1>1, SnepKept DEF snepVars, tableVars
<1>4. UNCHANGED <<devices, current, objects, adapterRefs, push, server>>
  BY <1>1 DEF tableVars, snepVars
<1>5. UNCHANGED <<pc, session, joining, aborted>>
  BY DEF MainSteps, DispatchMode, DispatchPolling, HalFree, ThreadJoined, StartPollLoop,
         StopPollLoop, BusAcquired, NameLost
<1>6. main' # "boot"
  <2>1. CASE DispatchMode \/ DispatchPolling
    BY <2>1 DEF DispatchMode, DispatchPolling, Dispatched
  <2>2. CASE HalFree \/ ThreadJoined \/ StartPollLoop \/ StopPollLoop \/ BusAcquired \/ NameLost
    BY <2>2 DEF HalFree, ThreadJoined, StartPollLoop, StopPollLoop, BusAcquired, NameLost,
                ClientMayAct, Registered
  <2>3. QED
    BY <2>1, <2>2 DEF MainSteps
<1>7. QueueKept
  <2>1. CASE DispatchMode \/ DispatchPolling
    <3>1. cbq # <<>> /\ Plain(Head(cbq)) /\ cbq' = Tail(cbq)
      BY <2>1 DEF DispatchMode, DispatchPolling, Dispatched, Plain
    <3>2. QED
      BY <1>0, <3>1, PlainDispatched
  <2>2. CASE HalFree \/ ThreadJoined \/ StartPollLoop \/ StopPollLoop \/ BusAcquired \/ NameLost
    BY <2>2, UnchangedQueue DEF HalFree, ThreadJoined, StartPollLoop, StopPollLoop, BusAcquired, NameLost
  <2>3. QED
    BY <2>1, <2>2 DEF MainSteps
<1>8. QuietBoot' /\ InSession' = InSession /\ Ending' = Ending
  BY <1>5, <1>6 DEF QuietBoot, InSession, Ending
<1>9. \A id \in Ids : Announcing(id) => Announcing(id)'
  BY <1>4 DEF Announcing
<1>10. CASE Registered' => Registered
  BY <1>2, <1>3, <1>4, <1>5, <1>7, <1>8, <1>9, <1>10, QuietStep
<1>11. CASE ~Registered /\ Registered'
  <2>1. BusAcquired
    <3>1. ~DispatchMode /\ ~DispatchPolling
      BY <1>11 DEF DispatchMode, DispatchPolling, Registered
    <3>2. ~HalFree /\ ~ThreadJoined /\ ~StartPollLoop /\ ~StopPollLoop /\ ~NameLost
      BY <1>11 DEF HalFree, ThreadJoined, StartPollLoop, StopPollLoop, NameLost, ClientMayAct, Registered
    <3>3. QED
      BY <3>1, <3>2 DEF MainSteps
  <2>2. pc = "wait" /\ cbq = <<>> /\ adapterRefs = {} /\ objects' = objects /\ cbq' = <<>> /\ pc' = "wait"
    BY <1>0, <1>4, <2>1 DEF BusAcquired, QuietBoot
  <2>3. DOMAIN objects' = {} /\ DOMAIN cbq' = {}
    BY <1>0, <2>2 DEF ObjectsAreHeld
  <2>4. AdapterFollows'
    <3>1. Present' = {}
      BY <2>2 DEF Present, InSession, Ending
    <3>2. InOrder(cbq', {}, {})
      BY <2>3 DEF InOrder, DetectedOnce, LostOnce, PresentAnnounced, OthersEnd, OneAtATime
    <3>3. QED
      BY <2>3, <3>1, <3>2 DEF AdapterFollows
  <2>5. MessagesArrive'
    BY <2>3 DEF MessagesArrive, DetectionIn
  <2>6. ObjectsAreHeld'
    BY <1>0, <1>4 DEF ObjectsAreHeld
  <2>7. Counts(devices', HolderCount')
    <3>1. HolderCount' = HolderCount
      BY <1>4, <2>2 DEF HolderCount, InSession
    <3>2. QED
      BY <1>0, <1>4, <3>1 DEF Counts
  <2>8. QED
    BY <1>0, <1>2, <1>3, <1>5, <1>8, <2>4, <2>5, <2>6, <2>7, LiveStep
<1>12. QED
  BY <1>10, <1>11

LEMMA PeerStepsHold ==
  ASSUME IInv, Running, PeerEnters \/ PeerLeaves
  PROVE  IInv'
<1>0. TypeOK /\ SnepStages /\ QuietBoot
  BY InvFacts
<1>1. UNCHANGED <<halVars, link, event, snepVars, tableVars>> /\ peer' \in MaybeDevice
  BY DEF PeerEnters, PeerLeaves, MaybeDevice
<1>2. TypeOK'
  <2>1. HalTypeOK' /\ SnepTypeOK'
    BY <1>0, <1>1, HalUnchanged, SnepUnchanged DEF TypeOK
  <2>2. DeviceTypeOK'
    BY <1>0, <1>1 DEF TypeOK, DeviceTypeOK, tableVars
  <2>3. QED
    BY <2>1, <2>2 DEF TypeOK
<1>3. SnepStages'
  BY <1>0, <1>1, SnepKept DEF snepVars, tableVars
<1>4. /\ UNCHANGED <<devices, current, objects, adapterRefs, push, server>>
      /\ UNCHANGED <<pc, cmdq, cbq, session, joining, main, aborted>>
  BY <1>1 DEF tableVars, snepVars, halVars
<1>5. QuietBoot' /\ QueueKept
  BY <1>0, <1>4, UnchangedQueue DEF QuietBoot
<1>6. InSession' = InSession /\ Ending' = Ending /\ (Registered' => Registered)
  BY <1>4 DEF InSession, Ending, Registered
<1>7. \A id \in Ids : Announcing(id) => Announcing(id)'
  BY <1>4 DEF Announcing
<1>8. QED
  BY <1>2, <1>3, <1>4, <1>5, <1>6, <1>7, QuietStep

-----------------------------------------------------------------------------
(***************************************************************************)
(* The steps that take and give back references.                           *)
(***************************************************************************)
\* A message on its way stays so while its callback is not dispatched.
LEMMA OnItsWayKept ==
  ASSUME cbq \in Seq(Callbacks), cbq' \in Seq(Callbacks), NEW id \in Ids,
         Copies(cbq', Received(id)) = Copies(cbq, Received(id)), UNCHANGED server
  PROVE  OnItsWay(id) => OnItsWay(id)'
<1>1. Copies(cbq, Received(id)) = 0 <=> Queued(Received(id)) = {}
  BY IsQueued DEF Queued
<1>2. Copies(cbq', Received(id)) = 0 <=> Queued(Received(id))' = {}
  BY IsQueued DEF Queued
<1>3. QED
  BY <1>1, <1>2 DEF OnItsWay

\* Entries that keep their device and their message serve the objects as before.
LEMMA EntriesKept ==
  ASSUME ObjectsAreHeld, MessagesArrive, UNCHANGED <<objects, adapterRefs>>,
         Registered' => Registered,
         \A id \in DOMAIN devices' : /\ id \in DOMAIN devices
                                     /\ devices'[id].dev = devices[id].dev
                                     /\ devices'[id].message = devices[id].message
                                     /\ DetectionIn(cbq', id) => DetectionIn(cbq, id)
                                     /\ OnItsWay(id) => OnItsWay(id)'
  PROVE  ObjectsAreHeld' /\ MessagesArrive'
<1>1. ObjectsAreHeld'
  BY DEF ObjectsAreHeld
<1>2. MessagesArrive'
  <2> SUFFICES ASSUME Registered', NEW id \in DOMAIN devices'
               PROVE  /\ id \in DOMAIN objects =>
                           objects[id].shown = devices'[id].message \/ OnItsWay(id)'
                      /\ DetectionIn(cbq', id) => devices'[id].message = Nothing \/ OnItsWay(id)'
    BY DEF MessagesArrive
  <2>1. QED
    BY DEF MessagesArrive
<1>3. QED
  BY <1>1, <1>2

\* The first half of hal_impl_device_lost finds the entry: the session holds it.
LEMMA DeviceGoneHolds ==
  ASSUME IInv, Running, DeviceGone
  PROVE  IInv'
<1>0. /\ TypeOK /\ SnepStages /\ RefsExact /\ aborted = "no"
      /\ AdapterFollows /\ ObjectsAreHeld /\ MessagesArrive
      /\ HolderCount \in [Ids -> Nat] /\ Counts(devices, HolderCount)
      /\ current \in Ids /\ Table(devices) /\ pc = "lost" /\ pc' = "gone" /\ main # "boot"
  BY InvFacts DEF DeviceGone, QuietBoot
<1>1. current \in DOMAIN devices
  BY <1>0, HeldEntries DEF InSession
<1> DEFINE t == Disconnected(devices, current)
<1>2. /\ devices' = Unref(t, current) /\ UNCHANGED aborted
      /\ UNCHANGED <<cmdq, cbq, session, params, joining, main, bus>>
      /\ UNCHANGED <<radioVars, snepVars, current, objects, adapterRefs, push>>
  BY <1>1 DEF DeviceGone
<1>3. /\ Table(t) /\ DOMAIN t = DOMAIN devices
      /\ \A i \in DOMAIN devices : t[i].dev = devices[i].dev /\ t[i].message = devices[i].message
                                     /\ t[i].refs = devices[i].refs
  BY <1>0, <1>1, DisconnectedFacts
<1> HIDE DEF t
<1>4. /\ Table(devices')
      /\ \A i \in DOMAIN devices' : i \in DOMAIN t /\ SameEntry(devices'[i], t[i])
  BY <1>1, <1>2, <1>3, UnrefFacts
<1>5. TypeOK'
  <2>1. HalTypeOK'
    BY <1>0, <1>2 DEF TypeOK, HalTypeOK, Locations
  <2>2. SnepTypeOK'
    BY <1>0, <1>2, SnepUnchanged DEF TypeOK
  <2>3. DeviceTypeOK'
    BY <1>0, <1>2, <1>4 DEF TypeOK, DeviceTypeOK, Table, radioVars
  <2>4. QED
    BY <2>1, <2>2, <2>3 DEF TypeOK
<1>6. SnepStages'
  BY <1>0, <1>2, SnepKept DEF snepVars
<1>7. Counts(devices', HolderCount')
  <2>1. ASSUME NEW i \in Ids
        PROVE  HolderCount'[i] = IF i = current THEN HolderCount[i] - 1 ELSE HolderCount[i]
    <3> DEFINE d == Copies(cbq, Detected(i))
               r == Copies(cbq, Received(i))
               a == One(i \in adapterRefs)
               p == One(push # NoPush /\ i = push.id)
    <3>1. d \in Nat /\ r \in Nat /\ a \in {0, 1} /\ p \in {0, 1}
      BY <1>0, CopiesType, OneFacts DEF TypeOK, HalTypeOK
    <3>2. HolderCount[i] = One(InSession /\ i = current) + d + r + a + p
      BY DEF HolderCount
    <3>3. HolderCount'[i] = One(InSession' /\ i = current) + d + r + a + p
      BY <1>2 DEF HolderCount
    <3> HIDE DEF d, r, a, p
    <3>4. InSession /\ ~InSession'
      BY <1>0 DEF InSession
    <3>5. QED
      BY <3>1, <3>2, <3>3, <3>4 DEF One
  <2>2. Counts(t, HolderCount)
    BY <1>0, <1>3 DEF Counts
  <2>3. QED
    BY <1>1, <1>2, <1>3, <2>1, <2>2, CountsUnref
<1>8. ObjectsAreHeld' /\ MessagesArrive'
  <2>1. \A id \in DOMAIN devices' : /\ id \in DOMAIN devices
                                    /\ devices'[id].dev = devices[id].dev
                                    /\ devices'[id].message = devices[id].message
    BY <1>3, <1>4 DEF SameEntry
  <2>2. \A id : /\ DetectionIn(cbq', id) => DetectionIn(cbq, id)
                /\ OnItsWay(id) => OnItsWay(id)'
    BY <1>2 DEF OnItsWay, Queued, snepVars
  <2>3. (Registered' => Registered) /\ UNCHANGED <<objects, adapterRefs>>
    BY <1>2 DEF Registered
  <2>4. QED
    BY <1>0, <2>1, <2>2, <2>3, EntriesKept
<1>9. AdapterFollows'
  <2>1. Present' = Present
    BY <1>0, <1>2 DEF Present, InSession, Ending
  <2>2. QED
    BY <1>0, <1>2, <2>1 DEF AdapterFollows, Registered
<1>10. QuietBoot' /\ aborted' = "no"
  BY <1>0, <1>2 DEF QuietBoot
<1>11. QED
  BY <1>5, <1>6, <1>7, <1>8, <1>9, <1>10, LiveStep

\* hal_impl_device_ndef_push takes a reference on the entry of an object ...
LEMMA PushBeginsHolds ==
  ASSUME IInv, Running, push = NoPush, NEW id \in DOMAIN objects, PushBegins(id)
  PROVE  IInv'
<1>0. /\ TypeOK /\ SnepStages /\ RefsExact /\ aborted = "no"
      /\ AdapterFollows /\ ObjectsAreHeld /\ MessagesArrive
      /\ HolderCount \in [Ids -> Nat] /\ Counts(devices, HolderCount)
      /\ cbq \in Seq(Callbacks) /\ Table(devices) /\ main = "run"
  BY InvFacts DEF PushBegins, ClientMayAct, Registered
<1>1. id \in DOMAIN devices /\ id \in Ids
  BY <1>0, HeldEntries DEF ObjectsAreHeld, TypeOK, DeviceTypeOK
<1>2. /\ push' = [id |-> id, to |-> objects[id].dev, connected |-> devices[id].connected]
      /\ devices' = Ref(devices, id) /\ UNCHANGED aborted
      /\ UNCHANGED <<pc, cmdq, cbq, session, params, joining, main, bus>>
      /\ UNCHANGED <<radioVars, snepVars, current, objects, adapterRefs>>
  BY <1>1 DEF PushBegins
<1>3. /\ Table(devices') /\ DOMAIN devices' = DOMAIN devices
      /\ \A i \in DOMAIN devices : SameEntry(devices'[i], devices[i])
  BY <1>0, <1>1, <1>2, RefFacts
<1>4. objects[id].dev \in Devices /\ devices[id].connected \in BOOLEAN
  BY <1>0, <1>1 DEF TypeOK, DeviceTypeOK, Table, Entries
<1>5. /\ push' \in [id : Ids, to : MaybeDevice, connected : BOOLEAN]
      /\ push'.to \in Devices /\ push'.id = id /\ push' # NoPush
  BY <1>1, <1>2, <1>4, DeviceAssumption DEF MaybeDevice, NoPush
<1>6. TypeOK'
  <2>1. HalTypeOK'
    BY <1>0, <1>2 DEF TypeOK, HalTypeOK
  <2>2. SnepTypeOK'
    BY <1>0, <1>2, SnepUnchanged DEF TypeOK
  <2>3. DeviceTypeOK'
    BY <1>0, <1>2, <1>3, <1>5 DEF TypeOK, DeviceTypeOK, Table, radioVars
  <2>4. QED
    BY <2>1, <2>2, <2>3 DEF TypeOK
<1>7. SnepStages'
  <2>1. UNCHANGED <<snep, server, client, snepq>>
    BY <1>2 DEF snepVars
  <2>2. Stages(snep, server.at, client.at, Copies(snepq, Marker), push)
    BY <1>0, StagesAre
  <2>3. Stages(snep', server'.at, client'.at, Copies(snepq', Marker), push')
    BY <1>5, <2>1, <2>2 DEF Stages
  <2>4. QED
    BY <2>3, StagesAreNext
<1>8. Counts(devices', HolderCount')
  <2>1. ASSUME NEW i \in Ids
        PROVE  HolderCount'[i] = IF i = id THEN HolderCount[i] + 1 ELSE HolderCount[i]
    <3> DEFINE s == One(InSession /\ i = current)
               d == Copies(cbq, Detected(i))
               r == Copies(cbq, Received(i))
               a == One(i \in adapterRefs)
    <3>1. s \in {0, 1} /\ d \in Nat /\ r \in Nat /\ a \in {0, 1}
      BY <1>0, CopiesType, OneFacts
    <3>2. HolderCount[i] = s + d + r + a + One(push # NoPush /\ i = push.id)
      BY DEF HolderCount
    <3>3. HolderCount'[i] = s + d + r + a + One(push' # NoPush /\ i = push'.id)
      BY <1>2 DEF HolderCount, InSession
    <3> HIDE DEF s, d, r, a
    <3>4. QED
      BY <1>5, <3>1, <3>2, <3>3 DEF One
  <2>2. QED
    BY <1>0, <1>1, <1>2, <2>1, CountsRef
<1>9. ObjectsAreHeld' /\ MessagesArrive'
  <2>1. \A o \in DOMAIN devices' : /\ o \in DOMAIN devices
                                   /\ devices'[o].dev = devices[o].dev
                                   /\ devices'[o].message = devices[o].message
    BY <1>3 DEF SameEntry
  <2>2. \A o : /\ DetectionIn(cbq', o) => DetectionIn(cbq, o)
               /\ OnItsWay(o) => OnItsWay(o)'
    BY <1>2 DEF OnItsWay, Queued, snepVars
  <2>3. (Registered' => Registered) /\ UNCHANGED <<objects, adapterRefs>>
    BY <1>2 DEF Registered
  <2>4. QED
    BY <1>0, <2>1, <2>2, <2>3, EntriesKept
<1>10. AdapterFollows'
  BY <1>0, <1>2 DEF AdapterFollows, Registered, Present, InSession, Ending
<1>11. QuietBoot' /\ aborted' = "no"
  BY <1>0, <1>2 DEF QuietBoot
<1>12. QED
  BY <1>6, <1>7, <1>8, <1>9, <1>10, <1>11, LiveStep

\* ... so that it is still there when the reference is given back.
LEMMA PushEndsHolds ==
  ASSUME IInv, Running, PushEnds
  PROVE  IInv'
<1>0. /\ TypeOK /\ SnepStages /\ RefsExact /\ aborted = "no"
      /\ AdapterFollows /\ ObjectsAreHeld /\ MessagesArrive
      /\ HolderCount \in [Ids -> Nat] /\ Counts(devices, HolderCount)
      /\ cbq \in Seq(Callbacks) /\ Table(devices) /\ push # NoPush /\ main # "boot"
  BY InvFacts DEF PushEnds, QuietBoot
<1>1. push.id \in DOMAIN devices /\ push.id \in Ids
  BY <1>0, HeldEntries DEF TypeOK, DeviceTypeOK
<1>2. /\ push' = NoPush /\ devices' = Unref(devices, push.id) /\ UNCHANGED aborted
      /\ snepq' = IF push.connected THEN Append(snepq, Message(push.to)) ELSE snepq
      /\ UNCHANGED <<pc, cmdq, cbq, session, params, joining, main, bus>>
      /\ UNCHANGED <<radioVars, snep, server, client, sent, current, objects, adapterRefs>>
  BY <1>1 DEF PushEnds
<1>3. /\ Table(devices')
      /\ \A i \in DOMAIN devices' : i \in DOMAIN devices /\ SameEntry(devices'[i], devices[i])
  BY <1>0, <1>1, <1>2, UnrefFacts
<1>4. Stages(snep, server.at, client.at, Copies(snepq, Marker), push) /\ push.to \in Devices
  BY <1>0, StagesAre DEF Stages
<1>5. snepq' \in Seq(SnepMessages) /\ Copies(snepq', Marker) = Copies(snepq, Marker)
  <2>1. snepq \in Seq(SnepMessages)
    BY <1>0 DEF TypeOK, SnepTypeOK
  <2>2. /\ Append(snepq, Message(push.to)) \in Seq(SnepMessages)
        /\ Copies(Append(snepq, Message(push.to)), Marker) = Copies(snepq, Marker)
    BY <1>4, <2>1, SnepqFacts
  <2>3. QED
    BY <1>2, <2>1, <2>2
<1>6. TypeOK'
  <2>1. HalTypeOK'
    BY <1>0, <1>2 DEF TypeOK, HalTypeOK
  <2>2. SnepTypeOK'
    BY <1>0, <1>2, <1>5 DEF TypeOK, SnepTypeOK
  <2>3. NoPush \in [id : Ids, to : MaybeDevice, connected : BOOLEAN]
    BY DeviceAssumption DEF NoPush, Ids, MaybeDevice
  <2>4. DeviceTypeOK'
    BY <1>0, <1>2, <1>3, <2>3 DEF TypeOK, DeviceTypeOK, Table, radioVars
  <2>5. QED
    BY <2>1, <2>2, <2>4 DEF TypeOK
<1>7. SnepStages'
  <2>1. Stages(snep', server'.at, client'.at, Copies(snepq', Marker), push')
    BY <1>2, <1>4, <1>5 DEF Stages
  <2>2. QED
    BY <2>1, StagesAreNext
<1>8. Counts(devices', HolderCount')
  <2>1. ASSUME NEW i \in Ids
        PROVE  HolderCount'[i] = IF i = push.id THEN HolderCount[i] - 1 ELSE HolderCount[i]
    <3> DEFINE s == One(InSession /\ i = current)
               d == Copies(cbq, Detected(i))
               r == Copies(cbq, Received(i))
               a == One(i \in adapterRefs)
    <3>1. s \in {0, 1} /\ d \in Nat /\ r \in Nat /\ a \in {0, 1}
      BY <1>0, CopiesType, OneFacts
    <3>2. HolderCount[i] = s + d + r + a + One(push # NoPush /\ i = push.id)
      BY DEF HolderCount
    <3>3. HolderCount'[i] = s + d + r + a + One(push' # NoPush /\ i = push'.id)
      BY <1>2 DEF HolderCount, InSession
    <3> HIDE DEF s, d, r, a
    <3>4. push' = NoPush
      BY <1>2
    <3>5. QED
      BY <1>0, <3>1, <3>2, <3>3, <3>4 DEF One
  <2>2. QED
    BY <1>0, <1>1, <1>2, <2>1, CountsUnref
<1>9. ObjectsAreHeld' /\ MessagesArrive'
  <2>1. \A o \in DOMAIN devices' : /\ o \in DOMAIN devices
                                   /\ devices'[o].dev = devices[o].dev
                                   /\ devices'[o].message = devices[o].message
    BY <1>3 DEF SameEntry
  <2>2. \A o : /\ DetectionIn(cbq', o) => DetectionIn(cbq, o)
               /\ OnItsWay(o) => OnItsWay(o)'
    BY <1>2 DEF OnItsWay, Queued
  <2>3. (Registered' => Registered) /\ UNCHANGED <<objects, adapterRefs>>
    BY <1>2 DEF Registered
  <2>4. QED
    BY <1>0, <2>1, <2>2, <2>3, EntriesKept
<1>10. AdapterFollows'
  BY <1>0, <1>2 DEF AdapterFollows, Registered, Present, InSession, Ending
<1>11. QuietBoot' /\ aborted' = "no"
  BY <1>0, <1>2 DEF QuietBoot
<1>12. QED
  BY <1>6, <1>7, <1>8, <1>9, <1>10, <1>11, LiveStep

-----------------------------------------------------------------------------
(***************************************************************************)
(* The steps that put an announcement in the queue.                        *)
(***************************************************************************)
LEMMA PostedCopies ==
  ASSUME cbq \in Seq(Callbacks), NEW cb \in Callbacks, cbq' = Posted(cb), NEW c
  PROVE  /\ Copies(cbq, c) \in Nat
         /\ Copies(cbq', c) = IF main # "join" /\ cb = c THEN Copies(cbq, c) + 1 ELSE Copies(cbq, c)
BY CopiesType, CopiesPosted DEF Posted

\* An id that nobody holds is free.
LEMMA FreeIds ==
  ASSUME IInv, Running, NEW id \in Ids, id \notin DOMAIN devices
  PROVE  /\ HolderCount[id] = 0 /\ id \notin adapterRefs /\ id \notin DOMAIN objects
         /\ ~DetectionIn(cbq, id) /\ Queued(Received(id)) = {}
<1>1. TypeOK /\ RefsExact /\ ObjectsAreHeld /\ Counts(devices, HolderCount)
  BY InvFacts
<1>2. HolderCount[id] = 0
  BY <1>1 DEF Counts
<1>3. QED
  BY <1>1, <1>2, HeldEntries DEF ObjectsAreHeld

LEMMA NewEntryFacts ==
  ASSUME NEW d \in Devices
  PROVE  /\ NewEntry(d) \in Entries /\ NewEntry(d).dev = d /\ NewEntry(d).message = Nothing
         /\ NewEntry(d).refs = IF main = "join" THEN 1 ELSE 2
BY DEF NewEntry, Entries, Messages

\* hal_impl_device_detected: the entry is made with a reference for the session
\* and one for the callback.
LEMMA PollDeviceHolds ==
  ASSUME IInv, Running, PollDevice
  PROVE  IInv'
<1>0. /\ TypeOK /\ SnepStages /\ aborted = "no" /\ pc = "poll" /\ pc' = "leave" /\ main # "boot"
      /\ AdapterFollows /\ ObjectsAreHeld /\ MessagesArrive
      /\ HolderCount \in [Ids -> Nat] /\ Counts(devices, HolderCount)
      /\ cbq \in Seq(Callbacks) /\ Table(devices) /\ peer \in Devices
  BY InvFacts DEF PollDevice, QuietBoot, TypeOK, DeviceTypeOK, MaybeDevice
<1>1. PICK id \in Ids : /\ FirstFree(id) /\ current' = id
                        /\ devices' = With(devices, id, NewEntry(peer))
                        /\ cbq' = Posted(Detected(id))
  BY DEF PollDevice
<1>2. /\ session' = [session EXCEPT !.present = TRUE]
      /\ UNCHANGED <<cmdq, params, joining, main, bus, aborted>>
      /\ UNCHANGED <<radioVars, snepVars, objects, adapterRefs, push>>
  BY DEF PollDevice
<1>3. /\ id \notin DOMAIN devices /\ HolderCount[id] = 0 /\ id \notin adapterRefs
      /\ id \notin DOMAIN objects /\ ~DetectionIn(cbq, id)
  BY <1>1, FreeIds DEF FirstFree
<1>4. /\ Table(devices') /\ DOMAIN devices' = DOMAIN devices \cup {id}
      /\ devices'[id] = NewEntry(peer)
      /\ \A i \in DOMAIN devices : i # id => devices'[i] = devices[i]
  <2>1. NewEntry(peer) \in Entries
    BY <1>0, NewEntryFacts
  <2> DEFINE entry == NewEntry(peer)
  <2> HIDE DEF entry
  <2>2. entry \in Entries /\ devices' = With(devices, id, entry)
    BY <1>1, <2>1 DEF entry
  <2>3. /\ Table(devices') /\ DOMAIN devices' = DOMAIN devices \cup {id}
        /\ devices'[id] = entry
        /\ \A i \in DOMAIN devices : i # id => devices'[i] = devices[i]
    <3> DEFINE table == With(devices, id, entry)
    <3>1. /\ Table(table) /\ DOMAIN table = DOMAIN devices \cup {id}
          /\ table[id] = entry
          /\ \A i \in DOMAIN devices : i # id => table[i] = devices[i]
      BY <1>0, <2>2, WithFacts
    <3> HIDE DEF table
    <3>2. devices' = table
      BY <2>2 DEF table
    <3>3. QED
      BY <3>1, <3>2
  <2>4. QED
    BY <2>3 DEF entry
<1>5. Detected(id) \in Callbacks /\ Detects(Detected(id), id)
  BY CallbackFacts
<1>6. cbq' \in Seq(Callbacks)
  BY <1>0, <1>1, <1>5, PostedType
<1>7. TypeOK'
  <2>1. session' \in [polling : BOOLEAN, present : BOOLEAN]
    BY <1>0, <1>2 DEF TypeOK, HalTypeOK
  <2>2. HalTypeOK'
    BY <1>0, <1>2, <1>6, <2>1 DEF TypeOK, HalTypeOK, Locations
  <2>3. SnepTypeOK'
    BY <1>0, <1>2, SnepUnchanged DEF TypeOK
  <2>4. DeviceTypeOK'
    BY <1>0, <1>1, <1>2, <1>4 DEF TypeOK, DeviceTypeOK, Table, radioVars
  <2>5. QED
    BY <2>2, <2>3, <2>4 DEF TypeOK
<1>8. SnepStages'
  BY <1>0, <1>2, SnepKept DEF snepVars
<1>9. Counts(devices', HolderCount')
  <2>1. ASSUME NEW i \in Ids
        PROVE  HolderCount'[i] = IF i = id THEN (IF main = "join" THEN 1 ELSE 2) ELSE HolderCount[i]
    <3> DEFINE d == Copies(cbq, Detected(i))
               e == Copies(cbq', Detected(i))
               r == Copies(cbq, Received(i))
               a == One(i \in adapterRefs)
               p == One(push # NoPush /\ i = push.id)
    <3>1. d \in Nat /\ r \in Nat /\ a \in {0, 1} /\ p \in {0, 1}
      BY <1>0, CopiesType, OneFacts
    <3>2. e = IF main # "join" /\ i = id THEN d + 1 ELSE d
      BY <1>0, <1>1, <1>5, PostedCopies, CarriedIds
    <3>3. Copies(cbq', Received(i)) = r
      BY <1>0, <1>1, <1>5, PostedCopies, CarriedIds
    <3>4. HolderCount[i] = One(InSession /\ i = current) + d + r + a + p
      BY DEF HolderCount
    <3>5. HolderCount'[i] = One(InSession' /\ i = id) + e + r + a + p
      BY <1>1, <1>2, <3>3 DEF HolderCount
    <3> HIDE DEF d, e, r, a, p
    <3>6. One(InSession /\ i = current) = 0 /\ InSession'
      BY <1>0 DEF InSession, One
    <3>7. CASE i = id
      <4>0. HolderCount[i] = 0
        BY <1>3, <3>7
      <4>1. d = 0 /\ r = 0 /\ a = 0 /\ p = 0
        <5>1. 0 = 0 + d + r + a + p
          BY <3>4, <3>6, <4>0
        <5>2. QED
          BY <3>1, <5>1
      <4>2. One(InSession' /\ i = id) = 1
        BY <3>6, <3>7 DEF One
      <4>3. QED
        BY <3>2, <3>5, <3>7, <4>1, <4>2
    <3>8. CASE i # id
      <4>1. One(InSession' /\ i = id) = 0
        BY <3>8 DEF One
      <4>2. QED
        BY <3>1, <3>2, <3>4, <3>5, <3>6, <3>8, <4>1
    <3>9. QED
      BY <3>7, <3>8
  <2>2. NewEntry(peer).refs = IF main = "join" THEN 1 ELSE 2
    BY <1>0, NewEntryFacts
  <2>3. QED
    BY <1>0, <1>4, <2>1, <2>2 DEF Counts
<1>10. ObjectsAreHeld'
  BY <1>0, <1>2, <1>3, <1>4 DEF ObjectsAreHeld
<1>11. AdapterFollows'
  <2> SUFFICES ASSUME Registered
               PROVE  InOrder(cbq', DOMAIN objects, {id})
    BY <1>0, <1>1, <1>2 DEF AdapterFollows, Registered, Present, InSession
  <2>1. InOrder(cbq, DOMAIN objects, {})
    BY <1>0 DEF AdapterFollows, Present, InSession, Ending
  <2>2. cbq' = Append(cbq, Detected(id))
    BY <1>1 DEF Posted, Registered
  <2>3. QED
    BY <1>0, <1>3, <1>5, <2>1, <2>2, DetectionPosted
<1>12. MessagesArrive'
  <2> SUFFICES ASSUME Registered, NEW i \in DOMAIN devices'
               PROVE  /\ i \in DOMAIN objects =>
                           objects[i].shown = devices'[i].message \/ OnItsWay(i)'
                      /\ DetectionIn(cbq', i) => devices'[i].message = Nothing \/ OnItsWay(i)'
    BY <1>2 DEF MessagesArrive, Registered
  <2>1. i \in Ids
    BY <1>4 DEF Table
  <2>2. CASE i = id
    BY <1>0, <1>3, <1>4, <2>2, NewEntryFacts
  <2>3. CASE i # id
    <3>1. i \in DOMAIN devices /\ devices'[i] = devices[i]
      BY <1>4, <2>3
    <3>2. Copies(cbq', Detected(i)) = Copies(cbq, Detected(i))
      BY <1>0, <1>1, <1>5, <2>3, PostedCopies, CarriedIds
    <3>3. Copies(cbq', Received(i)) = Copies(cbq, Received(i))
      BY <1>0, <1>1, <1>5, PostedCopies, CarriedIds
    <3>4. DetectionIn(cbq', i) => DetectionIn(cbq, i)
      BY <1>0, <1>6, <2>1, <3>2, IsQueued
    <3>5. OnItsWay(i) => OnItsWay(i)'
      BY <1>0, <1>2, <1>6, <3>3, IsQueued DEF OnItsWay, Queued, snepVars
    <3>6. QED
      BY <1>0, <3>1, <3>4, <3>5 DEF MessagesArrive
  <2>4. QED
    BY <2>2, <2>3
<1>13. QuietBoot' /\ aborted' = "no"
  BY <1>0, <1>2 DEF QuietBoot
<1>14. QED
  BY <1>7, <1>8, <1>9, <1>10, <1>11, <1>12, <1>13, LiveStep

\* The end of hal_impl_device_lost: the loss travels without a reference.
LEMMA NotifyLostHolds ==
  ASSUME IInv, Running, NotifyLost(LostCb(current)), UNCHANGED deviceVars
  PROVE  IInv'
<1>0. /\ TypeOK /\ SnepStages /\ aborted = "no" /\ pc = "notify" /\ pc' = "drain" /\ main # "boot"
      /\ AdapterFollows /\ ObjectsAreHeld /\ MessagesArrive
      /\ Counts(devices, HolderCount)
      /\ cbq \in Seq(Callbacks) /\ current \in Ids
      /\ cbq' = Posted(LostCb(current))
      /\ UNCHANGED <<cmdq, params, joining, main, bus, aborted>>
  BY InvFacts DEF NotifyLost, QuietBoot
<1>1. UNCHANGED <<radioVars, snepVars, tableVars>>
  BY DEF deviceVars
<1>2. TypeOK'
  BY <1>0, <1>1, NotifyLostType, SnepUnchanged, DeviceUnchanged DEF TypeOK
<1>3. UNCHANGED <<devices, current, objects, adapterRefs, push, server>>
  BY <1>1 DEF tableVars, snepVars
<1>4. SnepStages'
  BY <1>0, <1>1, SnepKept DEF snepVars, tableVars
<1>5. /\ LostCb(current) \in Callbacks /\ Loses(LostCb(current), current)
      /\ cbq' \in Seq(Callbacks)
  BY <1>0, <1>2, CallbackFacts DEF TypeOK, HalTypeOK
<1>6. \A i \in Ids : /\ Copies(cbq', Detected(i)) = Copies(cbq, Detected(i))
                     /\ Copies(cbq', Received(i)) = Copies(cbq, Received(i))
  BY <1>0, <1>5, PostedCopies, CarriedIds
<1>7. Counts(devices', HolderCount')
  <2>1. ~InSession /\ ~InSession'
    BY <1>0 DEF InSession
  <2>2. \A i \in Ids : HolderCount'[i] = HolderCount[i]
    BY <1>3, <1>6, <2>1 DEF HolderCount, One
  <2>3. QED
    BY <1>0, <1>3, <2>2 DEF Counts
<1>8. ObjectsAreHeld' /\ MessagesArrive'
  <2>1. ASSUME NEW id \in DOMAIN devices
        PROVE  /\ DetectionIn(cbq', id) => DetectionIn(cbq, id)
               /\ OnItsWay(id) => OnItsWay(id)'
    <3>1. id \in Ids
      BY <1>0 DEF TypeOK, DeviceTypeOK
    <3>2. DetectionIn(cbq', id) => DetectionIn(cbq, id)
      BY <1>0, <1>5, <1>6, <3>1, IsQueued
    <3>3. OnItsWay(id) => OnItsWay(id)'
      BY <1>0, <1>3, <1>5, <1>6, <3>1, IsQueued DEF OnItsWay, Queued
    <3>4. QED
      BY <3>2, <3>3
  <2>2. Registered' => Registered
    BY <1>0 DEF Registered
  <2>3. QED
    BY <1>0, <1>3, <2>1, <2>2, EntriesKept
<1>9. AdapterFollows'
  <2> SUFFICES ASSUME Registered
               PROVE  InOrder(cbq', DOMAIN objects, {})
    BY <1>0, <1>3 DEF AdapterFollows, Registered, Present, InSession, Ending
  <2>1. InOrder(cbq, DOMAIN objects, {current})
    BY <1>0 DEF AdapterFollows, Present, Ending
  <2>2. cbq' = Append(cbq, LostCb(current))
    BY <1>0 DEF Posted, Registered
  <2>3. QED
    BY <1>0, <1>5, <2>1, <2>2, LossPosted
<1>10. QuietBoot' /\ aborted' = "no"
  BY <1>0 DEF QuietBoot
<1>11. QED
  BY <1>2, <1>4, <1>7, <1>8, <1>9, <1>10, LiveStep

-----------------------------------------------------------------------------
(***************************************************************************)
(* The two halves of a message's arrival.                                  *)
(***************************************************************************)
LEMMA ServerStages ==
  ASSUME SnepStages, server.at # "none", UNCHANGED <<snep, client, snepq, push>>
  PROVE  SnepStages'
<1>1. Stages(snep, server.at, client.at, Copies(snepq, Marker), push)
  BY StagesAre
<1>2. Stages(snep, server'.at, client.at, Copies(snepq, Marker), push)
  BY <1>1 DEF Stages
<1>3. QED
  BY <1>2, StagesAreNext

\* hal_impl_snep_ndef_received_cb: the entry is found ...
LEMMA FindEntryHolds ==
  ASSUME IInv, Running, FindEntry
  PROVE  IInv'
<1>0. /\ TypeOK /\ SnepStages /\ aborted = "no" /\ QuietBoot
      /\ AdapterFollows /\ ObjectsAreHeld /\ MessagesArrive
      /\ Counts(devices, HolderCount) /\ current \in Ids /\ Table(devices)
  BY InvFacts
<1>1. /\ server.at = "lookup" /\ server' = [server EXCEPT !.at = "store", !.id = current]
      /\ UNCHANGED <<peer, link, event, snep, client, snepq, sent, current, objects, adapterRefs, push>>
      /\ UNCHANGED <<pc, cmdq, cbq, session, params, joining, main, bus>>
  BY DEF FindEntry, ServerStep
<1>2. server' \in Servers
  BY <1>0, <1>1 DEF TypeOK, SnepTypeOK, Servers
<1>3. SnepTypeOK' /\ SnepStages'
  BY <1>0, <1>1, <1>2, ServerStages DEF TypeOK, SnepTypeOK
<1>4. CASE current \notin DOMAIN devices
  <2>1. aborted' = "received" /\ UNCHANGED devices
    BY <1>4 DEF FindEntry
  <2>2. TypeOK'
    BY <1>0, <1>1, <1>3, <2>1 DEF TypeOK, HalTypeOK, DeviceTypeOK
  <2>3. QED
    BY <1>3, <2>1, <2>2, AbortStep
<1>5. CASE current \in DOMAIN devices
  <2>1. devices' = Found(devices, current) /\ UNCHANGED aborted
    BY <1>5 DEF FindEntry, Found
  <2>2. /\ Table(devices') /\ DOMAIN devices' = DOMAIN devices
        /\ \A i \in DOMAIN devices : /\ SameEntry(devices'[i], devices[i])
                                     /\ devices'[i].refs = devices[i].refs
    BY <1>0, <1>5, <2>1, FoundFacts
  <2>3. TypeOK'
    <3>1. HalTypeOK'
      BY <1>0, <1>1, <2>1 DEF TypeOK, HalTypeOK
    <3>2. DeviceTypeOK'
      BY <1>0, <1>1, <2>2 DEF TypeOK, DeviceTypeOK, Table
    <3>3. QED
      BY <1>3, <3>1, <3>2 DEF TypeOK
  <2>4. Counts(devices', HolderCount')
    <3>1. HolderCount' = HolderCount
      BY <1>1 DEF HolderCount, InSession
    <3>2. QED
      BY <1>0, <2>2, <3>1 DEF Counts
  <2>5. ObjectsAreHeld'
    BY <1>0, <1>1, <2>2 DEF ObjectsAreHeld, SameEntry
  <2>6. MessagesArrive'
    <3>1. \A i \in DOMAIN devices : OnItsWay(i) => OnItsWay(i)'
      BY <1>1 DEF OnItsWay, Queued
    <3>2. \A i \in DOMAIN devices : devices'[i].message = devices[i].message
      BY <2>2 DEF SameEntry
    <3>3. QED
      BY <1>0, <1>1, <2>2, <3>1, <3>2 DEF MessagesArrive, Registered
  <2>7. AdapterFollows'
    BY <1>0, <1>1 DEF AdapterFollows, Registered, Present, InSession, Ending
  <2>8. QuietBoot' /\ aborted' = "no"
    BY <1>0, <1>1, <2>1 DEF QuietBoot
  <2>9. QED
    BY <1>3, <2>3, <2>4, <2>5, <2>6, <2>7, <2>8, LiveStep
<1>6. QED
  BY <1>4, <1>5

\* ... its message changes, and the server is about to announce it.
LEMMA StoreHolds ==
  ASSUME IInv, Running, Store
  PROVE  IInv'
<1>0. /\ TypeOK /\ SnepStages /\ aborted = "no" /\ QuietBoot
      /\ AdapterFollows /\ ObjectsAreHeld /\ MessagesArrive
      /\ Counts(devices, HolderCount) /\ current \in Ids /\ Table(devices)
  BY InvFacts
<1>1. /\ server.at = "store" /\ server' = [server EXCEPT !.at = "announce"]
      /\ UNCHANGED <<peer, link, event, snep, client, snepq, sent, current, objects, adapterRefs, push>>
      /\ UNCHANGED <<pc, cmdq, cbq, session, params, joining, main, bus>>
  BY DEF Store, ServerStep
<1>2. server \in Servers /\ server.rx \in Messages /\ server.id \in Ids
  BY <1>0 DEF TypeOK, SnepTypeOK, Servers
<1>3. server' \in Servers /\ server'.at = "announce" /\ server'.id = server.id
  BY <1>0, <1>1, <1>2 DEF Servers
<1>4. SnepTypeOK' /\ SnepStages'
  BY <1>0, <1>1, <1>3, ServerStages DEF TypeOK, SnepTypeOK
<1>5. CASE ~EntryIsThere
  <2>1. aborted' = "freed" /\ UNCHANGED devices
    BY <1>5 DEF Store
  <2>2. TypeOK'
    BY <1>0, <1>1, <1>4, <2>1 DEF TypeOK, HalTypeOK, DeviceTypeOK
  <2>3. QED
    BY <1>4, <2>1, <2>2, AbortStep
<1>6. CASE EntryIsThere
  <2>0. server.id \in DOMAIN devices
    BY <1>6 DEF EntryIsThere
  <2>1. devices' = Stored(devices, server.id, server.rx) /\ UNCHANGED aborted
    BY <1>6 DEF Store, Stored
  <2>2. /\ Table(devices') /\ DOMAIN devices' = DOMAIN devices
        /\ \A i \in DOMAIN devices : /\ devices'[i].dev = devices[i].dev
                                     /\ devices'[i].refs = devices[i].refs
                                     /\ i # server.id => devices'[i] = devices[i]
    BY <1>0, <1>2, <2>0, <2>1, StoredFacts
  <2>3. TypeOK'
    <3>1. HalTypeOK'
      BY <1>0, <1>1, <2>1 DEF TypeOK, HalTypeOK
    <3>2. DeviceTypeOK'
      BY <1>0, <1>1, <2>2 DEF TypeOK, DeviceTypeOK, Table
    <3>3. QED
      BY <1>4, <3>1, <3>2 DEF TypeOK
  <2>4. Counts(devices', HolderCount')
    <3>1. HolderCount' = HolderCount
      BY <1>1 DEF HolderCount, InSession
    <3>2. QED
      BY <1>0, <2>2, <3>1 DEF Counts
  <2>5. ObjectsAreHeld'
    BY <1>0, <1>1, <2>2 DEF ObjectsAreHeld
  <2>6. MessagesArrive'
    <3> SUFFICES ASSUME Registered, NEW i \in DOMAIN devices
                 PROVE  /\ i \in DOMAIN objects =>
                             objects[i].shown = devices'[i].message \/ OnItsWay(i)'
                        /\ DetectionIn(cbq, i) => devices'[i].message = Nothing \/ OnItsWay(i)'
      BY <1>1, <2>2 DEF MessagesArrive, Registered
    <3>1. CASE i = server.id
      BY <1>3, <3>1 DEF OnItsWay
    <3>2. CASE i # server.id
      <4>1. OnItsWay(i) => OnItsWay(i)'
        BY <1>1 DEF OnItsWay, Queued
      <4>2. devices'[i] = devices[i]
        BY <2>2, <3>2
      <4>3. QED
        BY <1>0, <4>1, <4>2 DEF MessagesArrive
    <3>3. QED
      BY <3>1, <3>2
  <2>7. AdapterFollows'
    BY <1>0, <1>1 DEF AdapterFollows, Registered, Present, InSession, Ending
  <2>8. QuietBoot' /\ aborted' = "no"
    BY <1>0, <1>1, <2>1 DEF QuietBoot
  <2>9. QED
    BY <1>4, <2>3, <2>4, <2>5, <2>6, <2>7, <2>8, LiveStep
<1>7. QED
  BY <1>5, <1>6

\* Before the bus is acquired the table is empty.
LEMMA BootTable ==
  ASSUME IInv, Running, main = "boot"
  PROVE  DOMAIN devices = {}
<1>0. /\ TypeOK /\ QuietBoot /\ Counts(devices, HolderCount) /\ Table(devices)
  BY InvFacts
<1>1. pc = "wait" /\ cbq = <<>> /\ adapterRefs = {} /\ push = NoPush
  BY <1>0 DEF QuietBoot
<1>2. ASSUME NEW id \in DOMAIN devices
      PROVE  FALSE
  <2>1. id \in Ids /\ devices[id].refs \in Nat \ {0} /\ devices[id].refs = HolderCount[id]
    BY <1>0 DEF Table, Entries, Counts
  <2>2. Copies(cbq, Detected(id)) = 0 /\ Copies(cbq, Received(id)) = 0
    <3>1. cbq \in Seq(Callbacks)
      BY InvFacts
    <3>2. DOMAIN cbq = {}
      BY <1>1
    <3>3. QED
      BY <3>1, <3>2, CopiesType
  <2>3. /\ One(InSession /\ id = current) = 0 /\ One(id \in adapterRefs) = 0
        /\ One(push # NoPush /\ id = push.id) = 0
    BY <1>1 DEF One, InSession
  <2>4. HolderCount[id] = 0
    BY <2>1, <2>2, <2>3 DEF HolderCount
  <2>5. QED
    BY <2>1, <2>4
<1>3. QED
  BY <1>2

\* The message is announced with a reference for the callback.
LEMMA AnnounceHolds ==
  ASSUME IInv, Running, Announce
  PROVE  IInv'
<1>0. /\ TypeOK /\ SnepStages /\ aborted = "no" /\ QuietBoot
      /\ AdapterFollows /\ ObjectsAreHeld /\ MessagesArrive
      /\ HolderCount \in [Ids -> Nat] /\ Counts(devices, HolderCount)
      /\ Table(devices) /\ cbq \in Seq(Callbacks)
  BY InvFacts
<1>1. /\ server.at = "announce"
      /\ server' = IF server.more THEN [server EXCEPT !.at = "listen", !.id = 0, !.more = FALSE] ELSE Ended
      /\ UNCHANGED <<peer, link, event, snep, client, snepq, sent, current, objects, adapterRefs, push>>
      /\ UNCHANGED <<pc, cmdq, session, params, joining, main, bus>>
  BY DEF Announce, ServerStep
<1>2. server' \in Servers
  <2>1. server \in Servers /\ 0 \in Ids
    BY <1>0, DeviceAssumption DEF TypeOK, SnepTypeOK, Ids
  <2>2. [server EXCEPT !.at = "listen", !.id = 0, !.more = FALSE] \in Servers
    BY <2>1 DEF Servers
  <2>3. QED
    BY <1>1, <2>2, ServerFacts
<1>3. SnepTypeOK' /\ SnepStages'
  BY <1>0, <1>1, <1>2, ServerStages DEF TypeOK, SnepTypeOK
<1>4. CASE server.id \notin DOMAIN devices \/ main = "join"
  <2>1. aborted' \in {"received", "no adapter"} /\ UNCHANGED <<devices, cbq>>
    BY <1>4 DEF Announce
  <2>2. TypeOK'
    BY <1>0, <1>1, <1>3, <2>1 DEF TypeOK, HalTypeOK, DeviceTypeOK
  <2>3. QED
    BY <1>3, <2>1, <2>2, AbortStep
<1>5. CASE server.id \in DOMAIN devices /\ main # "join"
  <2> DEFINE id == server.id
  <2>1. /\ devices' = Ref(devices, id) /\ cbq' = Append(cbq, Received(id)) /\ UNCHANGED aborted
    BY <1>5 DEF Announce
  <2>2. id \in DOMAIN devices /\ id \in Ids /\ main # "boot"
    BY <1>0, <1>5, BootTable DEF Table
  <2> HIDE DEF id
  <2>3. /\ Table(devices') /\ DOMAIN devices' = DOMAIN devices
        /\ \A i \in DOMAIN devices : SameEntry(devices'[i], devices[i])
    BY <1>0, <2>1, <2>2, RefFacts
  <2>4. /\ Received(id) \in Callbacks /\ Received(id).type = "received"
        /\ cbq' = Posted(Received(id)) /\ cbq' \in Seq(Callbacks)
    <3>1. Received(id) \in Callbacks /\ Received(id).type = "received"
      BY <2>2, CallbackFacts
    <3>2. cbq' = Posted(Received(id))
      BY <1>5, <2>1 DEF Posted
    <3>3. QED
      BY <1>0, <3>1, <3>2, PostedType
  <2>5. TypeOK'
    <3>1. HalTypeOK'
      BY <1>0, <1>1, <2>1, <2>4 DEF TypeOK, HalTypeOK
    <3>2. DeviceTypeOK'
      BY <1>0, <1>1, <2>3 DEF TypeOK, DeviceTypeOK, Table
    <3>3. QED
      BY <1>3, <3>1, <3>2 DEF TypeOK
  <2>6. \A i \in Ids : /\ Copies(cbq', Detected(i)) = Copies(cbq, Detected(i))
                       /\ Copies(cbq', Received(i)) =
                            IF i = id THEN Copies(cbq, Received(i)) + 1 ELSE Copies(cbq, Received(i))
    BY <1>0, <1>5, <2>4, PostedCopies, CarriedIds
  <2>7. Counts(devices', HolderCount')
    <3>1. ASSUME NEW i \in Ids
          PROVE  HolderCount'[i] = IF i = id THEN HolderCount[i] + 1 ELSE HolderCount[i]
      <4> DEFINE s == One(InSession /\ i = current)
                 d == Copies(cbq, Detected(i))
                 r == Copies(cbq, Received(i))
                 a == One(i \in adapterRefs)
                 p == One(push # NoPush /\ i = push.id)
      <4>1. s \in {0, 1} /\ d \in Nat /\ r \in Nat /\ a \in {0, 1} /\ p \in {0, 1}
        BY <1>0, CopiesType, OneFacts
      <4>2. HolderCount[i] = s + d + r + a + p
        BY DEF HolderCount
      <4>3. HolderCount'[i] = s + d + Copies(cbq', Received(i)) + a + p
        BY <1>1, <2>6 DEF HolderCount, InSession
      <4>4. Copies(cbq', Received(i)) = IF i = id THEN r + 1 ELSE r
        BY <2>6
      <4> HIDE DEF s, d, r, a, p
      <4>5. QED
        BY <4>1, <4>2, <4>3, <4>4
    <3>2. QED
      BY <1>0, <2>1, <2>2, <3>1, CountsRef
  <2>8. ObjectsAreHeld' /\ MessagesArrive'
    <3>1. \A i \in DOMAIN devices' : /\ i \in DOMAIN devices
                                     /\ devices'[i].dev = devices[i].dev
                                     /\ devices'[i].message = devices[i].message
      BY <2>3 DEF SameEntry
    <3>2. ASSUME NEW i \in DOMAIN devices
          PROVE  /\ DetectionIn(cbq', i) => DetectionIn(cbq, i)
                 /\ OnItsWay(i) => OnItsWay(i)'
      <4>1. i \in Ids
        BY <1>0 DEF Table
      <4>2. DetectionIn(cbq', i) => DetectionIn(cbq, i)
        BY <1>0, <2>4, <2>6, <4>1, IsQueued
      <4>3. OnItsWay(i) => Copies(cbq, Received(i)) # 0 \/ i = id
        BY <1>0, <4>1, IsQueued DEF OnItsWay, Queued, id
      <4>4. OnItsWay(i) => Copies(cbq', Received(i)) # 0
        BY <1>0, <2>6, <4>1, <4>3, CopiesType
      <4>5. OnItsWay(i) => OnItsWay(i)'
        BY <2>4, <4>4, IsQueued DEF OnItsWay, Queued
      <4>6. QED
        BY <4>2, <4>5
    <3>3. (Registered' => Registered) /\ UNCHANGED <<objects, adapterRefs>>
      BY <1>1 DEF Registered
    <3>4. QED
      BY <1>0, <2>3, <3>1, <3>2, <3>3, EntriesKept
  <2>9. AdapterFollows'
    <3>1. ~Announces(Received(id))
      BY <2>4 DEF Announces
    <3>2. InOrder(cbq, DOMAIN objects, Present) => InOrder(cbq', DOMAIN objects, Present)
      BY <1>0, <2>1, <2>4, <3>1, OtherPosted
    <3>3. Present' = Present
      BY <1>1 DEF Present, InSession, Ending
    <3>4. QED
      BY <1>0, <1>1, <3>2, <3>3 DEF AdapterFollows, Registered
  <2>10. QuietBoot' /\ aborted' = "no"
    BY <1>0, <1>1, <2>1, <2>2 DEF QuietBoot
  <2>11. QED
    BY <1>3, <2>5, <2>7, <2>8, <2>9, <2>10, LiveStep
<1>6. QED
  BY <1>4, <1>5

-----------------------------------------------------------------------------
(***************************************************************************)
(* The adapter's callbacks.                                                *)
(***************************************************************************)
LEMMA DispatchedFacts ==
  ASSUME IInv, Running, NEW type, Dispatched(type)
  PROVE  /\ cbq # <<>> /\ cbq' = Tail(cbq) /\ cbq' \in Seq(Callbacks)
         /\ Head(cbq) \in Callbacks /\ Head(cbq).type = type
         /\ Head(cbq) = cbq[1] /\ 1 \in DOMAIN cbq
         /\ main # "boot" /\ main # "join"
         /\ \A c : /\ Copies(cbq, c) \in Nat /\ Copies(cbq', c) \in Nat
                   /\ Copies(cbq', c) = IF Head(cbq) = c THEN Copies(cbq, c) - 1 ELSE Copies(cbq, c)
<1>0. cbq \in Seq(Callbacks)
  BY InvFacts
<1>1. /\ cbq # <<>> /\ cbq' = Tail(cbq) /\ cbq' \in Seq(Callbacks)
      /\ Head(cbq) \in Callbacks /\ Head(cbq).type = type
  BY <1>0, DispatchedType
<1>2. Head(cbq) = cbq[1] /\ 1 \in DOMAIN cbq
  BY <1>0, <1>1
<1>3. main # "boot" /\ main # "join"
  BY DEF Dispatched
<1>4. \A c : Copies(cbq, c) \in Nat
  BY <1>0, CopiesType
<1>5. \A c : Copies(cbq', c) \in Nat
  BY <1>1, CopiesType
<1>6. \A c : Copies(cbq', c) = IF Head(cbq) = c THEN Copies(cbq, c) - 1 ELSE Copies(cbq, c)
  BY <1>0, <1>1, CopiesDispatched
<1>7. QED
  BY <1>1, <1>2, <1>3, <1>4, <1>5, <1>6

LEMMA DispatchDetectedHolds ==
  ASSUME IInv, Running, DispatchDetected
  PROVE  IInv'
<1> DEFINE id == Head(cbq).id
<1>0. /\ TypeOK /\ SnepStages /\ RefsExact /\ aborted = "no" /\ QuietBoot
      /\ AdapterFollows /\ ObjectsAreHeld /\ MessagesArrive
      /\ HolderCount \in [Ids -> Nat] /\ Counts(devices, HolderCount)
      /\ Table(devices) /\ cbq \in Seq(Callbacks)
  BY InvFacts
<1>1. /\ cbq # <<>> /\ cbq' = Tail(cbq) /\ cbq' \in Seq(Callbacks)
      /\ Head(cbq) \in Callbacks /\ Head(cbq).type = "detected"
      /\ Head(cbq) = cbq[1] /\ 1 \in DOMAIN cbq
      /\ main # "boot"
      /\ \A c : /\ Copies(cbq, c) \in Nat /\ Copies(cbq', c) \in Nat
                /\ Copies(cbq', c) = IF Head(cbq) = c THEN Copies(cbq, c) - 1 ELSE Copies(cbq, c)
  BY DispatchedFacts DEF DispatchDetected
<1>2. /\ UNCHANGED <<pc, cmdq, session, params, joining, main, bus>>
      /\ UNCHANGED <<radioVars, snepVars, current, push>>
  BY DEF DispatchDetected
<1>3. id \in Ids /\ Head(cbq) = Detected(id) /\ Detects(Head(cbq), id)
  BY <1>1, CallbackTypes DEF Detects
<1>4. DetectionIn(cbq, id) /\ id \in DOMAIN devices
  <2>1. DetectionIn(cbq, id)
    BY <1>1, <1>3 DEF DetectionIn
  <2>2. QED
    BY <1>0, <1>3, <2>1, HeldEntries
<1>5. /\ UNCHANGED aborted
      /\ IF Registered
           THEN /\ devices' = Unref(Ref(devices, id), id)
                /\ objects' = With(objects, id, [dev |-> devices[id].dev, shown |-> Nothing])
                /\ adapterRefs' = adapterRefs \cup {id}
           ELSE /\ devices' = Unref(devices, id)
                /\ UNCHANGED <<objects, adapterRefs>>
  BY <1>4 DEF DispatchDetected
<1> HIDE DEF id
<1>6. \A i \in Ids : /\ Copies(cbq', Detected(i)) =
                          IF i = id THEN Copies(cbq, Detected(i)) - 1 ELSE Copies(cbq, Detected(i))
                     /\ Copies(cbq', Received(i)) = Copies(cbq, Received(i))
  BY <1>1, <1>3, CarriedIds
<1>7. HalTypeOK' /\ SnepTypeOK' /\ SnepStages'
  <2>1. HalTypeOK'
    BY <1>0, <1>1, <1>2, <1>5 DEF TypeOK, HalTypeOK
  <2>2. SnepTypeOK'
    BY <1>0, <1>2, SnepUnchanged DEF TypeOK
  <2>3. SnepStages'
    BY <1>0, <1>2, SnepKept DEF snepVars
  <2>4. QED
    BY <2>1, <2>2, <2>3
<1>8. QuietBoot' /\ aborted' = "no"
  BY <1>0, <1>1, <1>2, <1>5 DEF QuietBoot
<1>9. CASE Registered
  <2>1. /\ devices' = Unref(Ref(devices, id), id)
        /\ objects' = With(objects, id, [dev |-> devices[id].dev, shown |-> Nothing])
        /\ adapterRefs' = adapterRefs \cup {id}
    BY <1>5, <1>9
  <2>2. InOrder(cbq, DOMAIN objects, Present)
    BY <1>0, <1>9 DEF AdapterFollows
  <2>3. DOMAIN objects = {} /\ InOrder(cbq', {id}, Present)
    BY <1>0, <1>1, <1>3, <2>2, DetectionDispatched
  <2>4. adapterRefs = {} /\ adapterRefs' = {id}
    BY <1>0, <2>1, <2>3 DEF ObjectsAreHeld
  <2>5. DOMAIN objects' = {id} /\ objects'[id] = [dev |-> devices[id].dev, shown |-> Nothing]
    BY <2>1, <2>3 DEF With
  <2>6. /\ Table(devices') /\ DOMAIN devices' = DOMAIN devices
        /\ \A i \in DOMAIN devices : /\ devices'[i].refs = devices[i].refs
                                     /\ SameEntry(devices'[i], devices[i])
    BY <1>0, <1>4, <2>1, RefUnrefFacts
  <2>7. TypeOK'
    <3>1. [dev |-> devices[id].dev, shown |-> Nothing] \in [dev : Devices, shown : Messages]
      <4>1. devices[id].dev \in Devices
        BY <1>0, <1>4 DEF Table, Entries
      <4>2. Nothing \in Messages
        BY DEF Messages
      <4>3. QED
        BY <4>1, <4>2
    <3>2. DeviceTypeOK'
      BY <1>0, <1>2, <1>3, <2>4, <2>5, <2>6, <3>1 DEF TypeOK, DeviceTypeOK, Table, radioVars
    <3>3. QED
      BY <1>7, <3>2 DEF TypeOK
  <2>8. Counts(devices', HolderCount')
    <3>1. ASSUME NEW i \in Ids
          PROVE  HolderCount'[i] = HolderCount[i]
      <4> DEFINE s == One(InSession /\ i = current)
                 d == Copies(cbq, Detected(i))
                 r == Copies(cbq, Received(i))
                 p == One(push # NoPush /\ i = push.id)
      <4>1. s \in {0, 1} /\ d \in Nat /\ r \in Nat /\ p \in {0, 1}
        BY <1>1, OneFacts
      <4>2. HolderCount[i] = s + d + r + 0 + p
        BY <2>4 DEF HolderCount, One
      <4>3. HolderCount'[i] = s + Copies(cbq', Detected(i)) + r + One(i \in adapterRefs') + p
        BY <1>2, <1>6 DEF HolderCount, InSession
      <4>4. /\ Copies(cbq', Detected(i)) = IF i = id THEN d - 1 ELSE d
            /\ One(i \in adapterRefs') = IF i = id THEN 1 ELSE 0
        BY <1>6, <2>4 DEF One
      <4> HIDE DEF s, d, r, p
      <4>5. QED
        BY <4>1, <4>2, <4>3, <4>4
    <3>2. QED
      BY <1>0, <2>6, <3>1 DEF Counts
  <2>9. ObjectsAreHeld'
    BY <1>4, <2>4, <2>5, <2>6 DEF ObjectsAreHeld, SameEntry
  <2>10. AdapterFollows'
    <3>1. Present' = Present
      BY <1>2 DEF Present, InSession, Ending
    <3>2. QED
      BY <2>3, <2>5, <3>1 DEF AdapterFollows
  <2>11. MessagesArrive'
    <3> SUFFICES ASSUME NEW i \in DOMAIN devices
                 PROVE  /\ i \in DOMAIN objects' =>
                             objects'[i].shown = devices'[i].message \/ OnItsWay(i)'
                        /\ DetectionIn(cbq', i) => devices'[i].message = Nothing \/ OnItsWay(i)'
      BY <2>6 DEF MessagesArrive
    <3>1. i \in Ids /\ devices'[i].message = devices[i].message
      BY <1>0, <2>6 DEF Table, SameEntry
    <3>2. DetectionIn(cbq', i) => DetectionIn(cbq, i)
      <4>1. Copies(cbq', Detected(i)) # 0 => Copies(cbq, Detected(i)) # 0
        BY <1>1, <1>6, <3>1
      <4>2. QED
        BY <1>0, <1>1, <3>1, <4>1, IsQueued
    <3>3. OnItsWay(i) => OnItsWay(i)'
      BY <1>0, <1>1, <1>2, <1>6, <3>1, OnItsWayKept DEF snepVars
    <3>4. DetectionIn(cbq, i) => devices[i].message = Nothing \/ OnItsWay(i)
      BY <1>0, <1>9 DEF MessagesArrive
    <3>5. i \in DOMAIN objects' => i = id /\ objects'[i].shown = Nothing
      BY <2>5
    <3>6. QED
      BY <1>4, <3>1, <3>2, <3>3, <3>4, <3>5
  <2>12. QED
    BY <1>7, <1>8, <2>7, <2>8, <2>9, <2>10, <2>11, LiveStep
<1>10. CASE ~Registered
  <2>1. devices' = Unref(devices, id) /\ UNCHANGED <<objects, adapterRefs>>
    BY <1>5, <1>10
  <2>2. /\ Table(devices')
        /\ \A i \in DOMAIN devices' : i \in DOMAIN devices /\ SameEntry(devices'[i], devices[i])
    BY <1>0, <1>4, <2>1, UnrefFacts
  <2>3. TypeOK'
    <3>1. DeviceTypeOK'
      BY <1>0, <1>2, <2>1, <2>2 DEF TypeOK, DeviceTypeOK, Table, radioVars
    <3>2. QED
      BY <1>7, <3>1 DEF TypeOK
  <2>4. Counts(devices', HolderCount')
    <3>1. ASSUME NEW i \in Ids
          PROVE  HolderCount'[i] = IF i = id THEN HolderCount[i] - 1 ELSE HolderCount[i]
      <4> DEFINE s == One(InSession /\ i = current)
                 d == Copies(cbq, Detected(i))
                 r == Copies(cbq, Received(i))
                 a == One(i \in adapterRefs)
                 p == One(push # NoPush /\ i = push.id)
      <4>1. s \in {0, 1} /\ d \in Nat /\ r \in Nat /\ a \in {0, 1} /\ p \in {0, 1}
        BY <1>1, OneFacts
      <4>2. HolderCount[i] = s + d + r + a + p
        BY DEF HolderCount
      <4>3. HolderCount'[i] = s + Copies(cbq', Detected(i)) + r + a + p
        BY <1>2, <1>6, <2>1 DEF HolderCount, InSession
      <4>4. Copies(cbq', Detected(i)) = IF i = id THEN d - 1 ELSE d
        BY <1>6
      <4> HIDE DEF s, d, r, a, p
      <4>5. QED
        BY <4>1, <4>2, <4>3, <4>4
    <3>2. QED
      BY <1>0, <1>4, <2>1, <3>1, CountsUnref
  <2>5. ObjectsAreHeld'
    BY <1>0, <2>1, <2>2 DEF ObjectsAreHeld, SameEntry
  <2>6. AdapterFollows' /\ MessagesArrive'
    BY <1>2, <1>10 DEF AdapterFollows, MessagesArrive, Registered
  <2>7. QED
    BY <1>7, <1>8, <2>3, <2>4, <2>5, <2>6, LiveStep
<1>11. QED
  BY <1>9, <1>10

\* adapter_hal_on_device_ndef_received_cb: the callback's reference has kept the
\* entry whose message is shown.
LEMMA DispatchReceivedHolds ==
  ASSUME IInv, Running, DispatchReceived
  PROVE  IInv'
<1> DEFINE id == Head(cbq).id
<1>0. /\ TypeOK /\ SnepStages /\ RefsExact /\ aborted = "no" /\ QuietBoot
      /\ AdapterFollows /\ ObjectsAreHeld /\ MessagesArrive
      /\ HolderCount \in [Ids -> Nat] /\ Counts(devices, HolderCount)
      /\ Table(devices) /\ cbq \in Seq(Callbacks)
  BY InvFacts
<1>1. /\ cbq # <<>> /\ cbq' = Tail(cbq) /\ cbq' \in Seq(Callbacks)
      /\ Head(cbq) \in Callbacks /\ Head(cbq).type = "received"
      /\ Head(cbq) = cbq[1] /\ 1 \in DOMAIN cbq
      /\ main # "boot"
      /\ \A c : /\ Copies(cbq, c) \in Nat /\ Copies(cbq', c) \in Nat
                /\ Copies(cbq', c) = IF Head(cbq) = c THEN Copies(cbq, c) - 1 ELSE Copies(cbq, c)
  BY DispatchedFacts DEF DispatchReceived
<1>2. /\ UNCHANGED <<pc, cmdq, session, params, joining, main, bus>>
      /\ UNCHANGED <<radioVars, snepVars, current, adapterRefs, push>>
  BY DEF DispatchReceived
<1>3. id \in Ids /\ Head(cbq) = Received(id)
  BY <1>1, CallbackTypes
<1>4. id \in DOMAIN devices
  <2>1. Queued(Received(id)) # {}
    BY <1>1, <1>3 DEF Queued
  <2>2. QED
    BY <1>0, <1>3, <2>1, HeldEntries
<1>5. IF Registered /\ id \in DOMAIN objects
        THEN /\ objects' = [objects EXCEPT ![id].shown = devices[id].message]
             /\ devices' = Unref(devices, id)
             /\ UNCHANGED aborted
        ELSE aborted' \in {"no adapter", "no object"} /\ UNCHANGED <<objects, devices>>
  BY DEF DispatchReceived
<1> HIDE DEF id
<1>6. \A i \in Ids : /\ Copies(cbq', Received(i)) =
                          IF i = id THEN Copies(cbq, Received(i)) - 1 ELSE Copies(cbq, Received(i))
                     /\ Copies(cbq', Detected(i)) = Copies(cbq, Detected(i))
  BY <1>1, <1>3, CarriedIds
<1>7. SnepTypeOK' /\ SnepStages' /\ QuietBoot'
  <2>1. SnepTypeOK'
    BY <1>0, <1>2, SnepUnchanged DEF TypeOK
  <2>2. SnepStages'
    BY <1>0, <1>2, SnepKept DEF snepVars
  <2>3. QED
    BY <1>1, <1>2, <2>1, <2>2 DEF QuietBoot
<1>8. CASE ~(Registered /\ id \in DOMAIN objects)
  <2>1. aborted' \in {"no adapter", "no object"} /\ UNCHANGED <<objects, devices>>
    BY <1>5, <1>8
  <2>2. HalTypeOK'
    BY <1>0, <1>1, <1>2, <2>1 DEF TypeOK, HalTypeOK
  <2>3. DeviceTypeOK'
    BY <1>0, <1>2, <2>1 DEF TypeOK, DeviceTypeOK, radioVars
  <2>4. QED
    BY <1>7, <2>1, <2>2, <2>3, AbortStep DEF TypeOK
<1>9. CASE Registered /\ id \in DOMAIN objects
  <2>1. /\ objects' = [objects EXCEPT ![id].shown = devices[id].message]
        /\ devices' = Unref(devices, id) /\ UNCHANGED aborted
    BY <1>5, <1>9
  <2>2. /\ Table(devices')
        /\ \A i \in DOMAIN devices' : i \in DOMAIN devices /\ SameEntry(devices'[i], devices[i])
    BY <1>0, <1>4, <2>1, UnrefFacts
  <2>3. /\ DOMAIN objects' = DOMAIN objects
        /\ objects'[id].shown = devices[id].message
        /\ \A i \in DOMAIN objects : /\ objects'[i] \in [dev : Devices, shown : Messages]
                                     /\ objects'[i].dev = objects[i].dev
                                     /\ i # id => objects'[i] = objects[i]
    <3>1. \A i \in DOMAIN objects : objects[i] \in [dev : Devices, shown : Messages]
      BY <1>0 DEF TypeOK, DeviceTypeOK
    <3>2. devices[id].message \in Messages
      BY <1>0, <1>4 DEF Table, Entries
    <3>3. QED
      BY <1>9, <2>1, <3>1, <3>2
  <2>4. TypeOK'
    <3>1. HalTypeOK'
      BY <1>0, <1>1, <1>2, <2>1 DEF TypeOK, HalTypeOK
    <3>2. DeviceTypeOK'
      BY <1>0, <1>2, <2>2, <2>3 DEF TypeOK, DeviceTypeOK, Table, radioVars
    <3>3. QED
      BY <1>7, <3>1, <3>2 DEF TypeOK
  <2>5. Counts(devices', HolderCount')
    <3>1. ASSUME NEW i \in Ids
          PROVE  HolderCount'[i] = IF i = id THEN HolderCount[i] - 1 ELSE HolderCount[i]
      <4> DEFINE s == One(InSession /\ i = current)
                 d == Copies(cbq, Detected(i))
                 r == Copies(cbq, Received(i))
                 a == One(i \in adapterRefs)
                 p == One(push # NoPush /\ i = push.id)
      <4>1. s \in {0, 1} /\ d \in Nat /\ r \in Nat /\ a \in {0, 1} /\ p \in {0, 1}
        BY <1>1, OneFacts
      <4>2. HolderCount[i] = s + d + r + a + p
        BY DEF HolderCount
      <4>3. HolderCount'[i] = s + d + Copies(cbq', Received(i)) + a + p
        BY <1>2, <1>6 DEF HolderCount, InSession
      <4>4. Copies(cbq', Received(i)) = IF i = id THEN r - 1 ELSE r
        BY <1>6
      <4> HIDE DEF s, d, r, a, p
      <4>5. QED
        BY <4>1, <4>2, <4>3, <4>4
    <3>2. QED
      BY <1>0, <1>4, <2>1, <3>1, CountsUnref
  <2>6. ObjectsAreHeld'
    BY <1>0, <1>2, <2>2, <2>3 DEF ObjectsAreHeld, SameEntry
  <2>7. AdapterFollows'
    <3>1. ~Announces(Head(cbq))
      BY <1>1 DEF Announces
    <3>2. InOrder(cbq, DOMAIN objects, Present) => InOrder(cbq', DOMAIN objects, Present)
      BY <1>0, <1>1, <3>1, OtherDispatched
    <3>3. Present' = Present
      BY <1>2 DEF Present, InSession, Ending
    <3>4. QED
      BY <1>0, <1>9, <2>3, <3>2, <3>3 DEF AdapterFollows
  <2>8. MessagesArrive'
    <3>1. \A i \in DOMAIN objects : ~DetectionIn(cbq, i)
      BY <1>0, <1>9 DEF AdapterFollows, InOrder, DetectedOnce
    <3> SUFFICES ASSUME NEW i \in DOMAIN devices'
                 PROVE  /\ i \in DOMAIN objects' =>
                             objects'[i].shown = devices'[i].message \/ OnItsWay(i)'
                        /\ DetectionIn(cbq', i) => devices'[i].message = Nothing \/ OnItsWay(i)'
      BY DEF MessagesArrive
    <3>2. i \in Ids /\ i \in DOMAIN devices /\ devices'[i].message = devices[i].message
      BY <1>0, <2>2 DEF Table, SameEntry
    <3>3. DetectionIn(cbq', i) <=> DetectionIn(cbq, i)
      BY <1>0, <1>1, <1>6, <3>2, IsQueued
    <3>4. CASE i = id
      BY <1>9, <2>3, <3>1, <3>2, <3>3, <3>4
    <3>5. CASE i # id
      <4>1. OnItsWay(i) => OnItsWay(i)'
        BY <1>0, <1>1, <1>2, <1>6, <3>2, <3>5, OnItsWayKept DEF snepVars
      <4>2. i \in DOMAIN objects => objects'[i] = objects[i]
        BY <2>3, <3>5
      <4>3. QED
        BY <1>0, <1>9, <2>3, <3>2, <3>3, <4>1, <4>2 DEF MessagesArrive
    <3>6. QED
      BY <3>4, <3>5
  <2>9. aborted' = "no"
    BY <1>0, <2>1
  <2>10. QED
    BY <1>7, <2>4, <2>5, <2>6, <2>7, <2>8, <2>9, LiveStep
<1>10. QED
  BY <1>8, <1>9

\* adapter_hal_on_device_lost_cb: g_assert_nonnull holds, the reference the
\* adapter drops is its own.
LEMMA DispatchLostHolds ==
  ASSUME IInv, Running, DispatchLost
  PROVE  IInv'
<1> DEFINE id == Head(cbq).id
<1>0. /\ TypeOK /\ SnepStages /\ RefsExact /\ aborted = "no" /\ QuietBoot
      /\ AdapterFollows /\ ObjectsAreHeld /\ MessagesArrive
      /\ HolderCount \in [Ids -> Nat] /\ Counts(devices, HolderCount)
      /\ Table(devices) /\ cbq \in Seq(Callbacks)
  BY InvFacts
<1>1. /\ cbq # <<>> /\ cbq' = Tail(cbq) /\ cbq' \in Seq(Callbacks)
      /\ Head(cbq) \in Callbacks /\ Head(cbq).type = "lost"
      /\ Head(cbq) = cbq[1] /\ 1 \in DOMAIN cbq
      /\ main # "boot"
      /\ \A c : /\ Copies(cbq, c) \in Nat /\ Copies(cbq', c) \in Nat
                /\ Copies(cbq', c) = IF Head(cbq) = c THEN Copies(cbq, c) - 1 ELSE Copies(cbq, c)
  BY DispatchedFacts DEF DispatchLost
<1>2. /\ UNCHANGED <<pc, session, params, joining, main, bus>>
      /\ UNCHANGED <<radioVars, snepVars, current, push>>
  BY DEF DispatchLost
<1>3. id \in Ids /\ Head(cbq) = LostCb(id) /\ Loses(Head(cbq), id)
  BY <1>1, CallbackTypes DEF Loses
<1>4. \A i \in Ids : /\ Copies(cbq', Received(i)) = Copies(cbq, Received(i))
                     /\ Copies(cbq', Detected(i)) = Copies(cbq, Detected(i))
  BY <1>1, <1>3, CarriedIds
<1>5. SnepTypeOK' /\ SnepStages' /\ QuietBoot'
  <2>1. SnepTypeOK'
    BY <1>0, <1>2, SnepUnchanged DEF TypeOK
  <2>2. SnepStages'
    BY <1>0, <1>2, SnepKept DEF snepVars
  <2>3. QED
    BY <1>1, <1>2, <2>1, <2>2 DEF QuietBoot
<1>6. Registered /\ id \in DOMAIN objects /\ id \in DOMAIN devices =>
        /\ objects' = Without(objects, id) /\ adapterRefs' = adapterRefs \ {id}
        /\ devices' = Unref(devices, id) /\ UNCHANGED aborted
        /\ cmdq' = IF ConstantPoll THEN Append(cmdq, Start) ELSE cmdq
  BY DEF DispatchLost
<1> HIDE DEF id
<1>7. CASE ~Registered
  <2>1. UNCHANGED <<objects, adapterRefs, devices, cmdq, aborted>>
    BY <1>7 DEF DispatchLost
  <2>2. TypeOK'
    <3>1. HalTypeOK'
      BY <1>0, <1>1, <1>2, <2>1 DEF TypeOK, HalTypeOK
    <3>2. DeviceTypeOK'
      BY <1>0, <1>2, <2>1 DEF TypeOK, DeviceTypeOK, radioVars
    <3>3. QED
      BY <1>5, <3>1, <3>2 DEF TypeOK
  <2>3. Counts(devices', HolderCount')
    <3>1. \A i \in Ids : HolderCount'[i] = HolderCount[i]
      BY <1>2, <1>4, <2>1 DEF HolderCount, InSession
    <3>2. QED
      BY <1>0, <2>1, <3>1 DEF Counts
  <2>4. ObjectsAreHeld' /\ AdapterFollows' /\ MessagesArrive'
    BY <1>0, <1>2, <1>7, <2>1 DEF ObjectsAreHeld, AdapterFollows, MessagesArrive, Registered
  <2>5. QED
    BY <1>0, <1>5, <2>1, <2>2, <2>3, <2>4, LiveStep
<1>8. CASE Registered
  <2>1. InOrder(cbq, DOMAIN objects, Present)
    BY <1>0, <1>8 DEF AdapterFollows
  <2>2. DOMAIN objects = {id} /\ InOrder(cbq', {}, Present)
    BY <1>0, <1>1, <1>3, <2>1, LossDispatched
  <2>3. adapterRefs = {id} /\ id \in DOMAIN devices
    BY <1>0, <2>2, HeldEntries DEF ObjectsAreHeld
  <2>4. /\ objects' = Without(objects, id) /\ adapterRefs' = adapterRefs \ {id}
        /\ devices' = Unref(devices, id) /\ UNCHANGED aborted
        /\ cmdq' = IF ConstantPoll THEN Append(cmdq, Start) ELSE cmdq
    BY <1>8, <1>6, <2>2, <2>3
  <2>5. DOMAIN objects' = {} /\ adapterRefs' = {}
    BY <2>2, <2>3, <2>4 DEF Without
  <2>6. /\ Table(devices')
        /\ \A i \in DOMAIN devices' : i \in DOMAIN devices /\ SameEntry(devices'[i], devices[i])
    BY <1>0, <2>3, <2>4, UnrefFacts
  <2>7. TypeOK'
    <3>1. cmdq' \in Seq(Commands)
      <4>1. cmdq \in Seq(Commands)
        BY <1>0 DEF TypeOK, HalTypeOK
      <4>2. Append(cmdq, Start) \in Seq(Commands)
        BY <4>1, CommandFacts
      <4>3. QED
        BY <2>4, <4>1, <4>2
    <3>2. HalTypeOK'
      BY <1>0, <1>1, <1>2, <2>4, <3>1 DEF TypeOK, HalTypeOK
    <3>3. DeviceTypeOK'
      BY <1>0, <1>2, <2>5, <2>6 DEF TypeOK, DeviceTypeOK, Table, radioVars
    <3>4. QED
      BY <1>5, <3>2, <3>3 DEF TypeOK
  <2>8. Counts(devices', HolderCount')
    <3>1. ASSUME NEW i \in Ids
          PROVE  HolderCount'[i] = IF i = id THEN HolderCount[i] - 1 ELSE HolderCount[i]
      <4> DEFINE s == One(InSession /\ i = current)
                 d == Copies(cbq, Detected(i))
                 r == Copies(cbq, Received(i))
                 p == One(push # NoPush /\ i = push.id)
      <4>1. s \in {0, 1} /\ d \in Nat /\ r \in Nat /\ p \in {0, 1}
        BY <1>1, OneFacts
      <4>2. HolderCount[i] = s + d + r + One(i \in adapterRefs) + p
        BY DEF HolderCount
      <4>3. HolderCount'[i] = s + d + r + One(i \in adapterRefs') + p
        BY <1>2, <1>4 DEF HolderCount, InSession
      <4>4. /\ One(i \in adapterRefs) = IF i = id THEN 1 ELSE 0
            /\ One(i \in adapterRefs') = 0
        BY <2>3, <2>5 DEF One
      <4> HIDE DEF s, d, r, p
      <4>5. QED
        BY <4>1, <4>2, <4>3, <4>4
    <3>2. QED
      BY <1>0, <2>3, <2>4, <3>1, CountsUnref
  <2>9. ObjectsAreHeld'
    BY <2>5 DEF ObjectsAreHeld
  <2>10. AdapterFollows'
    <3>1. Present' = Present
      BY <1>2 DEF Present, InSession, Ending
    <3>2. QED
      BY <2>2, <2>5, <3>1 DEF AdapterFollows
  <2>11. MessagesArrive'
    <3> SUFFICES ASSUME NEW i \in DOMAIN devices'
                 PROVE  DetectionIn(cbq', i) => devices'[i].message = Nothing \/ OnItsWay(i)'
      BY <2>5 DEF MessagesArrive
    <3>1. i \in Ids /\ i \in DOMAIN devices /\ devices'[i].message = devices[i].message
      BY <1>0, <2>6 DEF Table, SameEntry
    <3>2. DetectionIn(cbq', i) <=> DetectionIn(cbq, i)
      BY <1>0, <1>1, <1>4, <3>1, IsQueued
    <3>3. OnItsWay(i) => OnItsWay(i)'
      BY <1>0, <1>1, <1>2, <1>4, <3>1, OnItsWayKept DEF snepVars
    <3>4. QED
      BY <1>0, <1>8, <3>1, <3>2, <3>3 DEF MessagesArrive
  <2>12. aborted' = "no"
    BY <1>0, <2>4
  <2>13. QED
    BY <1>5, <2>7, <2>8, <2>9, <2>10, <2>11, <2>12, LiveStep
<1>9. QED
  BY <1>7, <1>8

-----------------------------------------------------------------------------
(***************************************************************************)
(* The invariant.                                                          *)
(***************************************************************************)
LEMMA InitHolds == Init => IInv
<1> SUFFICES ASSUME Init
             PROVE  IInv
  OBVIOUS
<1>1. /\ pc = "wait" /\ cmdq = <<>> /\ cbq = <<>> /\ joining = FALSE /\ main = "boot" /\ aborted = "no"
      /\ session = [polling |-> FALSE, present |-> FALSE]
      /\ params = [mode |-> "idle", polling |-> FALSE]
      /\ bus = [mode |-> "idle", polling |-> FALSE]
  BY DEF Init, HalInit
<1>2. HalTypeOK
  <2>1. cmdq \in Seq(Commands) /\ cbq \in Seq(Callbacks)
    BY <1>1
  <2>2. /\ session \in [polling : BOOLEAN, present : BOOLEAN]
        /\ params \in [mode : RadioModes, polling : BOOLEAN]
        /\ bus \in [mode : RadioModes, polling : BOOLEAN]
    BY <1>1 DEF RadioModes
  <2>3. pc \in Locations
    BY <1>1 DEF Locations
  <2>4. QED
    BY <1>1, <2>1, <2>2, <2>3 DEF HalTypeOK
<1>3. /\ DOMAIN devices = {} /\ DOMAIN objects = {} /\ adapterRefs = {}
      /\ peer = NoDevice /\ link = NoDevice /\ event = FALSE /\ current = 0 /\ push = NoPush
  BY DEF Init
<1>4. 0 \in Ids /\ NoPush \in [id : Ids, to : MaybeDevice, connected : BOOLEAN]
  BY DeviceAssumption DEF Ids, NoPush, MaybeDevice
<1>5. DeviceTypeOK
  BY <1>3, <1>4 DEF DeviceTypeOK, MaybeDevice
<1>6. /\ snep = "wait" /\ server = NoServer /\ client = NoClient /\ snepq = <<>>
      /\ sent = [want |-> NoDevice, got |-> NoDevice]
  BY DEF Init
<1>7. NoClient \in Clients /\ NoClient.at = "none" /\ <<>> \in Seq(SnepMessages)
  BY DEF NoClient, Clients, MaybeDevice
<1>8. SnepTypeOK
  BY <1>6, <1>7, ServerFacts DEF SnepTypeOK, MaybeDevice
<1>9. SnepStages
  <2>1. Copies(snepq, Marker) = 0
    BY <1>6, <1>8, SnepqFacts DEF SnepTypeOK
  <2>2. Stages(snep, server.at, client.at, Copies(snepq, Marker), push)
    BY <1>3, <1>6, <1>7, <2>1, ServerFacts DEF Stages
  <2>3. QED
    BY <2>2, StagesAre
<1>10. RefsExact
  <2>1. TypeOK
    BY <1>2, <1>5, <1>8 DEF TypeOK
  <2>2. ASSUME NEW id \in Ids
        PROVE  HolderCount[id] = 0
    <3>1. Copies(cbq, Detected(id)) = 0 /\ Copies(cbq, Received(id)) = 0
      <4>1. cbq \in Seq(Callbacks)
        BY <1>2 DEF HalTypeOK
      <4>2. DOMAIN cbq = {}
        BY <1>1
      <4>3. QED
        BY <4>1, <4>2, CopiesType
    <3>2. /\ One(InSession /\ id = current) = 0 /\ One(id \in adapterRefs) = 0
          /\ One(push # NoPush /\ id = push.id) = 0
      BY <1>1, <1>3 DEF One, InSession
    <3>3. QED
      BY <3>1, <3>2 DEF HolderCount
  <2>3. Counts(devices, HolderCount)
    BY <1>3, <2>2 DEF Counts
  <2>4. QED
    BY <2>1, <2>3, HoldersCount DEF HoldersAreCounted
<1>11. NoInternalAbort /\ QuietBoot /\ AdapterFollows /\ ObjectsAreHeld /\ MessagesArrive
  BY <1>1, <1>3 DEF NoInternalAbort, QuietBoot, AdapterFollows, ObjectsAreHeld, MessagesArrive, Registered
<1>12. QED
  BY <1>2, <1>5, <1>8, <1>9, <1>10, <1>11 DEF IInv, TypeOK

LEMMA StutterHolds ==
  ASSUME IInv, UNCHANGED vars
  PROVE  IInv'
<1>1. UNCHANGED <<halVars, radioVars, snepVars, tableVars>>
  BY DEF vars, deviceVars
<1>2. /\ UNCHANGED <<pc, cmdq, cbq, session, joining, main, aborted>>
      /\ UNCHANGED <<devices, current, objects, adapterRefs, push, server>>
  BY <1>1 DEF halVars, tableVars, snepVars
<1>3. TypeOK'
  BY <1>1, HalUnchanged, SnepUnchanged, DeviceUnchanged DEF IInv, TypeOK
<1>4. SnepStages'
  BY <1>1, SnepKept DEF IInv, snepVars, tableVars
<1>5. CASE Running
  <2>1. QuietBoot' /\ QueueKept
    BY <1>2, <1>5, InvFacts, UnchangedQueue DEF QuietBoot
  <2>2. InSession' = InSession /\ Ending' = Ending /\ (Registered' => Registered)
    BY <1>2 DEF InSession, Ending, Registered
  <2>3. \A id \in Ids : Announcing(id) => Announcing(id)'
    BY <1>2 DEF Announcing
  <2>4. QED
    BY <1>2, <1>3, <1>4, <1>5, <2>1, <2>2, <2>3, QuietStep
<1>6. CASE ~Running
  BY <1>2, <1>3, <1>4, <1>6, AbortStep DEF IInv, NoInternalAbort, Running
<1>7. QED
  BY <1>5, <1>6

LEMMA NextHolds == IInv /\ [Next]_vars => IInv'
<1> SUFFICES ASSUME IInv, [Next]_vars
             PROVE  IInv'
  OBVIOUS
<1>1. CASE UNCHANGED vars
  BY <1>1, StutterHolds
<1>2. CASE Running /\ HalThread
  <2>1. CASE HalSteps /\ UNCHANGED deviceVars
    BY <1>2, <2>1, HalStepsHold
  <2>2. CASE NotifyLost(LostCb(current)) /\ UNCHANGED deviceVars
    BY <1>2, <2>2, NotifyLostHolds
  <2>3. CASE Activate \/ LinkLost \/ UnblockSockets
    BY <1>2, <2>3, LinkStepsHold DEF LinkLost
  <2>4. CASE PollDevice
    BY <1>2, <2>4, PollDeviceHolds
  <2>5. CASE DeviceGone
    BY <1>2, <2>5, DeviceGoneHolds
  <2>6. QED
    BY <1>2, <2>1, <2>2, <2>3, <2>4, <2>5 DEF HalThread, HalSteps
<1>3. CASE Running /\ (SnepThread \/ ServerThread \/ ClientThread)
  <2>1. CASE SnepThread
    BY <1>3, <2>1, SnepThreadStepsHold DEF SnepThread
  <2>2. CASE ServerThread
    BY <1>3, <2>2, ServerStepsHold, FindEntryHolds, StoreHolds, AnnounceHolds DEF ServerThread, ServerUnblocked
  <2>3. CASE ClientThread
    BY <1>3, <2>3, ClientStepsHold DEF ClientThread
  <2>4. QED
    BY <1>3, <2>1, <2>2, <2>3
<1>4. CASE Running /\ MainThread
  <2>1. CASE PushEnds
    BY <1>4, <2>1, PushEndsHolds
  <2>2. CASE MainSteps /\ UNCHANGED deviceVars
    BY <1>4, <2>2, MainStepsHold
  <2>3. CASE DispatchDetected \/ DispatchReceived \/ DispatchLost
    BY <1>4, <2>3, DispatchDetectedHolds, DispatchReceivedHolds, DispatchLostHolds
  <2>4. QED
    BY <1>4, <2>1, <2>2, <2>3 DEF MainThread, MainSteps, BothThreadsJoined
<1>5. CASE Running /\ Environment
  <2>1. CASE (MainSteps \/ BusAcquired \/ NameLost) /\ UNCHANGED deviceVars
    BY <1>5, <2>1, MainStepsHold
  <2>2. CASE push = NoPush /\ \E id \in DOMAIN objects : PushBegins(id)
    BY <1>5, <2>2, PushBeginsHolds
  <2>3. CASE PeerEnters \/ PeerLeaves
    BY <1>5, <2>3, PeerStepsHold
  <2>4. CASE LinkBreaks
    BY <1>5, <2>4, LinkStepsHold DEF LinkBreaks
  <2>5. CASE Connected \/ Listened \/ ServerFails
    BY <1>5, <2>5, ServerStepsHold
  <2>6. CASE WaitFails
    BY <1>5, <2>6, SnepThreadStepsHold
  <2>7. QED
    BY <1>5, <2>1, <2>2, <2>3, <2>4, <2>5, <2>6 DEF Environment, MainSteps
<1>6. QED
  BY <1>1, <1>2, <1>3, <1>4, <1>5 DEF Next, Over

\* IInv, on which everything else rests, holds in every reachable state.
THEOREM InductiveInvariant == Spec => []IInv
BY InitHolds, NextHolds, PTL DEF Spec


-----------------------------------------------------------------------------
(***************************************************************************)
(* The properties.                                                         *)
(***************************************************************************)

\* Every variable of the three threads stays within its type: what an object
\* shows is a message, a table entry is never left with no reference.
THEOREM TypeCorrect == Spec => []TypeOK
<1>1. IInv => TypeOK
  BY DEF IInv
<1>2. QED
  BY <1>1, InductiveInvariant, PTL

\* hal_device_ref and hal_device_unref, called from three threads, leave each
\* entry with as many references as it has holders, and none without.
THEOREM ReferencesAreExact == Spec => []RefsExact
<1>1. IInv => RefsExact
  BY DEF IInv
<1>2. QED
  BY <1>1, InductiveInvariant, PTL

\* No lookup of an id by the RdLib thread or the main thread fails, and
\* adapter_hal_on_device_lost_cb's assertion on the adapter's table holds.
THEOREM NeverAbortsByItself == Spec => []NoInternalAbort
<1>1. IInv => NoInternalAbort
  BY DEF IInv
<1>2. QED
  BY <1>1, InductiveInvariant, PTL

\* The adapter exports at most one device object, and the entry its id leads to
\* is still that of the device it was exported for.
THEOREM ObjectsMatch == Spec => []ObjectsMatchEntries
<1>1. IInv => ObjectsMatchEntries
  <2> SUFFICES ASSUME IInv, Registered, Running
               PROVE  /\ \A i, j \in DOMAIN objects : i = j
                      /\ \A id \in DOMAIN objects :
                           id \in DOMAIN devices /\ objects[id].dev = devices[id].dev
    BY DEF ObjectsMatchEntries
  <2>1. \A i, j \in DOMAIN objects : i = j
    BY InvFacts DEF AdapterFollows, InOrder, OneAtATime
  <2>2. DOMAIN objects \subseteq DOMAIN devices
    BY InvFacts, HeldEntries DEF ObjectsAreHeld
  <2>3. QED
    BY <2>1, <2>2, InvFacts DEF ObjectsAreHeld
<1>2. QED
  BY <1>1, InductiveInvariant, PTL

\* Whatever order messages are stored, announced and shown in, an exported
\* object ends up showing the last one: none is lost between the threads.
THEOREM LastMessageArrives == Spec => []LastMessageShown
<1>1. IInv => LastMessageShown
  <2> SUFFICES ASSUME IInv, Registered, Running, NEW id \in DOMAIN objects
               PROVE  objects[id].shown = devices[id].message \/ OnItsWay(id)
    BY DEF LastMessageShown, OnItsWay
  <2>1. id \in DOMAIN devices
    BY InvFacts, HeldEntries DEF ObjectsAreHeld
  <2>2. QED
    BY <2>1, InvFacts DEF MessagesArrive
<1>2. QED
  BY <1>1, InductiveInvariant, PTL

\* However many links there were, at most one marker of an earlier one waits in
\* pSnepQueue for the client thread of the next.
THEOREM MarkersStayFew == Spec => []MarkersDoNotPileUp
<1>1. IInv => MarkersDoNotPileUp
  BY DEF IInv, SnepStages
<1>2. QED
  BY <1>1, InductiveInvariant, PTL

-----------------------------------------------------------------------------
(***************************************************************************)
(* HalDevice implements SessionService.  First, what the four parts of the *)
(* abstract state depend on.                                               *)
(***************************************************************************)
EntriesAreHeld ==
  IInv /\ Running => /\ InSession => current \in DOMAIN devices
                     /\ \A id : DetectionIn(cbq, id) => id \in DOMAIN devices

LEMMA EntriesHeld == EntriesAreHeld
<1> SUFFICES ASSUME IInv, Running
             PROVE  /\ InSession => current \in DOMAIN devices
                    /\ \A id : DetectionIn(cbq, id) => id \in DOMAIN devices
  BY DEF EntriesAreHeld
<1>1. /\ InSession => current \in DOMAIN devices
      /\ \A id \in Ids : DetectionIn(cbq, id) => id \in DOMAIN devices
  BY InvFacts, HeldEntries
<1>2. ASSUME NEW id, DetectionIn(cbq, id)
      PROVE  id \in Ids
  <2>1. PICK i \in DOMAIN cbq : cbq[i].type = "detected" /\ cbq[i].id = id
    BY <1>2 DEF DetectionIn, Detects
  <2>2. cbq[i] \in Callbacks
    BY <2>1, InvFacts
  <2>3. QED
    BY <2>1, <2>2, CallbackTypes
<1>3. QED
  BY <1>1, <1>2

LEMMA EntriesHeldNext == EntriesAreHeld'
BY EntriesHeld, PTL

\* Entries that stay in the table stay those of their devices.
SameDevs == \A id \in DOMAIN devices \cap DOMAIN devices' : devices'[id].dev = devices[id].dev

\* Either the entries that are held are still there, or nothing happened to any.
EntriesStay == SameDevs /\ (Running' \/ UNCHANGED devices)

LEMMA SameOnAir ==
  ASSUME IInv, Running, IInv', EntriesStay, InSession' = InSession, UNCHANGED current
  PROVE  OnAir' = OnAir
<1>1. CASE InSession
  <2>1. InSession' /\ current' = current
    BY <1>1
  <2>2. current \in DOMAIN devices
    BY <1>1, EntriesHeld DEF EntriesAreHeld
  <2>3. Running' => current \in DOMAIN devices'
    BY <2>1, EntriesHeldNext DEF EntriesAreHeld
  <2>4. devices'[current].dev = devices[current].dev
    BY <2>2, <2>3 DEF EntriesStay, SameDevs
  <2>5. QED
    BY <1>1, <2>1, <2>4 DEF OnAir
<1>2. CASE ~InSession
  BY <1>2 DEF OnAir
<1>3. QED
  BY <1>1, <1>2

LEMMA SameUnshown ==
  ASSUME IInv, Running, IInv', EntriesStay, Registered' = Registered,
         Registered => DetectionsOf(cbq') = DetectionsOf(cbq)
  PROVE  Unshown' = Unshown
<1>1. CASE Registered
  <2>1. DetectionsOf(cbq') = DetectionsOf(cbq)
    BY <1>1
  <2>2. cbq \in Seq(Callbacks) /\ cbq' \in Seq(Callbacks)
    BY DEF IInv, TypeOK, HalTypeOK
  <2>3. ASSUME NEW n \in DOMAIN DetectionsOf(cbq)
        PROVE  Devs'[DetectionsOf(cbq)[n].id] = Devs[DetectionsOf(cbq)[n].id]
    <3> DEFINE id == DetectionsOf(cbq)[n].id
    <3>1. DetectionIn(cbq, id)
      BY <2>2, DetectionsQueued
    <3>2. DetectionIn(cbq', id)
      BY <2>1, <2>2, DetectionsQueued
    <3> HIDE DEF id
    <3>3. id \in DOMAIN devices
      BY <3>1, EntriesHeld DEF EntriesAreHeld
    <3>4. Running' => id \in DOMAIN devices'
      BY <3>2, EntriesHeldNext DEF EntriesAreHeld
    <3>5. id \in DOMAIN devices' /\ devices'[id].dev = devices[id].dev
      BY <3>3, <3>4 DEF EntriesStay, SameDevs
    <3>6. Devs'[id] = Devs[id]
      BY <3>3, <3>5 DEF Devs
    <3>7. QED
      BY <3>6 DEF id
  <2>4. DetectedThings(cbq', Devs') = DetectedThings(cbq, Devs)
    BY <2>1, <2>3 DEF DetectedThings
  <2>5. QED
    BY <1>1, <2>4 DEF Unshown
<1>2. CASE ~Registered
  BY <1>2 DEF Unshown
<1>3. QED
  BY <1>1, <1>2

LEMMA SameShown ==
  ASSUME Registered' = Registered,
         Registered => /\ DOMAIN objects' = DOMAIN objects
                       /\ \A id \in DOMAIN objects : objects'[id].dev = objects[id].dev
  PROVE  Shown' = Shown
<1>1. CASE Registered /\ DOMAIN objects # {}
  <2>1. TheOne(DOMAIN objects) \in DOMAIN objects
    BY <1>1 DEF TheOne
  <2>2. objects'[TheOne(DOMAIN objects')].dev = objects[TheOne(DOMAIN objects)].dev
    BY <1>1, <2>1
  <2>3. QED
    BY <1>1, <2>2 DEF Shown
<1>2. CASE ~(Registered /\ DOMAIN objects # {})
  BY <1>2 DEF Shown
<1>3. QED
  BY <1>1, <1>2

\* The steps no client can see.
LEMMA SameView ==
  ASSUME IInv, Running, IInv', EntriesStay, UNCHANGED main,
         InSession' = InSession, UNCHANGED current,
         Registered => DetectionsOf(cbq') = DetectionsOf(cbq),
         DOMAIN objects' = DOMAIN objects,
         \A id \in DOMAIN objects : objects'[id].dev = objects[id].dev
  PROVE  UNCHANGED <<OnAir, Unshown, Shown, Serving>>
<1>1. Registered' = Registered /\ Serving' = Serving
  BY DEF Registered, Serving
<1>2. QED
  BY <1>1, SameOnAir, SameUnshown, SameShown


-----------------------------------------------------------------------------
(***************************************************************************)
(* The steps that are none of SessionService.                              *)
(***************************************************************************)
LEMMA EntriesUnchanged ==
  ASSUME UNCHANGED devices
  PROVE  EntriesStay
BY DEF EntriesStay, SameDevs

\* Steps that leave the entries, the objects and the queue of callbacks alone.
LEMMA QuietView ==
  ASSUME IInv, Running, IInv', UNCHANGED <<cbq, main, devices, current, objects>>,
         InSession' = InSession
  PROVE  UNCHANGED <<OnAir, Unshown, Shown, Serving>>
BY SameView, EntriesUnchanged

LEMMA HalStepsStutter ==
  ASSUME IInv, Running, IInv', HalSteps, UNCHANGED deviceVars
  PROVE  UNCHANGED <<OnAir, Unshown, Shown, Serving>>
<1>1. TypeOK /\ QuietBoot
  BY InvFacts
<1>2. QueueKept /\ UNCHANGED main /\ InSession' = InSession
  BY <1>1, HalStepsKeep
<1>3. UNCHANGED <<devices, current, objects>>
  BY DEF deviceVars, tableVars
<1>4. DetectionsOf(cbq') = DetectionsOf(cbq)
  BY <1>2 DEF QueueKept
<1>5. QED
  BY <1>2, <1>3, <1>4, SameView, EntriesUnchanged

LEMMA LinkStepsStutter ==
  ASSUME IInv, Running, IInv', Activate \/ LinkEnds \/ UnblockSockets
  PROVE  UNCHANGED <<OnAir, Unshown, Shown, Serving>>
<1>1. UNCHANGED <<cbq, main, devices, current, objects>>
  BY DEF Activate, LinkEnds, UnblockSockets, tableVars
<1>2. InSession' = InSession
  BY DEF Activate, LinkEnds, UnblockSockets, InSession
<1>3. QED
  BY <1>1, <1>2, QuietView

LEMMA NotifyLostStutters ==
  ASSUME IInv, Running, IInv', NotifyLost(LostCb(current)), UNCHANGED deviceVars
  PROVE  UNCHANGED <<OnAir, Unshown, Shown, Serving>>
<1>1. UNCHANGED <<main, devices, current, objects>> /\ InSession' = InSession
  BY DEF NotifyLost, deviceVars, tableVars, InSession
<1>2. cbq \in Seq(Callbacks) /\ LostCb(current) \in Callbacks /\ LostCb(current).type # "detected"
  BY InvFacts, CallbackFacts DEF LostCb
<1>3. DetectionsOf(Append(cbq, LostCb(current))) = DetectionsOf(cbq)
  BY <1>2, OtherPostedDetections
<1>4. DetectionsOf(cbq') = DetectionsOf(cbq)
  BY <1>3 DEF NotifyLost, Posted
<1>5. QED
  BY <1>1, <1>4, SameView, EntriesUnchanged

LEMMA SnepStepsStutter ==
  ASSUME IInv, Running, IInv',
         \/ StartThreads \/ JoinServer \/ JoinClient \/ WaitFails
         \/ Connected \/ Listened \/ Responded \/ ServerFails
         \/ ClientPops \/ ClientSends \/ ClientClears
         \/ PeerEnters \/ PeerLeaves
  PROVE  UNCHANGED <<OnAir, Unshown, Shown, Serving>>
<1>1. UNCHANGED <<pc, cbq, main, devices, current, objects>>
  <2>1. CASE StartThreads \/ JoinServer \/ JoinClient \/ WaitFails
    BY <2>1 DEF StartThreads, JoinServer, JoinClient, WaitFails, halVars, tableVars
  <2>2. CASE Connected \/ Listened \/ ServerFails
    BY <2>2 DEF Connected, Listened, ServerFails, ServerStep, halVars
  <2>3. CASE Responded
    BY <2>3 DEF Responded, ServerStep, halVars
  <2>4. CASE ClientPops \/ ClientSends \/ ClientClears
    BY <2>4 DEF ClientPops, ClientSends, ClientClears, ClientStep, halVars, tableVars
  <2>5. CASE PeerEnters \/ PeerLeaves
    BY <2>5 DEF PeerEnters, PeerLeaves, halVars, tableVars
  <2>6. QED
    BY <2>1, <2>2, <2>3, <2>4, <2>5
<1>2. InSession' = InSession
  BY <1>1 DEF InSession
<1>3. QED
  BY <1>1, <1>2, QuietView

LEMMA FindEntryStutters ==
  ASSUME IInv, Running, IInv', FindEntry
  PROVE  UNCHANGED <<OnAir, Unshown, Shown, Serving>>
<1>1. UNCHANGED <<pc, cbq, main, current, objects>>
  BY DEF FindEntry, ServerStep
<1>2. InSession' = InSession
  BY <1>1 DEF InSession
<1>3. CASE current \in DOMAIN devices
  <2>1. devices' = Found(devices, current) /\ UNCHANGED aborted
    BY <1>3 DEF FindEntry, Found
  <2>2. \A id \in DOMAIN devices : devices'[id].dev = devices[id].dev
    <3>1. Table(devices)
      BY InvFacts
    <3>2. QED
      BY <1>3, <2>1, <3>1, FoundFacts DEF SameEntry
  <2>3. EntriesStay
    BY <2>1, <2>2 DEF EntriesStay, SameDevs, Running, Found
  <2>4. QED
    BY <1>1, <1>2, <2>3, SameView
<1>4. CASE current \notin DOMAIN devices
  BY <1>1, <1>2, <1>4, QuietView DEF FindEntry
<1>5. QED
  BY <1>3, <1>4

LEMMA StoreStutters ==
  ASSUME IInv, Running, IInv', Store
  PROVE  UNCHANGED <<OnAir, Unshown, Shown, Serving>>
<1>1. UNCHANGED <<pc, cbq, main, current, objects>>
  BY DEF Store, ServerStep
<1>2. InSession' = InSession
  BY <1>1 DEF InSession
<1>3. CASE EntryIsThere
  <2>1. devices' = Stored(devices, server.id, server.rx) /\ UNCHANGED aborted
    BY <1>3 DEF Store, Stored
  <2>2. \A id \in DOMAIN devices : devices'[id].dev = devices[id].dev
    <3>1. server.rx \in Messages /\ Table(devices)
      BY InvFacts DEF TypeOK, SnepTypeOK, Servers
    <3>2. QED
      BY <1>3, <2>1, <3>1, StoredFacts DEF EntryIsThere
  <2>3. EntriesStay
    BY <2>1, <2>2 DEF EntriesStay, SameDevs, Running, Stored
  <2>4. QED
    BY <1>1, <1>2, <2>3, SameView
<1>4. CASE ~EntryIsThere
  BY <1>1, <1>2, <1>4, QuietView DEF Store
<1>5. QED
  BY <1>3, <1>4

LEMMA AnnounceStutters ==
  ASSUME IInv, Running, IInv', Announce
  PROVE  UNCHANGED <<OnAir, Unshown, Shown, Serving>>
<1>1. UNCHANGED <<pc, main, current, objects>>
  BY DEF Announce, ServerStep
<1>2. InSession' = InSession
  BY <1>1 DEF InSession
<1>3. CASE UNCHANGED <<devices, cbq>>
  BY <1>1, <1>2, <1>3, QuietView
<1>4. CASE /\ server.id \in DOMAIN devices
           /\ devices' = Ref(devices, server.id)
           /\ cbq' = Append(cbq, Received(server.id))
           /\ UNCHANGED aborted
  <2>1. Table(devices) /\ cbq \in Seq(Callbacks)
    BY InvFacts
  <2>2. server.id \in Ids
    BY <1>4, <2>1 DEF Table
  <2>3. Received(server.id) \in Callbacks /\ Received(server.id).type # "detected"
    BY <2>2, CallbackFacts DEF Received
  <2>4. DetectionsOf(cbq') = DetectionsOf(cbq)
    BY <1>4, <2>1, <2>3, OtherPostedDetections
  <2>5. EntriesStay
    BY <1>4, <2>1, RefFacts DEF EntriesStay, SameDevs, SameEntry, Running
  <2>6. QED
    BY <1>1, <1>2, <2>4, <2>5, SameView
<1>5. QED
  BY <1>3, <1>4 DEF Announce

LEMMA PushStutters ==
  ASSUME IInv, Running, IInv', PushEnds \/ \E id \in DOMAIN objects : PushBegins(id)
  PROVE  UNCHANGED <<OnAir, Unshown, Shown, Serving>>
<1>1. UNCHANGED <<pc, cbq, main, current, objects>>
  BY DEF PushBegins, PushEnds
<1>2. InSession' = InSession
  BY <1>1 DEF InSession
<1>3. Table(devices)
  BY InvFacts
<1>4. EntriesStay
  <2>1. CASE PushEnds /\ push.id \in DOMAIN devices
    <3>1. devices' = Unref(devices, push.id) /\ UNCHANGED aborted
      BY <2>1 DEF PushEnds
    <3>2. QED
      BY <1>3, <2>1, <3>1, UnrefFacts DEF EntriesStay, SameDevs, SameEntry, Running
  <2>2. ASSUME NEW id \in DOMAIN objects, PushBegins(id), id \in DOMAIN devices
        PROVE  EntriesStay
    <3>1. devices' = Ref(devices, id) /\ UNCHANGED aborted
      BY <2>2 DEF PushBegins
    <3>2. QED
      BY <1>3, <2>2, <3>1, RefFacts DEF EntriesStay, SameDevs, SameEntry, Running
  <2>3. CASE UNCHANGED devices
    BY <2>3, EntriesUnchanged
  <2>4. QED
    BY <2>1, <2>2, <2>3 DEF PushBegins, PushEnds
<1>5. QED
  BY <1>1, <1>2, <1>4, SameView

LEMMA MainStepsStutter ==
  ASSUME IInv, Running, IInv', MainSteps, UNCHANGED deviceVars
  PROVE  UNCHANGED <<OnAir, Unshown, Shown, Serving>>
<1>1. UNCHANGED <<pc, devices, current, objects>>
  BY DEF MainSteps, DispatchMode, DispatchPolling, HalFree, ThreadJoined, StartPollLoop,
         StopPollLoop, deviceVars, tableVars
<1>2. InSession' = InSession /\ EntriesStay
  BY <1>1, EntriesUnchanged DEF InSession
<1>3. CASE DispatchMode \/ DispatchPolling
  <2>1. Dispatched("mode") \/ Dispatched("polling")
    BY <1>3 DEF DispatchMode, DispatchPolling
  <2>2. cbq \in Seq(Callbacks) /\ cbq # <<>> /\ cbq' = Tail(cbq) /\ Plain(Head(cbq))
    BY <2>1, InvFacts DEF Dispatched, Plain
  <2>3. QueueKept
    BY <2>2, PlainDispatched
  <2>4. UNCHANGED main
    BY <1>3 DEF DispatchMode, DispatchPolling
  <2>5. QED
    BY <1>1, <1>2, <2>3, <2>4, SameView DEF QueueKept
<1>4. CASE StartPollLoop \/ StopPollLoop
  BY <1>1, <1>2, <1>4, QuietView DEF StartPollLoop, StopPollLoop
<1>5. CASE HalFree \/ ThreadJoined
  <2>1. main \in {"quit", "join"} /\ main' \in {"join", "done"}
    BY <1>5 DEF HalFree, ThreadJoined
  <2>2. ~Registered /\ ~Registered' /\ Serving = "no more" /\ Serving' = "no more"
    BY <2>1 DEF Registered, Serving
  <2>3. Registered' = Registered
    BY <2>1 DEF Registered
  <2>4. OnAir' = OnAir
    BY <1>1, <1>2, SameOnAir
  <2>5. Unshown' = Unshown
    BY <1>2, <2>2, <2>3, SameUnshown
  <2>6. Shown' = Shown
    BY <2>2, <2>3, SameShown
  <2>7. QED
    BY <2>2, <2>4, <2>5, <2>6
<1>6. QED
  BY <1>3, <1>4, <1>5 DEF MainSteps


LEMMA DispatchStutters ==
  ASSUME IInv, Running, IInv', DispatchReceived \/ (DispatchDetected /\ ~Registered)
                                  \/ (DispatchLost /\ ~Registered)
  PROVE  UNCHANGED <<OnAir, Unshown, Shown, Serving>>
<1> DEFINE id == Head(cbq).id
<1>1. UNCHANGED <<pc, main, current>>
  BY DEF DispatchReceived, DispatchDetected, DispatchLost
<1>2. InSession' = InSession /\ Registered' = Registered /\ Table(devices)
  BY <1>1, InvFacts DEF InSession, Registered
<1>3. CASE DispatchReceived
  <2>1. /\ cbq # <<>> /\ cbq' = Tail(cbq) /\ cbq \in Seq(Callbacks)
        /\ Head(cbq) \in Callbacks /\ Head(cbq).type = "received"
        /\ Head(cbq) = cbq[1] /\ 1 \in DOMAIN cbq
    BY <1>3, InvFacts, DispatchedFacts DEF DispatchReceived
  <2>2. id \in Ids /\ Head(cbq) = Received(id)
    BY <2>1, CallbackTypes
  <2>3. id \in DOMAIN devices
    <3>1. 1 \in Queued(Received(id))
      BY <2>1, <2>2 DEF Queued
    <3>2. QED
      BY <2>2, <3>1, InvFacts, HeldEntries
  <2>4. DetectionsOf(cbq') = DetectionsOf(cbq)
    BY <2>1, OtherDispatchedDetections
  <2>5. \/ UNCHANGED <<objects, devices>>
        \/ /\ objects' = [objects EXCEPT ![id].shown = devices[id].message]
           /\ devices' = Unref(devices, id)
           /\ UNCHANGED aborted
    BY <1>3 DEF DispatchReceived
  <2> HIDE DEF id
  <2>6. EntriesStay
    <3>1. CASE UNCHANGED devices
      BY <3>1, EntriesUnchanged
    <3>2. CASE devices' = Unref(devices, id) /\ UNCHANGED aborted
      BY <1>2, <2>3, <3>2, UnrefFacts DEF EntriesStay, SameDevs, SameEntry, Running
    <3>3. QED
      BY <2>5, <3>1, <3>2
  <2>7. /\ DOMAIN objects' = DOMAIN objects
        /\ \A i \in DOMAIN objects : objects'[i].dev = objects[i].dev
    <3>1. \A i \in DOMAIN objects : objects[i] \in [dev : Devices, shown : Messages]
      BY InvFacts DEF TypeOK, DeviceTypeOK
    <3>2. QED
      BY <2>5, <3>1
  <2>8. QED
    BY <1>1, <1>2, <2>4, <2>6, <2>7, SameView
<1>4. CASE (DispatchDetected \/ DispatchLost) /\ ~Registered
  <2>1. EntriesStay
    <3>1. CASE DispatchDetected /\ id \in DOMAIN devices
      <4>1. devices' = Unref(devices, id) /\ UNCHANGED aborted
        BY <1>4, <3>1 DEF DispatchDetected
      <4> HIDE DEF id
      <4>2. QED
        BY <1>2, <3>1, <4>1, UnrefFacts DEF EntriesStay, SameDevs, SameEntry, Running
    <3>2. CASE ~(DispatchDetected /\ id \in DOMAIN devices)
      <4>1. UNCHANGED devices
        BY <1>4, <3>2 DEF DispatchDetected, DispatchLost
      <4>2. QED
        BY <4>1, EntriesUnchanged
    <3>3. QED
      BY <3>1, <3>2
  <2>2. OnAir' = OnAir
    BY <1>1, <1>2, <2>1, SameOnAir
  <2>3. Unshown' = Unshown
    BY <1>2, <1>4, <2>1, SameUnshown
  <2>4. Shown' = Shown
    BY <1>2, <1>4, SameShown
  <2>5. Serving' = Serving
    BY <1>1 DEF Serving, Registered
  <2>6. QED
    BY <2>2, <2>3, <2>4, <2>5
<1>5. QED
  BY <1>3, <1>4

-----------------------------------------------------------------------------
(***************************************************************************)
(* The steps of SessionService.                                            *)
(***************************************************************************)
LEMMA BusAcquiredOpens ==
  ASSUME IInv, Running, IInv', BusAcquired, UNCHANGED deviceVars
  PROVE  Service!Open
<1>1. /\ main = "boot" /\ main' = "run" /\ UNCHANGED <<pc, cbq>>
      /\ UNCHANGED <<devices, current, objects>>
  BY DEF BusAcquired, deviceVars, tableVars
<1>2. cbq = <<>> /\ DOMAIN objects = {}
  BY <1>1, InvFacts DEF QuietBoot, ObjectsAreHeld
<1>3. Serving = "not yet" /\ Serving' = "yes" /\ ~Registered /\ Registered'
  BY <1>1 DEF Serving, Registered
<1>4. OnAir' = OnAir
  BY <1>1 DEF OnAir, InSession
<1>5. Unshown' = <<>> /\ Unshown = <<>>
  <2>1. Unshown' = DetectedThings(<<>>, Devs')
    BY <1>1, <1>2, <1>3 DEF Unshown
  <2>2. DetectedThings(<<>>, Devs') = <<>>
    <3>1. <<>> \in Seq(Callbacks) /\ DOMAIN <<>> = {}
      OBVIOUS
    <3>2. \A i : ~DetectionIn(<<>>, i)
      BY <3>1 DEF DetectionIn
    <3>3. DOMAIN DetectionsOf(<<>>) = {}
      BY <3>1, <3>2, DetectionsQueued
    <3>4. DetectedThings(<<>>, Devs') \in Seq(Devices)
      BY <3>1, <3>2, ThingsType
    <3>5. DOMAIN DetectedThings(<<>>, Devs') = {}
      BY <3>3 DEF DetectedThings
    <3>6. QED
      BY <3>4, <3>5
  <2>3. QED
    BY <1>3, <2>1, <2>2 DEF Unshown
<1>6. Shown' = Shown
  BY <1>1, <1>2, <1>3 DEF Shown
<1>7. QED
  BY <1>3, <1>4, <1>5, <1>6 DEF Service!Open

LEMMA NameLostCloses ==
  ASSUME IInv, Running, IInv', NameLost, UNCHANGED deviceVars
  PROVE  Service!Close
<1>1. /\ main \in {"boot", "run"} /\ main' = "quit" /\ UNCHANGED pc
      /\ UNCHANGED <<devices, current>>
  BY DEF NameLost, deviceVars, tableVars
<1>2. Serving # "no more" /\ Serving' = "no more" /\ ~Registered'
  BY <1>1 DEF Serving, Registered
<1>3. OnAir' = OnAir
  BY <1>1 DEF OnAir, InSession
<1>4. Unshown' = <<>> /\ Shown' = NoDevice
  BY <1>2 DEF Unshown, Shown
<1>5. QED
  BY <1>2, <1>3, <1>4 DEF Service!Close


\* The radio has detected a device: with the adapter registered its detection
\* is the last one queued, otherwise no client will ever see it.
LEMMA PollDeviceMeets ==
  ASSUME IInv, Running, IInv', PollDevice
  PROVE  \E t \in Devices : Service!Meet(t)
<1>0. TypeOK /\ QuietBoot /\ Table(devices) /\ cbq \in Seq(Callbacks)
  BY InvFacts
<1>1. /\ pc = "poll" /\ pc' = "leave" /\ UNCHANGED <<main, objects, aborted>>
      /\ peer \in Devices /\ peer # NoDevice
  BY <1>0 DEF PollDevice, TypeOK, DeviceTypeOK, MaybeDevice
<1>2. PICK id \in Ids : /\ FirstFree(id) /\ current' = id
                        /\ devices' = With(devices, id, NewEntry(peer))
                        /\ cbq' = Posted(Detected(id))
  BY DEF PollDevice
<1>3. /\ id \notin DOMAIN devices /\ DOMAIN devices' = DOMAIN devices \cup {id}
      /\ devices'[id].dev = peer
      /\ \A i \in DOMAIN devices : devices'[i] = devices[i]
  BY <1>2 DEF FirstFree, With, NewEntry
<1>4. ~InSession /\ InSession'
  BY <1>1 DEF InSession
<1>5. OnAir = NoDevice /\ OnAir' = peer
  BY <1>2, <1>3, <1>4 DEF OnAir
<1>6. main # "boot" /\ Registered' = Registered
  BY <1>0, <1>1 DEF QuietBoot, Registered
<1>7. Shown' = Shown
  BY <1>1, <1>6, SameShown
<1>8. Serving' = Serving /\ (Serving = "yes" <=> Registered)
  BY <1>1, <1>6 DEF Serving, Registered
<1>9. CASE Registered
  <2>1. cbq' = Append(cbq, Detected(id))
    BY <1>2, <1>9 DEF Posted, Registered
  <2>2. Unshown = DetectedThings(cbq, Devs) /\ Unshown' = DetectedThings(cbq', Devs')
    BY <1>6, <1>9 DEF Unshown
  <2>3. \A i : DetectionIn(cbq, i) => Devs'[i] = Devs[i] /\ Devs'[i] \in Devices
    BY <1>0, <1>3, EntriesHeld DEF EntriesAreHeld, Devs, Table, Entries
  <2>4. DetectedThings(cbq, Devs') = DetectedThings(cbq, Devs)
    BY <1>0, <2>3, SameThings
  <2>5. Detected(id) \in Callbacks /\ Detected(id).type = "detected" /\ Detected(id).id = id
    BY CallbackFacts DEF Detected
  <2>6. Devs'[id] = peer
    BY <1>3 DEF Devs
  <2>7. DetectedThings(Append(cbq, Detected(id)), Devs')
          = Append(DetectedThings(cbq, Devs'), Devs'[Detected(id).id])
    BY <1>0, <1>1, <2>3, <2>5, <2>6, DetectionPostedThings
  <2>8. Unshown' = Append(Unshown, peer)
    BY <2>1, <2>2, <2>4, <2>5, <2>6, <2>7
  <2>9. QED
    BY <1>1, <1>5, <1>7, <1>8, <1>9, <2>8 DEF Service!Meet
<1>10. CASE ~Registered
  <2>1. Unshown = <<>> /\ Unshown' = <<>>
    BY <1>6, <1>10 DEF Unshown
  <2>2. QED
    BY <1>1, <1>5, <1>7, <1>8, <1>10, <2>1 DEF Service!Meet
<1>11. QED
  BY <1>9, <1>10

\* hal_impl_device_lost ends the session; clients hear of it later.
LEMMA DeviceGoneParts ==
  ASSUME IInv, Running, IInv', DeviceGone
  PROVE  Service!Part
<1>0. Table(devices)
  BY InvFacts
<1>1. pc = "lost" /\ pc' = "gone" /\ UNCHANGED <<cbq, main, current, objects>>
  BY DEF DeviceGone
<1>2. InSession /\ ~InSession'
  BY <1>1 DEF InSession
<1>3. current \in DOMAIN devices
  BY <1>2, EntriesHeld DEF EntriesAreHeld
<1>4. OnAir # NoDevice /\ OnAir' = NoDevice
  <2>1. devices[current].dev \in Devices
    BY <1>0, <1>3 DEF Table, Entries
  <2>2. QED
    BY <1>2, <2>1, DeviceAssumption DEF OnAir
<1>5. EntriesStay
  <2>1. devices' = Unref(Disconnected(devices, current), current) /\ UNCHANGED aborted
    BY <1>3 DEF DeviceGone
  <2>2. /\ Table(Disconnected(devices, current))
        /\ DOMAIN Disconnected(devices, current) = DOMAIN devices
        /\ \A i \in DOMAIN devices : Disconnected(devices, current)[i].dev = devices[i].dev
    BY <1>0, <1>3, DisconnectedFacts
  <2> DEFINE table == Disconnected(devices, current)
  <2>3. Table(table) /\ current \in DOMAIN table /\ devices' = Unref(table, current)
    BY <1>3, <2>1, <2>2
  <2> HIDE DEF table
  <2>4. \A i \in DOMAIN devices' : devices'[i].dev = table[i].dev
    BY <2>3, UnrefFacts DEF SameEntry
  <2>5. QED
    BY <2>1, <2>2, <2>4 DEF EntriesStay, SameDevs, Running, table
<1>6. Registered' = Registered /\ Serving' = Serving
  BY <1>1 DEF Registered, Serving
<1>7. Unshown' = Unshown
  BY <1>1, <1>5, <1>6, SameUnshown
<1>8. Shown' = Shown
  BY <1>1, <1>6, SameShown
<1>9. QED
  BY <1>4, <1>6, <1>7, <1>8 DEF Service!Part

\* The adapter exports an object: no other is, and it is for the device that
\* has waited longest.
LEMMA DispatchDetectedShows ==
  ASSUME IInv, Running, IInv', DispatchDetected, Registered
  PROVE  Service!Show
<1> DEFINE id == Head(cbq).id
<1>0. Table(devices) /\ cbq \in Seq(Callbacks)
  BY InvFacts
<1>1. /\ cbq # <<>> /\ cbq' = Tail(cbq) /\ cbq' \in Seq(Callbacks)
      /\ Head(cbq) \in Callbacks /\ Head(cbq).type = "detected"
      /\ Head(cbq) = cbq[1] /\ 1 \in DOMAIN cbq
  BY DispatchedFacts DEF DispatchDetected
<1>2. UNCHANGED <<pc, main, current>>
  BY DEF DispatchDetected
<1>3. Detects(Head(cbq), id) /\ DetectionIn(cbq, id) /\ id \in DOMAIN devices
  <2>1. Detects(Head(cbq), id)
    BY <1>1 DEF Detects
  <2>2. DetectionIn(cbq, id)
    BY <1>1, <2>1 DEF DetectionIn
  <2>3. QED
    BY <2>1, <2>2, EntriesHeld DEF EntriesAreHeld
<1>4. /\ devices' = Unref(Ref(devices, id), id) /\ UNCHANGED aborted
      /\ objects' = With(objects, id, [dev |-> devices[id].dev, shown |-> Nothing])
  BY <1>3 DEF DispatchDetected
<1> HIDE DEF id
<1>5. DOMAIN objects = {}
  <2>1. InOrder(cbq, DOMAIN objects, Present)
    BY InvFacts DEF AdapterFollows
  <2>2. QED
    BY <1>0, <1>1, <1>3, <2>1, DetectionDispatched
<1>6. DOMAIN objects' = {id} /\ objects'[id].dev = devices[id].dev
  BY <1>4, <1>5 DEF With
<1>7. DOMAIN devices' = DOMAIN devices /\ \A i \in DOMAIN devices : devices'[i].dev = devices[i].dev
  BY <1>0, <1>3, <1>4, RefUnrefFacts DEF SameEntry
<1>8. Registered' /\ Serving = "yes" /\ Serving' = Serving /\ InSession' = InSession
  BY <1>2 DEF Registered, Serving, InSession
<1>9. OnAir' = OnAir
  <2>1. EntriesStay
    BY <1>4, <1>7 DEF EntriesStay, SameDevs, Running
  <2>2. QED
    BY <1>2, <1>8, <2>1, SameOnAir
<1>10. Devs' = Devs /\ Devs[id] = devices[id].dev
  BY <1>3, <1>7 DEF Devs
<1>11. \A i : DetectionIn(cbq, i) => Devs[i] \in Devices
  BY <1>0, EntriesHeld DEF EntriesAreHeld, Devs, Table, Entries
<1>12. /\ DetectedThings(cbq, Devs) # <<>>
       /\ Head(DetectedThings(cbq, Devs)) = Devs[Head(cbq).id]
       /\ DetectedThings(Tail(cbq), Devs) = Tail(DetectedThings(cbq, Devs))
  BY <1>0, <1>1, <1>11, DetectionDispatchedThings
<1>13. Unshown # <<>> /\ Head(Unshown) = devices[id].dev /\ Unshown' = Tail(Unshown)
  <2>1. Unshown = DetectedThings(cbq, Devs) /\ Unshown' = DetectedThings(Tail(cbq), Devs)
    BY <1>1, <1>8, <1>10 DEF Unshown
  <2>2. QED
    BY <1>10, <1>12, <2>1 DEF id
<1>14. Shown = NoDevice /\ Shown' = devices[id].dev
  <2>1. TheOne({id}) = id
    BY DEF TheOne
  <2>2. QED
    BY <1>5, <1>6, <1>8, <2>1 DEF Shown
<1>15. QED
  BY <1>8, <1>9, <1>13, <1>14 DEF Service!Show

\* The object of a device is withdrawn when the radio is done with the device,
\* or busy with one that has been detected since.
LEMMA DispatchLostHides ==
  ASSUME IInv, Running, IInv', DispatchLost, Registered
  PROVE  Service!Hide
<1> DEFINE id == Head(cbq).id
<1>0. Table(devices) /\ cbq \in Seq(Callbacks)
  BY InvFacts
<1>1. /\ cbq # <<>> /\ cbq' = Tail(cbq) /\ cbq' \in Seq(Callbacks)
      /\ Head(cbq) \in Callbacks /\ Head(cbq).type = "lost"
  BY DispatchedFacts DEF DispatchLost
<1>2. UNCHANGED <<pc, main, current>>
  BY DEF DispatchLost
<1>3. Loses(Head(cbq), id)
  BY <1>1 DEF Loses
<1>4. InOrder(cbq, DOMAIN objects, Present)
  BY InvFacts DEF AdapterFollows
<1> HIDE DEF id
<1>5. DOMAIN objects = {id} /\ id \notin Present
  BY <1>0, <1>1, <1>3, <1>4, LossDispatched
<1>6. id \in DOMAIN devices
  BY <1>5, InvFacts, HeldEntries DEF ObjectsAreHeld
<1>7. devices' = Unref(devices, id) /\ objects' = Without(objects, id) /\ UNCHANGED aborted
  BY <1>5, <1>6 DEF DispatchLost, id
<1>8. EntriesStay
  BY <1>0, <1>6, <1>7, UnrefFacts DEF EntriesStay, SameDevs, SameEntry, Running
<1>9. Registered' = Registered /\ Serving' = Serving /\ InSession' = InSession
  BY <1>2 DEF Registered, Serving, InSession
<1>10. OnAir' = OnAir
  BY <1>2, <1>8, <1>9, SameOnAir
<1>11. Unshown' = Unshown
  <2>1. DetectionsOf(cbq') = DetectionsOf(cbq)
    BY <1>0, <1>1, OtherDispatchedDetections
  <2>2. QED
    BY <1>8, <1>9, <2>1, SameUnshown
<1>12. Shown # NoDevice /\ Shown' = NoDevice
  <2>1. objects[id].dev \in Devices
    BY <1>5, InvFacts DEF TypeOK, DeviceTypeOK
  <2>2. TheOne({id}) = id
    BY DEF TheOne
  <2>3. DOMAIN objects' = {}
    BY <1>5, <1>7 DEF Without
  <2>4. QED
    BY <1>5, <2>1, <2>2, <2>3, DeviceAssumption DEF Shown
<1>13. OnAir = NoDevice \/ Unshown # <<>>
  <2> SUFFICES ASSUME InSession
               PROVE  Unshown # <<>>
    BY DEF OnAir
  <2>1. current \in Present /\ current # id
    BY <1>5 DEF Present
  <2>2. DetectionIn(cbq, current)
    BY <1>4, <1>5, <2>1 DEF InOrder, PresentAnnounced
  <2>3. DetectionsOf(cbq) \in Seq(Callbacks) /\ DetectionsOf(cbq) # <<>>
    BY <1>0, <2>2, DetectionsQueued, DetectionsAre
  <2>4. /\ DetectedThings(cbq, Devs) \in Seq(Devices)
        /\ Len(DetectedThings(cbq, Devs)) = Len(DetectionsOf(cbq))
    <3>1. \A i : DetectionIn(cbq, i) => Devs[i] \in Devices
      BY <1>0, EntriesHeld DEF EntriesAreHeld, Devs, Table, Entries
    <3>2. QED
      BY <1>0, <3>1, ThingsType
  <2>5. QED
    BY <2>3, <2>4 DEF Unshown
<1>14. QED
  BY <1>9, <1>10, <1>11, <1>12, <1>13 DEF Service!Hide

-----------------------------------------------------------------------------
(***************************************************************************)
(* The refinement.                                                         *)
(***************************************************************************)
LEMMA InitIsService == Init => Service!Init
<1> SUFFICES ASSUME Init
             PROVE  Service!Init
  OBVIOUS
<1>1. pc = "wait" /\ main = "boot"
  BY DEF Init, HalInit
<1>2. OnAir = NoDevice /\ Unshown = <<>> /\ Shown = NoDevice /\ Serving = "not yet"
  BY <1>1 DEF OnAir, InSession, Unshown, Shown, Serving, Registered
<1>3. QED
  BY <1>2 DEF Service!Init

LEMMA NextIsService == IInv /\ IInv' /\ [Next]_vars => [Service!Next]_<<OnAir, Unshown, Shown, Serving>>
<1> SUFFICES ASSUME IInv, IInv', [Next]_vars
             PROVE  Service!Next \/ UNCHANGED <<OnAir, Unshown, Shown, Serving>>
  OBVIOUS
<1>1. CASE UNCHANGED vars
  <2>1. UNCHANGED <<pc, cbq, main, devices, current, objects>>
    BY <1>1 DEF vars, halVars, deviceVars, tableVars
  <2>2. UNCHANGED OnAir /\ UNCHANGED Unshown /\ UNCHANGED Shown /\ UNCHANGED Serving
    BY <2>1 DEF OnAir, Unshown, Shown, Serving, InSession, Registered, Devs
  <2>3. QED
    BY <2>2
<1>2. CASE Running /\ HalThread
  <2>1. CASE HalSteps /\ UNCHANGED deviceVars
    BY <1>2, <2>1, HalStepsStutter
  <2>2. CASE NotifyLost(LostCb(current)) /\ UNCHANGED deviceVars
    BY <1>2, <2>2, NotifyLostStutters
  <2>3. CASE Activate \/ LinkLost \/ UnblockSockets
    BY <1>2, <2>3, LinkStepsStutter DEF LinkLost
  <2>4. CASE PollDevice
    BY <1>2, <2>4, PollDeviceMeets DEF Service!Next
  <2>5. CASE DeviceGone
    BY <1>2, <2>5, DeviceGoneParts DEF Service!Next
  <2>6. QED
    BY <1>2, <2>1, <2>2, <2>3, <2>4, <2>5 DEF HalThread, HalSteps
<1>3. CASE Running /\ (SnepThread \/ ServerThread \/ ClientThread)
  <2>1. CASE SnepThread \/ ClientThread
    BY <1>3, <2>1, SnepStepsStutter DEF SnepThread, ClientThread
  <2>2. CASE ServerThread
    BY <1>3, <2>2, SnepStepsStutter, FindEntryStutters, StoreStutters, AnnounceStutters DEF ServerThread, ServerUnblocked
  <2>3. QED
    BY <1>3, <2>1, <2>2
<1>4. CASE Running /\ MainThread
  <2>1. CASE PushEnds
    BY <1>4, <2>1, PushStutters
  <2>2. CASE MainSteps /\ UNCHANGED deviceVars
    BY <1>4, <2>2, MainStepsStutter
  <2>3. CASE DispatchReceived \/ (DispatchDetected /\ ~Registered) \/ (DispatchLost /\ ~Registered)
    BY <1>4, <2>3, DispatchStutters
  <2>4. CASE DispatchDetected /\ Registered
    BY <1>4, <2>4, DispatchDetectedShows DEF Service!Next
  <2>5. CASE DispatchLost /\ Registered
    BY <1>4, <2>5, DispatchLostHides DEF Service!Next
  <2>6. QED
    BY <1>4, <2>1, <2>2, <2>3, <2>4, <2>5 DEF MainThread, MainSteps, BothThreadsJoined
<1>5. CASE Running /\ Environment
  <2>1. CASE MainSteps /\ UNCHANGED deviceVars
    BY <1>5, <2>1, MainStepsStutter
  <2>2. CASE BusAcquired /\ UNCHANGED deviceVars
    BY <1>5, <2>2, BusAcquiredOpens DEF Service!Next
  <2>3. CASE NameLost /\ UNCHANGED deviceVars
    BY <1>5, <2>3, NameLostCloses DEF Service!Next
  <2>4. CASE push = NoPush /\ \E id \in DOMAIN objects : PushBegins(id)
    BY <1>5, <2>4, PushStutters
  <2>5. CASE LinkBreaks
    BY <1>5, <2>5, LinkStepsStutter DEF LinkBreaks
  <2>6. CASE PeerEnters \/ PeerLeaves \/ Connected \/ Listened \/ ServerFails \/ WaitFails
    BY <1>5, <2>6, SnepStepsStutter
  <2>7. QED
    BY <1>5, <2>1, <2>2, <2>3, <2>4, <2>5, <2>6 DEF Environment, MainSteps
<1>6. QED
  BY <1>1, <1>2, <1>3, <1>4, <1>5 DEF Next, Over

\* Whatever the threads of the HAL, the SNEP threads and the reference counts
\* do, a bus client sees the devices the radio meets one at a time, in the order
\* they were met, each once, and none withdrawn while it is the newest: every
\* step of HalDevice is one of SessionService or changes nothing of what it is
\* about.
THEOREM Refinement == Spec => ImplementsSessionService
<1>1. Init => Service!Init
  BY InitIsService
<1>2. IInv /\ IInv' /\ [Next]_vars => [Service!Next]_(Service!vars)
  BY NextIsService DEF Service!vars
<1>3. QED
  BY <1>1, <1>2, InductiveInvariant, PTL DEF Spec, ImplementsSessionService, Service!Spec

=============================================================================
