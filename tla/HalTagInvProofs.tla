-------------------------- MODULE HalTagInvProofs --------------------------
(***************************************************************************)
(* Proofs about HalTag, for any set of tags and any value of the bounds:   *)
(* the type invariant; IInv is an inductive invariant, and what follows    *)
(* from it; so is RadioInv beside it; and HalTag implements SessionService.*)
(***************************************************************************)
EXTENDS HalTagInv, AnnouncementsProofs, FiniteSetTheorems, TLAPS

-----------------------------------------------------------------------------
(***************************************************************************)
(* The operators the model is built from.                                  *)
(***************************************************************************)

\* hal_tag_ref, hal_tag_unref and hal_impl_tag_new on a table: what they do to
\* its domain and to the entries, and that they leave the tag of an entry alone.
LEMMA WithFacts ==
  ASSUME NEW table, NEW id, NEW entry
  PROVE  /\ DOMAIN With(table, id, entry) = DOMAIN table \cup {id}
         /\ With(table, id, entry)[id] = entry
         /\ \A i \in DOMAIN table : i # id => With(table, id, entry)[i] = table[i]
BY DEF With

LEMMA WithoutFacts ==
  ASSUME NEW table, NEW id
  PROVE  /\ DOMAIN Without(table, id) = DOMAIN table \ {id}
         /\ \A i \in DOMAIN table \ {id} : Without(table, id)[i] = table[i]
BY DEF Without

\* A table of entries.
Table(table) == \A i \in DOMAIN table : table[i] \in Entries

LEMMA RefFacts ==
  ASSUME NEW table, Table(table), NEW id \in DOMAIN table
  PROVE  /\ DOMAIN Ref(table, id) = DOMAIN table
         /\ Table(Ref(table, id))
         /\ Ref(table, id)[id].refs = table[id].refs + 1
         /\ \A i \in DOMAIN table : i # id => Ref(table, id)[i] = table[i]
         /\ \A i \in DOMAIN table : /\ Ref(table, id)[i].tag = table[i].tag
                                    /\ Ref(table, id)[i].connected = table[i].connected
BY DEF Ref, Table, Entries

LEMMA UnrefFacts ==
  ASSUME NEW table, Table(table), NEW id \in DOMAIN table
  PROVE  /\ DOMAIN Unref(table, id) =
              IF table[id].refs = 1 THEN DOMAIN table \ {id} ELSE DOMAIN table
         /\ Table(Unref(table, id))
         /\ table[id].refs # 1 => Unref(table, id)[id].refs = table[id].refs - 1
         /\ \A i \in DOMAIN Unref(table, id) :
              /\ i \in DOMAIN table
              /\ i # id => Unref(table, id)[i] = table[i]
              /\ Unref(table, id)[i].tag = table[i].tag
              /\ Unref(table, id)[i].connected = table[i].connected
<1>1. CASE table[id].refs = 1
  BY <1>1, WithoutFacts DEF Unref, Table
<1>2. CASE table[id].refs # 1
  BY <1>2 DEF Unref, Table, Entries
<1>3. QED
  BY <1>1, <1>2

LEMMA DisconnectedFacts ==
  ASSUME NEW table, Table(table), NEW id \in DOMAIN table
  PROVE  /\ DOMAIN Disconnected(table, id) = DOMAIN table
         /\ Table(Disconnected(table, id))
         /\ Disconnected(table, id)[id].connected = FALSE
         /\ \A i \in DOMAIN table : i # id => Disconnected(table, id)[i] = table[i]
         /\ \A i \in DOMAIN table : /\ Disconnected(table, id)[i].tag = table[i].tag
                                    /\ Disconnected(table, id)[i].refs = table[i].refs
BY DEF Disconnected, Table, Entries

LEMMA NewEntryFacts ==
  ASSUME NEW t \in Tags
  PROVE  /\ NewEntry(t) \in Entries
         /\ NewEntry(t).tag = t
         /\ NewEntry(t).connected = TRUE
         /\ NewEntry(t).refs = IF main = "join" THEN 1 ELSE 2
BY DEF NewEntry, Entries

\* The callbacks: each one is of its type and the typed ones are told apart by
\* their type and id.
LEMMA CallbackFacts ==
  /\ \A m \in RadioModes : ModeCb(m) \in Callbacks
  /\ \A p \in BOOLEAN : PollingCb(p) \in Callbacks
  /\ \A id \in Ids : Detected(id) \in Callbacks /\ LostCb(id) \in Callbacks
  /\ \A id, o \in Ids : /\ Detected(id) # LostCb(o)
                        /\ Detected(id) = Detected(o) => id = o
                        /\ LostCb(id) = LostCb(o) => id = o
  /\ \A m \in RadioModes : \A id \in Ids : ModeCb(m) # Detected(id) /\ ModeCb(m) # LostCb(id)
  /\ \A p \in BOOLEAN : \A id \in Ids :
       PollingCb(p) # Detected(id) /\ PollingCb(p) # LostCb(id)
BY DEF Callbacks, ModeCb, PollingCb, Detected, LostCb

LEMMA CallbackTypes ==
  ASSUME NEW cb \in Callbacks
  PROVE  /\ cb.type = "detected" => cb.id \in Ids /\ cb = Detected(cb.id)
         /\ cb.type = "lost" => cb.id \in Ids /\ cb = LostCb(cb.id)
         /\ cb.type = "mode" => cb.mode \in RadioModes /\ cb = ModeCb(cb.mode)
         /\ cb.type = "polling" => cb.polling \in BOOLEAN /\ cb = PollingCb(cb.polling)
BY DEF Callbacks, ModeCb, PollingCb, Detected, LostCb

LEMMA CommandFacts ==
  /\ Start \in Commands /\ Stop \in Commands /\ Join \in Commands
  /\ \A id \in Ids : \A t \in Tags : Write(id, t) \in Commands
  /\ \A c \in Commands : c.type = "write" => c.id \in Ids /\ c.tag \in Tags
BY DEF Commands, Start, Stop, Join, Write

-----------------------------------------------------------------------------
(***************************************************************************)
(* Type correctness.                                                       *)
(***************************************************************************)

\* Posting a callback, or a parameter change that posts one, keeps the types.
LEMMA PostedType ==
  ASSUME cbq \in Seq(Callbacks), NEW cb \in Callbacks
  PROVE  Posted(cb) \in Seq(Callbacks)
BY DEF Posted

LEMMA UpdatePollingType ==
  ASSUME HalTypeOK, NEW p \in BOOLEAN, UpdatePolling(p)
  PROVE  /\ cbq' \in Seq(Callbacks)
         /\ params' \in [mode : RadioModes, polling : BOOLEAN]
<1>1. PollingCb(p) \in Callbacks
  BY CallbackFacts
<1>2. Posted(PollingCb(p)) \in Seq(Callbacks)
  BY <1>1, PostedType DEF HalTypeOK
<1>3. QED
  BY <1>2 DEF HalTypeOK, UpdatePolling

LEMMA UpdateModeType ==
  ASSUME HalTypeOK, NEW m \in RadioModes, UpdateMode(m)
  PROVE  /\ cbq' \in Seq(Callbacks)
         /\ params' \in [mode : RadioModes, polling : BOOLEAN]
<1>1. ModeCb(m) \in Callbacks
  BY CallbackFacts
<1>2. Posted(ModeCb(m)) \in Seq(Callbacks)
  BY <1>1, PostedType DEF HalTypeOK
<1>3. QED
  BY <1>2 DEF HalTypeOK, UpdateMode

LEMMA PoppedType ==
  ASSUME HalTypeOK, NEW type, Popped(type)
  PROVE  cmdq' \in Seq(Commands) /\ Head(cmdq) \in Commands
BY DEF HalTypeOK, Popped

\* From a queue location the thread returns to one of four places.
LEMMA ReturnToType ==
  ASSUME NEW l, NEW polling, NEW join
  PROVE  ReturnTo(l, polling, join) \in {"wait", "poll", "check", "close"}
BY DEF ReturnTo, LoopHead

\* The tables stay tables of entries with ids.
IdTable(table) == DOMAIN table \subseteq Ids /\ Table(table)

LEMMA TableTypes ==
  ASSUME NEW table, IdTable(table)
  PROVE  /\ \A id \in DOMAIN table : /\ IdTable(Ref(table, id))
                                      /\ DOMAIN Ref(table, id) = DOMAIN table
                                      /\ IdTable(Unref(table, id))
                                      /\ IdTable(Disconnected(table, id))
                                      /\ DOMAIN Disconnected(table, id) = DOMAIN table
         /\ \A id \in Ids : \A t \in Tags : IdTable(With(table, id, NewEntry(t)))
<1>1. ASSUME NEW id \in DOMAIN table
      PROVE  /\ IdTable(Ref(table, id))
             /\ DOMAIN Ref(table, id) = DOMAIN table
             /\ IdTable(Disconnected(table, id))
             /\ DOMAIN Disconnected(table, id) = DOMAIN table
  BY RefFacts, DisconnectedFacts DEF IdTable
<1>2. ASSUME NEW id \in DOMAIN table
      PROVE  IdTable(Unref(table, id))
  <2>1. Table(table)
    BY DEF IdTable
  <2>2. Table(Unref(table, id)) /\ \A i \in DOMAIN Unref(table, id) : i \in DOMAIN table
    BY <2>1, UnrefFacts
  <2>3. QED
    BY <2>2 DEF IdTable
<1>3. ASSUME NEW id \in Ids, NEW t \in Tags
      PROVE  IdTable(With(table, id, NewEntry(t)))
  <2>1. NewEntry(t) \in Entries
    BY NewEntryFacts
  <2>2. QED
    BY <2>1 DEF IdTable, Table, With
<1>4. QED
  BY <1>1, <1>2, <1>3

LEMMA TagsTable == TagTypeOK => IdTable(tags)
BY DEF TagTypeOK, IdTable, Table

LEMMA TypeInit == Init => TypeOK
<1> SUFFICES ASSUME Init PROVE TypeOK
  OBVIOUS
<1>1. cmdq \in Seq(Commands) /\ cbq \in Seq(Callbacks)
  BY DEF Init, HalInit
<1>2. HalTypeOK
  BY <1>1 DEF Init, HalInit, HalTypeOK, Locations, RadioModes
<1>3. 0 \in Ids
  BY TagAssumption DEF Ids
<1>4. DOMAIN tags = {} /\ DOMAIN objects = {}
  BY DEF Init
<1>5. write \in [id : Ids, tag : Tags \cup {NoTag}, from : QueueLocations]
  BY <1>3 DEF Init, NoWrite, QueueLocations
<1>6. TagTypeOK
  BY <1>3, <1>4, <1>5 DEF Init, TagTypeOK
<1>7. QED
  BY <1>2, <1>6 DEF TypeOK

LEMMA TypeHalThread ==
  ASSUME TypeOK, HalThread
  PROVE  TypeOK'
<1>0. HalTypeOK /\ TagTypeOK /\ IdTable(tags)
  BY TagsTable DEF TypeOK
<1> USE <1>0
<1>1. CASE PopStart /\ UNCHANGED tagVars
  <2>1. cbq' \in Seq(Callbacks) /\ params' \in [mode : RadioModes, polling : BOOLEAN]
    BY <1>1, UpdatePollingType DEF PopStart, HalTypeOK
  <2>2. session' \in [polling : BOOLEAN, present : BOOLEAN]
    BY <1>1 DEF PopStart, HalTypeOK
  <2>3. pc' \in Locations
    BY <1>1, <2>2, ReturnToType DEF PopStart, Popped, HalTypeOK, Locations
  <2>4. cmdq' \in Seq(Commands)
    BY <1>1, PoppedType DEF PopStart
  <2>5. aborted' \in {aborted, "setup"}
    BY <1>1 DEF PopStart
  <2>6. /\ UNCHANGED <<joining, main, bus>>
        /\ UNCHANGED tagVars
    BY <1>1 DEF PopStart
  <2>7. QED
    BY <2>1, <2>2, <2>3, <2>4, <2>5, <2>6 DEF TypeOK, HalTypeOK, TagTypeOK, tagVars
<1>2. CASE PopStop /\ UNCHANGED tagVars
  <2>1. cbq' \in Seq(Callbacks) /\ params' \in [mode : RadioModes, polling : BOOLEAN]
    BY <1>2, UpdatePollingType DEF PopStop, HalTypeOK
  <2>2. session' \in [polling : BOOLEAN, present : BOOLEAN]
    BY <1>2 DEF PopStop, HalTypeOK
  <2>3. pc' \in Locations
    BY <1>2, <2>2, ReturnToType DEF PopStop, Popped, HalTypeOK, Locations
  <2>4. cmdq' \in Seq(Commands)
    BY <1>2 DEF PopStop, Popped, HalTypeOK
  <2>5. /\ UNCHANGED <<joining, main, bus, aborted>>
        /\ UNCHANGED tagVars
    BY <1>2 DEF PopStop
  <2>6. QED
    BY <2>1, <2>2, <2>3, <2>4, <2>5 DEF TypeOK, HalTypeOK, TagTypeOK, tagVars
<1>3. CASE PopJoin /\ UNCHANGED tagVars
  <2>1. pc' \in Locations
    BY <1>3 DEF PopJoin, ReturnTo, LoopHead, Locations
  <2>2. joining' \in BOOLEAN /\ cmdq' \in Seq(Commands)
    BY <1>3, PoppedType DEF PopJoin
  <2>3. UNCHANGED <<cbq, session, params, main, bus, aborted, tagVars>>
    BY <1>3 DEF PopJoin
  <2>4. QED
    BY <2>1, <2>2, <2>3 DEF TypeOK, HalTypeOK, TagTypeOK, tagVars
<1>4. CASE PopNothing /\ UNCHANGED tagVars
  <2>1. pc' \in Locations
    BY <1>4, ReturnToType DEF PopNothing, HalTypeOK, Locations
  <2>2. QED
    BY <1>4, <2>1 DEF PopNothing, TypeOK, HalTypeOK, TagTypeOK, tagVars
<1>5. CASE PopWrite
  <2>1. /\ Head(cmdq) \in Commands
        /\ cmdq' \in Seq(Commands)
    BY <1>5 DEF PopWrite, Popped, HalTypeOK
  <2>2. Head(cmdq).id \in Ids /\ Head(cmdq).tag \in Tags
    BY <1>5, <2>1, CommandFacts DEF PopWrite, Popped
  <2>3. HalTypeOK'
    BY <1>5, <2>1 DEF PopWrite, Popped, LookupFails, HalTypeOK, Locations
  <2>4. DOMAIN tags' \subseteq Ids /\ Table(tags')
    BY <1>5, TableTypes DEF PopWrite, IdTable
  <2>5. write' \in [id : Ids, tag : Tags \cup {NoTag}, from : QueueLocations]
    BY <1>5, <2>2 DEF PopWrite, Popped, TagTypeOK
  <2>6. QED
    BY <1>5, <2>3, <2>4, <2>5 DEF PopWrite, TypeOK, TagTypeOK, Table
<1>6. CASE WriteTag
  BY <1>6 DEF WriteTag, TypeOK, HalTypeOK, TagTypeOK, Locations
<1>7. CASE WriteDone
  <2>1. DOMAIN tags' \subseteq Ids /\ Table(tags')
    BY <1>7, TableTypes DEF WriteDone, IdTable
  <2>2. pc' \in Locations
    BY <1>7, ReturnToType DEF WriteDone, HalTypeOK, TagTypeOK, Locations
  <2>3. write' \in [id : Ids, tag : Tags \cup {NoTag}, from : QueueLocations]
    BY <1>7, TagAssumption DEF WriteDone, NoWrite, Ids, QueueLocations
  <2>4. QED
    BY <1>7, <2>1, <2>2, <2>3 DEF WriteDone, LookupFails, TypeOK, HalTypeOK, TagTypeOK, Table
<1>8. CASE PollNothing /\ UNCHANGED tagVars
  BY <1>8 DEF PollNothing, TypeOK, HalTypeOK, TagTypeOK, tagVars, Locations
<1>9. CASE PollTag
  <2>1. PICK id \in Ids : /\ current' = id
                          /\ tags' = With(tags, id, NewEntry(field))
                          /\ cbq' = Posted(Detected(id))
    BY <1>9 DEF PollTag
  <2>2. field \in Tags
    BY <1>9 DEF PollTag, TagTypeOK
  <2>3. cbq' \in Seq(Callbacks)
    BY <2>1, CallbackFacts, PostedType DEF HalTypeOK
  <2>4. DOMAIN tags' \subseteq Ids /\ Table(tags')
    BY <2>1, <2>2, TableTypes DEF IdTable
  <2>5. session' \in [polling : BOOLEAN, present : BOOLEAN]
    BY <1>9 DEF PollTag, HalTypeOK
  <2>6. QED
    BY <1>9, <2>1, <2>3, <2>4, <2>5 DEF PollTag, TypeOK, HalTypeOK, TagTypeOK, Table, Locations
<1>10. CASE LeavePolling /\ UNCHANGED tagVars
  <2>1. cbq' \in Seq(Callbacks) /\ params' \in [mode : RadioModes, polling : BOOLEAN]
    BY <1>10, UpdatePollingType DEF LeavePolling
  <2>2. session' \in [polling : BOOLEAN, present : BOOLEAN]
    BY <1>10 DEF LeavePolling, HalTypeOK
  <2>3. QED
    BY <1>10, <2>1, <2>2 DEF LeavePolling, TypeOK, HalTypeOK, TagTypeOK, tagVars, Locations
<1>11. CASE EnterSession("initiator", "tag") /\ UNCHANGED tagVars
  <2>1. cbq' \in Seq(Callbacks) /\ params' \in [mode : RadioModes, polling : BOOLEAN]
    BY <1>11, UpdateModeType DEF EnterSession, RadioModes
  <2>2. QED
    BY <1>11, <2>1 DEF EnterSession, TypeOK, HalTypeOK, TagTypeOK, tagVars, Locations
<1>12. CASE TagPresent
  BY <1>12 DEF TagPresent, TypeOK, HalTypeOK, TagTypeOK, tagVars, Locations
<1>13. CASE TagGone
  <2>1. DOMAIN tags' \subseteq Ids /\ Table(tags')
    <3>1. CASE current \in DOMAIN tags
      <4>1. IdTable(Disconnected(tags, current)) /\ current \in DOMAIN Disconnected(tags, current)
        BY <3>1, TableTypes
      <4>2. IdTable(Unref(Disconnected(tags, current), current))
        BY <4>1, TableTypes
      <4>3. QED
        BY <1>13, <3>1, <4>2 DEF TagGone, IdTable
    <3>2. CASE current \notin DOMAIN tags
      BY <1>13, <3>2 DEF TagGone, IdTable
    <3>3. QED
      BY <3>1, <3>2
  <2>2. QED
    BY <1>13, <2>1 DEF TagGone, LookupFails, TypeOK, HalTypeOK, TagTypeOK, Table, Locations
<1>14. CASE GoIdle /\ UNCHANGED tagVars
  <2>1. cbq' \in Seq(Callbacks) /\ params' \in [mode : RadioModes, polling : BOOLEAN]
    BY <1>14, UpdateModeType DEF GoIdle, RadioModes
  <2>2. QED
    BY <1>14, <2>1 DEF GoIdle, TypeOK, HalTypeOK, TagTypeOK, tagVars, Locations
<1>15. CASE NotifyLost(LostCb(current)) /\ UNCHANGED tagVars
  <2>1. cbq' \in Seq(Callbacks)
    BY <1>15, CallbackFacts, PostedType DEF NotifyLost, HalTypeOK, TagTypeOK
  <2>2. session' \in [polling : BOOLEAN, present : BOOLEAN]
    BY <1>15 DEF NotifyLost, HalTypeOK
  <2>3. QED
    BY <1>15, <2>1, <2>2 DEF NotifyLost, TypeOK, HalTypeOK, TagTypeOK, tagVars, Locations
<1>16. QED
  BY <1>1, <1>2, <1>3, <1>4, <1>5, <1>6, <1>7, <1>8, <1>9, <1>10, <1>11, <1>12,
     <1>13, <1>14, <1>15 DEF HalThread

LEMMA TypeMainThread ==
  ASSUME TypeOK, MainThread
  PROVE  TypeOK'
<1>0. HalTypeOK /\ TagTypeOK /\ IdTable(tags)
  BY TagsTable DEF TypeOK
<1> USE <1>0
<1>1. CASE DispatchMode /\ UNCHANGED tagVars
  <2>1. Head(cbq) \in Callbacks /\ cbq' \in Seq(Callbacks)
    BY <1>1 DEF DispatchMode, Dispatched, HalTypeOK
  <2>2. Head(cbq).mode \in RadioModes
    BY <1>1, <2>1, CallbackTypes DEF DispatchMode, Dispatched
  <2>3. bus' \in [mode : RadioModes, polling : BOOLEAN]
    BY <1>1, <2>2 DEF DispatchMode, HalTypeOK
  <2>4. QED
    BY <1>1, <2>1, <2>2, <2>3 DEF DispatchMode, TypeOK, HalTypeOK, TagTypeOK, tagVars
<1>2. CASE DispatchPolling /\ UNCHANGED tagVars
  <2>1. Head(cbq) \in Callbacks /\ cbq' \in Seq(Callbacks)
    BY <1>2 DEF DispatchPolling, Dispatched, HalTypeOK
  <2>2. Head(cbq).polling \in BOOLEAN
    BY <1>2, <2>1, CallbackTypes DEF DispatchPolling, Dispatched
  <2>3. QED
    BY <1>2, <2>1, <2>2 DEF DispatchPolling, TypeOK, HalTypeOK, TagTypeOK, tagVars
<1>3. CASE DispatchDetected
  <2>1. /\ Head(cbq) \in Callbacks /\ cbq' \in Seq(Callbacks)
        /\ Head(cbq).id \in Ids
    BY <1>3, CallbackTypes DEF DispatchDetected, Dispatched, HalTypeOK
  <2>2. DOMAIN tags' \subseteq Ids /\ Table(tags')
    <3>1. CASE Head(cbq).id \in DOMAIN tags
      <4>1. IdTable(Ref(tags, Head(cbq).id)) /\ Head(cbq).id \in DOMAIN Ref(tags, Head(cbq).id)
        BY <3>1, TableTypes
      <4>2. /\ IdTable(Unref(Ref(tags, Head(cbq).id), Head(cbq).id))
            /\ IdTable(Unref(tags, Head(cbq).id))
        BY <3>1, <4>1, TableTypes
      <4>3. QED
        BY <1>3, <3>1, <4>2 DEF DispatchDetected, IdTable
    <3>2. CASE Head(cbq).id \notin DOMAIN tags
      BY <1>3, <3>2 DEF DispatchDetected, IdTable
    <3>3. QED
      BY <3>1, <3>2
  <2>3. /\ DOMAIN objects' \subseteq Ids
        /\ \A id \in DOMAIN objects' : objects'[id] \in Tags
    <3>1. CASE Head(cbq).id \in DOMAIN tags /\ Registered
      <4>1. objects' = With(objects, Head(cbq).id, tags[Head(cbq).id].tag)
        BY <1>3, <3>1 DEF DispatchDetected
      <4>2. tags[Head(cbq).id].tag \in Tags
        BY <3>1 DEF TagTypeOK, Entries
      <4>3. QED
        BY <2>1, <4>1, <4>2 DEF TagTypeOK, With
    <3>2. CASE ~(Head(cbq).id \in DOMAIN tags /\ Registered)
      BY <1>3, <3>2 DEF DispatchDetected, TagTypeOK
    <3>3. QED
      BY <3>1, <3>2
  <2>4. QED
    BY <1>3, <2>1, <2>2, <2>3
    DEF DispatchDetected, LookupFails, TypeOK, HalTypeOK, TagTypeOK, Table
<1>4. CASE DispatchLost
  <2>1. /\ Head(cbq) \in Callbacks /\ cbq' \in Seq(Callbacks)
        /\ Head(cbq).id \in Ids
    BY <1>4, CallbackTypes DEF DispatchLost, Dispatched, HalTypeOK
  <2>2. DOMAIN tags' \subseteq Ids /\ Table(tags')
    BY <1>4, TableTypes DEF DispatchLost, AdapterLosesTag, IdTable
  <2>3. /\ DOMAIN objects' \subseteq Ids
        /\ \A id \in DOMAIN objects' : objects'[id] \in Tags
    <3>1. objects' \in {objects, Without(objects, Head(cbq).id)}
      BY <1>4 DEF DispatchLost, AdapterLosesTag
    <3>2. QED
      BY <3>1 DEF TagTypeOK, Without
  <2>4. cmdq' \in Seq(Commands)
    BY <1>4, CommandFacts DEF DispatchLost, AdapterLosesTag, HalTypeOK
  <2>5. adapterRefs' \subseteq Ids /\ aborted' \in {aborted, "lookup", "assert"}
    BY <1>4 DEF DispatchLost, AdapterLosesTag, TagTypeOK
  <2>6. QED
    BY <1>4, <2>1, <2>2, <2>3, <2>4, <2>5 DEF DispatchLost, TypeOK, HalTypeOK, TagTypeOK, Table
<1>5. CASE HalFree /\ UNCHANGED tagVars
  BY <1>5, CommandFacts DEF HalFree, TypeOK, HalTypeOK, TagTypeOK, tagVars
<1>6. CASE ThreadJoined /\ UNCHANGED tagVars
  BY <1>6 DEF ThreadJoined, TypeOK, HalTypeOK, TagTypeOK, tagVars
<1>7. QED
  BY <1>1, <1>2, <1>3, <1>4, <1>5, <1>6 DEF MainThread

LEMMA TypeEnvironment ==
  ASSUME TypeOK, Environment
  PROVE  TypeOK'
<1>0. HalTypeOK /\ TagTypeOK /\ IdTable(tags)
  BY TagsTable DEF TypeOK
<1> USE <1>0
<1>1. CASE BusAcquired /\ UNCHANGED tagVars
  BY <1>1, CommandFacts DEF BusAcquired, TypeOK, HalTypeOK, TagTypeOK, tagVars
<1>2. CASE StartPollLoop /\ UNCHANGED tagVars
  BY <1>2, CommandFacts DEF StartPollLoop, TypeOK, HalTypeOK, TagTypeOK, tagVars
<1>3. CASE StopPollLoop /\ UNCHANGED tagVars
  BY <1>3, CommandFacts DEF StopPollLoop, TypeOK, HalTypeOK, TagTypeOK, tagVars
<1>4. ASSUME NEW id \in DOMAIN objects, WriteMethod(id)
      PROVE  TypeOK'
  <2>1. Write(id, objects[id]) \in Commands
    BY <1>4, CommandFacts DEF TagTypeOK
  <2>2. cmdq' \in Seq(Commands)
    BY <1>4, <2>1 DEF WriteMethod, HalTypeOK
  <2>3. QED
    BY <1>4, <2>2 DEF WriteMethod, TypeOK, HalTypeOK, TagTypeOK, tagVars
<1>5. CASE Unregister
  BY <1>5 DEF Unregister, NameLost, TypeOK, HalTypeOK, TagTypeOK
<1>6. CASE TagEnters
  BY <1>6 DEF TagEnters, TypeOK, HalTypeOK, TagTypeOK, halVars
<1>7. CASE TagLeaves
  BY <1>7 DEF TagLeaves, TypeOK, HalTypeOK, TagTypeOK, halVars
<1>8. QED
  BY <1>1, <1>2, <1>3, <1>4, <1>5, <1>6, <1>7 DEF Environment

LEMMA TypeNext == TypeOK /\ [Next]_vars => TypeOK'
<1> SUFFICES ASSUME TypeOK, [Next]_vars PROVE TypeOK'
  OBVIOUS
<1>1. CASE Next
  BY <1>1, TypeHalThread, TypeMainThread, TypeEnvironment
  DEF Next, Over, vars, halVars, tagVars, TypeOK, HalTypeOK, TagTypeOK
<1>2. CASE UNCHANGED vars
  BY <1>2 DEF vars, halVars, tagVars, TypeOK, HalTypeOK, TagTypeOK
<1>3. QED
  BY <1>1, <1>2

\* Every variable keeps its type, whatever the tags and the bounds.
THEOREM TypeCorrect == Spec => []TypeOK
BY TypeInit, TypeNext, PTL DEF Spec

-----------------------------------------------------------------------------
(***************************************************************************)
(* The inductive invariant.  Most actions leave the table, the objects and *)
(* the order of detections and losses in the callback queue alone:         *)
(* QuietStep deals with them all.  The others have a lemma each.           *)
(***************************************************************************)

-----------------------------------------------------------------------------
(***************************************************************************)
(* Steps that keep the detections and losses in the queue, in their order, *)
(* possibly d places further to the front.                                 *)
(***************************************************************************)
Event(cb) == \E id \in Ids : cb = Detected(id) \/ cb = LostCb(id)

SameEvents(d) ==
  /\ \A i \in DOMAIN cbq :
       Event(cbq[i]) => i - d \in DOMAIN cbq' /\ cbq'[i - d] = cbq[i]
  /\ \A i \in DOMAIN cbq' :
       Event(cbq'[i]) => i + d \in DOMAIN cbq /\ cbq[i + d] = cbq'[i]

LEMMA SameEventsQueued ==
  ASSUME cbq \in Seq(Callbacks), cbq' \in Seq(Callbacks), NEW d \in Nat, SameEvents(d)
  PROVE  \A id \in Ids : /\ DetectedQueued(id)' <=> DetectedQueued(id)
                         /\ LostQueued(id)' <=> LostQueued(id)
BY DEF SameEvents, Event, DetectedQueued, LostQueued

LEMMA SameEventsUnchanged ==
  ASSUME cbq \in Seq(Callbacks), UNCHANGED cbq
  PROVE  SameEvents(0)
BY DEF SameEvents

\* A mode or polling callback joins the queue ...
LEMMA SameEventsPosted ==
  ASSUME cbq \in Seq(Callbacks), NEW cb \in Callbacks, ~Event(cb), cbq' = Posted(cb)
  PROVE  SameEvents(0)
BY DEF SameEvents, Posted

LEMMA SameEventsUpdatePolling ==
  ASSUME cbq \in Seq(Callbacks), NEW p \in BOOLEAN, UpdatePolling(p)
  PROVE  SameEvents(0)
<1>1. PollingCb(p) \in Callbacks /\ ~Event(PollingCb(p))
  BY CallbackFacts DEF Event
<1>2. CASE cbq' = Posted(PollingCb(p))
  BY <1>1, <1>2, SameEventsPosted
<1>3. CASE UNCHANGED cbq
  BY <1>3, SameEventsUnchanged
<1>4. QED
  BY <1>2, <1>3 DEF UpdatePolling

LEMMA SameEventsUpdateMode ==
  ASSUME cbq \in Seq(Callbacks), NEW m \in RadioModes, UpdateMode(m)
  PROVE  SameEvents(0)
<1>1. ModeCb(m) \in Callbacks /\ ~Event(ModeCb(m))
  BY CallbackFacts DEF Event
<1>2. CASE cbq' = Posted(ModeCb(m))
  BY <1>1, <1>2, SameEventsPosted
<1>3. CASE UNCHANGED cbq
  BY <1>3, SameEventsUnchanged
<1>4. QED
  BY <1>2, <1>3 DEF UpdateMode

\* ... or is dispatched from its head.
LEMMA SameEventsTail ==
  ASSUME cbq \in Seq(Callbacks), cbq # <<>>, ~Event(Head(cbq)), cbq' = Tail(cbq)
  PROVE  SameEvents(1)
BY DEF SameEvents

-----------------------------------------------------------------------------
(***************************************************************************)
(* The parts of the invariant under a step that keeps what they read.      *)
(***************************************************************************)
LEMMA StoryKept ==
  ASSUME TypeOK, TypeOK',
         SessionAnnounced, LossesFollow, AllEnd, OneTagAtATime,
         NEW d \in Nat, SameEvents(d),
         UNCHANGED <<objects, current>>, Registered' = Registered,
         (InSession \/ Ending)' = (InSession \/ Ending)
  PROVE  SessionAnnounced' /\ LossesFollow' /\ AllEnd' /\ OneTagAtATime'
<1>0. /\ cbq \in Seq(Callbacks) /\ cbq' \in Seq(Callbacks)
      /\ current \in Ids /\ DOMAIN objects \subseteq Ids
  BY DEF TypeOK, HalTypeOK, TagTypeOK
<1>1. \A id \in Ids : /\ DetectedQueued(id)' <=> DetectedQueued(id)
                      /\ LostQueued(id)' <=> LostQueued(id)
  BY <1>0, SameEventsQueued
<1>2. SessionAnnounced'
  BY <1>0, <1>1 DEF SessionAnnounced
<1>3. LossesFollow'
  <2> SUFFICES ASSUME Registered', NEW i \in DOMAIN cbq', NEW id \in Ids, cbq'[i] = LostCb(id)
               PROVE  /\ id \in DOMAIN objects' \/ \E j \in DOMAIN cbq' : j < i /\ cbq'[j] = Detected(id)
                      /\ \A j \in DOMAIN cbq' : cbq'[j] = LostCb(id) => i = j
    BY DEF LossesFollow
  <2>1. i + d \in DOMAIN cbq /\ cbq[i + d] = LostCb(id)
    BY DEF SameEvents, Event
  <2>2. /\ id \in DOMAIN objects \/ \E j \in DOMAIN cbq : j < i + d /\ cbq[j] = Detected(id)
        /\ \A j \in DOMAIN cbq : cbq[j] = LostCb(id) => i + d = j
    BY <2>1 DEF LossesFollow
  <2>3. id \in DOMAIN objects' \/ \E j \in DOMAIN cbq' : j < i /\ cbq'[j] = Detected(id)
    BY <1>0, <2>2 DEF SameEvents, Event
  <2>4. ASSUME NEW j \in DOMAIN cbq', cbq'[j] = LostCb(id)
        PROVE  i = j
    <3>1. j + d \in DOMAIN cbq /\ cbq[j + d] = LostCb(id)
      BY <2>4 DEF SameEvents, Event
    <3>2. QED
      BY <1>0, <2>2, <3>1
  <2>5. QED
    BY <2>3, <2>4
<1>4. AllEnd'
  BY <1>0, <1>1 DEF AllEnd
<1>5. OneTagAtATime'
  <2>1. OneTagObject'
    BY DEF OneTagAtATime, OneTagObject
  <2> SUFFICES ASSUME Registered', NEW j \in DOMAIN cbq', NEW id \in Ids, cbq'[j] = Detected(id)
               PROVE  /\ \A o \in DOMAIN objects' : LostBefore(o, j)'
                      /\ \A i \in DOMAIN cbq' : \A o \in Ids :
                           i < j /\ cbq'[i] = Detected(o) => LostBefore(o, j)'
    BY <2>1 DEF OneTagAtATime
  <2>2. j + d \in DOMAIN cbq /\ cbq[j + d] = Detected(id)
    BY DEF SameEvents, Event
  <2>3. /\ \A o \in DOMAIN objects : LostBefore(o, j + d)
        /\ \A i \in DOMAIN cbq : \A o \in Ids :
             i < j + d /\ cbq[i] = Detected(o) => LostBefore(o, j + d)
    BY <2>2 DEF OneTagAtATime
  <2>4. ASSUME NEW o \in Ids, LostBefore(o, j + d)
        PROVE  LostBefore(o, j)'
    BY <1>0, <2>4 DEF LostBefore, SameEvents, Event
  <2>5. ASSUME NEW i \in DOMAIN cbq', NEW o \in Ids, i < j, cbq'[i] = Detected(o)
        PROVE  LostBefore(o, j)'
    <3>1. i + d \in DOMAIN cbq /\ cbq[i + d] = Detected(o)
      BY <2>5 DEF SameEvents, Event
    <3>2. LostBefore(o, j + d)
      BY <1>0, <2>3, <2>5, <3>1
    <3>3. QED
      BY <2>4, <3>2
  <2>6. QED
    BY <1>0, <2>3, <2>4, <2>5
<1>6. QED
  BY <1>2, <1>3, <1>4, <1>5

LEMMA HoldersKept ==
  ASSUME TypeOK, TypeOK', Holders,
         NEW d \in Nat, SameEvents(d),
         UNCHANGED <<tags, adapterRefs, current, write>>,
         InSession' = InSession, Writing' = Writing
  PROVE  Holders'
<1>0. /\ cbq \in Seq(Callbacks) /\ cbq' \in Seq(Callbacks)
      /\ DOMAIN tags \subseteq Ids
  BY DEF TypeOK, HalTypeOK, TagTypeOK
<1>1. \A id \in Ids : /\ DetectedQueued(id)' <=> DetectedQueued(id)
                      /\ SessionHolds(id)' <=> SessionHolds(id)
                      /\ WriteHolds(id)' <=> WriteHolds(id)
  BY <1>0, SameEventsQueued DEF SessionHolds, WriteHolds
<1>2. \A id \in Ids : /\ One(DetectedQueued(id))' = One(DetectedQueued(id))
                      /\ One(SessionHolds(id))' = One(SessionHolds(id))
                      /\ One(WriteHolds(id))' = One(WriteHolds(id))
  BY <1>1 DEF One
<1>3. ASSUME NEW i \in DOMAIN cbq', NEW j \in DOMAIN cbq', NEW id \in Ids,
             cbq'[i] = Detected(id), cbq'[j] = Detected(id)
      PROVE  i = j
  <2>1. /\ i + d \in DOMAIN cbq /\ cbq[i + d] = Detected(id)
        /\ j + d \in DOMAIN cbq /\ cbq[j + d] = Detected(id)
    BY <1>3 DEF SameEvents, Event
  <2>2. i + d = j + d
    BY <2>1 DEF Holders
  <2>3. QED
    BY <1>0, <2>2
<1>4. QED
  BY <1>0, <1>1, <1>2, <1>3 DEF Holders

LEMMA AdapterViewKept ==
  ASSUME TypeOK, TypeOK', AdapterView,
         NEW d \in Nat, SameEvents(d),
         UNCHANGED <<objects, adapterRefs>>, Registered' = Registered,
         \A id \in DOMAIN tags' : id \in DOMAIN tags /\ tags'[id].tag = tags[id].tag
  PROVE  AdapterView'
<1>0. /\ cbq \in Seq(Callbacks) /\ cbq' \in Seq(Callbacks)
  BY DEF TypeOK, HalTypeOK
<1>1. \A id \in Ids : DetectedQueued(id)' <=> DetectedQueued(id)
  BY <1>0, SameEventsQueued
<1>2. QED
  BY <1>1 DEF AdapterView

LEMMA ConnectionKept ==
  ASSUME TypeOK, TypeOK', Connection,
         UNCHANGED <<tags, current>>, activated' \in {activated, NoTag},
         session'.present = session.present,
         InSession' = InSession, Ending' = Ending
  PROVE  Connection'
BY DEF Connection, SessionHolds

\* A step that touches neither the table nor the objects nor the events.
LEMMA QuietStep ==
  ASSUME IInv, TypeOK', QuietBoot', NoInternalAbort',
         NEW d \in Nat, SameEvents(d),
         UNCHANGED <<tags, objects, adapterRefs, current, write>>,
         activated' \in {activated, NoTag}, session'.present = session.present,
         Registered' = Registered,
         InSession' = InSession, Ending' = Ending, Writing' = Writing
  PROVE  IInv'
<1>1. SessionAnnounced' /\ LossesFollow' /\ AllEnd' /\ OneTagAtATime'
  BY StoryKept DEF IInv
<1>2. Holders'
  BY HoldersKept DEF IInv
<1>3. AdapterView'
  BY AdapterViewKept DEF IInv
<1>4. Connection'
  BY ConnectionKept DEF IInv
<1>5. QED
  BY <1>1, <1>2, <1>3, <1>4 DEF IInv

-----------------------------------------------------------------------------
(***************************************************************************)
(* The quiet actions of the RdLib thread.                                  *)
(***************************************************************************)

\* Leaving a queue location for where process_queue returns to is a step within
\* the session or outside it.
LEMMA ReturnKept ==
  ASSUME pc \in QueueLocations, NEW polling, NEW join, pc' = ReturnTo(pc, polling, join)
  PROVE  InSession' = InSession /\ Ending' = Ending /\ Writing' = Writing
BY DEF QueueLocations, ReturnTo, LoopHead, InSession, Ending, Writing

LEMMA QuietHalThread ==
  ASSUME IInv, TypeOK',
         \/ PopStart /\ UNCHANGED tagVars
         \/ PopStop /\ UNCHANGED tagVars
         \/ PopJoin /\ UNCHANGED tagVars
         \/ PopNothing /\ UNCHANGED tagVars
         \/ PollNothing /\ UNCHANGED tagVars
         \/ LeavePolling /\ UNCHANGED tagVars
         \/ EnterSession("initiator", "tag") /\ UNCHANGED tagVars
         \/ TagPresent
         \/ GoIdle /\ UNCHANGED tagVars
         \/ WriteTag
  PROVE  IInv'
<1>0. /\ cbq \in Seq(Callbacks)
      /\ TypeOK /\ QuietBoot /\ NoInternalAbort
      /\ 0 \in Nat
  BY DEF IInv, TypeOK, HalTypeOK
<1>1. CASE PopStart /\ UNCHANGED tagVars
  <2>1. InSession' = InSession /\ Ending' = Ending /\ Writing' = Writing
    BY <1>1, ReturnKept DEF PopStart, Popped, tagVars, InSession, Writing
  <2>2. SameEvents(0)
    BY <1>0, <1>1, SameEventsUpdatePolling, SameEventsUnchanged DEF PopStart
  <2>3. NoInternalAbort'
    BY <1>0, <1>1 DEF PopStart, NoInternalAbort
  <2>4. QuietBoot'
    BY <1>0, <1>1 DEF PopStart, Popped, QuietBoot
  <2>5. session'.present = session.present
    BY <1>0, <1>1 DEF PopStart, TypeOK, HalTypeOK
  <2>6. QED
    BY <1>0, <1>1, <2>1, <2>2, <2>3, <2>4, <2>5, QuietStep DEF PopStart, tagVars, Registered
<1>2. CASE PopStop /\ UNCHANGED tagVars
  <2>1. InSession' = InSession /\ Ending' = Ending /\ Writing' = Writing
    BY <1>2, ReturnKept DEF PopStop, Popped, tagVars, InSession, Writing
  <2>2. SameEvents(0)
    BY <1>0, <1>2, SameEventsUpdatePolling, SameEventsUnchanged DEF PopStop
  <2>3. NoInternalAbort'
    BY <1>0, <1>2 DEF PopStop, NoInternalAbort
  <2>4. QuietBoot'
    BY <1>0, <1>2 DEF PopStop, Popped, QuietBoot
  <2>5. session'.present = session.present
    BY <1>0, <1>2 DEF PopStop, TypeOK, HalTypeOK
  <2>6. QED
    BY <1>0, <1>2, <2>1, <2>2, <2>3, <2>4, <2>5, QuietStep DEF PopStop, tagVars, Registered
<1>3. CASE PopJoin /\ UNCHANGED tagVars
  <2>1. InSession' = InSession /\ Ending' = Ending /\ Writing' = Writing
    BY <1>3, ReturnKept DEF PopJoin, Popped, tagVars, InSession, Writing
  <2>2. SameEvents(0)
    BY <1>0, <1>3, SameEventsUnchanged DEF PopJoin
  <2>3. NoInternalAbort' /\ QuietBoot'
    BY <1>0, <1>3 DEF PopJoin, Popped, NoInternalAbort, QuietBoot
  <2>4. QED
    BY <1>0, <1>3, <2>1, <2>2, <2>3, QuietStep DEF PopJoin, tagVars, Registered
<1>4. CASE PopNothing /\ UNCHANGED tagVars
  <2>1. InSession' = InSession /\ Ending' = Ending /\ Writing' = Writing
    BY <1>4, ReturnKept DEF PopNothing, tagVars, InSession, Writing
  <2>2. SameEvents(0)
    BY <1>0, <1>4, SameEventsUnchanged DEF PopNothing
  <2>3. NoInternalAbort' /\ QuietBoot'
    BY <1>0, <1>4 DEF PopNothing, NoInternalAbort, QuietBoot, ReturnTo, LoopHead, tagVars
  <2>4. QED
    BY <1>0, <1>4, <2>1, <2>2, <2>3, QuietStep DEF PopNothing, tagVars, Registered
<1>5. CASE PollNothing /\ UNCHANGED tagVars
  <2>1. InSession' = InSession /\ Ending' = Ending /\ Writing' = Writing
    BY <1>5 DEF PollNothing, tagVars, InSession, Ending, Writing
  <2>2. SameEvents(0)
    BY <1>0, <1>5, SameEventsUnchanged DEF PollNothing
  <2>3. NoInternalAbort' /\ QuietBoot'
    BY <1>0, <1>5 DEF PollNothing, NoInternalAbort, QuietBoot
  <2>4. QED
    BY <1>0, <1>5, <2>1, <2>2, <2>3, QuietStep DEF PollNothing, tagVars, Registered
<1>6. CASE LeavePolling /\ UNCHANGED tagVars
  <2>1. InSession' = InSession /\ Ending' = Ending /\ Writing' = Writing
    BY <1>6 DEF LeavePolling, tagVars, InSession, Ending, Writing
  <2>2. SameEvents(0)
    BY <1>0, <1>6, SameEventsUpdatePolling DEF LeavePolling
  <2>3. NoInternalAbort' /\ QuietBoot'
    BY <1>0, <1>6 DEF LeavePolling, NoInternalAbort, QuietBoot
  <2>4. session'.present = session.present
    BY <1>0, <1>6 DEF LeavePolling, TypeOK, HalTypeOK
  <2>5. QED
    BY <1>0, <1>6, <2>1, <2>2, <2>3, <2>4, QuietStep DEF LeavePolling, tagVars, Registered
<1>7. CASE EnterSession("initiator", "tag") /\ UNCHANGED tagVars
  <2>1. InSession' = InSession /\ Ending' = Ending /\ Writing' = Writing
    BY <1>7 DEF EnterSession, tagVars, InSession, Ending, Writing
  <2>2. SameEvents(0)
    BY <1>0, <1>7, SameEventsUpdateMode DEF EnterSession, RadioModes
  <2>3. NoInternalAbort' /\ QuietBoot'
    BY <1>0, <1>7 DEF EnterSession, NoInternalAbort, QuietBoot
  <2>4. QED
    BY <1>0, <1>7, <2>1, <2>2, <2>3, QuietStep DEF EnterSession, tagVars, Registered
<1>8. CASE TagPresent
  <2>1. InSession' = InSession /\ Ending' = Ending /\ Writing' = Writing
    BY <1>8 DEF TagPresent, tagVars, InSession, Ending, Writing
  <2>2. SameEvents(0)
    BY <1>0, <1>8, SameEventsUnchanged DEF TagPresent
  <2>3. NoInternalAbort' /\ QuietBoot'
    BY <1>0, <1>8 DEF TagPresent, NoInternalAbort, QuietBoot
  <2>4. QED
    BY <1>0, <1>8, <2>1, <2>2, <2>3, QuietStep DEF TagPresent, tagVars, Registered
<1>9. CASE GoIdle /\ UNCHANGED tagVars
  <2>1. InSession' = InSession /\ Ending' = Ending /\ Writing' = Writing
    BY <1>9 DEF GoIdle, tagVars, InSession, Ending, Writing
  <2>2. SameEvents(0)
    BY <1>0, <1>9, SameEventsUpdateMode DEF GoIdle, RadioModes
  <2>3. NoInternalAbort' /\ QuietBoot'
    BY <1>0, <1>9 DEF GoIdle, NoInternalAbort, QuietBoot
  <2>4. QED
    BY <1>0, <1>9, <2>1, <2>2, <2>3, QuietStep DEF GoIdle, tagVars, Registered
<1>10. CASE WriteTag
  <2>1. InSession' = InSession /\ Ending' = Ending /\ Writing' = Writing
    BY <1>10 DEF WriteTag, InSession, Ending, Writing
  <2>2. SameEvents(0)
    BY <1>0, <1>10, SameEventsUnchanged DEF WriteTag
  <2>3. NoInternalAbort' /\ QuietBoot'
    BY <1>0, <1>10 DEF WriteTag, NoInternalAbort, QuietBoot
  <2>4. QED
    BY <1>0, <1>10, <2>1, <2>2, <2>3, QuietStep DEF WriteTag, Registered
<1>11. QED
  BY <1>1, <1>2, <1>3, <1>4, <1>5, <1>6, <1>7, <1>8, <1>9, <1>10

-----------------------------------------------------------------------------
(***************************************************************************)
(* The quiet actions of the main thread and of the environment.            *)
(***************************************************************************)
LEMMA QuietRest ==
  ASSUME IInv, TypeOK',
         \/ DispatchMode /\ UNCHANGED tagVars
         \/ DispatchPolling /\ UNCHANGED tagVars
         \/ HalFree /\ UNCHANGED tagVars
         \/ ThreadJoined /\ UNCHANGED tagVars
         \/ StartPollLoop /\ UNCHANGED tagVars
         \/ StopPollLoop /\ UNCHANGED tagVars
         \/ \E id \in DOMAIN objects : WriteMethod(id)
         \/ TagEnters
         \/ TagLeaves
         \/ UNCHANGED vars
  PROVE  IInv'
<1>0. /\ cbq \in Seq(Callbacks)
      /\ TypeOK /\ QuietBoot /\ NoInternalAbort
      /\ 0 \in Nat /\ 1 \in Nat
  BY DEF IInv, TypeOK, HalTypeOK
<1>1. UNCHANGED pc
  BY DEF DispatchMode, DispatchPolling, HalFree, ThreadJoined, StartPollLoop, StopPollLoop,
         WriteMethod, TagEnters, TagLeaves, vars, halVars
<1>2. /\ UNCHANGED <<tags, objects, adapterRefs, current, write, session, aborted>>
      /\ activated' \in {activated, NoTag}
  BY DEF DispatchMode, DispatchPolling, HalFree, ThreadJoined, StartPollLoop, StopPollLoop,
         WriteMethod, TagEnters, TagLeaves, vars, halVars, tagVars
<1>3. InSession' = InSession /\ Ending' = Ending /\ Writing' = Writing
  BY <1>1, <1>2 DEF InSession, Ending, Writing
<1>4. Registered' = Registered /\ QuietBoot' /\ NoInternalAbort'
  BY <1>0, <1>1, <1>2
  DEF DispatchMode, DispatchPolling, Dispatched, HalFree, ThreadJoined, StartPollLoop,
      StopPollLoop, WriteMethod, ClientMayAct, TagEnters, TagLeaves, vars, halVars, tagVars,
      Registered, QuietBoot, NoInternalAbort
<1>5. CASE cbq' = Tail(cbq) /\ cbq # <<>> /\ Head(cbq).type \in {"mode", "polling"}
  <2>1. Head(cbq) \in Callbacks
    BY <1>0, <1>5
  <2>2. ~Event(Head(cbq))
    BY <1>5 DEF Event, Detected, LostCb
  <2>3. SameEvents(1)
    BY <1>0, <1>5, <2>2, SameEventsTail
  <2>4. QED
    BY <1>0, <1>2, <1>3, <1>4, <2>3, QuietStep
<1>6. CASE UNCHANGED cbq
  <2>1. SameEvents(0)
    BY <1>0, <1>6, SameEventsUnchanged
  <2>2. QED
    BY <1>0, <1>2, <1>3, <1>4, <2>1, QuietStep
<1>7. QED
  BY <1>5, <1>6
  DEF DispatchMode, DispatchPolling, Dispatched, HalFree, ThreadJoined, StartPollLoop,
      StopPollLoop, WriteMethod, TagEnters, TagLeaves, vars, halVars

\* The bus is acquired, or lost with everything on it.
LEMMA RegistrationStep ==
  ASSUME IInv, TypeOK', (BusAcquired /\ UNCHANGED tagVars) \/ Unregister
  PROVE  IInv'
<1>0. /\ cbq \in Seq(Callbacks) /\ TypeOK
      /\ QuietBoot /\ Holders /\ AdapterView /\ Connection /\ NoInternalAbort /\ OneTagObject
  BY DEF IInv, TypeOK, HalTypeOK, OneTagAtATime
<1>1. CASE BusAcquired /\ UNCHANGED tagVars
  <2>1. /\ cbq = <<>> /\ UNCHANGED <<cbq, tagVars, pc, session, aborted>>
        /\ pc = "wait" /\ adapterRefs = {} /\ ~Registered /\ main' = "run"
    BY <1>0, <1>1 DEF BusAcquired, QuietBoot, Registered
  <2>2. DOMAIN objects = {} /\ DOMAIN objects' = {} /\ adapterRefs' = {}
    BY <1>0, <2>1 DEF AdapterView, tagVars
  <2>3. ~InSession' /\ ~Ending' /\ InSession' = InSession /\ Writing' = Writing /\ Ending' = Ending
    BY <2>1 DEF InSession, Ending, Writing, tagVars
  <2>4. SameEvents(0) /\ 0 \in Nat
    BY <1>0, <2>1, SameEventsUnchanged
  <2>5. Holders'
    BY <1>0, <2>1, <2>3, <2>4, HoldersKept DEF tagVars
  <2>6. Connection'
    BY <1>0, <2>1, <2>3, ConnectionKept DEF tagVars
  <2>7. AdapterView' /\ AllEnd' /\ LossesFollow' /\ OneTagAtATime' /\ SessionAnnounced'
    BY <2>1, <2>2, <2>3
    DEF AdapterView, AllEnd, LossesFollow, OneTagAtATime, OneTagObject, SessionAnnounced,
        DetectedQueued
  <2>8. QuietBoot' /\ NoInternalAbort'
    BY <1>0, <2>1 DEF QuietBoot, NoInternalAbort
  <2>9. QED
    BY <2>5, <2>6, <2>7, <2>8 DEF IInv
<1>2. CASE Unregister
  <2>1. /\ UNCHANGED <<cbq, pc, session, aborted, tags, current, write, adapterRefs, activated>>
        /\ ~Registered' /\ main' = "quit" /\ DOMAIN objects' = {}
    BY <1>2 DEF Unregister, NameLost, Registered
  <2>2. InSession' = InSession /\ Writing' = Writing /\ Ending' = Ending
    BY <2>1 DEF InSession, Ending, Writing
  <2>3. SameEvents(0) /\ 0 \in Nat
    BY <1>0, <2>1, SameEventsUnchanged
  <2>4. Holders'
    BY <1>0, <2>1, <2>2, <2>3, HoldersKept
  <2>5. Connection'
    BY <1>0, <2>1, <2>2, ConnectionKept
  <2>6. AdapterView'
    BY <1>0, <2>1 DEF AdapterView, DetectedQueued
  <2>7. AllEnd' /\ LossesFollow' /\ OneTagAtATime' /\ SessionAnnounced'
    BY <2>1 DEF AllEnd, LossesFollow, OneTagAtATime, OneTagObject, SessionAnnounced
  <2>8. QuietBoot' /\ NoInternalAbort'
    BY <1>0, <2>1 DEF QuietBoot, NoInternalAbort
  <2>9. QED
    BY <2>4, <2>5, <2>6, <2>7, <2>8 DEF IInv
<1>3. QED
  BY <1>1, <1>2

-----------------------------------------------------------------------------
(***************************************************************************)
(* Steps that change reference counts and nothing the adapter sees.        *)
(***************************************************************************)

\* The invariant but for Holders and Connection, under a step that only takes
\* or drops references of entries.
LEMMA CountingStep ==
  ASSUME IInv, TypeOK', QuietBoot', NoInternalAbort', Holders', Connection',
         UNCHANGED <<cbq, objects, adapterRefs, current>>, Registered' = Registered,
         (InSession \/ Ending)' = (InSession \/ Ending),
         \A id \in DOMAIN tags' : id \in DOMAIN tags /\ tags'[id].tag = tags[id].tag
  PROVE  IInv'
<1>0. cbq \in Seq(Callbacks) /\ TypeOK /\ 0 \in Nat
  BY DEF IInv, TypeOK, HalTypeOK
<1>1. SameEvents(0)
  BY <1>0, SameEventsUnchanged
<1>2. SessionAnnounced' /\ LossesFollow' /\ AllEnd' /\ OneTagAtATime'
  BY <1>0, <1>1, StoryKept DEF IInv
<1>3. AdapterView'
  BY <1>0, <1>1, AdapterViewKept DEF IInv
<1>4. QED
  BY <1>2, <1>3 DEF IInv

\* The typed facts every one of the following steps starts from.
LEMMA StepFacts ==
  ASSUME IInv
  PROVE  /\ cbq \in Seq(Callbacks) /\ cmdq \in Seq(Commands)
         /\ DOMAIN tags \subseteq Ids /\ Table(tags)
         /\ current \in Ids /\ write.id \in Ids
         /\ DOMAIN objects \subseteq Ids /\ adapterRefs \subseteq Ids
         /\ TypeOK /\ QuietBoot /\ Holders /\ AdapterView /\ SessionAnnounced
         /\ LossesFollow /\ AllEnd /\ OneTagAtATime /\ Connection /\ NoInternalAbort
BY DEF IInv, TypeOK, HalTypeOK, TagTypeOK, Table

\* Holders, said once more with a function: how many holders each id has.
Counts(table, n) ==
  /\ DOMAIN table = {i \in Ids : n[i] > 0}
  /\ \A i \in DOMAIN table : table[i].refs = n[i]

HolderCount ==
  [id \in Ids |-> One(SessionHolds(id)) + One(WriteHolds(id))
                    + One(DetectedQueued(id)) + One(id \in adapterRefs)]

QueuedOnce ==
  \A i, j \in DOMAIN cbq : \A id \in Ids :
    cbq[i] = Detected(id) /\ cbq[j] = Detected(id) => i = j

HoldersAreCounted ==
  DOMAIN tags \subseteq Ids =>
    /\ Holders <=> QueuedOnce /\ Counts(tags, HolderCount)
    /\ HolderCount \in [Ids -> Nat]

LEMMA HoldersCount == HoldersAreCounted
<1> SUFFICES ASSUME DOMAIN tags \subseteq Ids
             PROVE  /\ Holders <=> QueuedOnce /\ Counts(tags, HolderCount)
                    /\ HolderCount \in [Ids -> Nat]
  BY DEF HoldersAreCounted
<1>1. \A id \in Ids : /\ One(SessionHolds(id)) \in {0, 1} /\ (One(SessionHolds(id)) = 1 <=> SessionHolds(id))
                      /\ One(WriteHolds(id)) \in {0, 1} /\ (One(WriteHolds(id)) = 1 <=> WriteHolds(id))
                      /\ One(DetectedQueued(id)) \in {0, 1} /\ (One(DetectedQueued(id)) = 1 <=> DetectedQueued(id))
                      /\ One(id \in adapterRefs) \in {0, 1} /\ (One(id \in adapterRefs) = 1 <=> id \in adapterRefs)
  BY DEF One
<1>2. \A id \in Ids : HolderCount[id] = One(SessionHolds(id)) + One(WriteHolds(id))
                                        + One(DetectedQueued(id)) + One(id \in adapterRefs)
  BY DEF HolderCount
<1>3. \A id \in Ids : HolderCount[id] > 0 <=>
        SessionHolds(id) \/ WriteHolds(id) \/ DetectedQueued(id) \/ id \in adapterRefs
  BY <1>1, <1>2
<1>4. HolderCount \in [Ids -> Nat]
  BY <1>1 DEF HolderCount
<1>5. Counts(tags, HolderCount) <=>
        /\ \A id \in Ids : id \in DOMAIN tags <=> HolderCount[id] > 0
        /\ \A id \in DOMAIN tags : tags[id].refs = HolderCount[id]
  BY DEF Counts
<1>6. QED
  BY <1>2, <1>3, <1>4, <1>5 DEF Holders, QueuedOnce

LEMMA HoldersCountNext == HoldersAreCounted'
BY HoldersCount, PTL

\* One holder more, one holder less.
LEMMA CountsRef ==
  ASSUME NEW table, Table(table), NEW n \in [Ids -> Nat], Counts(table, n),
         NEW id \in DOMAIN table, NEW m \in [Ids -> Nat],
         \A i \in Ids : m[i] = IF i = id THEN n[i] + 1 ELSE n[i]
  PROVE  Counts(Ref(table, id), m)
<1>1. /\ DOMAIN Ref(table, id) = DOMAIN table
      /\ Ref(table, id)[id].refs = table[id].refs + 1
      /\ \A i \in DOMAIN table : i # id => Ref(table, id)[i] = table[i]
  BY RefFacts
<1>2. QED
  BY <1>1 DEF Counts

LEMMA CountsUnref ==
  ASSUME NEW table, Table(table), NEW n \in [Ids -> Nat], Counts(table, n),
         NEW id \in DOMAIN table, NEW m \in [Ids -> Nat],
         \A i \in Ids : m[i] = IF i = id THEN n[i] - 1 ELSE n[i]
  PROVE  Counts(Unref(table, id), m)
<1>1. /\ DOMAIN Unref(table, id) = IF table[id].refs = 1 THEN DOMAIN table \ {id} ELSE DOMAIN table
      /\ table[id].refs # 1 => Unref(table, id)[id].refs = table[id].refs - 1
      /\ \A i \in DOMAIN Unref(table, id) : i \in DOMAIN table /\ (i # id => Unref(table, id)[i] = table[i])
  BY UnrefFacts
<1>2. QED
  BY <1>1 DEF Counts

LEMMA PopWriteStep ==
  ASSUME IInv, TypeOK', PopWrite
  PROVE  IInv'
<1> DEFINE id == Head(cmdq).id
<1>0. /\ Holders /\ Connection /\ QuietBoot /\ NoInternalAbort /\ TypeOK
      /\ Table(tags) /\ DOMAIN tags \subseteq Ids /\ cbq \in Seq(Callbacks)
  BY StepFacts
<1>1. CASE id \notin DOMAIN tags
  <2>1. /\ UNCHANGED <<pc, cbq, session, main, tags, objects, adapterRefs, current, write, activated>>
        /\ aborted' = "write"
    BY <1>1 DEF PopWrite, Popped, LookupFails
  <2>2. InSession' = InSession /\ Ending' = Ending /\ Writing' = Writing
    BY <2>1 DEF InSession, Ending, Writing
  <2>3. SameEvents(0) /\ 0 \in Nat
    BY <1>0, <2>1, SameEventsUnchanged
  <2>4. QuietBoot' /\ NoInternalAbort'
    BY <1>0, <2>1 DEF QuietBoot, NoInternalAbort, PopWrite, Popped
  <2>5. QED
    BY <2>1, <2>2, <2>3, <2>4, QuietStep DEF Registered
<1>2. CASE id \in DOMAIN tags
  <2>1. /\ UNCHANGED <<cbq, session, main, objects, adapterRefs, current, activated, aborted>>
        /\ pc \in QueueLocations /\ pc' = "write"
        /\ tags' = Ref(tags, id)
        /\ write' = [id |-> id, tag |-> Head(cmdq).tag, from |-> pc]
    BY <1>2 DEF PopWrite, Popped
  <2>2. InSession' = InSession /\ Ending' = Ending /\ ~Writing /\ Writing'
    BY <2>1 DEF InSession, Ending, Writing, QueueLocations
  <2>3. \A i \in Ids : /\ SessionHolds(i)' <=> SessionHolds(i)
                       /\ DetectedQueued(i)' <=> DetectedQueued(i)
                       /\ ~WriteHolds(i) /\ (WriteHolds(i)' <=> i = id)
    BY <2>1, <2>2 DEF SessionHolds, DetectedQueued, WriteHolds
  <2>4. \A i \in Ids : HolderCount'[i] = IF i = id THEN HolderCount[i] + 1 ELSE HolderCount[i]
    BY <2>1, <2>3 DEF HolderCount, One
  <2>5. /\ DOMAIN tags' = DOMAIN tags
        /\ \A i \in DOMAIN tags : /\ tags'[i].tag = tags[i].tag
                                  /\ tags'[i].connected = tags[i].connected
    BY <1>0, <1>2, <2>1, RefFacts
  <2>6. HolderCount \in [Ids -> Nat] /\ HolderCount' \in [Ids -> Nat] /\ Counts(tags, HolderCount)
    BY <1>0, <2>5, HoldersCount, HoldersCountNext DEF HoldersAreCounted
  <2>7. Counts(tags', HolderCount')
    BY <1>0, <1>2, <2>1, <2>4, <2>6, CountsRef
  <2>8. Holders'
    BY <1>0, <2>1, <2>5, <2>7, HoldersCount, HoldersCountNext DEF HoldersAreCounted, QueuedOnce
  <2>9. Connection'
    BY <1>0, <2>1, <2>2, <2>3, <2>5 DEF Connection
  <2>10. QuietBoot' /\ NoInternalAbort'
    BY <1>0, <2>1 DEF QuietBoot, NoInternalAbort, PopWrite, Popped
  <2>11. QED
    BY <2>1, <2>2, <2>5, <2>8, <2>9, <2>10, CountingStep DEF Registered
<1>3. QED
  BY <1>1, <1>2

LEMMA WriteDoneStep ==
  ASSUME IInv, TypeOK', WriteDone
  PROVE  IInv'
<1> DEFINE id == write.id
<1>0. /\ Holders /\ Connection /\ QuietBoot /\ NoInternalAbort /\ TypeOK
      /\ Table(tags) /\ DOMAIN tags \subseteq Ids /\ cbq \in Seq(Callbacks)
      /\ id \in Ids /\ write.from \in QueueLocations /\ DOMAIN tags' \subseteq Ids
  BY StepFacts DEF TypeOK, TagTypeOK
<1>1. Writing /\ WriteHolds(id)
  BY DEF WriteDone, Writing, WriteHolds
<1>2. id \in DOMAIN tags
  BY <1>0, <1>1 DEF Holders
<1>3. /\ UNCHANGED <<cbq, session, main, objects, adapterRefs, current, activated, aborted>>
      /\ pc = "written" /\ pc' = ReturnTo(write.from, session.polling, joining)
      /\ tags' = Unref(tags, id)
  BY <1>2 DEF WriteDone
<1>4. InSession' = InSession /\ Ending' = Ending /\ ~Writing'
  BY <1>0, <1>3 DEF InSession, Ending, Writing, QueueLocations, ReturnTo, LoopHead
<1>5. \A i \in Ids : /\ SessionHolds(i)' <=> SessionHolds(i)
                     /\ DetectedQueued(i)' <=> DetectedQueued(i)
                     /\ WriteHolds(i) <=> i = id
                     /\ ~WriteHolds(i)'
  BY <1>1, <1>3, <1>4 DEF SessionHolds, DetectedQueued, WriteHolds
<1>6. \A i \in Ids : HolderCount'[i] = IF i = id THEN HolderCount[i] - 1 ELSE HolderCount[i]
  BY <1>3, <1>5 DEF HolderCount, One
<1>7. \A i \in DOMAIN tags' : /\ i \in DOMAIN tags
                             /\ tags'[i].tag = tags[i].tag
                             /\ tags'[i].connected = tags[i].connected
  BY <1>0, <1>2, <1>3, UnrefFacts
<1>8. HolderCount \in [Ids -> Nat] /\ HolderCount' \in [Ids -> Nat] /\ Counts(tags, HolderCount)
  BY <1>0, HoldersCount, HoldersCountNext DEF HoldersAreCounted
<1>9. Counts(tags', HolderCount')
  BY <1>0, <1>2, <1>3, <1>6, <1>8, CountsUnref
<1>10. Holders'
  BY <1>0, <1>3, <1>9, HoldersCount, HoldersCountNext DEF HoldersAreCounted, QueuedOnce
<1>11. Connection'
  BY <1>0, <1>3, <1>4, <1>5, <1>7 DEF Connection
<1>12. QuietBoot' /\ NoInternalAbort'
  BY <1>0, <1>3 DEF QuietBoot, NoInternalAbort
<1>13. QED
  BY <1>3, <1>4, <1>7, <1>10, <1>11, <1>12, CountingStep DEF Registered

LEMMA TagGoneStep ==
  ASSUME IInv, TypeOK', TagGone
  PROVE  IInv'
<1> DEFINE marked == Disconnected(tags, current)
<1>0. /\ Holders /\ Connection /\ QuietBoot /\ NoInternalAbort /\ TypeOK
      /\ Table(tags) /\ DOMAIN tags \subseteq Ids /\ cbq \in Seq(Callbacks)
      /\ current \in Ids /\ DOMAIN tags' \subseteq Ids
  BY StepFacts DEF TypeOK, TagTypeOK
<1>1. InSession /\ SessionHolds(current)
  BY DEF TagGone, InSession, SessionHolds
<1>2. current \in DOMAIN tags
  BY <1>0, <1>1 DEF Holders
<1>3. /\ UNCHANGED <<cbq, session, main, objects, adapterRefs, current, write, activated, aborted>>
      /\ pc = "check" /\ pc' = "gone"
      /\ tags' = Unref(marked, current)
  BY <1>2 DEF TagGone
<1>4. ~InSession' /\ ~Ending /\ Ending' /\ ~Writing /\ ~Writing'
  BY <1>3 DEF InSession, Ending, Writing
<1>5. \A i \in Ids : /\ SessionHolds(i) <=> i = current
                     /\ ~SessionHolds(i)'
                     /\ DetectedQueued(i)' <=> DetectedQueued(i)
                     /\ WriteHolds(i)' <=> WriteHolds(i)
  BY <1>1, <1>3, <1>4 DEF SessionHolds, DetectedQueued, WriteHolds
<1>6. \A i \in Ids : HolderCount'[i] = IF i = current THEN HolderCount[i] - 1 ELSE HolderCount[i]
  BY <1>3, <1>5 DEF HolderCount, One
<1>7. /\ DOMAIN marked = DOMAIN tags /\ Table(marked)
      /\ marked[current].connected = FALSE
      /\ \A i \in DOMAIN tags : i # current => marked[i] = tags[i]
      /\ \A i \in DOMAIN tags : marked[i].tag = tags[i].tag /\ marked[i].refs = tags[i].refs
  BY <1>0, <1>2, DisconnectedFacts
<1>8. HolderCount \in [Ids -> Nat] /\ HolderCount' \in [Ids -> Nat] /\ Counts(tags, HolderCount)
  BY <1>0, HoldersCount, HoldersCountNext DEF HoldersAreCounted
<1>9. Counts(marked, HolderCount)
  BY <1>7, <1>8 DEF Counts
<1>10. Counts(tags', HolderCount')
  BY <1>2, <1>3, <1>6, <1>7, <1>8, <1>9, CountsUnref
<1>11. Holders'
  BY <1>0, <1>3, <1>10, HoldersCount, HoldersCountNext DEF HoldersAreCounted, QueuedOnce
<1>12. \A i \in DOMAIN tags' : /\ i \in DOMAIN tags
                              /\ tags'[i].tag = tags[i].tag
                              /\ tags'[i].connected = marked[i].connected
  <2>1. current \in DOMAIN marked
    BY <1>2, <1>7
  <2>2. \A i \in DOMAIN Unref(marked, current) : /\ i \in DOMAIN marked
                             /\ Unref(marked, current)[i].tag = marked[i].tag
                             /\ Unref(marked, current)[i].connected = marked[i].connected
    BY <1>7, <2>1, UnrefFacts
  <2>3. QED
    BY <1>3, <1>7, <2>2
<1>13. \A i \in DOMAIN tags' : ~tags'[i].connected
  BY <1>0, <1>1, <1>7, <1>12 DEF Connection, SessionHolds
<1>14. Connection'
  BY <1>0, <1>1, <1>3, <1>4, <1>13 DEF Connection
<1>15. QuietBoot' /\ NoInternalAbort'
  BY <1>0, <1>3 DEF QuietBoot, NoInternalAbort
<1>16. QED
  BY <1>1, <1>3, <1>4, <1>11, <1>12, <1>14, <1>15, CountingStep DEF Registered

-----------------------------------------------------------------------------
(***************************************************************************)
(* A tag is detected: its id is free, so that nothing on its way to the    *)
(* adapter has that id, and every earlier session is over and announced to *)
(* be over.                                                                *)
(***************************************************************************)
LEMMA AppendFacts ==
  ASSUME NEW S, NEW q \in Seq(S), NEW e \in S
  PROVE  /\ DOMAIN q = 1..Len(q) /\ Len(q) \in Nat
         /\ DOMAIN Append(q, e) = 1..(Len(q) + 1)
         /\ \A i \in DOMAIN q : Append(q, e)[i] = q[i]
         /\ Append(q, e)[Len(q) + 1] = e
OBVIOUS

LEMMA PollTagStep ==
  ASSUME IInv, TypeOK', PollTag
  PROVE  IInv'
<1>0. /\ Holders /\ Connection /\ QuietBoot /\ NoInternalAbort /\ TypeOK
      /\ Table(tags) /\ DOMAIN tags \subseteq Ids /\ cbq \in Seq(Callbacks)
      /\ DOMAIN tags' \subseteq Ids /\ DOMAIN objects \subseteq Ids /\ adapterRefs \subseteq Ids
      /\ AdapterView /\ LossesFollow /\ AllEnd /\ OneTagAtATime
  BY StepFacts DEF TypeOK, TagTypeOK
<1>1. PICK id \in Ids : /\ id \notin DOMAIN tags /\ current' = id
                        /\ tags' = With(tags, id, NewEntry(field))
                        /\ cbq' = Posted(Detected(id))
  BY DEF PollTag, FirstFree
<1>2. /\ UNCHANGED <<main, objects, adapterRefs, write, aborted>>
      /\ pc = "poll" /\ pc' = "leave" /\ session'.present = TRUE
      /\ activated' = field /\ field \in Tags
  BY <1>0 DEF PollTag, TypeOK, HalTypeOK, TagTypeOK
<1>3. /\ ~InSession /\ InSession' /\ ~Ending /\ ~Ending' /\ ~Writing /\ ~Writing'
      /\ Registered' = Registered /\ main # "boot"
  BY <1>0, <1>2 DEF InSession, Ending, Writing, Registered, QuietBoot
<1>4. /\ ~DetectedQueued(id) /\ id \notin adapterRefs
      /\ Registered => id \notin DOMAIN objects /\ ~LostQueued(id)
  <2>1. ~DetectedQueued(id) /\ id \notin adapterRefs
    BY <1>0, <1>1 DEF Holders
  <2>2. Registered => id \notin DOMAIN objects
    BY <1>0, <2>1 DEF AdapterView
  <2>3. Registered => ~LostQueued(id)
    <3> SUFFICES ASSUME Registered, NEW i \in DOMAIN cbq, cbq[i] = LostCb(id)
                 PROVE  FALSE
      BY DEF LostQueued
    <3>1. id \in DOMAIN objects \/ \E j \in DOMAIN cbq : j < i /\ cbq[j] = Detected(id)
      BY <1>0, <1>1 DEF LossesFollow
    <3>2. QED
      BY <2>1, <2>2, <3>1 DEF DetectedQueued
  <2>4. QED
    BY <2>1, <2>2, <2>3
<1>5. /\ DOMAIN tags' = DOMAIN tags \cup {id}
      /\ tags'[id] = NewEntry(field)
      /\ \A i \in DOMAIN tags : tags'[i] = tags[i]
  BY <1>1 DEF With
<1>6. /\ NewEntry(field).tag = field
      /\ NewEntry(field).refs = IF main = "join" THEN 1 ELSE 2
  BY <1>2, NewEntryFacts
<1>7. /\ QueuedOnce'
      /\ \A i \in Ids : i # id => (DetectedQueued(i)' <=> DetectedQueued(i))
      /\ \A i \in Ids : LostQueued(i)' <=> LostQueued(i)
      /\ DetectedQueued(id)' <=> main # "join"
  <2>1. QueuedOnce
    BY <1>0 DEF Holders, QueuedOnce
  <2>2. CASE main = "join"
    BY <1>1, <1>4, <2>1, <2>2 DEF Posted, QueuedOnce, DetectedQueued, LostQueued
  <2>3. CASE main # "join"
    <3>1. cbq' = Append(cbq, Detected(id))
      BY <1>1, <2>3 DEF Posted
    <3>2. Detected(id) \in Callbacks
      BY CallbackFacts
    <3>3. /\ DOMAIN cbq = 1..Len(cbq) /\ Len(cbq) \in Nat
          /\ DOMAIN cbq' = 1..(Len(cbq) + 1)
          /\ \A i \in DOMAIN cbq : cbq'[i] = cbq[i]
          /\ cbq'[Len(cbq) + 1] = Detected(id)
      BY <1>0, <3>1, <3>2, AppendFacts
    <3>4. QueuedOnce'
      BY <1>4, <2>1, <3>3, CallbackFacts DEF QueuedOnce, DetectedQueued
    <3>5. QED
      BY <2>3, <3>3, <3>4, CallbackFacts DEF DetectedQueued, LostQueued
  <2>4. QED
    BY <2>2, <2>3
<1>8. \A i \in Ids : HolderCount'[i] =
        IF i = id THEN (IF main = "join" THEN 1 ELSE 2) ELSE HolderCount[i]
  <2>1. \A i \in Ids : /\ ~SessionHolds(i) /\ (SessionHolds(i)' <=> i = id)
                       /\ ~WriteHolds(i) /\ ~WriteHolds(i)'
    BY <1>1, <1>3 DEF SessionHolds, WriteHolds
  <2>2. QED
    BY <1>2, <1>4, <1>7, <2>1 DEF HolderCount, One
<1>9. HolderCount \in [Ids -> Nat] /\ HolderCount' \in [Ids -> Nat] /\ Counts(tags, HolderCount)
  BY <1>0, HoldersCount, HoldersCountNext DEF HoldersAreCounted
<1>10. Counts(tags', HolderCount')
  BY <1>0, <1>1, <1>5, <1>6, <1>8, <1>9 DEF Counts
<1>11. Holders'
  BY <1>0, <1>7, <1>10, HoldersCount, HoldersCountNext DEF HoldersAreCounted
<1>12. AdapterView'
  BY <1>0, <1>2, <1>3, <1>4, <1>5, <1>7 DEF AdapterView
<1>13. Connection'
  <2>1. \A i \in DOMAIN tags : ~tags[i].connected
    BY <1>0, <1>3 DEF Connection, SessionHolds
  <2>2. QED
    BY <1>1, <1>2, <1>3, <1>5, <1>6, <2>1 DEF Connection, SessionHolds
<1>14. QuietBoot' /\ NoInternalAbort'
  BY <1>0, <1>2, <1>3 DEF QuietBoot, NoInternalAbort
<1>15. SessionAnnounced'
  BY <1>1, <1>2, <1>3, <1>4, <1>7 DEF SessionAnnounced, Registered
<1>16. AllEnd'
  BY <1>0, <1>1, <1>2, <1>3, <1>7 DEF AllEnd
<1>17. LossesFollow' /\ OneTagAtATime'
  <2>1. CASE ~Registered
    BY <1>0, <1>2, <1>3, <2>1 DEF LossesFollow, OneTagAtATime, OneTagObject
  <2>2. CASE Registered
    <3>1. cbq' = Append(cbq, Detected(id))
      BY <1>1, <2>2 DEF Posted, Registered
    <3>2. Detected(id) \in Callbacks
      BY CallbackFacts
    <3>3. /\ DOMAIN cbq = 1..Len(cbq) /\ Len(cbq) \in Nat
          /\ DOMAIN cbq' = 1..(Len(cbq) + 1)
          /\ \A i \in DOMAIN cbq : cbq'[i] = cbq[i]
          /\ cbq'[Len(cbq) + 1] = Detected(id)
      BY <1>0, <3>1, <3>2, AppendFacts
    <3>4. LossesFollow'
      BY <1>0, <1>2, <2>2, <3>3, CallbackFacts DEF LossesFollow
    <3>5. \A o \in Ids : o \in DOMAIN objects \/ DetectedQueued(o) => LostQueued(o)
      BY <1>0, <1>3, <2>2 DEF AllEnd
    <3>6. ASSUME NEW j \in DOMAIN cbq', NEW i \in Ids, cbq'[j] = Detected(i)
          PROVE  /\ \A o \in DOMAIN objects' : LostBefore(o, j)'
                 /\ \A k \in DOMAIN cbq' : \A o \in Ids :
                      k < j /\ cbq'[k] = Detected(o) => LostBefore(o, j)'
      <4>1. CASE j \in DOMAIN cbq
        <5>1. cbq[j] = Detected(i)
          BY <3>3, <3>6, <4>1
        <5>2. /\ \A o \in DOMAIN objects : LostBefore(o, j)
              /\ \A k \in DOMAIN cbq : \A o \in Ids :
                   k < j /\ cbq[k] = Detected(o) => LostBefore(o, j)
          BY <1>0, <2>2, <4>1, <5>1 DEF OneTagAtATime
        <5>3. \A o \in Ids : LostBefore(o, j) => LostBefore(o, j)'
          BY <3>3 DEF LostBefore
        <5>4. QED
          BY <1>0, <1>2, <3>3, <4>1, <5>2, <5>3
      <4>2. CASE j = Len(cbq) + 1
        <5>1. \A o \in Ids : LostQueued(o) => LostBefore(o, j)'
          BY <3>3, <4>2 DEF LostQueued, LostBefore
        <5>2. \A k \in DOMAIN cbq' : \A o \in Ids :
                k < j /\ cbq'[k] = Detected(o) => DetectedQueued(o)
          BY <3>3, <4>2 DEF DetectedQueued
        <5>3. QED
          BY <1>0, <1>2, <3>5, <5>1, <5>2
      <4>3. QED
        BY <3>3, <4>1, <4>2
    <3>7. OneTagObject'
      BY <1>0, <1>2 DEF OneTagAtATime, OneTagObject
    <3>8. QED
      BY <3>4, <3>6, <3>7 DEF OneTagAtATime
  <2>3. QED
    BY <2>1, <2>2
<1>18. QED
  BY <1>11, <1>12, <1>13, <1>14, <1>15, <1>16, <1>17 DEF IInv

\* The session's loss is queued behind everything there is of it.
LEMMA NotifyLostStep ==
  ASSUME IInv, TypeOK', NotifyLost(LostCb(current)), UNCHANGED tagVars
  PROVE  IInv'
<1>0. /\ Holders /\ Connection /\ QuietBoot /\ NoInternalAbort /\ TypeOK
      /\ DOMAIN tags \subseteq Ids /\ cbq \in Seq(Callbacks)
      /\ DOMAIN objects \subseteq Ids /\ current \in Ids
      /\ AdapterView /\ SessionAnnounced /\ LossesFollow /\ AllEnd /\ OneTagAtATime
  BY StepFacts
<1>1. /\ UNCHANGED <<main, objects, adapterRefs, write, aborted, tags, current, activated>>
      /\ pc = "notify" /\ pc' = "drain" /\ session'.present = FALSE
      /\ cbq' = Posted(LostCb(current))
  BY <1>0 DEF NotifyLost, tagVars, TypeOK, HalTypeOK
<1>2. /\ ~InSession /\ ~InSession' /\ Ending /\ ~Ending' /\ ~Writing /\ ~Writing'
      /\ Registered' = Registered /\ main # "boot"
  BY <1>0, <1>1 DEF InSession, Ending, Writing, Registered, QuietBoot
<1>3. /\ QueuedOnce'
      /\ \A i \in Ids : DetectedQueued(i)' <=> DetectedQueued(i)
  <2>1. QueuedOnce
    BY <1>0 DEF Holders, QueuedOnce
  <2>2. CASE main = "join"
    BY <1>1, <2>1, <2>2 DEF Posted, QueuedOnce, DetectedQueued
  <2>3. CASE main # "join"
    <3>1. cbq' = Append(cbq, LostCb(current)) /\ LostCb(current) \in Callbacks
      BY <1>0, <1>1, <2>3, CallbackFacts DEF Posted
    <3>2. /\ DOMAIN cbq = 1..Len(cbq) /\ Len(cbq) \in Nat
          /\ DOMAIN cbq' = 1..(Len(cbq) + 1)
          /\ \A i \in DOMAIN cbq : cbq'[i] = cbq[i]
          /\ cbq'[Len(cbq) + 1] = LostCb(current)
      BY <1>0, <3>1, AppendFacts
    <3>3. QED
      BY <1>0, <2>1, <3>2, CallbackFacts DEF QueuedOnce, DetectedQueued
  <2>4. QED
    BY <2>2, <2>3
<1>4. \A i \in Ids : HolderCount'[i] = HolderCount[i]
  BY <1>1, <1>2, <1>3 DEF HolderCount, One, SessionHolds, WriteHolds
<1>5. HolderCount \in [Ids -> Nat] /\ HolderCount' \in [Ids -> Nat] /\ Counts(tags, HolderCount)
  BY <1>0, <1>1, HoldersCount, HoldersCountNext DEF HoldersAreCounted
<1>6. Counts(tags', HolderCount')
  BY <1>0, <1>1, <1>4, <1>5 DEF Counts
<1>7. Holders'
  BY <1>0, <1>1, <1>3, <1>6, HoldersCount, HoldersCountNext DEF HoldersAreCounted
<1>8. AdapterView'
  BY <1>0, <1>1, <1>2, <1>3 DEF AdapterView
<1>9. Connection'
  BY <1>0, <1>1, <1>2 DEF Connection, SessionHolds
<1>10. QuietBoot' /\ NoInternalAbort' /\ SessionAnnounced'
  BY <1>0, <1>1, <1>2 DEF QuietBoot, NoInternalAbort, SessionAnnounced
<1>11. AllEnd' /\ LossesFollow' /\ OneTagAtATime'
  <2>1. CASE ~Registered
    BY <1>0, <1>1, <1>2, <2>1 DEF AllEnd, LossesFollow, OneTagAtATime, OneTagObject
  <2>2. CASE Registered
    <3>1. cbq' = Append(cbq, LostCb(current)) /\ LostCb(current) \in Callbacks
      BY <1>0, <1>1, <2>2, CallbackFacts DEF Posted, Registered
    <3>2. /\ DOMAIN cbq = 1..Len(cbq) /\ Len(cbq) \in Nat
          /\ DOMAIN cbq' = 1..(Len(cbq) + 1)
          /\ \A i \in DOMAIN cbq : cbq'[i] = cbq[i]
          /\ cbq'[Len(cbq) + 1] = LostCb(current)
      BY <1>0, <3>1, AppendFacts
    <3>3. \A i \in Ids : LostQueued(i)' <=> LostQueued(i) \/ i = current
      BY <1>0, <3>2, CallbackFacts DEF LostQueued
    <3>4. AllEnd'
      BY <1>0, <1>1, <1>2, <1>3, <2>2, <3>3 DEF AllEnd
    <3>5. /\ ~LostQueued(current)
          /\ current \in DOMAIN objects \/ DetectedQueued(current)
      BY <1>0, <1>2, <2>2 DEF SessionAnnounced
    <3>6. LossesFollow'
      <4> SUFFICES ASSUME NEW i \in DOMAIN cbq', NEW id \in Ids, cbq'[i] = LostCb(id)
                   PROVE  /\ id \in DOMAIN objects' \/ \E j \in DOMAIN cbq' : j < i /\ cbq'[j] = Detected(id)
                          /\ \A j \in DOMAIN cbq' : cbq'[j] = LostCb(id) => i = j
        BY DEF LossesFollow
      <4>1. CASE i \in DOMAIN cbq
        <5>1. cbq[i] = LostCb(id) /\ LostQueued(id) /\ id # current
          BY <3>2, <3>5, <4>1 DEF LostQueued
        <5>2. /\ id \in DOMAIN objects \/ \E j \in DOMAIN cbq : j < i /\ cbq[j] = Detected(id)
              /\ \A j \in DOMAIN cbq : cbq[j] = LostCb(id) => i = j
          BY <1>0, <2>2, <4>1, <5>1 DEF LossesFollow
        <5>3. QED
          BY <1>0, <1>1, <3>2, <4>1, <5>1, <5>2, CallbackFacts
      <4>2. CASE i = Len(cbq) + 1
        <5>1. id = current
          BY <1>0, <3>2, <4>2, CallbackFacts
        <5>2. \A j \in DOMAIN cbq : cbq[j] # LostCb(current)
          BY <3>5 DEF LostQueued
        <5>3. QED
          BY <1>1, <3>2, <3>5, <4>2, <5>1, <5>2 DEF DetectedQueued
      <4>3. QED
        BY <3>2, <4>1, <4>2
    <3>7. OneTagAtATime'
      <4> SUFFICES ASSUME NEW j \in DOMAIN cbq', NEW id \in Ids, cbq'[j] = Detected(id)
                   PROVE  /\ \A o \in DOMAIN objects' : LostBefore(o, j)'
                          /\ \A k \in DOMAIN cbq' : \A o \in Ids :
                               k < j /\ cbq'[k] = Detected(o) => LostBefore(o, j)'
        BY <1>0, <1>1 DEF OneTagAtATime, OneTagObject
      <4>1. j \in DOMAIN cbq /\ cbq[j] = Detected(id)
        BY <1>0, <3>2, CallbackFacts
      <4>2. /\ \A o \in DOMAIN objects : LostBefore(o, j)
            /\ \A k \in DOMAIN cbq : \A o \in Ids :
                 k < j /\ cbq[k] = Detected(o) => LostBefore(o, j)
        BY <1>0, <2>2, <4>1 DEF OneTagAtATime
      <4>3. \A o \in Ids : LostBefore(o, j) => LostBefore(o, j)'
        BY <3>2 DEF LostBefore
      <4>4. QED
        BY <1>0, <1>1, <3>2, <4>1, <4>2, <4>3
    <3>8. QED
      BY <3>4, <3>6, <3>7
  <2>3. QED
    BY <2>1, <2>2
<1>12. QED
  BY <1>7, <1>8, <1>9, <1>10, <1>11 DEF IInv

-----------------------------------------------------------------------------
(***************************************************************************)
(* The adapter is told of a detection, or of a loss.                       *)
(***************************************************************************)
LEMMA TailFacts ==
  ASSUME NEW S, NEW q \in Seq(S), q # <<>>
  PROVE  /\ DOMAIN q = 1..Len(q) /\ Len(q) \in Nat \ {0}
         /\ DOMAIN Tail(q) = 1..(Len(q) - 1)
         /\ \A i \in DOMAIN Tail(q) : Tail(q)[i] = q[i + 1]
         /\ Head(q) = q[1]
OBVIOUS

\* The callbacks behind the first one stay queued.
LEMMA TailEvents ==
  ASSUME cbq \in Seq(Callbacks), cbq # <<>>, cbq' = Tail(cbq), NEW cb, cbq[1] # cb
  PROVE  (\E i \in DOMAIN cbq' : cbq'[i] = cb) <=> (\E i \in DOMAIN cbq : cbq[i] = cb)
<1>1. /\ DOMAIN cbq = 1..Len(cbq) /\ Len(cbq) \in Nat \ {0}
      /\ DOMAIN cbq' = 1..(Len(cbq) - 1)
      /\ \A i \in DOMAIN cbq' : cbq'[i] = cbq[i + 1]
  BY TailFacts
<1>2. \A i \in DOMAIN cbq' : i + 1 \in DOMAIN cbq /\ cbq[i + 1] = cbq'[i]
  BY <1>1
<1>3. \A i \in DOMAIN cbq : cbq[i] = cb => i - 1 \in DOMAIN cbq' /\ cbq'[i - 1] = cb
  BY <1>1
<1>4. QED
  BY <1>2, <1>3

\* Unref after Ref leaves the table as it was, entry by entry.
LEMMA RefUnref ==
  ASSUME NEW table, Table(table), NEW id \in DOMAIN table
  PROVE  /\ DOMAIN Unref(Ref(table, id), id) = DOMAIN table
         /\ \A i \in DOMAIN table : /\ Unref(Ref(table, id), id)[i].refs = table[i].refs
                                    /\ Unref(Ref(table, id), id)[i].tag = table[i].tag
                                    /\ Unref(Ref(table, id), id)[i].connected = table[i].connected
<1> DEFINE t == Ref(table, id)
<1>1. /\ DOMAIN t = DOMAIN table /\ Table(t)
      /\ t[id].refs = table[id].refs + 1
      /\ \A i \in DOMAIN table : i # id => t[i] = table[i]
      /\ \A i \in DOMAIN table : t[i].tag = table[i].tag /\ t[i].connected = table[i].connected
  BY RefFacts
<1>2. table[id].refs \in Nat \ {0}
  BY DEF Table, Entries
<1>3. t[id].refs # 1 /\ t[id].refs - 1 = table[id].refs
  BY <1>1, <1>2
<1> HIDE DEF t
<1>4. /\ DOMAIN Unref(t, id) = DOMAIN t
      /\ Unref(t, id)[id].refs = t[id].refs - 1
      /\ \A i \in DOMAIN Unref(t, id) : /\ i # id => Unref(t, id)[i] = t[i]
                                        /\ Unref(t, id)[i].tag = t[i].tag
                                        /\ Unref(t, id)[i].connected = t[i].connected
  <2>1. id \in DOMAIN t /\ Table(t)
    BY <1>1
  <2>2. Unref(t, id) = [t EXCEPT ![id].refs = @ - 1]
    BY <1>3 DEF Unref
  <2>3. DOMAIN Unref(t, id) = DOMAIN t
    BY <2>2
  <2>4. Unref(t, id)[id].refs = t[id].refs - 1
    BY <1>3, <2>1, UnrefFacts
  <2>5. QED
    BY <2>1, <2>3, <2>4, UnrefFacts
<1>5. /\ DOMAIN Unref(t, id) = DOMAIN table
      /\ \A i \in DOMAIN table : /\ Unref(t, id)[i].refs = table[i].refs
                                 /\ Unref(t, id)[i].tag = table[i].tag
                                 /\ Unref(t, id)[i].connected = table[i].connected
  BY <1>1, <1>3, <1>4
<1>6. QED
  BY <1>5 DEF t

LEMMA DispatchDetectedStep ==
  ASSUME IInv, TypeOK', DispatchDetected
  PROVE  IInv'
<1>0. /\ Holders /\ Connection /\ QuietBoot /\ NoInternalAbort /\ TypeOK
      /\ Table(tags) /\ DOMAIN tags \subseteq Ids /\ DOMAIN tags' \subseteq Ids
      /\ cbq \in Seq(Callbacks) /\ cbq # <<>> /\ cbq' = Tail(cbq)
      /\ DOMAIN objects \subseteq Ids /\ current \in Ids /\ adapterRefs \subseteq Ids
      /\ AdapterView /\ SessionAnnounced /\ LossesFollow /\ AllEnd /\ OneTagAtATime
  BY StepFacts DEF TypeOK, TagTypeOK, DispatchDetected, Dispatched
<1>1. Head(cbq) \in Callbacks /\ Head(cbq).type = "detected"
  BY <1>0 DEF DispatchDetected, Dispatched
<1>2. PICK id \in Ids : Head(cbq).id = id /\ Head(cbq) = Detected(id)
  BY <1>1, CallbackTypes
<1>3. /\ DOMAIN cbq = 1..Len(cbq) /\ Len(cbq) \in Nat \ {0}
      /\ DOMAIN cbq' = 1..(Len(cbq) - 1)
      /\ \A i \in DOMAIN cbq' : cbq'[i] = cbq[i + 1]
      /\ cbq[1] = Detected(id)
  BY <1>0, <1>2, TailFacts
<1>4. DetectedQueued(id) /\ id \in DOMAIN tags /\ id \notin adapterRefs
  BY <1>0, <1>2, <1>3 DEF DetectedQueued, Holders, AdapterView
<1>5. /\ UNCHANGED <<main, current, write, aborted, activated, pc, session>>
      /\ Registered' = Registered /\ main # "boot"
  BY <1>2, <1>4 DEF DispatchDetected, Dispatched, Registered
<1>6. InSession' = InSession /\ Ending' = Ending /\ Writing' = Writing
  BY <1>5 DEF InSession, Ending, Writing
<1>7. /\ ~DetectedQueued(id)' /\ QueuedOnce'
      /\ \A i \in Ids : i # id => (DetectedQueued(i)' <=> DetectedQueued(i))
      /\ \A i \in Ids : LostQueued(i)' <=> LostQueued(i)
  <2>1. QueuedOnce
    BY <1>0 DEF Holders, QueuedOnce
  <2>2. ~DetectedQueued(id)' /\ QueuedOnce'
    BY <1>2, <1>3, <2>1 DEF QueuedOnce, DetectedQueued
  <2>3. \A i \in Ids : i # id => (DetectedQueued(i)' <=> DetectedQueued(i))
    <3>1. \A i \in Ids : i # id => cbq[1] # Detected(i)
      BY <1>3, CallbackFacts
    <3>2. QED
      BY <3>1, TailEvents, <1>0 DEF DetectedQueued
  <2>4. \A i \in Ids : LostQueued(i)' <=> LostQueued(i)
    <3>1. \A i \in Ids : cbq[1] # LostCb(i)
      BY <1>3, CallbackFacts
    <3>2. QED
      BY <3>1, TailEvents, <1>0 DEF LostQueued
  <2>5. QED
    BY <2>2, <2>3, <2>4
<1>8. QuietBoot' /\ NoInternalAbort'
  BY <1>0, <1>5 DEF QuietBoot, NoInternalAbort
<1>9. HolderCount \in [Ids -> Nat] /\ HolderCount' \in [Ids -> Nat] /\ Counts(tags, HolderCount)
  BY <1>0, HoldersCount, HoldersCountNext DEF HoldersAreCounted
<1>10. \A i \in Ids : /\ SessionHolds(i)' <=> SessionHolds(i)
                      /\ WriteHolds(i)' <=> WriteHolds(i)
  BY <1>5, <1>6 DEF SessionHolds, WriteHolds
<1>11. CASE ~Registered
  <2>1. UNCHANGED <<objects, adapterRefs>> /\ tags' = Unref(tags, id)
    BY <1>2, <1>4, <1>11 DEF DispatchDetected
  <2>2. \A i \in Ids : HolderCount'[i] = IF i = id THEN HolderCount[i] - 1 ELSE HolderCount[i]
    BY <1>4, <1>7, <1>10, <2>1 DEF HolderCount, One
  <2>3. Counts(tags', HolderCount')
    <3>1. Table(tags) /\ id \in DOMAIN tags
      BY <1>0, <1>4
    <3>2. QED
      BY <1>9, <2>1, <2>2, <3>1, CountsUnref
  <2>4. Holders'
    BY <1>0, <1>7, <2>3, HoldersCount, HoldersCountNext DEF HoldersAreCounted
  <2>5. \A i \in DOMAIN tags' : /\ i \in DOMAIN tags
                               /\ tags'[i].tag = tags[i].tag
                               /\ tags'[i].connected = tags[i].connected
    BY <1>0, <1>4, <2>1, UnrefFacts
  <2>6. AdapterView'
    BY <1>0, <1>5, <1>7, <2>1, <2>5 DEF AdapterView
  <2>7. Connection'
    BY <1>0, <1>5, <1>6, <1>10, <2>5 DEF Connection
  <2>8. SessionAnnounced' /\ LossesFollow' /\ AllEnd' /\ OneTagAtATime'
    BY <1>0, <1>5, <1>11, <2>1 DEF SessionAnnounced, LossesFollow, AllEnd, OneTagAtATime, OneTagObject
  <2>9. QED
    BY <1>8, <2>4, <2>6, <2>7, <2>8 DEF IInv
<1>12. CASE Registered
  <2>1. /\ objects' = With(objects, id, tags[id].tag)
        /\ adapterRefs' = adapterRefs \cup {id}
        /\ tags' = Unref(Ref(tags, id), id)
    BY <1>2, <1>4, <1>12 DEF DispatchDetected
  <2>2. /\ DOMAIN tags' = DOMAIN tags
        /\ \A i \in DOMAIN tags : /\ tags'[i].refs = tags[i].refs
                                  /\ tags'[i].tag = tags[i].tag
                                  /\ tags'[i].connected = tags[i].connected
    BY <1>0, <1>4, <2>1, RefUnref
  <2>3. /\ DOMAIN objects' = DOMAIN objects \cup {id}
        /\ objects'[id] = tags[id].tag
        /\ \A i \in DOMAIN objects : i # id => objects'[i] = objects[i]
    BY <2>1 DEF With
  <2>4. \A i \in Ids : HolderCount'[i] = HolderCount[i]
    BY <1>4, <1>7, <1>10, <2>1 DEF HolderCount, One
  <2>5. Counts(tags', HolderCount')
    BY <1>0, <1>9, <2>2, <2>4 DEF Counts
  <2>6. Holders'
    BY <1>0, <1>7, <2>5, HoldersCount, HoldersCountNext DEF HoldersAreCounted
  <2>7. AdapterView'
    <3>1. DOMAIN objects' = adapterRefs'
      BY <1>0, <1>12, <2>1, <2>3 DEF AdapterView
    <3>2. \A i \in Ids : DetectedQueued(i)' => i \notin adapterRefs'
      BY <1>0, <1>7, <2>1 DEF AdapterView
    <3>3. \A i \in DOMAIN objects' : i \in DOMAIN tags' => objects'[i] = tags'[i].tag
      BY <1>0, <1>4, <2>2, <2>3 DEF AdapterView
    <3>4. QED
      BY <1>5, <1>12, <3>1, <3>2, <3>3 DEF AdapterView
  <2>8. Connection'
    BY <1>0, <1>5, <1>6, <1>10, <2>2 DEF Connection
  <2>9. DOMAIN objects = {}
    <3>1. \A o \in DOMAIN objects : LostBefore(o, 1)
      BY <1>0, <1>2, <1>3, <1>12 DEF OneTagAtATime
    <3>2. \A k \in DOMAIN cbq : ~(k < 1)
      BY <1>3
    <3>3. QED
      BY <3>1, <3>2 DEF LostBefore
  <2>10. DOMAIN objects' = {id}
    BY <2>3, <2>9
  <2>11. SessionAnnounced'
    BY <1>0, <1>5, <1>6, <1>7, <1>12, <2>9, <2>10 DEF SessionAnnounced
  <2>12. AllEnd'
    BY <1>0, <1>2, <1>4, <1>5, <1>6, <1>7, <1>12, <2>10 DEF AllEnd
  <2>13. LossesFollow'
    <3> SUFFICES ASSUME NEW i \in DOMAIN cbq', NEW o \in Ids, cbq'[i] = LostCb(o)
                 PROVE  /\ o \in DOMAIN objects' \/ \E j \in DOMAIN cbq' : j < i /\ cbq'[j] = Detected(o)
                        /\ \A j \in DOMAIN cbq' : cbq'[j] = LostCb(o) => i = j
      BY DEF LossesFollow
    <3>1. i + 1 \in DOMAIN cbq /\ cbq[i + 1] = LostCb(o)
      BY <1>3
    <3>2. /\ o \in DOMAIN objects \/ \E j \in DOMAIN cbq : j < i + 1 /\ cbq[j] = Detected(o)
          /\ \A j \in DOMAIN cbq : cbq[j] = LostCb(o) => i + 1 = j
      BY <1>0, <1>12, <3>1 DEF LossesFollow
    <3>3. CASE o = id
      BY <1>3, <2>10, <3>2, <3>3
    <3>4. CASE o # id
      <4>1. PICK j \in DOMAIN cbq : j < i + 1 /\ cbq[j] = Detected(o)
        BY <2>9, <3>2
      <4>2. j # 1
        BY <1>2, <1>3, <3>4, <4>1, CallbackFacts
      <4>3. j - 1 \in DOMAIN cbq' /\ j - 1 < i /\ cbq'[j - 1] = Detected(o)
        BY <1>3, <4>1, <4>2
      <4>4. QED
        BY <1>3, <3>2, <4>3
    <3>5. QED
      BY <3>3, <3>4
  <2>14. OneTagAtATime'
    <3>1. OneTagObject'
      BY <2>10 DEF OneTagObject
    <3> SUFFICES ASSUME NEW j \in DOMAIN cbq', NEW o \in Ids, cbq'[j] = Detected(o)
                 PROVE  /\ \A i \in DOMAIN objects' : LostBefore(i, j)'
                        /\ \A k \in DOMAIN cbq' : \A i \in Ids :
                             k < j /\ cbq'[k] = Detected(i) => LostBefore(i, j)'
      BY <3>1 DEF OneTagAtATime
    <3>2. j + 1 \in DOMAIN cbq /\ cbq[j + 1] = Detected(o)
      BY <1>3
    <3>3. \A k \in DOMAIN cbq : \A i \in Ids :
            k < j + 1 /\ cbq[k] = Detected(i) => LostBefore(i, j + 1)
      BY <1>0, <1>12, <3>2 DEF OneTagAtATime
    <3>4. ASSUME NEW i \in Ids, LostBefore(i, j + 1)
          PROVE  LostBefore(i, j)'
      <4>1. PICK k \in DOMAIN cbq : k < j + 1 /\ cbq[k] = LostCb(i)
        BY <3>4 DEF LostBefore
      <4>2. k # 1
        BY <1>2, <1>3, <4>1, CallbackFacts
      <4>3. k - 1 \in DOMAIN cbq' /\ k - 1 < j /\ cbq'[k - 1] = LostCb(i)
        BY <1>3, <4>1, <4>2
      <4>4. QED
        BY <4>3 DEF LostBefore
    <3>5. LostBefore(id, j + 1)
      BY <1>2, <1>3, <3>2, <3>3
    <3>6. ASSUME NEW k \in DOMAIN cbq', NEW i \in Ids, k < j, cbq'[k] = Detected(i)
          PROVE  LostBefore(i, j)'
      <4>1. k + 1 \in DOMAIN cbq /\ k + 1 < j + 1 /\ cbq[k + 1] = Detected(i)
        BY <1>3, <3>6
      <4>2. QED
        BY <3>3, <3>4, <4>1
    <3>7. QED
      BY <1>2, <2>10, <3>4, <3>5, <3>6
  <2>15. QED
    BY <1>8, <2>6, <2>7, <2>8, <2>11, <2>12, <2>13, <2>14 DEF IInv
<1>13. QED
  BY <1>11, <1>12

LEMMA DispatchLostStep ==
  ASSUME IInv, TypeOK', DispatchLost
  PROVE  IInv'
<1>0. /\ Holders /\ Connection /\ QuietBoot /\ NoInternalAbort /\ TypeOK
      /\ Table(tags) /\ DOMAIN tags \subseteq Ids /\ DOMAIN tags' \subseteq Ids
      /\ cbq \in Seq(Callbacks) /\ cbq # <<>> /\ cbq' = Tail(cbq)
      /\ DOMAIN objects \subseteq Ids /\ current \in Ids /\ adapterRefs \subseteq Ids
      /\ AdapterView /\ SessionAnnounced /\ LossesFollow /\ AllEnd /\ OneTagAtATime
  BY StepFacts DEF TypeOK, TagTypeOK, DispatchLost, Dispatched
<1>1. Head(cbq) \in Callbacks /\ Head(cbq).type = "lost"
  BY <1>0 DEF DispatchLost, Dispatched
<1>2. PICK id \in Ids : Head(cbq).id = id /\ Head(cbq) = LostCb(id)
  BY <1>1, CallbackTypes
<1>3. /\ DOMAIN cbq = 1..Len(cbq) /\ Len(cbq) \in Nat \ {0}
      /\ DOMAIN cbq' = 1..(Len(cbq) - 1)
      /\ \A i \in DOMAIN cbq' : cbq'[i] = cbq[i + 1]
      /\ cbq[1] = LostCb(id)
  BY <1>0, <1>2, TailFacts
<1>4. /\ UNCHANGED <<main, current, write, activated, pc, session>>
      /\ Registered' = Registered /\ main # "boot"
  BY DEF DispatchLost, Dispatched, Registered
<1>5. InSession' = InSession /\ Ending' = Ending /\ Writing' = Writing
  BY <1>4 DEF InSession, Ending, Writing
<1>6. /\ QueuedOnce'
      /\ \A i \in Ids : DetectedQueued(i)' <=> DetectedQueued(i)
      /\ \A i \in Ids : i # id => (LostQueued(i)' <=> LostQueued(i))
  <2>1. QueuedOnce
    BY <1>0 DEF Holders, QueuedOnce
  <2>2. QueuedOnce'
    BY <1>2, <1>3, <2>1 DEF QueuedOnce
  <2>3. \A i \in Ids : DetectedQueued(i)' <=> DetectedQueued(i)
    <3>1. \A i \in Ids : cbq[1] # Detected(i)
      BY <1>3, CallbackFacts
    <3>2. QED
      BY <3>1, TailEvents, <1>0 DEF DetectedQueued
  <2>4. \A i \in Ids : i # id => (LostQueued(i)' <=> LostQueued(i))
    <3>1. \A i \in Ids : i # id => cbq[1] # LostCb(i)
      BY <1>3, CallbackFacts
    <3>2. QED
      BY <3>1, TailEvents, <1>0 DEF LostQueued
  <2>5. QED
    BY <2>2, <2>3, <2>4
<1>7. HolderCount \in [Ids -> Nat] /\ HolderCount' \in [Ids -> Nat] /\ Counts(tags, HolderCount)
  BY <1>0, HoldersCount, HoldersCountNext DEF HoldersAreCounted
<1>8. \A i \in Ids : /\ SessionHolds(i)' <=> SessionHolds(i)
                     /\ WriteHolds(i)' <=> WriteHolds(i)
  BY <1>4, <1>5 DEF SessionHolds, WriteHolds
<1>9. CASE ~Registered
  <2>1. UNCHANGED <<objects, adapterRefs, tags, aborted>>
    BY <1>9 DEF DispatchLost
  <2>2. \A i \in Ids : HolderCount'[i] = HolderCount[i]
    BY <1>6, <1>8, <2>1 DEF HolderCount, One
  <2>3. Counts(tags', HolderCount')
    BY <1>0, <1>7, <2>1, <2>2 DEF Counts
  <2>4. Holders'
    BY <1>0, <1>6, <2>3, HoldersCount, HoldersCountNext DEF HoldersAreCounted
  <2>5. AdapterView'
    BY <1>0, <1>4, <1>6, <2>1 DEF AdapterView
  <2>6. Connection'
    BY <1>0, <1>4, <1>5, <1>8, <2>1 DEF Connection
  <2>7. SessionAnnounced' /\ LossesFollow' /\ AllEnd' /\ OneTagAtATime'
    BY <1>0, <1>4, <1>9, <2>1 DEF SessionAnnounced, LossesFollow, AllEnd, OneTagAtATime, OneTagObject
  <2>8. QuietBoot' /\ NoInternalAbort'
    BY <1>0, <1>4, <2>1 DEF QuietBoot, NoInternalAbort
  <2>9. QED
    BY <2>4, <2>5, <2>6, <2>7, <2>8 DEF IInv
<1>10. CASE Registered
  <2>1. /\ id \in DOMAIN objects
        /\ \A j \in DOMAIN cbq : cbq[j] = LostCb(id) => j = 1
    <3>1. \A k \in DOMAIN cbq : ~(k < 1)
      BY <1>3
    <3>2. 1 \in DOMAIN cbq
      BY <1>3
    <3>3. /\ id \in DOMAIN objects \/ \E j \in DOMAIN cbq : j < 1 /\ cbq[j] = Detected(id)
          /\ \A j \in DOMAIN cbq : cbq[j] = LostCb(id) => 1 = j
      BY <1>0, <1>2, <1>3, <1>10, <3>2 DEF LossesFollow
    <3>4. QED
      BY <3>1, <3>3
  <2>2. id \in adapterRefs /\ id \in DOMAIN tags /\ ~DetectedQueued(id)
    BY <1>0, <1>2, <1>10, <2>1 DEF AdapterView, Holders
  <2>3. /\ objects' = Without(objects, id)
        /\ adapterRefs' = adapterRefs \ {id}
        /\ tags' = Unref(tags, id)
        /\ UNCHANGED aborted
    BY <1>2, <1>10, <2>1, <2>2 DEF DispatchLost, AdapterLosesTag
  <2>4. DOMAIN objects = {id}
    BY <1>0, <2>1 DEF OneTagAtATime, OneTagObject
  <2>5. DOMAIN objects' = {} /\ adapterRefs = {id} /\ adapterRefs' = {}
    BY <1>0, <1>10, <2>3, <2>4 DEF Without, AdapterView
  <2>6. \A i \in Ids : HolderCount'[i] = IF i = id THEN HolderCount[i] - 1 ELSE HolderCount[i]
    BY <1>6, <1>8, <2>5 DEF HolderCount, One
  <2>7. Counts(tags', HolderCount')
    <3>1. Table(tags) /\ id \in DOMAIN tags
      BY <1>0, <2>2
    <3>2. QED
      BY <1>7, <2>3, <2>6, <3>1, CountsUnref
  <2>8. Holders'
    BY <1>0, <1>6, <2>7, HoldersCount, HoldersCountNext DEF HoldersAreCounted
  <2>9. \A i \in DOMAIN tags' : /\ i \in DOMAIN tags
                               /\ tags'[i].tag = tags[i].tag
                               /\ tags'[i].connected = tags[i].connected
    BY <1>0, <2>2, <2>3, UnrefFacts
  <2>10. AdapterView'
    BY <1>4, <1>10, <2>5 DEF AdapterView
  <2>11. Connection'
    BY <1>0, <1>4, <1>5, <1>8, <2>9 DEF Connection
  <2>12. LostQueued(id) /\ ~LostQueued(id)'
    <3>1. LostQueued(id)
      BY <1>3 DEF LostQueued
    <3>2. \A i \in DOMAIN cbq' : i + 1 \in DOMAIN cbq /\ i + 1 # 1
      BY <1>3
    <3>3. QED
      BY <1>3, <2>1, <3>1, <3>2 DEF LostQueued
  <2>13. SessionAnnounced'
    <3> SUFFICES ASSUME InSession \/ Ending
                 PROVE  DetectedQueued(current)' /\ ~LostQueued(current)'
      BY <1>4, <1>5 DEF SessionAnnounced
    <3>1. /\ current \in DOMAIN objects \/ DetectedQueued(current)
          /\ ~LostQueued(current)
      BY <1>0, <1>10 DEF SessionAnnounced
    <3>2. current # id
      BY <2>12, <3>1
    <3>3. DetectedQueued(current)'
      BY <1>0, <1>4, <1>6, <2>4, <3>1, <3>2
    <3>4. ~LostQueued(current)'
      BY <1>0, <1>4, <1>6, <3>1, <3>2
    <3>5. QED
      BY <3>3, <3>4
  <2>14. AllEnd'
    BY <1>0, <1>4, <1>5, <1>6, <1>10, <2>2, <2>5 DEF AllEnd
  <2>15. LossesFollow'
    <3> SUFFICES ASSUME NEW i \in DOMAIN cbq', NEW o \in Ids, cbq'[i] = LostCb(o)
                 PROVE  /\ \E j \in DOMAIN cbq' : j < i /\ cbq'[j] = Detected(o)
                        /\ \A j \in DOMAIN cbq' : cbq'[j] = LostCb(o) => i = j
      BY DEF LossesFollow
    <3>1. i + 1 \in DOMAIN cbq /\ cbq[i + 1] = LostCb(o) /\ i + 1 # 1
      BY <1>3
    <3>2. /\ o \in DOMAIN objects \/ \E j \in DOMAIN cbq : j < i + 1 /\ cbq[j] = Detected(o)
          /\ \A j \in DOMAIN cbq : cbq[j] = LostCb(o) => i + 1 = j
      BY <1>0, <1>10, <3>1 DEF LossesFollow
    <3>3. o # id
      BY <2>1, <3>1
    <3>4. PICK j \in DOMAIN cbq : j < i + 1 /\ cbq[j] = Detected(o)
      BY <2>4, <3>2, <3>3
    <3>5. j # 1
      BY <1>2, <1>3, <3>4, CallbackFacts
    <3>6. j - 1 \in DOMAIN cbq' /\ j - 1 < i /\ cbq'[j - 1] = Detected(o)
      BY <1>3, <3>4, <3>5
    <3>7. QED
      BY <1>3, <3>2, <3>6
  <2>16. OneTagAtATime'
    <3>1. OneTagObject'
      BY <2>5 DEF OneTagObject
    <3> SUFFICES ASSUME NEW j \in DOMAIN cbq', NEW o \in Ids, cbq'[j] = Detected(o),
                        NEW k \in DOMAIN cbq', NEW i \in Ids, k < j, cbq'[k] = Detected(i)
                 PROVE  LostBefore(i, j)'
      BY <2>5, <3>1 DEF OneTagAtATime
    <3>2. /\ j + 1 \in DOMAIN cbq /\ cbq[j + 1] = Detected(o)
          /\ k + 1 \in DOMAIN cbq /\ cbq[k + 1] = Detected(i) /\ k + 1 < j + 1
      BY <1>3
    <3>3. LostBefore(i, j + 1)
      BY <1>0, <1>10, <3>2 DEF OneTagAtATime
    <3>4. PICK l \in DOMAIN cbq : l < j + 1 /\ cbq[l] = LostCb(i)
      BY <3>3 DEF LostBefore
    <3>5. i # id
      BY <2>2, <3>2 DEF DetectedQueued
    <3>6. l # 1
      BY <1>2, <1>3, <3>4, <3>5, CallbackFacts
    <3>7. l - 1 \in DOMAIN cbq' /\ l - 1 < j /\ cbq'[l - 1] = LostCb(i)
      BY <1>3, <3>4, <3>6
    <3>8. QED
      BY <3>7 DEF LostBefore
  <2>17. QuietBoot' /\ NoInternalAbort'
    BY <1>0, <1>4, <2>3 DEF QuietBoot, NoInternalAbort
  <2>18. QED
    BY <2>8, <2>10, <2>11, <2>13, <2>14, <2>15, <2>16, <2>17 DEF IInv
<1>11. QED
  BY <1>9, <1>10

-----------------------------------------------------------------------------
(***************************************************************************)
(* The inductive invariant, and what it implies.                           *)
(***************************************************************************)
LEMMA InvInit == Init => IInv
<1> SUFFICES ASSUME Init PROVE IInv
  OBVIOUS
<1>1. TypeOK
  BY TypeInit
<1>2. /\ pc = "wait" /\ cmdq = <<>> /\ cbq = <<>> /\ ~joining /\ main = "boot"
      /\ session = [polling |-> FALSE, present |-> FALSE] /\ aborted = "no"
      /\ DOMAIN tags = {} /\ DOMAIN objects = {} /\ adapterRefs = {} /\ DOMAIN cbq = {}
  BY DEF Init, HalInit
<1>3. ~InSession /\ ~Ending /\ ~Writing /\ ~Registered
  BY <1>2 DEF InSession, Ending, Writing, Registered
<1>4. \A id \in Ids : ~SessionHolds(id) /\ ~WriteHolds(id) /\ ~DetectedQueued(id)
  BY <1>2, <1>3 DEF SessionHolds, WriteHolds, DetectedQueued
<1>5. Holders /\ AdapterView /\ Connection
  BY <1>2, <1>3, <1>4 DEF Holders, AdapterView, Connection
<1>6. SessionAnnounced /\ LossesFollow /\ AllEnd /\ OneTagAtATime
  BY <1>2, <1>3 DEF SessionAnnounced, LossesFollow, AllEnd, OneTagAtATime, OneTagObject
<1>7. QuietBoot /\ NoInternalAbort
  BY <1>2 DEF QuietBoot, NoInternalAbort
<1>8. QED
  BY <1>1, <1>5, <1>6, <1>7 DEF IInv

LEMMA InvNext == IInv /\ [Next]_vars => IInv'
<1> SUFFICES ASSUME IInv, [Next]_vars PROVE IInv'
  OBVIOUS
<1>1. TypeOK'
  BY TypeNext DEF IInv
<1>2. CASE HalThread
  BY <1>1, <1>2, QuietHalThread, PopWriteStep, WriteDoneStep, PollTagStep,
     TagGoneStep, NotifyLostStep
  DEF HalThread
<1>3. CASE MainThread
  BY <1>1, <1>3, QuietRest, DispatchDetectedStep, DispatchLostStep DEF MainThread
<1>4. CASE Environment
  BY <1>1, <1>4, QuietRest, RegistrationStep DEF Environment
<1>5. CASE UNCHANGED vars
  BY <1>1, <1>5, QuietRest
<1>6. QED
  BY <1>2, <1>3, <1>4, <1>5 DEF Next, Over

\* The inductive invariant holds in every reachable state, for every set of
\* tags and every bound on ids, commands and callbacks.
THEOREM InductiveInvariant == Spec => []IInv
BY InvInit, InvNext, PTL DEF Spec

\* A detection is queued at most once for an id, so that the holders counted
\* in RefsExact are those of Holders.
LEMMA RefsAreExact == IInv => RefsExact
<1> SUFFICES ASSUME IInv, NEW id \in Ids
             PROVE  LET holders == One(SessionHolds(id)) + One(WriteHolds(id))
                                     + Cardinality({i \in DOMAIN cbq : cbq[i] = Detected(id)})
                                     + One(id \in adapterRefs)
                    IN  IF id \in DOMAIN tags THEN tags[id].refs = holders ELSE holders = 0
  BY DEF RefsExact
<1> DEFINE announcements == {i \in DOMAIN cbq : cbq[i] = Detected(id)}
<1>1. Holders
  BY DEF IInv
<1>2. Cardinality(announcements) = One(DetectedQueued(id))
  <2>1. CASE DetectedQueued(id)
    <3>1. PICK i \in DOMAIN cbq : cbq[i] = Detected(id)
      BY <2>1 DEF DetectedQueued
    <3>2. announcements = {i}
      BY <1>1, <3>1 DEF Holders
    <3>3. QED
      BY <2>1, <3>2, FS_Singleton DEF One
  <2>2. CASE ~DetectedQueued(id)
    <3>1. announcements = {}
      BY <2>2 DEF DetectedQueued
    <3>2. QED
      BY <2>2, <3>1, FS_EmptySet DEF One
  <2>3. QED
    BY <2>1, <2>2
<1>3. CASE id \in DOMAIN tags
  BY <1>1, <1>2, <1>3 DEF Holders
<1>4. CASE id \notin DOMAIN tags
  BY <1>1, <1>2, <1>4 DEF Holders, One
<1>5. QED
  BY <1>3, <1>4

\* Reference counts are exact (hal_tag_ref, hal_tag_unref and their callers).
THEOREM ReferencesAreExact == Spec => []RefsExact
BY InductiveInvariant, RefsAreExact, PTL

\* No lookup the HAL makes by itself and no g_assert of the adapter fails.
THEOREM NeverAbortsByItself == Spec => []NoInternalAbort
<1>1. IInv => NoInternalAbort
  BY DEF IInv
<1>2. QED
  BY <1>1, InductiveInvariant, PTL

\* The bus shows one tag at a time, under the id and with the tag of its entry.
THEOREM ObjectsAreRight == Spec => []ObjectsMatchEntries
<1>1. IInv => ObjectsMatchEntries
  <2> SUFFICES ASSUME IInv PROVE ObjectsMatchEntries
    OBVIOUS
  <2>1. DOMAIN objects \subseteq Ids /\ Holders /\ AdapterView /\ OneTagAtATime
    BY StepFacts
  <2>2. OneTagObject
    BY <2>1 DEF OneTagAtATime
  <2>3. QED
    BY <2>1, <2>2 DEF ObjectsMatchEntries, Holders, AdapterView
<1>2. QED
  BY <1>1, InductiveInvariant, PTL

\* A write let through to the reader reaches the tag of its entry.
THEOREM WritesReachTheirEntries == Spec => []WriteReachesItsEntry
<1>1. IInv => WriteReachesItsEntry
  <2> SUFFICES ASSUME IInv, pc = "write", tags[write.id].connected, activated # NoTag
               PROVE  activated = tags[write.id].tag
    BY DEF WriteReachesItsEntry
  <2>1. write.id \in Ids /\ Holders /\ Connection
    BY StepFacts
  <2>2. WriteHolds(write.id)
    BY DEF WriteHolds, Writing
  <2>3. write.id \in DOMAIN tags
    BY <2>1, <2>2 DEF Holders
  <2>4. InSession /\ write.id = current
    BY <2>1, <2>3 DEF Connection, SessionHolds
  <2>5. QED
    BY <2>1, <2>3, <2>4 DEF Connection
<1>2. QED
  BY <1>1, InductiveInvariant, PTL

\* Nothing is left in the table between sessions, however many there were.
THEOREM TheTableEmpties == Spec => []NothingLeaks
<1>1. IInv => NothingLeaks
  <2> SUFFICES ASSUME IInv, Registered, ~session.present, cbq = <<>>, ~Writing
               PROVE  DOMAIN tags = {}
    BY DEF NothingLeaks
  <2>1. /\ DOMAIN tags \subseteq Ids /\ DOMAIN objects \subseteq Ids
        /\ Holders /\ AdapterView /\ AllEnd /\ Connection /\ TypeOK
    BY StepFacts
  <2>2. DOMAIN cbq = {}
    OBVIOUS
  <2>3. ~InSession /\ ~Ending
    BY <2>1 DEF Connection, TypeOK, HalTypeOK
  <2>4. DOMAIN objects = {}
    BY <2>1, <2>2, <2>3 DEF AllEnd, LostQueued
  <2>5. adapterRefs = {}
    BY <2>1, <2>4 DEF AdapterView
  <2>6. \A id \in Ids : ~SessionHolds(id) /\ ~WriteHolds(id) /\ ~DetectedQueued(id)
    BY <2>2, <2>3 DEF SessionHolds, WriteHolds, DetectedQueued
  <2>7. QED
    BY <2>1, <2>5, <2>6 DEF Holders
<1>2. QED
  BY <1>1, InductiveInvariant, PTL

-----------------------------------------------------------------------------
(***************************************************************************)
(* The adapter is told of the radio's parameters.  First, what a posted    *)
(* and a dispatched callback mean for what it has been told last.          *)
(***************************************************************************)
LEMMA ToldByTheNewest ==
  ASSUME NEW T, NEW q \in Seq(T), NEW cb \in T, NEW told
  PROVE  Tells(Append(q, cb), cb, told)
<1> DEFINE p == Append(q, cb)
           n == Len(q) + 1
<1>1. n \in DOMAIN p /\ p[n] = cb /\ \A j \in DOMAIN p : ~(n < j)
  BY AppendAt
<1> HIDE DEF p, n
<1>2. Newest(p, cb)
  BY <1>1 DEF Newest
<1>3. QED
  BY <1>2 DEF Tells, p

LEMMA ToldBehindOthers ==
  ASSUME NEW T, NEW q \in Seq(T), NEW e \in T, NEW cb, e.type # cb.type,
         NEW told, Tells(q, cb, told)
  PROVE  Tells(Append(q, e), cb, told)
<1> DEFINE p == Append(q, e)
           n == Len(q) + 1
<1>1. /\ \A i \in DOMAIN q : i \in DOMAIN p /\ p[i] = q[i]
      /\ p[n] = e
      /\ \A i \in DOMAIN p : i \in DOMAIN q \/ i = n
  BY AppendAt
<1> HIDE DEF p, n
<1>2. \A j \in DOMAIN p : j \in DOMAIN q \/ p[j].type # cb.type
  BY <1>1
<1>3. CASE Newest(q, cb)
  BY <1>1, <1>2, <1>3 DEF Newest, Tells, p
<1>4. CASE NoneOf(q, cb.type) /\ told
  BY <1>1, <1>2, <1>4 DEF NoneOf, Tells, p
<1>5. QED
  BY <1>3, <1>4 DEF Tells

LEMMA ToldByTheHead ==
  ASSUME NEW T, NEW q \in Seq(T), q # <<>>, NEW cb, NEW told, Tells(q, cb, told)
  PROVE  Tells(Tail(q), cb, IF Head(q).type = cb.type THEN Head(q) = cb ELSE told)
<1> DEFINE p == Tail(q)
           now == IF Head(q).type = cb.type THEN Head(q) = cb ELSE told
<1>1. /\ 1 \in DOMAIN q /\ Head(q) = q[1] /\ DOMAIN q \subseteq Nat \ {0}
      /\ \A i \in DOMAIN p : i \in Nat /\ i + 1 \in DOMAIN q /\ p[i] = q[i + 1] /\ 1 < i + 1
      /\ \A i \in DOMAIN q : i # 1 => i - 1 \in DOMAIN p /\ p[i - 1] = q[i]
      /\ \A i \in DOMAIN q : \A j \in DOMAIN p : i - 1 < j => i < j + 1
  BY TailAt
<1> HIDE DEF p
<1>2. CASE NoneOf(q, cb.type) /\ told
  <2>1. NoneOf(p, cb.type) /\ Head(q).type # cb.type
    BY <1>1, <1>2 DEF NoneOf
  <2>2. QED
    BY <1>2, <2>1 DEF Tells, p
<1>3. CASE Newest(q, cb)
  <2>1. PICK i \in DOMAIN q : q[i] = cb /\ \A j \in DOMAIN q : i < j => q[j].type # cb.type
    BY <1>3 DEF Newest
  <2>2. CASE i = 1
    <3>1. NoneOf(p, cb.type)
      BY <1>1, <2>1, <2>2 DEF NoneOf
    <3>2. Head(q) = cb
      BY <1>1, <2>1, <2>2
    <3>3. QED
      BY <3>1, <3>2 DEF Tells, p
  <2>3. CASE i # 1
    <3>1. i - 1 \in DOMAIN p /\ p[i - 1] = cb
      BY <1>1, <2>1, <2>3
    <3>2. \A j \in DOMAIN p : i - 1 < j => p[j].type # cb.type
      BY <1>1, <2>1
    <3>3. Newest(p, cb)
      BY <3>1, <3>2 DEF Newest
    <3>4. QED
      BY <3>3 DEF Tells, p
  <2>4. QED
    BY <2>2, <2>3
<1>4. QED
  BY <1>2, <1>3 DEF Tells

-----------------------------------------------------------------------------
(***************************************************************************)
(* The parameters change with the radio, and the adapter hears of it.      *)
(***************************************************************************)
LEMMA ParameterCallbacks ==
  /\ \A m \in RadioModes : ModeCb(m) \in Callbacks /\ ModeCb(m).type = "mode" /\ ModeCb(m).mode = m
  /\ \A p \in BOOLEAN : PollingCb(p) \in Callbacks /\ PollingCb(p).type = "polling" /\ PollingCb(p).polling = p
BY CallbackFacts DEF ModeCb, PollingCb

LEMMA RadioFacts ==
  ASSUME IInv
  PROVE  /\ cbq \in Seq(Callbacks)
         /\ params \in [mode : RadioModes, polling : BOOLEAN]
         /\ bus \in [mode : RadioModes, polling : BOOLEAN]
         /\ session \in [polling : BOOLEAN, present : BOOLEAN]
         /\ write.from \in QueueLocations
         /\ params.mode \in RadioModes /\ params.polling \in BOOLEAN
         /\ session.polling \in BOOLEAN
BY DEF IInv, TypeOK, HalTypeOK, TagTypeOK

LEMMA PollingIsTold ==
  ASSUME IInv, AdapterIsTold, NEW p \in BOOLEAN, UpdatePolling(p), UNCHANGED <<bus, main>>
  PROVE  params'.polling = p /\ params'.mode = params.mode /\ AdapterIsTold'
<1>1. CASE params.polling = p
  <2>1. UNCHANGED <<params, cbq>>
    BY <1>1 DEF UpdatePolling
  <2>2. QED
    BY <1>1, <2>1 DEF AdapterIsTold
<1>2. CASE params.polling # p
  <2>1. params' = [params EXCEPT !.polling = p] /\ cbq' = Posted(PollingCb(p))
    BY <1>2 DEF UpdatePolling
  <2>2. params'.polling = p /\ params'.mode = params.mode
    BY <2>1, RadioFacts
  <2>3. ASSUME main \in {"boot", "run"}
        PROVE  /\ Tells(cbq', PollingCb(p), bus.polling = p)
               /\ Tells(cbq', ModeCb(params.mode), bus.mode = params.mode)
    <3>1. cbq' = Append(cbq, PollingCb(p))
      BY <2>1, <2>3 DEF Posted
    <3>2. cbq \in Seq(Callbacks) /\ PollingCb(p) \in Callbacks
          /\ PollingCb(p).type # ModeCb(params.mode).type
      BY RadioFacts, ParameterCallbacks
    <3>3. Tells(Append(cbq, PollingCb(p)), PollingCb(p), bus.polling = p)
      BY <3>2, ToldByTheNewest
    <3>4. Tells(cbq, ModeCb(params.mode), bus.mode = params.mode)
      BY <2>3 DEF AdapterIsTold
    <3>5. Tells(Append(cbq, PollingCb(p)), ModeCb(params.mode), bus.mode = params.mode)
      BY <3>2, <3>4, ToldBehindOthers
    <3>6. QED
      BY <3>1, <3>3, <3>5
  <2>4. QED
    BY <2>2, <2>3 DEF AdapterIsTold
<1>3. QED
  BY <1>1, <1>2

LEMMA ModeIsTold ==
  ASSUME IInv, AdapterIsTold, NEW m \in RadioModes, UpdateMode(m), UNCHANGED <<bus, main>>
  PROVE  params'.mode = m /\ params'.polling = params.polling /\ AdapterIsTold'
<1>1. CASE params.mode = m
  <2>1. UNCHANGED <<params, cbq>>
    BY <1>1 DEF UpdateMode
  <2>2. QED
    BY <1>1, <2>1 DEF AdapterIsTold
<1>2. CASE params.mode # m
  <2>1. params' = [params EXCEPT !.mode = m] /\ cbq' = Posted(ModeCb(m))
    BY <1>2 DEF UpdateMode
  <2>2. params'.mode = m /\ params'.polling = params.polling
    BY <2>1, RadioFacts
  <2>3. ASSUME main \in {"boot", "run"}
        PROVE  /\ Tells(cbq', ModeCb(m), bus.mode = m)
               /\ Tells(cbq', PollingCb(params.polling), bus.polling = params.polling)
    <3>1. cbq' = Append(cbq, ModeCb(m))
      BY <2>1, <2>3 DEF Posted
    <3>2. cbq \in Seq(Callbacks) /\ ModeCb(m) \in Callbacks
          /\ ModeCb(m).type # PollingCb(params.polling).type
      BY RadioFacts, ParameterCallbacks
    <3>3. Tells(Append(cbq, ModeCb(m)), ModeCb(m), bus.mode = m)
      BY <3>2, ToldByTheNewest
    <3>4. Tells(cbq, PollingCb(params.polling), bus.polling = params.polling)
      BY <2>3 DEF AdapterIsTold
    <3>5. Tells(Append(cbq, ModeCb(m)), PollingCb(params.polling), bus.polling = params.polling)
      BY <3>2, <3>4, ToldBehindOthers
    <3>6. QED
      BY <3>1, <3>3, <3>5
  <2>4. QED
    BY <2>2, <2>3 DEF AdapterIsTold
<1>3. QED
  BY <1>1, <1>2

\* Detections and losses come and go between the parameters.
Parameter(cb) == cb.type \in {"mode", "polling"}

LEMMA ToldAllTheSame ==
  ASSUME IInv, AdapterIsTold, UNCHANGED <<params, bus>>,
         main' \in {"boot", "run"} => main \in {"boot", "run"},
         main \in {"boot", "run"} =>
           \/ UNCHANGED cbq
           \/ \E cb \in Callbacks : ~Parameter(cb) /\ cbq' = Posted(cb)
           \/ cbq # <<>> /\ ~Parameter(Head(cbq)) /\ cbq' = Tail(cbq)
  PROVE  AdapterIsTold'
<1> DEFINE pcb == PollingCb(params.polling)
           mcb == ModeCb(params.mode)
<1> SUFFICES ASSUME main \in {"boot", "run"}
             PROVE  /\ Tells(cbq', pcb, bus.polling = params.polling)
                    /\ Tells(cbq', mcb, bus.mode = params.mode)
  BY DEF AdapterIsTold
<1>1. /\ Tells(cbq, pcb, bus.polling = params.polling)
      /\ Tells(cbq, mcb, bus.mode = params.mode)
  BY DEF AdapterIsTold
<1>2. cbq \in Seq(Callbacks) /\ pcb.type = "polling" /\ mcb.type = "mode"
  BY RadioFacts, ParameterCallbacks
<1> HIDE DEF pcb, mcb
<1>3. CASE UNCHANGED cbq
  BY <1>1, <1>3
<1>4. CASE \E cb \in Callbacks : ~Parameter(cb) /\ cbq' = Posted(cb)
  <2>1. PICK cb \in Callbacks : ~Parameter(cb) /\ cbq' = Posted(cb)
    BY <1>4
  <2>2. cbq' = Append(cbq, cb) /\ cb.type # pcb.type /\ cb.type # mcb.type
    BY <1>2, <2>1 DEF Posted, Parameter
  <2>3. Tells(Append(cbq, cb), pcb, bus.polling = params.polling)
    BY <1>1, <1>2, <2>2, ToldBehindOthers
  <2>4. Tells(Append(cbq, cb), mcb, bus.mode = params.mode)
    BY <1>1, <1>2, <2>2, ToldBehindOthers
  <2>5. QED
    BY <2>2, <2>3, <2>4
<1>5. CASE cbq # <<>> /\ ~Parameter(Head(cbq)) /\ cbq' = Tail(cbq)
  <2>1. cbq # <<>> /\ Head(cbq).type # pcb.type /\ Head(cbq).type # mcb.type
    BY <1>2, <1>5 DEF Parameter
  <2>2. Tells(Tail(cbq), pcb, bus.polling = params.polling)
    BY <1>1, <1>2, <2>1, ToldByTheHead
  <2>3. Tells(Tail(cbq), mcb, bus.mode = params.mode)
    BY <1>1, <1>2, <2>1, ToldByTheHead
  <2>4. QED
    BY <1>5, <2>2, <2>3
<1>6. QED
  BY <1>3, <1>4, <1>5

\* The adapter takes over what the callback at the head of the queue says.
LEMMA DispatchTells ==
  ASSUME IInv, AdapterIsTold, DispatchMode \/ DispatchPolling
  PROVE  AdapterIsTold'
<1> DEFINE pcb == PollingCb(params.polling)
           mcb == ModeCb(params.mode)
<1>1. /\ main \in {"run", "quit"} /\ cbq # <<>> /\ cbq' = Tail(cbq)
      /\ UNCHANGED <<main, params>>
  BY DEF DispatchMode, DispatchPolling, Dispatched
<1> SUFFICES ASSUME main = "run"
             PROVE  /\ Tells(cbq', pcb, bus'.polling = params.polling)
                    /\ Tells(cbq', mcb, bus'.mode = params.mode)
  BY <1>1 DEF AdapterIsTold
<1>2. /\ Tells(cbq, pcb, bus.polling = params.polling)
      /\ Tells(cbq, mcb, bus.mode = params.mode)
  BY DEF AdapterIsTold
<1>3. /\ cbq \in Seq(Callbacks)
      /\ pcb.type = "polling" /\ mcb.type = "mode"
      /\ pcb.polling = params.polling /\ mcb.mode = params.mode
  BY RadioFacts, ParameterCallbacks
<1>4. /\ Head(cbq) = pcb => Head(cbq).polling = params.polling
      /\ Head(cbq) = mcb => Head(cbq).mode = params.mode
  BY <1>3
<1> HIDE DEF pcb, mcb
<1>5. /\ Tells(cbq', pcb, IF Head(cbq).type = pcb.type THEN Head(cbq) = pcb ELSE bus.polling = params.polling)
      /\ Tells(cbq', mcb, IF Head(cbq).type = mcb.type THEN Head(cbq) = mcb ELSE bus.mode = params.mode)
  BY <1>1, <1>2, <1>3, ToldByTheHead
<1>6. CASE DispatchMode
  <2>1. Head(cbq).type = "mode" /\ bus' = [bus EXCEPT !.mode = Head(cbq).mode]
    BY <1>6 DEF DispatchMode, Dispatched, Registered
  <2>2. bus'.mode = Head(cbq).mode /\ bus'.polling = bus.polling
    BY <2>1, RadioFacts
  <2>3. QED
    BY <1>3, <1>4, <1>5, <2>1, <2>2 DEF Tells
<1>7. CASE DispatchPolling
  <2>1. Head(cbq).type = "polling" /\ bus' = [bus EXCEPT !.polling = Head(cbq).polling]
    BY <1>7 DEF DispatchPolling, Dispatched, Registered
  <2>2. bus'.polling = Head(cbq).polling /\ bus'.mode = bus.mode
    BY <2>1, RadioFacts
  <2>3. QED
    BY <1>3, <1>4, <1>5, <2>1, <2>2 DEF Tells
<1>8. QED
  BY <1>6, <1>7

-----------------------------------------------------------------------------
(***************************************************************************)
(* RadioInv under each step.                                               *)
(***************************************************************************)
LEMMA RadioUnchanged ==
  ASSUME IInv, RadioInv, AdapterIsTold',
         UNCHANGED params, session'.polling = session.polling, Serves' = Serves
  PROVE  RadioInv'
BY DEF RadioInv, ParamsAreRadios

LEMMA ReturnServes ==
  ASSUME pc \in QueueLocations, NEW polling, NEW join, pc' = ReturnTo(pc, polling, join)
  PROVE  Serves' = Serves
BY DEF QueueLocations, ReturnTo, LoopHead, Serves, Writing

LEMMA RadioSwitches ==
  ASSUME IInv, RadioInv,
         \/ PopStart /\ UNCHANGED tagVars
         \/ PopStop /\ UNCHANGED tagVars
         \/ LeavePolling /\ UNCHANGED tagVars
         \/ EnterSession("initiator", "tag") /\ UNCHANGED tagVars
         \/ GoIdle /\ UNCHANGED tagVars
  PROVE  RadioInv'
<1>0. /\ ParamsAreRadios /\ AdapterIsTold
      /\ session \in [polling : BOOLEAN, present : BOOLEAN]
  BY RadioFacts DEF RadioInv
<1>1. CASE PopStart
  <2>1. Serves' = Serves
    BY <1>1, ReturnServes DEF PopStart, Popped
  <2>2. UNCHANGED <<bus, main>>
    BY <1>1 DEF PopStart
  <2>3. CASE session'.polling = TRUE /\ UpdatePolling(TRUE)
    <3>1. params'.polling = TRUE /\ params'.mode = params.mode /\ AdapterIsTold'
      BY <1>0, <2>2, <2>3, PollingIsTold
    <3>2. QED
      BY <1>0, <2>1, <2>3, <3>1 DEF RadioInv, ParamsAreRadios
  <2>4. CASE UNCHANGED <<session, params, cbq>>
    <3>1. AdapterIsTold'
      BY <1>0, <2>2, <2>4, ToldAllTheSame
    <3>2. QED
      BY <2>1, <2>4, <3>1, RadioUnchanged
  <2>5. QED
    BY <1>0, <1>1, <2>3, <2>4 DEF PopStart
<1>2. CASE PopStop
  <2>1. Serves' = Serves
    BY <1>2, ReturnServes DEF PopStop, Popped
  <2>2. UNCHANGED <<bus, main>>
    BY <1>2 DEF PopStop
  <2>3. CASE session'.polling = FALSE /\ UpdatePolling(FALSE)
    <3>1. params'.polling = FALSE /\ params'.mode = params.mode /\ AdapterIsTold'
      BY <1>0, <2>2, <2>3, PollingIsTold
    <3>2. QED
      BY <1>0, <2>1, <2>3, <3>1 DEF RadioInv, ParamsAreRadios
  <2>4. CASE UNCHANGED <<session, params, cbq>>
    <3>1. AdapterIsTold'
      BY <1>0, <2>2, <2>4, ToldAllTheSame
    <3>2. QED
      BY <2>1, <2>4, <3>1, RadioUnchanged
  <2>5. QED
    BY <1>0, <1>2, <2>3, <2>4 DEF PopStop
<1>3. CASE LeavePolling
  <2>1. /\ session'.polling = FALSE /\ UpdatePolling(FALSE) /\ UNCHANGED <<bus, main>>
        /\ pc = "leave" /\ pc' = "mode"
    BY <1>0, <1>3 DEF LeavePolling
  <2>2. params'.polling = FALSE /\ params'.mode = params.mode /\ AdapterIsTold'
    BY <1>0, <2>1, PollingIsTold
  <2>3. ~Serves /\ ~Serves'
    BY <2>1 DEF Serves, Writing
  <2>4. QED
    BY <1>0, <2>1, <2>2, <2>3 DEF RadioInv, ParamsAreRadios
<1>4. CASE EnterSession("initiator", "tag")
  <2>1. /\ UpdateMode("initiator") /\ "initiator" \in RadioModes /\ UNCHANGED <<bus, main, session>>
        /\ pc' = "tag"
    BY <1>4 DEF EnterSession, RadioModes
  <2>2. params'.mode = "initiator" /\ params'.polling = params.polling /\ AdapterIsTold'
    BY <1>0, <2>1, ModeIsTold
  <2>3. Serves'
    BY <2>1 DEF Serves
  <2>4. QED
    BY <1>0, <2>1, <2>2, <2>3 DEF RadioInv, ParamsAreRadios
<1>5. CASE GoIdle
  <2>1. /\ UpdateMode("idle") /\ "idle" \in RadioModes /\ UNCHANGED <<bus, main, session>>
        /\ pc' = "notify"
    BY <1>5 DEF GoIdle, RadioModes
  <2>2. params'.mode = "idle" /\ params'.polling = params.polling /\ AdapterIsTold'
    BY <1>0, <2>1, ModeIsTold
  <2>3. ~Serves'
    BY <2>1 DEF Serves, Writing
  <2>4. QED
    BY <1>0, <2>1, <2>2, <2>3 DEF RadioInv, ParamsAreRadios
<1>6. QED
  BY <1>1, <1>2, <1>3, <1>4, <1>5

\* Every other step of the HAL thread leaves the parameters alone.
LEMMA RadioKeptByThread ==
  ASSUME IInv, RadioInv,
         \/ PopJoin /\ UNCHANGED tagVars
         \/ PopNothing /\ UNCHANGED tagVars
         \/ PopWrite
         \/ WriteTag
         \/ WriteDone
         \/ PollNothing /\ UNCHANGED tagVars
         \/ PollTag
         \/ TagPresent
         \/ TagGone
         \/ NotifyLost(LostCb(current)) /\ UNCHANGED tagVars
  PROVE  RadioInv'
<1>0. /\ AdapterIsTold /\ session \in [polling : BOOLEAN, present : BOOLEAN]
      /\ write.from \in QueueLocations /\ current \in Ids
  BY RadioFacts, StepFacts DEF RadioInv
<1>1. UNCHANGED <<params, bus, main>> /\ session'.polling = session.polling
  BY <1>0 DEF PopJoin, PopNothing, PopWrite, WriteTag, WriteDone, PollNothing, PollTag, TagPresent,
              TagGone, NotifyLost
<1>2. Serves' = Serves
  <2>1. CASE PopJoin \/ PopNothing
    BY <2>1, ReturnServes DEF PopJoin, PopNothing, Popped
  <2>2. CASE PopWrite
    BY <2>2 DEF PopWrite, Popped, QueueLocations, Serves, Writing
  <2>3. CASE WriteTag
    BY <2>3 DEF WriteTag, Serves, Writing
  <2>4. CASE WriteDone
    BY <1>0, <2>4 DEF WriteDone, Serves, Writing, QueueLocations, ReturnTo, LoopHead
  <2>5. CASE PollNothing \/ PollTag \/ TagPresent \/ TagGone \/ NotifyLost(LostCb(current))
    BY <2>5 DEF PollNothing, PollTag, TagPresent, TagGone, NotifyLost, Serves, Writing
  <2>6. QED
    BY <2>1, <2>2, <2>3, <2>4, <2>5
<1>3. \/ UNCHANGED cbq
      \/ \E cb \in Callbacks : ~Parameter(cb) /\ cbq' = Posted(cb)
  <2>1. \A id \in Ids : /\ Detected(id) \in Callbacks /\ ~Parameter(Detected(id))
                        /\ LostCb(id) \in Callbacks /\ ~Parameter(LostCb(id))
    BY CallbackFacts DEF Parameter, Detected, LostCb
  <2>2. CASE PollTag
    BY <2>1, <2>2 DEF PollTag
  <2>3. CASE NotifyLost(LostCb(current))
    BY <1>0, <2>1, <2>3 DEF NotifyLost
  <2>4. CASE PopJoin \/ PopNothing \/ PopWrite \/ WriteTag \/ WriteDone \/ PollNothing
               \/ TagPresent \/ TagGone
    BY <2>4 DEF PopJoin, PopNothing, PopWrite, WriteTag, WriteDone, PollNothing, TagPresent, TagGone
  <2>5. QED
    BY <2>2, <2>3, <2>4
<1>4. AdapterIsTold'
  BY <1>0, <1>1, <1>3, ToldAllTheSame
<1>5. QED
  BY <1>1, <1>2, <1>4, RadioUnchanged

LEMMA RadioKeptByRest ==
  ASSUME IInv, RadioInv, MainThread \/ Environment \/ UNCHANGED vars
  PROVE  RadioInv'
<1>0. AdapterIsTold
  BY DEF RadioInv
<1>1. UNCHANGED <<pc, params, session, write>>
  BY DEF MainThread, Environment, DispatchMode, DispatchPolling, DispatchDetected, DispatchLost,
         HalFree, ThreadJoined, BusAcquired, StartPollLoop, StopPollLoop, WriteMethod,
         Unregister, NameLost, TagEnters, TagLeaves, tagVars, vars, halVars
<1>2. Serves' = Serves
  BY <1>1 DEF Serves, Writing
<1>3. AdapterIsTold'
  <2>1. CASE DispatchMode \/ DispatchPolling
    BY <1>0, <2>1, DispatchTells
  <2>2. CASE ~(DispatchMode \/ DispatchPolling)
    <3>1. /\ UNCHANGED bus
          /\ main' \in {"boot", "run"} => main \in {"boot", "run"}
      BY <2>2
      DEF MainThread, Environment, DispatchDetected, DispatchLost, Dispatched,
          HalFree, ThreadJoined, BusAcquired, StartPollLoop, StopPollLoop, WriteMethod,
          Unregister, NameLost, TagEnters, TagLeaves, vars, halVars
    <3>2. \/ UNCHANGED cbq
          \/ cbq # <<>> /\ ~Parameter(Head(cbq)) /\ cbq' = Tail(cbq)
      BY <2>2
      DEF MainThread, Environment, DispatchDetected, DispatchLost, Dispatched, Parameter,
          HalFree, ThreadJoined, BusAcquired, StartPollLoop, StopPollLoop, WriteMethod,
          Unregister, NameLost, TagEnters, TagLeaves, vars, halVars
    <3>3. QED
      BY <1>0, <1>1, <3>1, <3>2, ToldAllTheSame
  <2>3. QED
    BY <2>1, <2>2
<1>4. QED
  BY <1>1, <1>2, <1>3, RadioUnchanged

LEMMA RadioInit == Init => RadioInv
<1> SUFFICES ASSUME Init PROVE RadioInv
  OBVIOUS
<1>1. /\ params = [mode |-> "idle", polling |-> FALSE]
      /\ bus = [mode |-> "idle", polling |-> FALSE]
      /\ session.polling = FALSE /\ pc = "wait" /\ DOMAIN cbq = {}
  BY DEF Init, HalInit
<1>2. ~Serves
  BY <1>1 DEF Serves, Writing
<1>3. \A type : NoneOf(cbq, type)
  BY <1>1 DEF NoneOf
<1>4. QED
  BY <1>1, <1>2, <1>3 DEF RadioInv, ParamsAreRadios, AdapterIsTold, Tells

LEMMA RadioNext == IInv /\ RadioInv /\ [Next]_vars => RadioInv'
<1> SUFFICES ASSUME IInv, RadioInv, [Next]_vars PROVE RadioInv'
  OBVIOUS
<1>1. CASE HalThread
  BY <1>1, RadioSwitches, RadioKeptByThread DEF HalThread
<1>2. QED
  BY <1>1, RadioKeptByRest DEF Next, Over

\* The parameters follow the radio, and the newest callback on its way, or else
\* the bus, has the current value of each as long as the adapter is registered.
THEOREM RadioInvariant == Spec => []RadioInv
BY InductiveInvariant, RadioInit, RadioNext, PTL DEF Spec

\* Polling and Mode are right whenever nothing is on its way to the adapter
\* (hal_impl_update_polling, hal_impl_update_mode, adapter.c's callbacks).
THEOREM TheBusShowsTheRadio == Spec => []BusShowsRadio
<1>1. IInv /\ RadioInv => BusShowsRadio
  <2> SUFFICES ASSUME IInv, RadioInv, Registered, cbq = <<>>,
                      pc \in QueueLocations \cup {"poll", "check"}
               PROVE  /\ bus.polling = session.polling
                      /\ (bus.mode = "initiator") = session.present
    BY DEF BusShowsRadio
  <2>1. \A cb : ~Newest(cbq, cb)
    BY DEF Newest
  <2>2. bus.polling = params.polling /\ bus.mode = params.mode
    BY <2>1 DEF RadioInv, AdapterIsTold, Tells, Registered
  <2>3. session.present = (InSession \/ Ending)
    BY DEF IInv, Connection
  <2>4. (InSession \/ Ending) = Serves
    BY DEF InSession, Ending, Serves, Writing, QueueLocations
  <2>5. QED
    BY <2>2, <2>3, <2>4 DEF RadioInv, ParamsAreRadios
<1>2. QED
  BY <1>1, InductiveInvariant, RadioInvariant, PTL

-----------------------------------------------------------------------------
(***************************************************************************)
(* HalTag implements SessionService.  First, what the four parts of the    *)
(* abstract state depend on.                                               *)
(***************************************************************************)

\* The two ways to say that a detection, or a loss, is queued.
LEMMA QueuedAre ==
  ASSUME cbq \in Seq(Callbacks), NEW id
  PROVE  DetectionIn(cbq, id) <=> id \in Ids /\ DetectedQueued(id)
<1>1. ASSUME NEW i \in DOMAIN cbq
      PROVE  Detects(cbq[i], id) <=> id \in Ids /\ cbq[i] = Detected(id)
  <2>1. cbq[i] \in Callbacks
    OBVIOUS
  <2>2. Detects(cbq[i], id) => id \in Ids /\ cbq[i] = Detected(id)
    BY <2>1, CallbackTypes DEF Detects
  <2>3. cbq[i] = Detected(id) => Detects(cbq[i], id)
    BY DEF Detects, Detected
  <2>4. QED
    BY <2>2, <2>3
<1>2. QED
  BY <1>1 DEF DetectionIn, DetectedQueued

EntriesAreHeld ==
  IInv => /\ InSession => current \in DOMAIN tags
          /\ \A id : DetectionIn(cbq, id) => id \in DOMAIN tags

LEMMA EntriesHeld == EntriesAreHeld
<1> SUFFICES ASSUME IInv
             PROVE  /\ InSession => current \in DOMAIN tags
                    /\ \A id : DetectionIn(cbq, id) => id \in DOMAIN tags
  BY DEF EntriesAreHeld
<1>1. Holders /\ current \in Ids /\ cbq \in Seq(Callbacks)
  BY StepFacts
<1>2. InSession => current \in DOMAIN tags
  BY <1>1 DEF Holders, SessionHolds
<1>3. \A id \in Ids : DetectedQueued(id) => id \in DOMAIN tags
  BY <1>1 DEF Holders
<1>4. \A id : DetectionIn(cbq, id) => id \in Ids /\ DetectedQueued(id)
  BY <1>1, QueuedAre
<1>5. QED
  BY <1>2, <1>3, <1>4

LEMMA EntriesHeldNext == EntriesAreHeld'
BY EntriesHeld, PTL

\* Entries that stay in the table stay those of their tags.
SameTags == \A id \in DOMAIN tags \cap DOMAIN tags' : tags'[id].tag = tags[id].tag

LEMMA UnrefSameTags ==
  ASSUME Table(tags), NEW id \in DOMAIN tags, tags' = Unref(tags, id)
  PROVE  SameTags
<1>1. \A i \in DOMAIN tags' : i \in DOMAIN tags /\ tags'[i].tag = tags[i].tag
  BY UnrefFacts
<1>2. QED
  BY <1>1 DEF SameTags

LEMMA SameOnAir ==
  ASSUME IInv, IInv', SameTags, InSession' = InSession, UNCHANGED current
  PROVE  OnAir' = OnAir
<1>1. CASE InSession
  <2>1. InSession' /\ current' = current
    BY <1>1
  <2>2. current \in DOMAIN tags
    BY <1>1, EntriesHeld DEF EntriesAreHeld
  <2>3. current \in DOMAIN tags'
    BY <2>1, EntriesHeldNext DEF EntriesAreHeld
  <2>4. tags'[current].tag = tags[current].tag
    BY <2>2, <2>3 DEF SameTags
  <2>5. QED
    BY <1>1, <2>1, <2>4 DEF OnAir
<1>2. CASE ~InSession
  BY <1>2 DEF OnAir
<1>3. QED
  BY <1>1, <1>2

LEMMA SameUnshown ==
  ASSUME IInv, IInv', SameTags, Registered' = Registered,
         Registered => DetectionsOf(cbq') = DetectionsOf(cbq)
  PROVE  Unshown' = Unshown
<1>1. CASE Registered
  <2>1. DetectionsOf(cbq') = DetectionsOf(cbq)
    BY <1>1
  <2>2. cbq \in Seq(Callbacks) /\ cbq' \in Seq(Callbacks)
    BY DEF IInv, TypeOK, HalTypeOK
  <2>3. ASSUME NEW n \in DOMAIN DetectionsOf(cbq)
        PROVE  TagOf'[DetectionsOf(cbq)[n].id] = TagOf[DetectionsOf(cbq)[n].id]
    <3> DEFINE id == DetectionsOf(cbq)[n].id
    <3>1. DetectionIn(cbq, id)
      BY <2>2, DetectionsQueued
    <3>2. DetectionIn(cbq', id)
      BY <2>1, <2>2, DetectionsQueued
    <3> HIDE DEF id
    <3>3. id \in DOMAIN tags
      BY <3>1, EntriesHeld DEF EntriesAreHeld
    <3>4. id \in DOMAIN tags'
      BY <3>2, EntriesHeldNext DEF EntriesAreHeld
    <3>5. tags'[id].tag = tags[id].tag
      BY <3>3, <3>4 DEF SameTags
    <3>6. TagOf'[id] = TagOf[id]
      BY <3>3, <3>4, <3>5 DEF TagOf
    <3>7. QED
      BY <3>6 DEF id
  <2>4. DetectedThings(cbq', TagOf') = DetectedThings(cbq, TagOf)
    BY <2>1, <2>3 DEF DetectedThings
  <2>5. QED
    BY <1>1, <2>4 DEF Unshown
<1>2. CASE ~Registered
  BY <1>2 DEF Unshown
<1>3. QED
  BY <1>1, <1>2

\* The steps no client can see.
LEMMA SameView ==
  ASSUME IInv, IInv', SameTags, UNCHANGED <<current, objects>>,
         Registered' = Registered, Serving' = Serving, InSession' = InSession,
         Registered => DetectionsOf(cbq') = DetectionsOf(cbq)
  PROVE  UNCHANGED <<OnAir, Unshown, Shown, Serving>>
<1>1. Shown' = Shown
  BY DEF Shown
<1>2. QED
  BY <1>1, SameOnAir, SameUnshown

\* Callbacks of other types leave the detections alone.
LEMMA DetectionsKept ==
  ASSUME cbq \in Seq(Callbacks),
         \/ UNCHANGED cbq
         \/ \E cb \in Callbacks : cb.type # "detected" /\ cbq' = Posted(cb)
         \/ cbq # <<>> /\ Head(cbq).type # "detected" /\ cbq' = Tail(cbq)
  PROVE  DetectionsOf(cbq') = DetectionsOf(cbq)
<1>1. CASE UNCHANGED cbq
  BY <1>1
<1>2. CASE \E cb \in Callbacks : cb.type # "detected" /\ cbq' = Posted(cb)
  <2>1. PICK cb \in Callbacks : cb.type # "detected" /\ cbq' = Posted(cb)
    BY <1>2
  <2>2. DetectionsOf(Append(cbq, cb)) = DetectionsOf(cbq)
    BY <2>1, OtherPostedDetections
  <2>3. QED
    BY <2>1, <2>2 DEF Posted
<1>3. CASE cbq # <<>> /\ Head(cbq).type # "detected" /\ cbq' = Tail(cbq)
  BY <1>3, OtherDispatchedDetections
<1>4. QED
  BY <1>1, <1>2, <1>3

LEMMA UpdatesPost ==
  /\ \A p \in BOOLEAN : UpdatePolling(p) =>
       UNCHANGED cbq \/ \E cb \in Callbacks : cb.type # "detected" /\ cbq' = Posted(cb)
  /\ \A m \in RadioModes : UpdateMode(m) =>
       UNCHANGED cbq \/ \E cb \in Callbacks : cb.type # "detected" /\ cbq' = Posted(cb)
<1>1. /\ \A p \in BOOLEAN : PollingCb(p) \in Callbacks /\ PollingCb(p).type # "detected"
      /\ \A m \in RadioModes : ModeCb(m) \in Callbacks /\ ModeCb(m).type # "detected"
  BY CallbackFacts DEF PollingCb, ModeCb
<1>2. QED
  BY <1>1 DEF UpdatePolling, UpdateMode

-----------------------------------------------------------------------------
(***************************************************************************)
(* The steps that are none of SessionService.                              *)
(***************************************************************************)
LEMMA QuietThreadStutters ==
  ASSUME IInv, IInv',
         \/ PopStart /\ UNCHANGED tagVars
         \/ PopStop /\ UNCHANGED tagVars
         \/ PopJoin /\ UNCHANGED tagVars
         \/ PopNothing /\ UNCHANGED tagVars
         \/ PollNothing /\ UNCHANGED tagVars
         \/ LeavePolling /\ UNCHANGED tagVars
         \/ EnterSession("initiator", "tag") /\ UNCHANGED tagVars
         \/ TagPresent
         \/ GoIdle /\ UNCHANGED tagVars
         \/ NotifyLost(LostCb(current)) /\ UNCHANGED tagVars
         \/ WriteTag
  PROVE  UNCHANGED <<OnAir, Unshown, Shown, Serving>>
<1>0. cbq \in Seq(Callbacks) /\ current \in Ids
  BY StepFacts
<1>1. UNCHANGED <<main, tags, current, objects>>
  BY DEF PopStart, PopStop, PopJoin, PopNothing, PollNothing, LeavePolling, EnterSession,
         TagPresent, GoIdle, NotifyLost, WriteTag, tagVars
<1>2. SameTags /\ Registered' = Registered /\ Serving' = Serving
  BY <1>1 DEF SameTags, Registered, Serving
<1>3. InSession' = InSession
  <2>1. CASE pc \in QueueLocations /\ \E p, j : pc' = ReturnTo(pc, p, j)
    BY <2>1, ReturnKept
  <2>2. CASE PollNothing \/ LeavePolling \/ EnterSession("initiator", "tag") \/ TagPresent
               \/ GoIdle \/ NotifyLost(LostCb(current))
    BY <2>2 DEF PollNothing, LeavePolling, EnterSession, TagPresent, GoIdle, NotifyLost,
                InSession, Writing
  <2>3. CASE WriteTag
    BY <2>3 DEF WriteTag, InSession, Writing
  <2>4. QED
    BY <2>1, <2>2, <2>3 DEF PopStart, PopStop, PopJoin, PopNothing, Popped
<1>4. \/ UNCHANGED cbq
      \/ \E cb \in Callbacks : cb.type # "detected" /\ cbq' = Posted(cb)
  <2>1. CASE NotifyLost(LostCb(current))
    <3>1. LostCb(current) \in Callbacks /\ LostCb(current).type # "detected"
      BY <1>0, CallbackFacts DEF LostCb
    <3>2. QED
      BY <2>1, <3>1 DEF NotifyLost
  <2>2. CASE PopStart \/ PopStop \/ LeavePolling
    BY <2>2, UpdatesPost DEF PopStart, PopStop, LeavePolling
  <2>3. CASE EnterSession("initiator", "tag") \/ GoIdle
    BY <2>3, UpdatesPost DEF EnterSession, GoIdle, RadioModes
  <2>4. CASE PopJoin \/ PopNothing \/ PollNothing \/ TagPresent \/ WriteTag
    BY <2>4 DEF PopJoin, PopNothing, PollNothing, TagPresent, WriteTag
  <2>5. QED
    BY <2>1, <2>2, <2>3, <2>4
<1>5. DetectionsOf(cbq') = DetectionsOf(cbq)
  BY <1>0, <1>4, DetectionsKept
<1>6. QED
  BY <1>1, <1>2, <1>3, <1>5, SameView

\* A write takes a reference and gives it back, in the session or outside it.
LEMMA WritesStutter ==
  ASSUME IInv, IInv', PopWrite \/ WriteDone
  PROVE  UNCHANGED <<OnAir, Unshown, Shown, Serving>>
<1>0. Table(tags) /\ write.id \in Ids /\ Holders /\ TypeOK
  BY StepFacts
<1>1. UNCHANGED <<main, cbq, current, objects>>
  BY DEF PopWrite, WriteDone
<1>2. Registered' = Registered /\ Serving' = Serving
  BY <1>1 DEF Registered, Serving
<1>3. InSession' = InSession
  <2>1. CASE PopWrite
    BY <2>1 DEF PopWrite, Popped, InSession, Writing, QueueLocations
  <2>2. CASE WriteDone
    <3>1. write.from \in QueueLocations
      BY <1>0 DEF TypeOK, TagTypeOK
    <3>2. QED
      BY <2>2, <3>1 DEF WriteDone, InSession, Writing, QueueLocations, ReturnTo, LoopHead
  <2>3. QED
    BY <2>1, <2>2
<1>4. SameTags
  <2>1. CASE UNCHANGED tags
    BY <2>1 DEF SameTags
  <2>2. CASE \E id \in DOMAIN tags : tags' = Ref(tags, id)
    BY <1>0, <2>2, RefFacts DEF SameTags
  <2>3. CASE \E id \in DOMAIN tags : tags' = Unref(tags, id)
    BY <1>0, <2>3, UnrefSameTags
  <2>4. QED
    BY <2>1, <2>2, <2>3 DEF PopWrite, WriteDone
<1>5. QED
  BY <1>1, <1>2, <1>3, <1>4, SameView

LEMMA QuietRestStutters ==
  ASSUME IInv, IInv',
         \/ DispatchMode /\ UNCHANGED tagVars
         \/ DispatchPolling /\ UNCHANGED tagVars
         \/ DispatchLost /\ ~Registered
         \/ DispatchDetected /\ ~Registered
         \/ HalFree /\ UNCHANGED tagVars
         \/ ThreadJoined /\ UNCHANGED tagVars
         \/ StartPollLoop /\ UNCHANGED tagVars
         \/ StopPollLoop /\ UNCHANGED tagVars
         \/ \E id \in DOMAIN objects : WriteMethod(id)
         \/ TagEnters
         \/ TagLeaves
         \/ UNCHANGED vars
  PROVE  UNCHANGED <<OnAir, Unshown, Shown, Serving>>
<1>0. cbq \in Seq(Callbacks) /\ Table(tags)
  BY StepFacts
<1>1. UNCHANGED <<current, objects>> /\ InSession' = InSession
  <2>1. UNCHANGED <<pc, write, current, objects>>
    BY DEF DispatchMode, DispatchPolling, DispatchLost, DispatchDetected, HalFree, ThreadJoined,
           StartPollLoop, StopPollLoop, WriteMethod, TagEnters, TagLeaves, tagVars, vars, halVars
  <2>2. QED
    BY <2>1 DEF InSession, Writing
<1>2. Registered' = Registered /\ Serving' = Serving
  <2>1. CASE UNCHANGED main
    BY <2>1 DEF Registered, Serving
  <2>2. CASE HalFree \/ ThreadJoined
    BY <2>2 DEF HalFree, ThreadJoined, Registered, Serving
  <2>3. QED
    BY <2>1, <2>2
    DEF DispatchMode, DispatchPolling, DispatchLost, DispatchDetected,
        StartPollLoop, StopPollLoop, WriteMethod, TagEnters, TagLeaves, vars, halVars
<1>3. SameTags
  <2>1. CASE UNCHANGED tags
    BY <2>1 DEF SameTags
  <2>2. CASE \E id \in DOMAIN tags : tags' = Unref(tags, id)
    BY <1>0, <2>2, UnrefSameTags
  <2>3. QED
    BY <2>1, <2>2
    DEF DispatchMode, DispatchPolling, DispatchLost, DispatchDetected, HalFree, ThreadJoined,
        StartPollLoop, StopPollLoop, WriteMethod, TagEnters, TagLeaves, tagVars, vars
<1>4. Registered =>
        UNCHANGED cbq \/ (cbq # <<>> /\ Head(cbq).type # "detected" /\ cbq' = Tail(cbq))
  BY DEF DispatchMode, DispatchPolling, Dispatched, HalFree, ThreadJoined, StartPollLoop,
         StopPollLoop, WriteMethod, TagEnters, TagLeaves, vars, halVars
<1>5. Registered => DetectionsOf(cbq') = DetectionsOf(cbq)
  BY <1>0, <1>4, DetectionsKept
<1>6. QED
  BY <1>1, <1>2, <1>3, <1>5, SameView

-----------------------------------------------------------------------------
(***************************************************************************)
(* The steps of SessionService.                                            *)
(***************************************************************************)
LEMMA BusAcquiredOpens ==
  ASSUME IInv, IInv', BusAcquired, UNCHANGED tagVars
  PROVE  Service!Open
<1>1. /\ main = "boot" /\ main' = "run" /\ UNCHANGED <<pc, cbq>>
      /\ UNCHANGED <<tags, current, objects, write>>
  BY DEF BusAcquired, tagVars
<1>2. cbq = <<>>
  BY <1>1, StepFacts DEF QuietBoot
<1>3. Serving = "not yet" /\ Serving' = "yes" /\ ~Registered /\ Registered'
  BY <1>1 DEF Serving, Registered
<1>4. OnAir' = OnAir
  BY <1>1 DEF OnAir, InSession, Writing
<1>5. Unshown' = <<>> /\ Unshown = <<>>
  <2>1. Unshown' = DetectedThings(<<>>, TagOf')
    BY <1>1, <1>2, <1>3 DEF Unshown
  <2>2. DetectedThings(<<>>, TagOf') = <<>>
    <3>1. <<>> \in Seq(Callbacks) /\ DOMAIN <<>> = {}
      OBVIOUS
    <3>2. \A i : ~DetectionIn(<<>>, i)
      BY <3>1 DEF DetectionIn
    <3>3. DOMAIN DetectionsOf(<<>>) = {}
      BY <3>1, <3>2, DetectionsQueued
    <3>4. DetectedThings(<<>>, TagOf') \in Seq(Tags)
      BY <3>1, <3>2, ThingsType
    <3>5. DOMAIN DetectedThings(<<>>, TagOf') = {}
      BY <3>3 DEF DetectedThings
    <3>6. QED
      BY <3>4, <3>5
  <2>3. QED
    BY <1>3, <2>1, <2>2 DEF Unshown
<1>6. Shown' = Shown
  BY <1>1 DEF Shown
<1>7. QED
  BY <1>3, <1>4, <1>5, <1>6 DEF Service!Open

LEMMA UnregisterCloses ==
  ASSUME IInv, IInv', Unregister
  PROVE  Service!Close
<1>1. /\ main \in {"boot", "run"} /\ main' = "quit" /\ DOMAIN objects' = {}
      /\ UNCHANGED <<pc, tags, current, write>>
  BY DEF Unregister, NameLost
<1>2. Serving # "no more" /\ Serving' = "no more" /\ ~Registered'
  BY <1>1 DEF Serving, Registered
<1>3. OnAir' = OnAir
  BY <1>1 DEF OnAir, InSession, Writing
<1>4. Unshown' = <<>> /\ Shown' = NoTag
  BY <1>1, <1>2 DEF Unshown, Shown
<1>5. QED
  BY <1>2, <1>3, <1>4 DEF Service!Close

\* The radio has detected a tag: with the adapter registered its detection is
\* the last one queued, otherwise no client will ever see it.
LEMMA PollTagMeets ==
  ASSUME IInv, IInv', PollTag
  PROVE  \E t \in Tags : Service!Meet(t)
<1>0. TypeOK /\ QuietBoot /\ Table(tags) /\ cbq \in Seq(Callbacks)
  BY StepFacts
<1>1. /\ pc = "poll" /\ pc' = "leave" /\ UNCHANGED <<main, objects>>
      /\ field \in Tags
  BY <1>0 DEF PollTag, TypeOK, TagTypeOK
<1>2. PICK id \in Ids : /\ FirstFree(id) /\ current' = id
                        /\ tags' = With(tags, id, NewEntry(field))
                        /\ cbq' = Posted(Detected(id))
  BY DEF PollTag
<1>3. /\ id \notin DOMAIN tags /\ DOMAIN tags' = DOMAIN tags \cup {id}
      /\ tags'[id].tag = field
      /\ \A i \in DOMAIN tags : tags'[i] = tags[i]
  BY <1>2 DEF FirstFree, With, NewEntry
<1>4. ~InSession /\ InSession'
  BY <1>1 DEF InSession, Writing
<1>5. OnAir = NoTag /\ OnAir' = field
  BY <1>2, <1>3, <1>4 DEF OnAir
<1>6. main # "boot" /\ Registered' = Registered
  BY <1>0, <1>1 DEF QuietBoot, Registered
<1>7. Shown' = Shown
  BY <1>1 DEF Shown
<1>8. Serving' = Serving /\ (Serving = "yes" <=> Registered)
  BY <1>1, <1>6 DEF Serving, Registered
<1>9. CASE Registered
  <2>1. cbq' = Append(cbq, Detected(id))
    BY <1>2, <1>9 DEF Posted, Registered
  <2>2. Unshown = DetectedThings(cbq, TagOf) /\ Unshown' = DetectedThings(cbq', TagOf')
    BY <1>6, <1>9 DEF Unshown
  <2>3. \A i : DetectionIn(cbq, i) => TagOf'[i] = TagOf[i] /\ TagOf'[i] \in Tags
    BY <1>0, <1>3, EntriesHeld DEF EntriesAreHeld, TagOf, Table, Entries
  <2>4. DetectedThings(cbq, TagOf') = DetectedThings(cbq, TagOf)
    BY <1>0, <2>3, SameThings
  <2>5. Detected(id) \in Callbacks /\ Detected(id).type = "detected" /\ Detected(id).id = id
    BY CallbackFacts DEF Detected
  <2>6. TagOf'[id] = field
    BY <1>3 DEF TagOf
  <2>7. DetectedThings(Append(cbq, Detected(id)), TagOf')
          = Append(DetectedThings(cbq, TagOf'), TagOf'[Detected(id).id])
    BY <1>0, <1>1, <2>3, <2>5, <2>6, DetectionPostedThings
  <2>8. Unshown' = Append(Unshown, field)
    BY <2>1, <2>2, <2>4, <2>5, <2>6, <2>7
  <2>9. QED
    BY <1>1, <1>5, <1>7, <1>8, <1>9, <2>8 DEF Service!Meet
<1>10. CASE ~Registered
  <2>1. Unshown = <<>> /\ Unshown' = <<>>
    BY <1>6, <1>10 DEF Unshown
  <2>2. QED
    BY <1>1, <1>5, <1>7, <1>8, <1>10, <2>1 DEF Service!Meet
<1>11. QED
  BY <1>9, <1>10

\* The presence check has failed: the session is over, clients hear of it later.
LEMMA TagGoneParts ==
  ASSUME IInv, IInv', TagGone
  PROVE  Service!Part
<1>0. Table(tags)
  BY StepFacts
<1>1. pc = "check" /\ pc' = "gone" /\ UNCHANGED <<cbq, main, current, objects>>
  BY DEF TagGone
<1>2. InSession /\ ~InSession'
  BY <1>1 DEF InSession, Writing
<1>3. current \in DOMAIN tags
  BY <1>2, EntriesHeld DEF EntriesAreHeld
<1>4. OnAir # NoTag /\ OnAir' = NoTag
  <2>1. tags[current].tag \in Tags
    BY <1>0, <1>3 DEF Table, Entries
  <2>2. QED
    BY <1>2, <2>1, TagAssumption DEF OnAir
<1>5. SameTags
  <2> DEFINE table == Disconnected(tags, current)
  <2>1. tags' = Unref(table, current)
    BY <1>3 DEF TagGone
  <2>2. /\ Table(table) /\ DOMAIN table = DOMAIN tags
        /\ \A i \in DOMAIN tags : table[i].tag = tags[i].tag
    BY <1>0, <1>3, DisconnectedFacts
  <2> HIDE DEF table
  <2>3. \A i \in DOMAIN tags' : i \in DOMAIN table /\ tags'[i].tag = table[i].tag
    <3>1. Table(table) /\ current \in DOMAIN table
      BY <1>3, <2>2
    <3>2. QED
      BY <2>1, <3>1, UnrefFacts
  <2>4. QED
    BY <2>2, <2>3 DEF SameTags
<1>6. Registered' = Registered /\ Serving' = Serving
  BY <1>1 DEF Registered, Serving
<1>7. Unshown' = Unshown
  BY <1>1, <1>5, <1>6, SameUnshown
<1>8. Shown' = Shown
  BY <1>1 DEF Shown
<1>9. QED
  BY <1>4, <1>6, <1>7, <1>8 DEF Service!Part

\* The adapter exports an object: no other is, and it is for the tag that has
\* waited longest.
LEMMA DispatchDetectedShows ==
  ASSUME IInv, IInv', DispatchDetected, Registered
  PROVE  Service!Show
<1> DEFINE id == Head(cbq).id
<1>0. /\ Table(tags) /\ cbq \in Seq(Callbacks) /\ DOMAIN objects \subseteq Ids
      /\ OneTagAtATime
  BY StepFacts
<1>1. /\ cbq # <<>> /\ cbq' = Tail(cbq) /\ Head(cbq).type = "detected"
      /\ UNCHANGED <<pc, main, current, write>>
  BY DEF DispatchDetected, Dispatched
<1>2. Head(cbq) \in Callbacks /\ Head(cbq) = cbq[1] /\ 1 \in DOMAIN cbq /\ DOMAIN cbq \subseteq Nat \ {0}
  BY <1>0, <1>1, TailAt
<1>3. id \in Ids /\ cbq[1] = Detected(id) /\ DetectionIn(cbq, id) /\ id \in DOMAIN tags
  <2>1. id \in Ids /\ cbq[1] = Detected(id)
    BY <1>1, <1>2, CallbackTypes
  <2>2. DetectionIn(cbq, id)
    BY <1>1, <1>2 DEF DetectionIn, Detects
  <2>3. QED
    BY <2>1, <2>2, EntriesHeld DEF EntriesAreHeld
<1>4. tags' = Unref(Ref(tags, id), id) /\ objects' = With(objects, id, tags[id].tag)
  BY <1>3 DEF DispatchDetected
<1> HIDE DEF id
<1>5. DOMAIN objects = {}
  <2>1. \A o \in DOMAIN objects : LostBefore(o, 1)
    BY <1>0, <1>2, <1>3 DEF OneTagAtATime
  <2>2. \A k \in DOMAIN cbq : ~(k < 1)
    BY <1>2
  <2>3. QED
    BY <2>1, <2>2 DEF LostBefore
<1>6. DOMAIN objects' = {id} /\ objects'[id] = tags[id].tag
  BY <1>4, <1>5 DEF With
<1>7. DOMAIN tags' = DOMAIN tags /\ \A i \in DOMAIN tags : tags'[i].tag = tags[i].tag
  BY <1>0, <1>3, <1>4, RefUnref
<1>8. Registered' /\ Serving = "yes" /\ Serving' = Serving /\ InSession' = InSession
  BY <1>1 DEF Registered, Serving, InSession, Writing
<1>9. OnAir' = OnAir
  <2>1. SameTags
    BY <1>7 DEF SameTags
  <2>2. QED
    BY <1>1, <1>8, <2>1, SameOnAir
<1>10. TagOf' = TagOf /\ TagOf[id] = tags[id].tag
  BY <1>3, <1>7 DEF TagOf
<1>11. \A i : DetectionIn(cbq, i) => TagOf[i] \in Tags
  BY <1>0, EntriesHeld DEF EntriesAreHeld, TagOf, Table, Entries
<1>12. /\ DetectedThings(cbq, TagOf) # <<>>
       /\ Head(DetectedThings(cbq, TagOf)) = TagOf[Head(cbq).id]
       /\ DetectedThings(Tail(cbq), TagOf) = Tail(DetectedThings(cbq, TagOf))
  BY <1>0, <1>1, <1>11, DetectionDispatchedThings
<1>13. Unshown # <<>> /\ Head(Unshown) = tags[id].tag /\ Unshown' = Tail(Unshown)
  <2>1. Unshown = DetectedThings(cbq, TagOf) /\ Unshown' = DetectedThings(Tail(cbq), TagOf)
    BY <1>1, <1>8, <1>10 DEF Unshown
  <2>2. QED
    BY <1>10, <1>12, <2>1 DEF id
<1>14. Shown = NoTag /\ Shown' = tags[id].tag
  <2>1. TheOne({id}) = id
    BY DEF TheOne
  <2>2. QED
    BY <1>5, <1>6, <2>1 DEF Shown
<1>15. QED
  BY <1>8, <1>9, <1>13, <1>14 DEF Service!Show

\* The object of a tag is withdrawn when the radio is done with the tag, or
\* busy with one that has been detected since.
LEMMA DispatchLostHides ==
  ASSUME IInv, IInv', DispatchLost, Registered
  PROVE  Service!Hide
<1> DEFINE id == Head(cbq).id
<1>0. /\ Table(tags) /\ cbq \in Seq(Callbacks) /\ DOMAIN objects \subseteq Ids /\ current \in Ids
      /\ OneTagAtATime /\ LossesFollow /\ AdapterView /\ Holders /\ SessionAnnounced /\ TypeOK
  BY StepFacts
<1>1. /\ cbq # <<>> /\ cbq' = Tail(cbq) /\ Head(cbq).type = "lost"
      /\ UNCHANGED <<pc, main, current, write>>
  BY DEF DispatchLost, Dispatched
<1>2. Head(cbq) \in Callbacks /\ Head(cbq) = cbq[1] /\ 1 \in DOMAIN cbq /\ DOMAIN cbq \subseteq Nat \ {0}
  BY <1>0, <1>1, TailAt
<1>3. id \in Ids /\ cbq[1] = LostCb(id) /\ LostQueued(id)
  BY <1>1, <1>2, CallbackTypes DEF LostQueued
<1>4. DOMAIN objects = {id} /\ id \in DOMAIN tags
  <2>1. id \in DOMAIN objects \/ \E j \in DOMAIN cbq : j < 1 /\ cbq[j] = Detected(id)
    BY <1>0, <1>2, <1>3 DEF LossesFollow
  <2>2. \A j \in DOMAIN cbq : ~(j < 1)
    BY <1>2
  <2>3. id \in DOMAIN objects
    BY <2>1, <2>2
  <2>4. QED
    BY <1>0, <1>3, <2>3 DEF OneTagAtATime, OneTagObject, AdapterView, Holders
<1>5. tags' = Unref(tags, id) /\ objects' = Without(objects, id)
  BY <1>4 DEF DispatchLost, AdapterLosesTag
<1> HIDE DEF id
<1>6. SameTags
  BY <1>0, <1>4, <1>5, UnrefSameTags
<1>7. Registered' = Registered /\ Serving' = Serving /\ InSession' = InSession
  BY <1>1 DEF Registered, Serving, InSession, Writing
<1>8. OnAir' = OnAir
  BY <1>1, <1>6, <1>7, SameOnAir
<1>9. Unshown' = Unshown
  <2>1. DetectionsOf(cbq') = DetectionsOf(cbq)
    BY <1>0, <1>1, OtherDispatchedDetections
  <2>2. QED
    BY <1>6, <1>7, <2>1, SameUnshown
<1>10. Shown # NoTag /\ Shown' = NoTag
  <2>1. objects[id] \in Tags
    BY <1>0, <1>4 DEF TypeOK, TagTypeOK
  <2>2. TheOne({id}) = id
    BY DEF TheOne
  <2>3. DOMAIN objects' = {}
    BY <1>4, <1>5 DEF Without
  <2>4. QED
    BY <1>4, <2>1, <2>2, <2>3, TagAssumption DEF Shown
<1>11. OnAir = NoTag \/ Unshown # <<>>
  <2> SUFFICES ASSUME InSession
               PROVE  Unshown # <<>>
    BY DEF OnAir
  <2>1. /\ current \in DOMAIN objects \/ DetectedQueued(current)
        /\ ~LostQueued(current)
    BY <1>0 DEF SessionAnnounced
  <2>2. DetectionIn(cbq, current)
    <3>1. current # id
      BY <1>3, <2>1
    <3>2. DetectedQueued(current)
      BY <1>4, <2>1, <3>1
    <3>3. QED
      BY <1>0, <3>2, QueuedAre
  <2>3. DetectionsOf(cbq) \in Seq(Callbacks) /\ DetectionsOf(cbq) # <<>>
    BY <1>0, <2>2, DetectionsQueued, DetectionsAre
  <2>4. /\ DetectedThings(cbq, TagOf) \in Seq(Tags)
        /\ Len(DetectedThings(cbq, TagOf)) = Len(DetectionsOf(cbq))
    <3>1. \A i : DetectionIn(cbq, i) => TagOf[i] \in Tags
      BY <1>0, EntriesHeld DEF EntriesAreHeld, TagOf, Table, Entries
    <3>2. QED
      BY <1>0, <3>1, ThingsType
  <2>5. QED
    BY <2>3, <2>4 DEF Unshown
<1>12. QED
  BY <1>7, <1>8, <1>9, <1>10, <1>11 DEF Service!Hide

-----------------------------------------------------------------------------
(***************************************************************************)
(* The refinement.                                                         *)
(***************************************************************************)
LEMMA InitIsService == Init => Service!Init
<1> SUFFICES ASSUME Init
             PROVE  Service!Init
  OBVIOUS
<1>1. pc = "wait" /\ main = "boot" /\ DOMAIN objects = {}
  BY DEF Init, HalInit
<1>2. OnAir = NoTag /\ Unshown = <<>> /\ Shown = NoTag /\ Serving = "not yet"
  BY <1>1 DEF OnAir, InSession, Writing, Unshown, Shown, Serving, Registered
<1>3. QED
  BY <1>2 DEF Service!Init

LEMMA NextIsService == IInv /\ IInv' /\ [Next]_vars => [Service!Next]_<<OnAir, Unshown, Shown, Serving>>
<1> SUFFICES ASSUME IInv, IInv', [Next]_vars
             PROVE  Service!Next \/ UNCHANGED <<OnAir, Unshown, Shown, Serving>>
  OBVIOUS
<1>1. CASE HalThread
  <2>1. CASE PollTag
    BY <2>1, PollTagMeets DEF Service!Next
  <2>2. CASE TagGone
    BY <2>2, TagGoneParts DEF Service!Next
  <2>3. CASE PopWrite \/ WriteDone
    BY <2>3, WritesStutter
  <2>4. QED
    BY <1>1, <2>1, <2>2, <2>3, QuietThreadStutters DEF HalThread
<1>2. CASE MainThread
  <2>1. CASE DispatchDetected /\ Registered
    BY <2>1, DispatchDetectedShows DEF Service!Next
  <2>2. CASE DispatchLost /\ Registered
    BY <2>2, DispatchLostHides DEF Service!Next
  <2>3. QED
    BY <1>2, <2>1, <2>2, QuietRestStutters DEF MainThread
<1>3. CASE Environment
  <2>1. CASE BusAcquired /\ UNCHANGED tagVars
    BY <2>1, BusAcquiredOpens DEF Service!Next
  <2>2. CASE Unregister
    BY <2>2, UnregisterCloses DEF Service!Next
  <2>3. QED
    BY <1>3, <2>1, <2>2, QuietRestStutters DEF Environment
<1>4. CASE UNCHANGED vars
  BY <1>4, QuietRestStutters
<1>5. QED
  BY <1>1, <1>2, <1>3, <1>4 DEF Next, Over

\* Whatever the two threads, the queues between them and the reference counts
\* do, a bus client sees the tags the radio meets one at a time, in the order
\* they were met, each once, and none withdrawn while it is the newest (hal.c,
\* hal_tag.c and adapter.c together).
THEOREM Refinement == Spec => ImplementsSessionService
<1>1. Init => Service!Init
  BY InitIsService
<1>2. IInv /\ IInv' /\ [Next]_vars => [Service!Next]_(Service!vars)
  BY NextIsService DEF Service!vars
<1>3. QED
  BY <1>1, <1>2, InductiveInvariant, PTL DEF Spec, ImplementsSessionService, Service!Spec

=============================================================================
