------------------------------ MODULE HalTag -------------------------------
(***************************************************************************)
(* A tag's life in the daemon: hal.c and hal_tag.c detect it, give it an   *)
(* entry with a reference count in pTagTable and watch its presence on the *)
(* RdLib thread; adapter.c and tag.c export an object for it from the main *)
(* thread, let bus clients write to it and withdraw it.  The two threads   *)
(* meet only in pTagTable, in the command queue and in the callback queue. *)
(*                                                                         *)
(* Entries and commands also record the physical tag they stand for, which *)
(* the program does not know: it only knows the id, and reuses ids.        *)
(***************************************************************************)
EXTENDS Hal, RefTable, FiniteSets

CONSTANTS
  Tags,   \* the physical tags
  NoTag,  \* no physical tag
  MaxId   \* bound: the largest tag id

ASSUME TagAssumption ==
  /\ NoTag \notin Tags
  /\ MaxId \in Nat

VARIABLES
  field,        \* the tag in the RF field
  activated,    \* that tag, once the discovery loop has activated it
  tags,         \* pTagTable of the HAL, by tag id
  current,      \* session.currentTagId
  write,        \* the write command being executed
  objects,      \* pTagTable of the adapter: the exported objects' tags by id
  adapterRefs,  \* the ids the adapter holds a reference on
  written       \* the last write on the air: the tag asked for, the tag reached

tagVars == <<field, activated, tags, current, write, objects, adapterRefs, written>>
vars == <<halVars, tagVars>>

Ids == 0..MaxId

Detected(id)  == [type |-> "detected", id |-> id]
LostCb(id)    == [type |-> "lost", id |-> id]
Write(id, t)  == [type |-> "write", id |-> id, tag |-> t]

NoWrite == [id |-> 0, tag |-> NoTag, from |-> "wait"]

Init ==
  /\ HalInit
  /\ field = NoTag
  /\ activated = NoTag
  /\ tags = <<>>
  /\ current = 0
  /\ write = NoWrite
  /\ objects = <<>>
  /\ adapterRefs = {}
  /\ written = [want |-> NoTag, got |-> NoTag]

-----------------------------------------------------------------------------
(***************************************************************************)
(* A new entry in pTagTable.                                               *)
(***************************************************************************)

\* Slip: every tag gets id 0.
AlwaysZero(id) == id = 0

\* The id hal_impl_tag_new picks: the smallest one that is free.
FirstFree(id) == id \notin DOMAIN tags /\ \A i \in Ids : i < id => i \in DOMAIN tags

\* The entry it makes for a tag, once the callback has its own reference (the
\* callback has run and dropped it again when the main loop is no more).
NewEntryForSession(t) == [tag |-> t, connected |-> TRUE, refs |-> 1]  \* Slip: none

NewEntry(t) ==
  [tag |-> t, connected |-> TRUE, refs |-> IF main = "join" THEN 1 ELSE 2]

\* A lookup of an id the table does not have is a g_error in every function
\* of hal_tag.c; "reason" says which lookup it was.
LookupFails(id, reason) == id \notin DOMAIN tags /\ aborted' = reason

-----------------------------------------------------------------------------
(***************************************************************************)
(* The RF field.  A tag that leaves it loses power: back again, it answers *)
(* only once the discovery loop has activated it anew.                     *)
(***************************************************************************)
TagEnters ==
  /\ field = NoTag
  /\ Len(cbq) < MaxCb
  /\ \E t \in Tags : field' = t
  /\ UNCHANGED <<halVars, activated, tags, current, write, objects, adapterRefs, written>>

TagLeaves ==
  /\ field # NoTag
  /\ field' = NoTag
  /\ activated' = NoTag
  /\ UNCHANGED <<halVars, tags, current, write, objects, adapterRefs, written>>

-----------------------------------------------------------------------------
(***************************************************************************)
(* The RdLib thread.                                                       *)
(***************************************************************************)

\* A tag was found: hal_impl_tag_new, then the callback with its own reference.
PollTag ==
  /\ pc = "poll"
  /\ field # NoTag
  /\ \E id \in Ids :
       /\ FirstFree(id)
       /\ current' = id
       /\ tags' = With(tags, id, NewEntry(field))
       /\ cbq' = Posted(Detected(id))
  /\ activated' = field
  /\ session' = [session EXCEPT !.present = TRUE]
  /\ pc' = "leave"
  /\ UNCHANGED <<cmdq, params, joining, main, bus, aborted>>
  /\ UNCHANGED <<field, write, objects, adapterRefs, written>>

TagPresent ==
  /\ pc = "check"
  /\ current \in DOMAIN tags
  /\ activated # NoTag
  /\ pc' = "tag"
  /\ UNCHANGED <<cmdq, cbq, session, params, joining, main, bus, aborted, tagVars>>

\* rdlib_tag_presence_check fails, surely so when the tag has left, for the
\* odd glitch when it has not: the entry is marked disconnected and loses the
\* reference of the session.
TagGone ==
  /\ pc = "check"
  /\ IF current \in DOMAIN tags
       THEN /\ tags' = Unref(Disconnected(tags, current), current)
            /\ UNCHANGED aborted
       ELSE LookupFails(current, "lookup") /\ UNCHANGED tags
  /\ pc' = "gone"
  /\ UNCHANGED <<cmdq, cbq, session, params, joining, main, bus>>
  /\ UNCHANGED <<field, activated, current, write, objects, adapterRefs, written>>

\* hal_impl_tag_ndef_write takes a reference on the id in the command ...
PopWrite ==
  /\ Popped("write")
  /\ LET id == Head(cmdq).id
     IN  IF id \in DOMAIN tags
           THEN /\ tags' = Ref(tags, id)
                /\ write' = [id |-> id, tag |-> Head(cmdq).tag, from |-> pc]
                /\ pc' = "write"
                /\ UNCHANGED aborted
           ELSE LookupFails(id, "write") /\ UNCHANGED <<tags, write, pc>>
  /\ UNCHANGED <<cbq, session, params, joining, main, bus>>
  /\ UNCHANGED <<field, activated, current, objects, adapterRefs, written>>

\* ... lets the reader write if the entry is connected: that reaches the tag
\* the reader has activated, if it lets itself be written ...
WriteTag ==
  /\ pc = "write"
  /\ \/ /\ tags[write.id].connected
        /\ activated # NoTag
        /\ written' = [want |-> write.tag, got |-> activated]
     \/ UNCHANGED written
  /\ pc' = "written"
  /\ UNCHANGED <<cmdq, cbq, session, params, joining, main, bus, aborted>>
  /\ UNCHANGED <<field, activated, tags, current, write, objects, adapterRefs>>

\* Slip: the reference is given back only if the entry is connected.
WriteDoneLeaking ==
  /\ pc = "written"
  /\ tags' = IF tags[write.id].connected THEN Unref(tags, write.id) ELSE tags
  /\ write' = NoWrite
  /\ pc' = ReturnTo(write.from, session.polling, joining)
  /\ UNCHANGED <<cmdq, cbq, session, params, joining, main, bus, aborted>>
  /\ UNCHANGED <<field, activated, current, objects, adapterRefs, written>>

\* ... and gives the reference back.
WriteDone ==
  /\ pc = "written"
  /\ IF write.id \in DOMAIN tags
       THEN tags' = Unref(tags, write.id) /\ UNCHANGED aborted
       ELSE LookupFails(write.id, "lookup") /\ UNCHANGED tags
  /\ write' = NoWrite
  /\ pc' = ReturnTo(write.from, session.polling, joining)
  /\ UNCHANGED <<cmdq, cbq, session, params, joining, main, bus>>
  /\ UNCHANGED <<field, activated, current, objects, adapterRefs, written>>

-----------------------------------------------------------------------------
(***************************************************************************)
(* The main thread.                                                        *)
(***************************************************************************)

\* on_write: the method handler of an exported tag object queues a command.
WriteMethod(id) ==
  /\ ClientMayAct
  /\ "write" \in Requests
  /\ cmdq' = Append(cmdq, Write(id, objects[id]))
  /\ UNCHANGED <<pc, cbq, session, params, joining, main, bus, aborted, tagVars>>

\* The adapter takes its own reference and exports an object; the reference
\* that travelled with the callback is dropped, adapter or not.
DispatchDetected ==
  /\ Dispatched("detected")
  /\ LET id == Head(cbq).id
     IN  IF id \in DOMAIN tags
           THEN /\ UNCHANGED aborted
                /\ IF Registered
                     THEN /\ tags' = Unref(Ref(tags, id), id)
                          /\ objects' = With(objects, id, tags[id].tag)
                          /\ adapterRefs' = adapterRefs \cup {id}
                     ELSE /\ tags' = Unref(tags, id)
                          /\ UNCHANGED <<objects, adapterRefs>>
           ELSE LookupFails(id, "lookup") /\ UNCHANGED <<objects, adapterRefs, tags>>
  /\ UNCHANGED <<pc, cmdq, session, params, joining, main, bus>>
  /\ UNCHANGED <<field, activated, current, write, written>>

\* adapter_hal_on_tag_lost_cb: g_assert_nonnull on the adapter's own table,
\* the object is withdrawn, the reference dropped, polling restarted.
AdapterLosesTag(id) ==
  IF id \in DOMAIN objects /\ id \in DOMAIN tags
    THEN /\ objects' = Without(objects, id)
         /\ adapterRefs' = adapterRefs \ {id}
         /\ tags' = Unref(tags, id)
         /\ cmdq' = IF ConstantPoll THEN Append(cmdq, Start) ELSE cmdq
         /\ UNCHANGED aborted
    ELSE /\ aborted' = IF id \in DOMAIN objects THEN "lookup" ELSE "assert"
         /\ UNCHANGED <<objects, adapterRefs, tags, cmdq>>

DispatchLost ==
  /\ Dispatched("lost")
  /\ IF Registered
       THEN AdapterLosesTag(Head(cbq).id)
       ELSE UNCHANGED <<objects, adapterRefs, tags, cmdq, aborted>>
  /\ UNCHANGED <<pc, session, params, joining, main, bus>>
  /\ UNCHANGED <<field, activated, current, write, written>>

\* on_name_lost: adapter_unregister removes the objects and keeps the
\* references the adapter holds on the HAL's entries.
Unregister ==
  /\ NameLost
  /\ objects' = <<>>
  /\ UNCHANGED <<field, activated, tags, current, write, adapterRefs, written>>

-----------------------------------------------------------------------------
HalThread ==
  \/ PopStart /\ UNCHANGED tagVars
  \/ PopStop /\ UNCHANGED tagVars
  \/ PopJoin /\ UNCHANGED tagVars
  \/ PopNothing /\ UNCHANGED tagVars
  \/ PopWrite
  \/ WriteTag
  \/ WriteDone
  \/ PollNothing /\ UNCHANGED tagVars
  \/ PollTag
  \/ LeavePolling /\ UNCHANGED tagVars
  \/ EnterSession("initiator", "tag") /\ UNCHANGED tagVars
  \/ TagPresent
  \/ TagGone
  \/ GoIdle /\ UNCHANGED tagVars
  \/ NotifyLost(LostCb(current)) /\ UNCHANGED tagVars

MainThread ==
  \/ DispatchMode /\ UNCHANGED tagVars
  \/ DispatchPolling /\ UNCHANGED tagVars
  \/ DispatchDetected
  \/ DispatchLost
  \/ HalFree /\ UNCHANGED tagVars
  \/ ThreadJoined /\ UNCHANGED tagVars

Environment ==
  \/ BusAcquired /\ UNCHANGED tagVars
  \/ StartPollLoop /\ UNCHANGED tagVars
  \/ StopPollLoop /\ UNCHANGED tagVars
  \/ \E id \in DOMAIN objects : WriteMethod(id)
  \/ Unregister
  \/ TagEnters
  \/ TagLeaves

\* The process is over: it aborted, or main() returned.
Over == (~Running \/ main = "done") /\ UNCHANGED vars

Next ==
  \/ Running /\ (HalThread \/ MainThread \/ Environment)
  \/ Over

Spec == Init /\ [][Next]_vars

\* Both threads are scheduled as long as they can run; clients, the bus and
\* the RF field owe nothing.
FairSpec ==
  /\ Spec
  /\ WF_vars(Running /\ HalThread)
  /\ WF_vars(Running /\ MainThread)

=============================================================================
