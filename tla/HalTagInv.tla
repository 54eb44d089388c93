----------------------------- MODULE HalTagInv -----------------------------
(***************************************************************************)
(* What must be true of HalTag: its type invariant, its safety and         *)
(* liveness properties, the inductive invariant behind the safety ones and *)
(* the mapping that makes HalTag an implementation of SessionService.      *)
(***************************************************************************)
EXTENDS HalTag, Announcements

-----------------------------------------------------------------------------
(***************************************************************************)
(* Types.                                                                  *)
(***************************************************************************)
Locations ==
  {"wait", "poll", "drain", "leave", "mode", "tag", "check", "gone",
   "notify", "write", "written", "close"}

Commands ==
  [type : {"start", "stop", "join"}]
    \cup [type : {"write"}, id : Ids, tag : Tags]

Callbacks ==
  [type : {"mode"}, mode : RadioModes]
    \cup [type : {"polling"}, polling : BOOLEAN]
    \cup [type : {"detected", "lost"}, id : Ids]

Entries == [tag : Tags, connected : BOOLEAN, refs : Nat \ {0}]

PartialFunctions(S, T) == UNION {[D -> T] : D \in SUBSET S}

HalTypeOK ==
  /\ pc \in Locations
  /\ cmdq \in Seq(Commands)
  /\ cbq \in Seq(Callbacks)
  /\ session \in [polling : BOOLEAN, present : BOOLEAN]
  /\ params \in [mode : RadioModes, polling : BOOLEAN]
  /\ joining \in BOOLEAN
  /\ main \in {"boot", "run", "quit", "join", "done"}
  /\ bus \in [mode : RadioModes, polling : BOOLEAN]
  /\ aborted \in {"no", "setup", "write", "lookup", "assert"}

TagTypeOK ==
  /\ field \in Tags \cup {NoTag}
  /\ activated \in {field, NoTag}
  /\ DOMAIN tags \subseteq Ids
  /\ \A id \in DOMAIN tags : tags[id] \in Entries
  /\ current \in Ids
  /\ write \in [id : Ids, tag : Tags \cup {NoTag}, from : QueueLocations]
  /\ DOMAIN objects \subseteq Ids
  /\ \A id \in DOMAIN objects : objects[id] \in Tags
  /\ adapterRefs \subseteq Ids
  /\ written \in [want : Tags \cup {NoTag}, got : Tags \cup {NoTag}]

\* Every variable stays within its type; table entries are never left behind
\* with no reference.
TypeOK == HalTypeOK /\ TagTypeOK

-----------------------------------------------------------------------------
(***************************************************************************)
(* Who holds a reference on an entry of pTagTable.                         *)
(***************************************************************************)
DetectedQueued(id) == \E i \in DOMAIN cbq : cbq[i] = Detected(id)
LostQueued(id)     == \E i \in DOMAIN cbq : cbq[i] = LostCb(id)

\* The thread is executing a write, respectively one from within a session.
Writing   == pc \in {"write", "written"}
InSession ==
  \/ pc \in {"leave", "mode", "tag", "check"}
  \/ Writing /\ write.from = "tag"

\* The session is over but the adapter has not been told.
Ending == pc \in {"gone", "notify"}

SessionHolds(id) == InSession /\ id = current
WriteHolds(id)   == Writing /\ id = write.id

One(b) == IF b THEN 1 ELSE 0

\* hal_tag_ref, hal_tag_unref and their callers on two threads: an entry has
\* as many references as it has holders (the session, the write being executed,
\* a callback on its way, the adapter), so that it is in the table exactly as
\* long as someone uses it and is neither freed early nor leaked.
RefsExact ==
  \A id \in Ids :
    LET holders == One(SessionHolds(id)) + One(WriteHolds(id))
                     + Cardinality({i \in DOMAIN cbq : cbq[i] = Detected(id)})
                     + One(id \in adapterRefs)
    IN  IF id \in DOMAIN tags THEN tags[id].refs = holders ELSE holders = 0

-----------------------------------------------------------------------------
(***************************************************************************)
(* Safety.                                                                 *)
(***************************************************************************)

\* No lookup the HAL makes on its own account meets a missing entry (g_error in
\* hal_tag.c), and g_assert_nonnull in adapter_hal_on_tag_lost_cb holds: a loss
\* never reaches the adapter before, or without, the detection it ends.
NoInternalAbort == aborted \notin {"lookup", "assert"}

\* At most one tag object is exported, although the HAL may be several sessions
\* ahead of the adapter (adapter_hal_on_tag_detected_cb, tag_lost_cb).
OneTagObject == \A i, j \in DOMAIN objects : i = j

\* ... and it stands for the tag its HAL entry was made for, even when its id
\* has been given to several tags in turn (hal_impl_tag_new).
ObjectsMatchEntries ==
  /\ OneTagObject
  /\ Registered => \A id \in DOMAIN objects :
                     id \in DOMAIN tags /\ objects[id] = tags[id].tag

\* A write that hal_impl_tag_ndef_write lets through to the reader reaches the
\* tag of the entry it was addressed to: the reader itself takes no id and
\* writes to whatever tag it activated last.
WriteReachesItsEntry ==
  pc = "write" /\ tags[write.id].connected /\ activated # NoTag
    => activated = tags[write.id].tag

\* With no session and every callback delivered, pTagTable is empty: nothing
\* leaks over any number of sessions as long as the adapter is registered.
NothingLeaks ==
  Registered /\ ~session.present /\ cbq = <<>> /\ ~Writing => DOMAIN tags = {}

\* Once the callbacks are delivered, the exported properties are those of the
\* radio: Polling says whether the discovery loop runs, Mode whether a tag is
\* being served (hal_impl_update_polling, hal_impl_update_mode).
BusShowsRadio ==
  Registered /\ cbq = <<>> /\ pc \in QueueLocations \cup {"poll", "check"}
    => /\ bus.polling = session.polling
       /\ (bus.mode = "initiator") = session.present

-----------------------------------------------------------------------------
(***************************************************************************)
(* The inductive invariant.                                                *)
(***************************************************************************)

\* Before the bus is acquired nobody can have asked the HAL for anything.
QuietBoot ==
  main = "boot" =>
    /\ pc = "wait" /\ ~joining /\ ~session.polling
    /\ cmdq = <<>> /\ cbq = <<>> /\ adapterRefs = {}

\* RefsExact, with a detection queued at most once for an id.
Holders ==
  /\ \A i, j \in DOMAIN cbq : \A id \in Ids :
       cbq[i] = Detected(id) /\ cbq[j] = Detected(id) => i = j
  /\ \A id \in DOMAIN tags :
       /\ SessionHolds(id) \/ WriteHolds(id) \/ DetectedQueued(id) \/ id \in adapterRefs
       /\ tags[id].refs = One(SessionHolds(id)) + One(WriteHolds(id))
                            + One(DetectedQueued(id)) + One(id \in adapterRefs)
  /\ \A id \in Ids :
       SessionHolds(id) \/ WriteHolds(id) \/ DetectedQueued(id) \/ id \in adapterRefs
         => id \in DOMAIN tags

\* What the adapter has on the bus, and what is still on its way to it.
AdapterView ==
  /\ DOMAIN objects = IF Registered THEN adapterRefs ELSE {}
  /\ \A id \in Ids : DetectedQueued(id) => id \notin adapterRefs
  /\ \A id \in DOMAIN objects : id \in DOMAIN tags => objects[id] = tags[id].tag

\* The session in progress is announced and not yet taken back ...
SessionAnnounced ==
  Registered /\ (InSession \/ Ending)
    => /\ current \in DOMAIN objects \/ DetectedQueued(current)
       /\ ~LostQueued(current)

\* ... a loss on its way to the adapter is the only one of its id and comes
\* after the detection it ends ...
LossesFollow ==
  Registered => \A i \in DOMAIN cbq : \A id \in Ids :
    cbq[i] = LostCb(id) =>
      /\ id \in DOMAIN objects \/ \E j \in DOMAIN cbq : j < i /\ cbq[j] = Detected(id)
      /\ \A j \in DOMAIN cbq : cbq[j] = LostCb(id) => i = j

\* ... every announced session that is not the present one has its loss queued ...
AllEnd ==
  Registered => \A id \in Ids :
    id \in DOMAIN objects \/ DetectedQueued(id)
      => LostQueued(id) \/ ((InSession \/ Ending) /\ id = current)

\* ... and queued before the next detection.
LostBefore(id, j) == \E k \in DOMAIN cbq : k < j /\ cbq[k] = LostCb(id)

OneTagAtATime ==
  /\ OneTagObject
  /\ Registered => \A j \in DOMAIN cbq : \A id \in Ids :
       cbq[j] = Detected(id) =>
         /\ \A o \in DOMAIN objects : LostBefore(o, j)
         /\ \A i \in DOMAIN cbq : \A o \in Ids :
              i < j /\ cbq[i] = Detected(o) => LostBefore(o, j)

\* Only the session's entry is connected, and it is the one the reader is on.
Connection ==
  /\ \A id \in DOMAIN tags : tags[id].connected => SessionHolds(id)
  /\ InSession /\ activated # NoTag /\ current \in DOMAIN tags
       => activated = tags[current].tag
  /\ session.present = (InSession \/ Ending)

\* The invariant that is inductive: it implies the safety properties above.
IInv ==
  /\ TypeOK
  /\ QuietBoot
  /\ Holders
  /\ AdapterView
  /\ SessionAnnounced
  /\ LossesFollow
  /\ AllEnd
  /\ OneTagAtATime
  /\ Connection
  /\ NoInternalAbort

-----------------------------------------------------------------------------
(***************************************************************************)
(* The inductive invariant of BusShowsRadio.                               *)
(***************************************************************************)
\* cb is the newest of its kind in q; q has none of a kind.
Newest(q, cb)   == \E i \in DOMAIN q : q[i] = cb /\ \A j \in DOMAIN q : i < j => q[j].type # cb.type
NoneOf(q, type) == \A i \in DOMAIN q : q[i].type # type

\* What the adapter has been told last of a parameter, or is going to be.
Tells(q, cb, told) == Newest(q, cb) \/ (NoneOf(q, cb.type) /\ told)

\* The session's radio mode is set.
Serves == pc \in {"tag", "check", "gone"} \/ (Writing /\ write.from = "tag")

\* The parameters are the radio's ...
ParamsAreRadios ==
  /\ params.polling = session.polling
  /\ params.mode = IF Serves THEN "initiator" ELSE "idle"

\* ... and the adapter follows them.
AdapterIsTold ==
  main \in {"boot", "run"} =>
    /\ Tells(cbq, PollingCb(params.polling), bus.polling = params.polling)
    /\ Tells(cbq, ModeCb(params.mode), bus.mode = params.mode)

RadioInv == ParamsAreRadios /\ AdapterIsTold

-----------------------------------------------------------------------------
(***************************************************************************)
(* Refinement.                                                             *)
(***************************************************************************)
OnAir == IF InSession THEN tags[current].tag ELSE NoTag

TagOf == [id \in DOMAIN tags |-> tags[id].tag]

Unshown == IF Registered THEN DetectedThings(cbq, TagOf) ELSE <<>>

TheOne(S) == CHOOSE x \in S : TRUE

Shown == IF DOMAIN objects = {} THEN NoTag ELSE objects[TheOne(DOMAIN objects)]

Serving ==
  IF main = "boot" THEN "not yet" ELSE IF Registered THEN "yes" ELSE "no more"

\* The bus shows the tags the radio meets one at a time, in order, each once,
\* and not for shorter than the radio is busy with it.
Service == INSTANCE SessionService WITH
  Things <- Tags, Nothing <- NoTag,
  onAir <- OnAir, unshown <- Unshown, shown <- Shown, serving <- Serving

ImplementsSessionService == Service!Spec

-----------------------------------------------------------------------------
(***************************************************************************)
(* Liveness.                                                               *)
(***************************************************************************)

\* The object of a tag that has gone is withdrawn, whatever else clients make
\* the two threads do meanwhile (hal_impl_polling_loop_iteration_fn's presence
\* loop), unless a write to an id that is no more ends the process.
GoneTagsAreWithdrawn ==
  \A id \in Ids :
    (id \in DOMAIN objects /\ activated = NoTag)
      ~> (id \notin DOMAIN objects \/ aborted = "write")

\* With ConstantPoll and no client that stops it the radio is back to polling
\* after every tag, for as long as the daemon is on the bus
\* (adapter_register, adapter_hal_on_tag_lost_cb).
PollingResumes ==
  ConstantPoll /\ "stop" \notin Requests =>
    ((Registered /\ activated = NoTag)
       ~> (session.polling \/ ~Registered \/ aborted = "write"))

-----------------------------------------------------------------------------
(***************************************************************************)
(* What comments and documents of the repository say and the code does not *)
(* do.                                                                     *)
(***************************************************************************)

\* "Make sure tag won't get destroyed by other thread": hal_impl_tag_ndef_write
\* takes its reference when the command is executed, by when the entry of an
\* object the client saw may be gone, which ends the process.
WriteFindsItsEntry == aborted # "write"

\* A client that writes to a tag object writes to that tag or to none: the
\* command carries an id that may have been given to the next tag since.
WriteReachesItsTag == written.got = written.want

\* "Stop polling loop": HAL_CMD_JOIN ends the thread hal_impl_free joins.
FreeJoinsThread == (main = "join") ~> (main = "done")

=============================================================================
