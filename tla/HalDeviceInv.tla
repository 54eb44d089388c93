---------------------------- MODULE HalDeviceInv ----------------------------
(***************************************************************************)
(* What must be true of HalDevice, what the repository says of it and the  *)
(* program does not do, and the mapping that makes it an implementation of *)
(* SessionService.                                                         *)
(***************************************************************************)
EXTENDS HalDevice, Announcements

-----------------------------------------------------------------------------
(***************************************************************************)
(* Types.                                                                  *)
(***************************************************************************)
Locations ==
  {"wait", "poll", "drain", "leave", "mode", "llcp", "linked", "unblock",
   "lost", "gone", "notify", "close"}

Commands == [type : {"start", "stop", "join"}]

Callbacks ==
  [type : {"mode"}, mode : RadioModes]
    \cup [type : {"polling"}, polling : BOOLEAN]
    \cup [type : {"detected", "received", "lost"}, id : Ids]

MaybeDevice == Devices \cup {NoDevice}
Messages    == {Nothing} \cup [from : Devices, text : Texts]

Servers ==
  [at : {"none", "init", "listen", "request", "lookup", "store", "announce", "done"},
   open : BOOLEAN, rx : Messages, id : Ids, more : BOOLEAN]

Clients == [at : {"none", "pop", "send", "clear", "done"}, to : MaybeDevice]

SnepMessages == [to : MaybeDevice]

Entries ==
  [dev : Devices, connected : BOOLEAN, message : Messages, found : BOOLEAN, refs : Nat \ {0}]

HalTypeOK ==
  /\ pc \in Locations
  /\ cmdq \in Seq(Commands)
  /\ cbq \in Seq(Callbacks)
  /\ session \in [polling : BOOLEAN, present : BOOLEAN]
  /\ params \in [mode : RadioModes, polling : BOOLEAN]
  /\ joining \in BOOLEAN
  /\ main \in {"boot", "run", "quit", "join", "done"}
  /\ bus \in [mode : RadioModes, polling : BOOLEAN]
  /\ aborted \in {"no", "setup", "lookup", "assert", "received", "freed", "no object", "no adapter"}

DeviceTypeOK ==
  /\ peer \in MaybeDevice
  /\ link \in MaybeDevice
  /\ event \in BOOLEAN
  /\ DOMAIN devices \subseteq Ids
  /\ \A id \in DOMAIN devices : devices[id] \in Entries
  /\ current \in Ids
  /\ DOMAIN objects \subseteq Ids
  /\ \A id \in DOMAIN objects : objects[id] \in [dev : Devices, shown : Messages]
  /\ adapterRefs \subseteq Ids
  /\ push \in [id : Ids, to : MaybeDevice, connected : BOOLEAN]

SnepTypeOK ==
  /\ snep \in {"wait", "server", "client", "exit"}
  /\ server \in Servers
  /\ client \in Clients
  /\ snepq \in Seq(SnepMessages)
  /\ sent \in [want : MaybeDevice, got : MaybeDevice]

\* Every variable stays within its type; table entries are never left behind
\* with no reference.
TypeOK == HalTypeOK /\ DeviceTypeOK /\ SnepTypeOK

-----------------------------------------------------------------------------
(***************************************************************************)
(* Safety.                                                                 *)
(***************************************************************************)
Queued(cb) == {i \in DOMAIN cbq : cbq[i] = cb}

InSession == pc \in {"leave", "mode", "llcp", "linked", "unblock", "lost"}

One(b) == IF b THEN 1 ELSE 0

\* hal_device_ref, hal_device_unref and their callers on three threads: an
\* entry has as many references as it has holders (the session, each detection
\* and each message on its way to the adapter, the adapter, a Push).
RefsExact ==
  \A id \in Ids :
    LET holders == One(InSession /\ id = current)
                     + Cardinality(Queued(Detected(id))) + Cardinality(Queued(Received(id)))
                     + One(id \in adapterRefs) + One(push # NoPush /\ id = push.id)
    IN  Running => IF id \in DOMAIN devices THEN devices[id].refs = holders ELSE holders = 0

\* No lookup of the RdLib thread or of the main thread meets a missing entry,
\* and a loss never reaches the adapter without its detection (the assertion in
\* adapter_hal_on_device_lost_cb).
NoInternalAbort == aborted \notin {"lookup", "assert"}

\* One device object at a time, standing for the device its entry was made for.
ObjectsMatchEntries ==
  Registered /\ Running =>
    /\ \A i, j \in DOMAIN objects : i = j
    /\ \A id \in DOMAIN objects : id \in DOMAIN devices /\ objects[id].dev = devices[id].dev

\* device_populate_records reads the entry when the callback runs, not when it
\* was posted: once the server and the callbacks are through, the object shows
\* the last message its entry was given, however many came in between.
LastMessageShown ==
  Registered /\ Running =>
    \A id \in DOMAIN objects :
      \/ objects[id].shown = devices[id].message
      \/ Queued(Received(id)) # {}
      \/ server.at = "announce" /\ server.id = id

\* A marker that came too late for its client is taken out by the next one: no
\* number of links leaves more than one behind.
MarkersDoNotPileUp ==
  snep = "wait" => Cardinality({i \in DOMAIN snepq : snepq[i] = Marker}) <= 1

-----------------------------------------------------------------------------
(***************************************************************************)
(* The inductive invariant of the safety properties.                       *)
(***************************************************************************)

\* Before the bus is acquired nobody can have asked the HAL for anything.
QuietBoot ==
  main = "boot" =>
    /\ pc = "wait" /\ ~joining /\ ~session.polling
    /\ cmdq = <<>> /\ cbq = <<>> /\ adapterRefs = {} /\ push = NoPush

\* The session is over but the adapter has not been told.
Ending == pc \in {"gone", "notify"}

Present == IF InSession \/ Ending THEN {current} ELSE {}

\* Detections and losses reach the adapter in an order it can follow.
AdapterFollows == Registered => InOrder(cbq, DOMAIN objects, Present)

\* The adapter holds a reference for each object, made for the entry it is on.
ObjectsAreHeld ==
  /\ DOMAIN objects = adapterRefs
  /\ \A id \in DOMAIN objects \cap DOMAIN devices : objects[id].dev = devices[id].dev

\* A message that an object does not show, or that came before there was an
\* object, is on its way.
OnItsWay(id) == Queued(Received(id)) # {} \/ (server.at = "announce" /\ server.id = id)

MessagesArrive ==
  Registered => \A id \in DOMAIN devices :
    /\ id \in DOMAIN objects =>
         objects[id].shown = devices[id].message \/ OnItsWay(id)
    /\ DetectionIn(cbq, id) => devices[id].message = Nothing \/ OnItsWay(id)

\* The threads of a link, and the markers they leave: the client throws away
\* what it does not send, so that only the marker of the link it is in remains.
Markers == {i \in DOMAIN snepq : snepq[i] = Marker}

SnepStages ==
  /\ snep \in {"wait", "exit"} => client.at = "none"
  /\ snep # "server" => server.at = "none"
  /\ snep \in {"server", "client"} => client.at # "none"
  /\ snep = "server" => Cardinality(Markers) <= IF client.at = "done" THEN 0 ELSE 1
  /\ snep = "client" => Cardinality(Markers) <= IF client.at = "done" THEN 1 ELSE 2
  /\ push # NoPush => push.to \in Devices
  /\ MarkersDoNotPileUp

\* An aborted process takes no further step.
IInv ==
  /\ TypeOK
  /\ NoInternalAbort
  /\ SnepStages
  /\ RefsExact
  /\ Running => QuietBoot /\ AdapterFollows /\ ObjectsAreHeld /\ MessagesArrive

-----------------------------------------------------------------------------
(***************************************************************************)
(* Refinement.                                                             *)
(***************************************************************************)
OnAir == IF InSession THEN devices[current].dev ELSE NoDevice

Devs == [id \in DOMAIN devices |-> devices[id].dev]

Unshown == IF Registered THEN DetectedThings(cbq, Devs) ELSE <<>>

TheOne(S) == CHOOSE x \in S : TRUE

Shown ==
  IF ~Registered \/ DOMAIN objects = {} THEN NoDevice ELSE objects[TheOne(DOMAIN objects)].dev

Serving ==
  IF main = "boot" THEN "not yet" ELSE IF Registered THEN "yes" ELSE "no more"

\* The bus shows the devices the radio meets one at a time, in order, each
\* once, and not for shorter than the radio is busy with it.
Service == INSTANCE SessionService WITH
  Things <- Devices, Nothing <- NoDevice,
  onAir <- OnAir, unshown <- Unshown, shown <- Shown, serving <- Serving

ImplementsSessionService == Service!Spec

-----------------------------------------------------------------------------
(***************************************************************************)
(* Liveness.                                                               *)
(***************************************************************************)

\* hal_impl_snep_thread_fn comes back for the next link, unless one link lasts
\* for ever: the server ends with the link, the marker ends the client.
SnepThreadReturns ==
  []<>(link = NoDevice) => []<>(snep \in {"wait", "exit"} \/ ~Running)

\* The object of a device that has gone is withdrawn, unless the device is back.
GoneDevicesAreWithdrawn ==
  \A id \in Ids :
    (id \in DOMAIN objects /\ peer # objects[id].dev)
      ~> (id \notin DOMAIN objects \/ peer = objects[id].dev \/ ~Registered \/ ~Running)

-----------------------------------------------------------------------------
(***************************************************************************)
(* What assertions, comments and documents of the repository say and the   *)
(* code does not do.                                                       *)
(***************************************************************************)

\* g_error in hal_impl_snep_ndef_received_cb and hal_device_ref,
\* g_assert_nonnull in adapter_hal_on_device_ndef_received_cb: the device of a
\* received message still has its entry in the HAL's table when the server
\* thread looks it up, stores and announces it, and its object in the adapter's
\* when the message is shown.
MessagesFindTheirDevice == aborted \notin {"received", "freed", "no object"}

\* "Unregister callbacks": once the adapter is unregistered the HAL calls it no
\* more (hal_adapter_unregister forgets onDeviceNDEFReceivedCb).
UnregisteredIsNotCalled == aborted # "no adapter"

\* "Force Client to join when server has joined": a client that has sent nothing
\* is ended by the marker only once the server of its link has ended.
MarkerWaitsForServer ==
  [][client.at = "pop" /\ client'.at = "clear" => server.at = "none"]_vars

\* A client that pushes to a device object reaches that device or none.
PushReachesItsDevice == sent.got = sent.want

=============================================================================
