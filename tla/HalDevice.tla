----------------------------- MODULE HalDevice -----------------------------
(***************************************************************************)
(* A peer device's life in the daemon.  The RdLib thread (hal.c) detects   *)
(* it, gives it an entry in pDeviceTable and runs the LLCP link until it   *)
(* ends.  Meanwhile the SNEP thread (hal_device.c) starts, for each link,  *)
(* a server thread that receives messages and a client thread that sends   *)
(* one.  The main thread (adapter.c, device.c) exports an object for the   *)
(* device, shows its messages and lets bus clients push messages to it.    *)
(*                                                                         *)
(* The threads meet in pDeviceTable, in session.currentDeviceId, in the    *)
(* callback queue, in pSnepQueue and in the reader library's LLCP event.   *)
(* Entries, objects and messages also record the physical device they are  *)
(* about, and an entry whether the server has a pointer to it (found); the *)
(* program knows neither.                                                  *)
(***************************************************************************)
EXTENDS Hal, RefTable, FiniteSets

CONSTANTS
  Devices,   \* the physical peer devices
  NoDevice,  \* no physical device
  Texts,     \* what a device may send
  MaxId,     \* bound: the largest device id
  MaxSnep    \* bound: clients wait while pSnepQueue holds this many messages

ASSUME DeviceAssumption ==
  /\ NoDevice \notin Devices
  /\ MaxId \in Nat
  /\ MaxSnep \in Nat

VARIABLES
  peer,         \* the device in the RF field
  link,         \* the device the LLCP link is up with
  event,        \* the library's "LLCP activated" event is pending
  devices,      \* pDeviceTable of the HAL, by device id
  current,      \* session.currentDeviceId
  snep,         \* where the SNEP thread is
  server,       \* the SNEP server thread
  client,       \* the SNEP client thread
  snepq,        \* pSnepQueue
  objects,      \* pDeviceTable of the adapter: the exported objects by id
  adapterRefs,  \* the ids the adapter holds a reference on
  push,         \* the Push method being executed
  sent          \* the last message sent: the device asked for, the one reached

radioVars  == <<peer, link, event>>
snepVars   == <<snep, server, client, snepq, sent>>
tableVars  == <<devices, current, objects, adapterRefs, push>>
deviceVars == <<radioVars, snepVars, tableVars>>
vars == <<halVars, deviceVars>>

Ids == 0..MaxId

Detected(id) == [type |-> "detected", id |-> id]
Received(id) == [type |-> "received", id |-> id]
LostCb(id)   == [type |-> "lost", id |-> id]

Nothing == [from |-> NoDevice, text |-> "nothing"]

\* What pSnepQueue holds: messages and the marker that ends a client thread.
Message(d) == [to |-> d]
Marker == [to |-> NoDevice]

NoServer == [at |-> "none", open |-> FALSE, rx |-> Nothing, id |-> 0, more |-> FALSE]
Ended    == [NoServer EXCEPT !.at = "done"]
NoClient == [at |-> "none", to |-> NoDevice]
NoPush   == [id |-> 0, to |-> NoDevice, connected |-> FALSE]

Init ==
  /\ HalInit
  /\ peer = NoDevice
  /\ link = NoDevice
  /\ event = FALSE
  /\ devices = <<>>
  /\ current = 0
  /\ snep = "wait"
  /\ server = NoServer
  /\ client = NoClient
  /\ snepq = <<>>
  /\ objects = <<>>
  /\ adapterRefs = {}
  /\ push = NoPush
  /\ sent = [want |-> NoDevice, got |-> NoDevice]

-----------------------------------------------------------------------------
(***************************************************************************)
(* The RF field.                                                           *)
(***************************************************************************)
PeerEnters ==
  /\ peer = NoDevice
  /\ Len(cbq) < MaxCb
  /\ \E d \in Devices : peer' = d
  /\ UNCHANGED <<halVars, link, event, snepVars, tableVars>>

PeerLeaves ==
  /\ peer # NoDevice
  /\ peer' = NoDevice
  /\ UNCHANGED <<halVars, link, event, snepVars, tableVars>>

-----------------------------------------------------------------------------
(***************************************************************************)
(* The RdLib thread.                                                       *)
(***************************************************************************)

AlwaysZero(id) == id = 0  \* Slip: every device gets id 0

\* The id hal_impl_device_new picks: the smallest one that is free.
FirstFree(id) ==
  id \notin DOMAIN devices /\ \A i \in Ids : i < id => i \in DOMAIN devices

\* Slip: the callback travels without a reference.
NewEntryForSession(d) ==
  [dev |-> d, connected |-> TRUE, message |-> Nothing, found |-> FALSE, refs |-> 1]

\* Its entry, with the session's reference and the callback's (which is gone
\* again when the callback has run at once, the main loop being no more).
NewEntry(d) ==
  [dev |-> d, connected |-> TRUE, message |-> Nothing, found |-> FALSE,
   refs |-> IF main = "join" THEN 1 ELSE 2]

PollDevice ==
  /\ pc = "poll"
  /\ peer # NoDevice
  /\ \E id \in Ids :
       /\ FirstFree(id)
       /\ current' = id
       /\ devices' = With(devices, id, NewEntry(peer))
       /\ cbq' = Posted(Detected(id))
  /\ session' = [session EXCEPT !.present = TRUE]
  /\ pc' = "leave"
  /\ UNCHANGED <<cmdq, params, joining, main, bus, aborted>>
  /\ UNCHANGED <<radioVars, snepVars, objects, adapterRefs, push>>

\* rdlib_llcp_execute: phlnLlcp_Activate brings the link up if the device that
\* was detected is still there, which the library signals by its event, and
\* stays in the call as long as the link is up ...
Activate ==
  /\ pc = "llcp"
  /\ \/ /\ \E id \in DOMAIN devices : id = current /\ devices[id].dev = peer
        /\ link' = peer
        /\ event' = TRUE
        /\ pc' = "linked"
     \/ /\ UNCHANGED <<link, event>>
        /\ pc' = "unblock"
  /\ UNCHANGED <<cmdq, cbq, session, params, joining, main, bus, aborted>>
  /\ UNCHANGED <<peer, snepVars, tableVars>>

LinkEnds ==
  /\ pc = "linked"
  /\ link' = NoDevice
  /\ pc' = "unblock"
  /\ UNCHANGED <<cmdq, cbq, session, params, joining, main, bus, aborted>>
  /\ UNCHANGED <<peer, event, snepVars, tableVars>>

\* ... that is, until the device is gone, or for any other reason.
LinkLost   == link # peer /\ LinkEnds
LinkBreaks == link = peer /\ LinkEnds

\* rdlib_llcp consumes the event and makes blocked socket calls return.
UnblockSockets ==
  /\ pc = "unblock"
  /\ event' = FALSE
  /\ server' = [server EXCEPT !.open = FALSE]
  /\ pc' = "lost"
  /\ UNCHANGED <<cmdq, cbq, session, params, joining, main, bus, aborted>>
  /\ UNCHANGED <<peer, link, snep, client, snepq, sent, tableVars>>

\* The first half of hal_impl_device_lost; GoIdle and NotifyLost are the rest.
DeviceGone ==
  /\ pc = "lost"
  /\ IF current \in DOMAIN devices
       THEN /\ devices' = Unref(Disconnected(devices, current), current)
            /\ UNCHANGED aborted
       ELSE aborted' = "lookup" /\ UNCHANGED devices
  /\ pc' = "gone"
  /\ UNCHANGED <<cmdq, cbq, session, params, joining, main, bus>>
  /\ UNCHANGED <<radioVars, snepVars, current, objects, adapterRefs, push>>

-----------------------------------------------------------------------------
(***************************************************************************)
(* The SNEP thread: for each link it starts a server and a client, joins   *)
(* the server, queues the marker for the client and joins that.            *)
(***************************************************************************)
StartThreads ==
  /\ snep = "wait"
  /\ event
  /\ server' = [NoServer EXCEPT !.at = "init", !.open = TRUE]
  /\ client' = [NoClient EXCEPT !.at = "pop"]
  /\ snep' = "server"
  /\ UNCHANGED <<halVars, radioVars, snepq, sent, tableVars>>

\* Slip: the client is left to find out for itself.
JoinServerOnly ==
  /\ snep = "server"
  /\ server.at = "done"
  /\ server' = NoServer
  /\ snep' = "client"
  /\ UNCHANGED <<halVars, radioVars, client, snepq, sent, tableVars>>

JoinServer ==
  /\ snep = "server"
  /\ server.at = "done"
  /\ server' = NoServer
  /\ snepq' = Append(snepq, Marker)
  /\ snep' = "client"
  /\ UNCHANGED <<halVars, radioVars, client, sent, tableVars>>

JoinClient ==
  /\ snep = "client"
  /\ client.at = "done"
  /\ client' = NoClient
  /\ event' = FALSE
  /\ snep' = IF joining THEN "exit" ELSE "wait"
  /\ UNCHANGED <<halVars, peer, link, server, snepq, sent, tableVars>>

\* phlnLlcp_WaitForActivation fails and the thread looks at joining again.
WaitFails ==
  /\ snep = "wait"
  /\ joining
  /\ snep' = "exit"
  /\ UNCHANGED <<halVars, radioVars, server, client, snepq, sent, tableVars>>

-----------------------------------------------------------------------------
(***************************************************************************)
(* The SNEP server thread.                                                 *)
(***************************************************************************)
ServerStep(from, to) ==
  /\ server.at = from
  /\ server' = to
  /\ UNCHANGED <<peer, link, event, snep, client, snepq, sent, current, objects, adapterRefs, push>>

\* The device connects to the server ...
Connected ==
  /\ link # NoDevice
  /\ ServerStep("init", [server EXCEPT !.at = "listen"])
  /\ UNCHANGED <<halVars, devices>>

\* ... and sends a request.
Listened ==
  /\ server.open
  /\ link # NoDevice
  /\ peer = link
  /\ Len(cbq) < MaxCb
  /\ ServerStep("listen", [server EXCEPT !.at = "request"])
  /\ UNCHANGED <<halVars, devices>>

\* baSnepRxLen is set by a PUT and keeps its value otherwise: whatever the
\* response came to, a message that is there is processed, and the loop goes
\* on if the response could be sent.
Responded ==
  /\ \E ok \in BOOLEAN :
       \E rx \in {server.rx} \cup (IF link = NoDevice THEN {} ELSE [from : {link}, text : Texts]) :
         ServerStep("request",
           CASE rx # Nothing        -> [server EXCEPT !.at = "lookup", !.rx = rx, !.more = ok]
             [] rx = Nothing /\ ok  -> [server EXCEPT !.at = "listen"]
             [] rx = Nothing /\ ~ok -> Ended)
  /\ UNCHANGED <<halVars, devices>>

\* hal_impl_snep_ndef_received_cb looks up the entry of whatever device is
\* current, under the mutex of the table ...
FindEntry ==
  /\ ServerStep("lookup", [server EXCEPT !.at = "store", !.id = current])
  /\ IF current \in DOMAIN devices
       THEN devices' = [devices EXCEPT ![current].found = TRUE] /\ UNCHANGED aborted
       ELSE aborted' = "received" /\ UNCHANGED devices
  /\ UNCHANGED <<pc, cmdq, cbq, session, params, joining, main, bus>>

\* The entry that was found is there still: it may have been freed meanwhile,
\* and its id given to another.
EntryIsThere == server.id \in DOMAIN devices /\ devices[server.id].found

\* Slip: only the first message of a device is advertised.
StoreQuietly ==
  /\ EntryIsThere
  /\ ServerStep("store",
       IF devices[server.id].message = Nothing THEN [server EXCEPT !.at = "announce"]
       ELSE IF server.more THEN [server EXCEPT !.at = "listen", !.id = 0, !.more = FALSE] ELSE Ended)
  /\ devices' = [devices EXCEPT ![server.id].message = server.rx, ![server.id].found = FALSE]
  /\ UNCHANGED halVars

\* ... stores the message, under the entry's mutex and with no reference on it:
\* nothing is said of a process that writes to freed memory here ...
Store ==
  /\ ServerStep("store", [server EXCEPT !.at = "announce"])
  /\ IF EntryIsThere
       THEN /\ devices' = [devices EXCEPT ![server.id].message = server.rx, ![server.id].found = FALSE]
            /\ UNCHANGED aborted
       ELSE aborted' = "freed" /\ UNCHANGED devices
  /\ UNCHANGED <<pc, cmdq, cbq, session, params, joining, main, bus>>

\* ... and has it advertised.  Once the main loop is no more the callback runs
\* at once, on the adapter that hal_adapter_unregister left it.
Announce ==
  /\ ServerStep("announce",
       IF server.more THEN [server EXCEPT !.at = "listen", !.id = 0, !.more = FALSE] ELSE Ended)
  /\ IF server.id \in DOMAIN devices
       THEN IF main = "join"
              THEN aborted' = "no adapter" /\ UNCHANGED <<devices, cbq>>
              ELSE /\ devices' = Ref(devices, server.id)
                   /\ cbq' = Append(cbq, Received(server.id))
                   /\ UNCHANGED aborted
       ELSE aborted' = "received" /\ UNCHANGED <<devices, cbq>>
  /\ UNCHANGED <<pc, cmdq, session, params, joining, main, bus>>

\* A socket call fails; it is sure to once the link is down or the sockets
\* have been unblocked.
ServerFails ==
  /\ server.at \in {"init", "listen"}
  /\ ServerStep(server.at, Ended)
  /\ UNCHANGED <<halVars, devices>>

ServerUnblocked == (~server.open \/ link = NoDevice) /\ ServerFails

-----------------------------------------------------------------------------
(***************************************************************************)
(* The SNEP client thread: one message, then the rest of the queue is      *)
(* thrown away.                                                            *)
(***************************************************************************)
ClientStep(from, to) ==
  /\ client.at = from
  /\ client' = to
  /\ UNCHANGED <<halVars, radioVars, snep, server, tableVars>>

ClientPops ==
  /\ snepq # <<>>
  /\ ClientStep("pop", [at |-> IF Head(snepq) = Marker THEN "clear" ELSE "send",
                        to |-> Head(snepq).to])
  /\ snepq' = Tail(snepq)
  /\ UNCHANGED sent

\* rdlib_snep_client: the message goes to the device at the other end, if any.
ClientSends ==
  /\ ClientStep("send", [NoClient EXCEPT !.at = "clear"])
  /\ \/ link # NoDevice /\ sent' = [want |-> client.to, got |-> link]
     \/ UNCHANGED sent
  /\ UNCHANGED snepq

\* Slip: what is left in the queue stays there.
ClientEnds ==
  /\ ClientStep("clear", [NoClient EXCEPT !.at = "done"])
  /\ UNCHANGED <<snepq, sent>>

ClientClears ==
  /\ ClientStep("clear", [NoClient EXCEPT !.at = "done"])
  /\ snepq' = <<>>
  /\ UNCHANGED sent

-----------------------------------------------------------------------------
(***************************************************************************)
(* The main thread.  It does one thing at a time: nothing is dispatched    *)
(* between the two halves of a Push.                                       *)
(***************************************************************************)

\* hal_impl_device_ndef_push takes a reference and looks whether the device is
\* connected ...
PushBegins(id) ==
  /\ ClientMayAct
  /\ "push" \in Requests
  /\ Len(snepq) < MaxSnep
  /\ IF id \in DOMAIN devices
       THEN /\ push' = [id |-> id, to |-> objects[id].dev, connected |-> devices[id].connected]
            /\ devices' = Ref(devices, id)
            /\ UNCHANGED aborted
       ELSE aborted' = "lookup" /\ UNCHANGED <<push, devices>>
  /\ UNCHANGED <<pc, cmdq, cbq, session, params, joining, main, bus>>
  /\ UNCHANGED <<radioVars, snepVars, current, objects, adapterRefs>>

\* Slip: a device that is no longer connected keeps the reference.
PushLeaks ==
  /\ push # NoPush
  /\ snepq' = IF push.connected THEN Append(snepq, Message(push.to)) ELSE snepq
  /\ devices' = IF push.connected THEN Unref(devices, push.id) ELSE devices
  /\ push' = NoPush
  /\ UNCHANGED <<halVars, radioVars, snep, server, client, sent, current, objects, adapterRefs>>

\* ... queues the message if it was, and gives the reference back.
PushEnds ==
  /\ push # NoPush
  /\ snepq' = IF push.connected THEN Append(snepq, Message(push.to)) ELSE snepq
  /\ IF push.id \in DOMAIN devices
       THEN devices' = Unref(devices, push.id) /\ UNCHANGED aborted
       ELSE aborted' = "lookup" /\ UNCHANGED devices
  /\ push' = NoPush
  /\ UNCHANGED <<pc, cmdq, cbq, session, params, joining, main, bus>>
  /\ UNCHANGED <<radioVars, snep, server, client, sent, current, objects, adapterRefs>>

\* The adapter takes its own reference and exports an object; the reference
\* that travelled with the callback is dropped, adapter or not.
DispatchDetected ==
  /\ Dispatched("detected")
  /\ LET id == Head(cbq).id
     IN  IF id \in DOMAIN devices
           THEN /\ UNCHANGED aborted
                /\ IF Registered
                     THEN /\ devices' = Unref(Ref(devices, id), id)
                          /\ objects' = With(objects, id, [dev |-> devices[id].dev, shown |-> Nothing])
                          /\ adapterRefs' = adapterRefs \cup {id}
                     ELSE /\ devices' = Unref(devices, id)
                          /\ UNCHANGED <<objects, adapterRefs>>
           ELSE aborted' = "lookup" /\ UNCHANGED <<objects, adapterRefs, devices>>
  /\ UNCHANGED <<pc, cmdq, session, params, joining, main, bus>>
  /\ UNCHANGED <<radioVars, snepVars, current, push>>

\* adapter_hal_on_device_ndef_received_cb asserts that the object is there and
\* device_populate_records shows the message the entry has by now.
\* hal_adapter_unregister does not withdraw this one callback.
DispatchReceived ==
  /\ Dispatched("received")
  /\ LET id == Head(cbq).id
     IN  IF ~Registered
           THEN aborted' = "no adapter" /\ UNCHANGED <<objects, devices>>
           ELSE IF id \in DOMAIN objects
                  THEN /\ objects' = [objects EXCEPT ![id].shown = devices[id].message]
                       /\ devices' = Unref(devices, id)
                       /\ UNCHANGED aborted
                  ELSE aborted' = "no object" /\ UNCHANGED <<objects, devices>>
  /\ UNCHANGED <<pc, cmdq, session, params, joining, main, bus>>
  /\ UNCHANGED <<radioVars, snepVars, current, adapterRefs, push>>

\* adapter_hal_on_device_lost_cb: g_assert_nonnull on the adapter's own table,
\* the object is withdrawn, the reference dropped, polling restarted.
DispatchLost ==
  /\ Dispatched("lost")
  /\ LET id == Head(cbq).id
     IN  IF ~Registered
           THEN UNCHANGED <<objects, adapterRefs, devices, cmdq, aborted>>
           ELSE IF id \in DOMAIN objects /\ id \in DOMAIN devices
                  THEN /\ objects' = Without(objects, id)
                       /\ adapterRefs' = adapterRefs \ {id}
                       /\ devices' = Unref(devices, id)
                       /\ cmdq' = IF ConstantPoll THEN Append(cmdq, Start) ELSE cmdq
                       /\ UNCHANGED aborted
                  ELSE /\ aborted' = IF id \in DOMAIN objects THEN "lookup" ELSE "assert"
                       /\ UNCHANGED <<objects, adapterRefs, devices, cmdq>>
  /\ UNCHANGED <<pc, session, params, joining, main, bus>>
  /\ UNCHANGED <<radioVars, snepVars, current, push>>

\* hal_impl_free's join returns when rdlib_close has joined the SNEP thread.
BothThreadsJoined == snep = "exit" /\ ThreadJoined

-----------------------------------------------------------------------------
HalThread ==
  \/ PopStart /\ UNCHANGED deviceVars
  \/ PopStop /\ UNCHANGED deviceVars
  \/ PopJoin /\ UNCHANGED deviceVars
  \/ PopNothing /\ UNCHANGED deviceVars
  \/ PollNothing /\ UNCHANGED deviceVars
  \/ PollDevice
  \/ LeavePolling /\ UNCHANGED deviceVars
  \/ \E mode \in {"initiator", "target"} : EnterSession(mode, "llcp") /\ UNCHANGED deviceVars
  \/ Activate
  \/ LinkLost
  \/ UnblockSockets
  \/ DeviceGone
  \/ GoIdle /\ UNCHANGED deviceVars
  \/ NotifyLost(LostCb(current)) /\ UNCHANGED deviceVars

SnepThread == StartThreads \/ JoinServer \/ JoinClient

\* The steps of the server thread that depend on nobody else.
ServerThread == ServerUnblocked \/ Responded \/ FindEntry \/ Store \/ Announce

ClientThread == ClientPops \/ ClientSends \/ ClientClears

MainThread ==
  \/ PushEnds
  \/ /\ push = NoPush
     /\ \/ DispatchMode /\ UNCHANGED deviceVars
        \/ DispatchPolling /\ UNCHANGED deviceVars
        \/ DispatchDetected
        \/ DispatchReceived
        \/ DispatchLost
        \/ HalFree /\ UNCHANGED deviceVars
        \/ BothThreadsJoined /\ UNCHANGED deviceVars

\* Bus, clients, the device and the library's failures owe nothing.
Environment ==
  \/ /\ push = NoPush
     /\ \/ BusAcquired /\ UNCHANGED deviceVars
        \/ StartPollLoop /\ UNCHANGED deviceVars
        \/ StopPollLoop /\ UNCHANGED deviceVars
        \/ NameLost /\ UNCHANGED deviceVars
        \/ \E id \in DOMAIN objects : PushBegins(id)
  \/ PeerEnters
  \/ PeerLeaves
  \/ LinkBreaks
  \/ Connected
  \/ Listened
  \/ ServerFails
  \/ WaitFails

\* The process is over: it aborted, or main() returned.
Over == (~Running \/ main = "done") /\ UNCHANGED vars

Next ==
  \/ Running /\ (HalThread \/ SnepThread \/ ServerThread \/ ClientThread \/ MainThread \/ Environment)
  \/ Over

Spec == Init /\ [][Next]_vars

\* Every thread is scheduled as long as it can run.
FairSpec ==
  /\ Spec
  /\ WF_vars(Running /\ HalThread)
  /\ WF_vars(Running /\ SnepThread)
  /\ WF_vars(Running /\ ServerThread)
  /\ WF_vars(Running /\ ClientThread)
  /\ WF_vars(Running /\ MainThread)

=============================================================================
