# A TLA+ model of neard-explorenfc

neard-explorenfc is a D-Bus daemon that gives bus clients access to NFC tags and
to NFC peer devices through the NXP reader library. This directory holds TLA+
modules that model the daemon's own code (`src/neard-explorenfc-1.2/src`), TLC
configurations that check them on small instances, and TLAPS proofs of what
matters most for every value of the constants.

Paths below are relative to `src/neard-explorenfc-1.2/src/`.

## 1. The system

### Components, state, operations

| Component | State | Operations |
| --- | --- | --- |
| RdLib thread (`hal.c`) | `pHalQueue`, `session` (polling, tagOrDevicePresent, current ids), `parameters` (mode, polling), `joining` | the two loops of `hal_impl_thread_fn`; `hal_impl_process_queue`; a polling iteration; the presence loop of a tag; the link of a device; posting callbacks |
| Discovery loop (`hal.c` 419-1118) | reader library configuration, poll configuration, listen mode | set up for a start mode; one iteration: detect, resolve several technologies or devices, activate |
| Tag table (`hal_tag.c`) | `pTagTable`: id -> connected flag, NDEF message, reference count | new, ref, unref, disconnected, write, read, presence check |
| Device table, LLCP, SNEP (`hal_device.c`) | `pDeviceTable`, `pSnepQueue`, SNEP thread, one server and one client thread per link | new, ref, unref, disconnected, push; run a link; receive a message; send a message; clear the queue |
| Adapter object (`adapter.c`) | its own tables of tag and device objects, Mode and Polling properties | register, unregister, StartPollLoop, StopPollLoop, seven HAL callbacks |
| Tag, device, record objects (`tag.c`, `device.c`, `record.c`, `record-container.c`) | exported D-Bus objects, record tables, raw NDEF | register, unregister, populate records, Write, Push, GetRawNDEF |
| Generated skeletons (`generated-code.c`) | the exported properties, the first old value of each changed one, one idle source | set a property, announce changes later |
| Daemon (`main.c`, `dbus-daemon.c`) | main loop, bus name, object manager, `constantPoll` | bus acquired, name lost, handover-agent methods, `hal_impl_free` at the end |
| Handover agent (`handover-agent.c`, `dbus-daemon.c`) | one registered agent: bus name, path, proxy, name watch | register, unregister, agent vanishes, request and push of out-of-band data |
| NDEF codec (`ndef.c`) | none (pure) | parse a message, generate a message, record to and from a dictionary |
| wifi-connect (`../examples`) | a handover agent for Wi-Fi | register, push callback, WSC attribute parser |

### How they interact

Five threads exist: the main thread (everything on the bus), the RdLib thread,
the SNEP thread and, while a link is up, a SNEP server and a SNEP client thread.

* main -> RdLib: commands in `pHalQueue` (start, stop, write, join). A command is
  answered to the bus client when it is queued, not when it is executed.
* RdLib, server -> main: callbacks attached to the main context with
  `g_main_context_invoke`. While the main loop runs they are dispatched in order
  by the main thread; when `main()` has left it, the posting thread becomes the
  owner of the context and runs the callback itself.
* main -> client thread: messages in `pSnepQueue`. SNEP thread -> client thread: an
  empty message, the marker, in the same queue.
* RdLib -> SNEP thread: the library's "LLCP activated" event.
* shared tables: `pTagTable` and `pDeviceTable`, with a reference count per entry,
  and `session.currentDeviceId`, which the server thread reads.

### What is hard

* Entries are used by up to four holders on three threads, and ids are reused as
  soon as they are free; commands, callbacks and bus objects name ids.
* The RdLib thread may be several sessions ahead of what the main thread has
  dispatched; assertions of the adapter rely on the order of callbacks.
* A command is executed an arbitrary time after the client was answered.
* The threads of a link end in an order that depends on the peer, the library
  and the bus client.
* Ending the daemon crosses the main loop's end with threads that still post.
* Nothing is persisted, and a crash is the end of the process: there is no
  recovery to model.

What makes each component correct: exact reference counts and no lookup of a
missing entry (tables); the assertions on lost tags and devices (adapter); one
object at a time, for the right tag or device, withdrawn when it has gone (tag,
device, adapter); commands that reach what they name (tag write, device push);
exported properties that are the radio's (adapter); threads that end (SNEP, RdLib);
a type that fits the thing activated, a configuration that is put back after
several things were told apart, and a loop that comes back to its queue (discovery loop);
objects that come and go as a tree, and signals that tell of it (adapter, tag,
device, record); no use of an agent that has gone, and credentials that reach the
client they are meant for (handover); a parser that reads what the generator
writes (NDEF).

## 2. The modules

| Module | Stands for |
| --- | --- |
| `Hal` | `hal.c`: thread, command queue, callbacks, published parameters; the daemon's life in `main.c`, `dbus-daemon.c`; the adapter's poll methods. No `Next` of its own |
| `RefTable` | what `hal_tag.c` and `hal_device.c` do to an entry, each in its own copy: insert, remove, ref, unref, disconnect, as functions of the table |
| `HalTag` | EXTENDS `Hal`, `RefTable`: a tag's session: `hal.c`, `hal_tag.c`, `adapter.c`, `tag.c` |
| `HalDevice` | EXTENDS `Hal`, `RefTable`: a peer device's session: `hal.c`, `hal_device.c`, `adapter.c`, `device.c` |
| `SessionService` | abstract: what a bus client may rely on |
| `HalTagInv`, `HalDeviceInv` | types, properties, inductive invariant, refinement mapping to `SessionService` |
| `Announcements` | the order of detections and losses in a queue of callbacks, and the detections alone; used by both and by `ObjectsInv` |
| `HalTagInvProofs` | theorems about `HalTag` and their proofs |
| `HalDeviceProofs` | theorems about `HalDevice` and their proofs |
| `AnnouncementsProofs` | lemmas about queues of callbacks, for `HalTag`, `HalDevice` and `Objects` |
| `TagRefs` | `hal_tag.c` again, in its critical sections: the table's mutex, the entry's mutex, the memory of entries |
| `RefCounting` | abstract: the counted table `HalTag` and `HalDevice` use, with each call one step |
| `Handover` | `handover-agent.c` and the two methods of `dbus-daemon.c` |
| `DiscLoop` | `hal.c` 572-1118: what happens inside an iteration of the discovery loop |
| `Objects` | the objects on the bus, the delayed announcement of changed properties and a client that follows: `adapter.c`, `tag.c`, `device.c`, `record.c`, `generated-code.c` |
| `Ndef` | `ndef.c`: generator, parser, validation; a tag that is written and read |
| `TagRefsInv`, `HandoverInv`, `DiscLoopInv`, `ObjectsInv`, `NdefInv` | types, properties, the inductive invariant and the mapping; in `NdefInv` also a reader after the format |
| `TagRefsProofs`, `HandoverProofs`, `DiscLoopProofs`, `ObjectsProofs`, `NdefProofs` | theorems about `TagRefs`, `Handover`, `DiscLoop`, `Objects` and `Ndef` and their proofs |
| `MCHalTag`, `MCHalDevice`, `MCTagRefs`, `MCHandover`, `MCDiscLoop`, `MCObjects`, `MCNdef` | symmetry sets and the instances for TLC |

How they fit together: `HalTag` and `HalDevice` take an iteration of the discovery
loop as one step that finds something or not; `DiscLoop` is that step, and takes the
session that follows as one. `HalTag` takes a call of `hal_tag_ref` or
`hal_tag_unref` as one step; `TagRefs` implements that (`ImplementsRefCounting`), for
callers that keep to the rule. `HalTag` and `HalDevice` show that sessions are
announced one at a time and in order (`SessionService`); `Objects` takes that as its
input (`Meets`, `Receives`, `Parts`) and shows what becomes of it on the bus. `Ndef` is what
`Objects` calls a message, and what `Handover` is handed a record of.

A session is with a tag or with a device, never both, and the two share nothing
but what is in `Hal` (the ids live in separate tables, and on each side the
callbacks of a finished session may still be queued when the next one starts). The
two modules are therefore checked separately.

### State and actions

`Hal`: `cmdq` is `pHalQueue`; `cbq` the callbacks attached to the main context, in
order; `session`, `params`, `joining` the fields of `hal_impl_t`; `bus` the exported
properties; `pc` the place of the RdLib thread ("wait", "drain" and "tag" are its
three calls of `hal_impl_process_queue`); `main` the place of the main thread: "boot"
until `on_bus_acquired`, "run" while the adapter is registered, "quit" after
`on_name_lost`, "join" inside `hal_impl_free`, "done" after it; `aborted` names the
`g_error` or `g_assert` that ended the process. An action is what a thread does
between two points where another thread can notice: a command with all it
changes, one posted callback, one dispatched callback with all the adapter does.

`HalTag`: `tags` is `pTagTable`, `objects` the adapter's table of exported objects,
`adapterRefs` the references the adapter holds, `current` the session's tag id,
`field` and `activated` the physical tag present and the one the reader activated.
Every entry and object also records the physical tag it stands for: the program
does not have this, the properties need it.

`HalDevice`: `devices`, `objects`, `adapterRefs`, `current` likewise; `snepq` is
`pSnepQueue`, with the marker as the message to nobody; `snep`, `server`, `client` the
three SNEP threads with their live locals (`server.rx` is the buffer and
`baSnepRxLen`, which keep their value between requests). A message arrives in three
steps of the server: it finds the entry under the table's mutex (`FindEntry`), writes
it under the entry's (`Store`), and announces it (`Announce`). It has no reference on
the entry in between: `found`, a ghost of the entry, tells whether the one that was
found is there still when it is written; if not, the process uses freed memory and
the model says nothing more of it (`aborted = "freed"`). `push` is the Push method
between its look at the connected flag and its end; `event` the library's activation
event; `peer` and `link` the physical device present and the one the link is with.

`TagRefs`: `table` is `pTagTable` with the address of each entry, `entry` the allocated
memory, `thread` the calls under way: "lock" after the lookup, "count" with the
entry's mutex held, "remove" and "free" when the count was the last. `token` is a
reference somebody holds, which the program does not write down: the rule its
callers keep to is stated with it (`MayName`). The threads in `Careless` break the rule
in the one way the code does (`hal_impl_tag_ndef_write` has an id and no reference).

`Handover`: `table` is `pAgentTable`, `agents` the allocated agents by memory cell, so
that a pointer may outlive its agent and meet the next one; `creating`, `calls` and
`closed` are the three kinds of callback that carry such a pointer. `accepted`,
`pushed`, `orphaned` and `touched` are history: who was told that it is registered,
who was meant and who was called, whether an agent was freed before its proxy
came, and what used freed memory. `Disconnect` is `handover_agent_disconnect` with the
daemon's part (`dbus_daemon_handover_agent_disconnected`) in the middle.

`DiscLoop`: `pollCfg` and `listenCfg` are the library's configuration, `base` what the
iteration found there, `saved` is `bSavePollTechCfg`; `pc` is "run" before
`phacDiscLoop_Run`, "resolve" before the second one and "activate" before
`phacDiscLoop_ActivateCard`; "again" is the end of the body of `while(true)` after a
case, "default" after a status that has none (`Unhandled`), and `Begin` is its head, which
does not look at the queue. Each answer of the library the code has a case for is an
action. A card may be an NFC-DEP target and a type 4A tag at once (`dep4a`,
PHAC_DISCLOOP_MERGED_SEL_RES_FOUND). `found` is `*pNFCType` with the thing it is about.

`Objects`: `sources` is the main context; `registered` says whether the adapter has its
callbacks with the HAL; `tree` the properties of the exported objects by path;
`table` the registered tags and devices; `before` the old values a skeleton keeps
(`changed_properties`); `signals` and `mirror` the client's side. A callback of the
adapter updates the table and leaves in `todo` the tasks the code goes through
(`RegisterTag`, `TagList`, `Withdraw`); `Work` does the next object of the first task,
exporting it, setting its property or withdrawing it. The records of a withdrawn container, and
the tags of an adapter that goes, are taken in any order, as a hash table yields them.
Nothing else is dispatched until `todo` is empty.

`Ndef`: a header is a record and a name one unit; numbers are written in base
`Byte`. `Plain` and `Generate` are `ndef_message_generate` and its helpers, `Parse` is
`ndef_message_parse`; `None` is NULL. The parser's pointer and `dataLength` are the
place `b` and the end `e` of a buffer in the message, and its loop, with the call of
itself for a smart poster, is a function of such pairs (`ReadFrom`, `Message`).
`Decode` of `NdefInv` is a second reader, written after the NDEF format.

### Abstractions and assumptions

* A command and its callback are atomic where the code takes no decision in
  between. `hal_tag_ref` and `hal_tag_unref` are atomic in `HalTag`, which `TagRefs`
  justifies for callers that have a reference; the device versions are the same text.
* What a tag or message contains is a model value, except in `Ndef`.
* A buffer that ends inside a record's header is refused in `Ndef`; the program's test
  for it (`ndef.c` 348) leaves out the length of a short payload, and its unsigned
  arithmetic wraps. No message that is written here ends like that.
* The reader library is external. Assumed of it: a wait for activation looks at the
  event without consuming it (the code consumes it, `hal_device.c` 273 and 580);
  socket calls fail when the link is down or after `UnblockAll`; a PUT that was
  started ends; the received length is left alone by a request without a PUT; the
  link comes up only with the device that was detected.
* `rdlib_loop_setup` may fail (`SetupMayFail`), which the code answers with `g_error`.
* `g_main_context_invoke` as in GLib: queued in order while the main loop runs,
  executed at once by the caller when nobody owns the context.
* The failure to create a thread or to allocate memory is left out.
* `hal_device_ref` in `Announce`, the one caller of it that has no reference on the
  entry, is one step: that the entry is freed between its lookup and its count is
  not told apart from an entry that is not found.
* The discovery loop of the library answers as it likes within what is in the
  field and configured (`DiscLoop`), with statuses the code has no case for as well.
* An agent's memory may be given to another agent at once (`Handover`); what is
  written to freed memory may have no effect or end the process.
* A client of `Objects` reads what it is told of one object before the daemon
  touches the next. It only reads, in order, so that this loses nothing.
* The generated skeletons attach their idle sources at the priority of the
  callbacks (`G_PRIORITY_DEFAULT`), hence in one order with them. `Objects` has one
  changed property for each object.

### The abstract specification

`SessionService` has four variables: what the radio is busy with, what it has met
and not shown yet, what is shown, whether the daemon is on the bus. Things are
shown one at a time, in the order they were met, each exactly once, and the last
one is not hidden while the radio is busy with it. `HalTag` and `HalDevice` both
implement it, under the mappings `Service` of the two `Inv` modules: "busy with" is
the session's entry, "not shown yet" are the detections in the callback queue
(`DetectedThings`: the n-th is the one with n detections up to it, which says the same
as `SelectSeq` and can be reasoned about without induction).

`RefCounting` has the table alone: an id with its count, made with the smallest free
id, counted up and down, and gone with the last reference. `TagRefs` implements it:
a call takes effect when it counts, the last unref when the entry leaves the table.

## 3. The runs

| Run | Instance | What it shows |
| --- | --- | --- |
| `haltag_safety` | 2 tags, 2 commands, 3 callbacks, 3 ids, all requests, setup may fail | the safety properties of `HalTagInv` |
| `haltag_service` | 2 tags, ConstantPoll, start and write | `HalTag` implements `SessionService`; gone tags are withdrawn; polling resumes |
| `haldevice_safety` | 2 devices, 2 messages, 2 ids, 3 callbacks, ConstantPoll | exact reference counts with five threads, no failed lookup, the last message is shown |
| `haldevice_links` | 1 device, pushes at any time, any number of links | reference counts with Push, at most one stale marker, the SNEP thread returns, the device is withdrawn |
| `haldevice_service` | 2 devices, start and stop at any time, 2 ids, 3 callbacks, no messages | `HalDevice` implements `SessionService`; objects match entries |
| `tagrefs` | 3 threads, 3 ids, 3 memory cells, 4 references | nobody touches a freed entry, counts are exact, the last one out frees, and the whole implements `RefCounting` |
| `handover` | 2 clients, 2 memory cells, 1 carrier, 1 creation and 1 call at a time for each cell | references of agents, the right client for credentials, the limits of dangling pointers, who keeps and who loses its place |
| `discloop` | 3 type A cards (a tag, a target and one that is both), 2 of type F, one of type B, a polling peer, 3 in the field, all modes | the type reported is that of a card resolved, and of the activated one if it is a tag; a resolution after which the loop goes on puts the configuration back; what may keep a command waiting; a lone tag is found by a library that answers |
| `objects` | tags and devices with 2 ids each, 2 records, 2 messages, 4 sources | the tree is that of the registered containers, tags come with their records, a client that follows the signals has the tree |
| `ndef` | 8 values of a byte, 5 abbreviations, 552 records to write, 24 to read, alone and in pairs | framing, reading back, reading what others wrote |
| `haldevice_message` | violated | a message received as the link ends ends the daemon |
| `discloop_narrow` | violated | the configuration of the client is not restored when a narrowed resolution fails late |

The violated properties state what a comment or an assertion of the repository
says; `PROJECT.json` quotes each. They are kept as regressions: a
correction of the code, carried over to the model, makes the run pass.

### Further configurations: what else the documents say and the program does not do

Each is run as `tlc -config <name>.cfg <MC module>` and ends with a violation.

| Configuration | Module | Property | What the trace shows |
| --- | --- | --- | --- |
| `HalTagWriteLost` | `MCHalTag` | `WriteFindsItsEntry` | `hal_tag.c` 445 says of the reference a write takes "Make sure tag won't get destroyed by other thread". It is taken when the command is executed: a tag is found, a Write queued, the presence check fails, the last reference goes with the session and the adapter, and the command ends the daemon in `hal_tag_ref` (`g_error`, 179) |
| `TagRefsWrite` | `MCTagRefs` | `TouchesLiveEntries` | the same comment, one step later: the lookup still finds the entry, another thread takes the last reference away and frees it, and the write's reference counts in freed memory |
| `HalTagShutdown` | `MCHalTag` | `FreeJoinsThread` | `hal_impl_free` queues HAL_CMD_JOIN under the comment "Stop polling loop" (`hal.c` 117); `joining` is read only outside the inner loop (1343): with the discovery loop running and no tag the daemon never ends |
| `HalTagWriteOther` | `MCHalTag` | `WriteReachesItsTag` | `doc/neard-api/tag-api.txt` 6-10 gives each tag its own path with a Write method; the command has the number only, and numbers are reused: a Write queued behind a StartPollLoop is written to the next tag |
| `HalDeviceUnregister` | `MCHalDevice` | `UnregisteredIsNotCalled` | `adapter.c` 190 "//Unregister callbacks": six of seven are cleared (`hal.c` 178-183); a message that comes later calls the adapter with a NULL object |
| `HalDeviceMarker` | `MCHalDevice` | `MarkerWaitsForServer` | `hal_device.c` 571 "Force Client to join when server has joined": a client that sent a message has ended already; its marker ends the next link's client at once, and so on for every link |
| `HalDevicePushOther` | `MCHalDevice` | `PushReachesItsDevice` | `doc/neard-api/device-api.txt` 6-8 gives each device a path and a Push method; a message queued for one device (`hal_device.c` 478-483) is sent to the next one |
| `DiscLoopZero` | `MCDiscLoop` | `LoopPollsForAll` | the comment of `discloop_narrow` once more, `hal.c` 990 "Re-Store user configured poll configuration.": it stands over a line that writes back `bSavePollTechCfg`, set only where several technologies were detected. Several cards of one technology are announced, one is resolved, and the loop begins again with a configuration of 0, as do all iterations after it |
| `HandoverSecond` | `MCHandover` | `OneRegistrationPerCarrier` | `doc/neard-api/agent-api.txt` 15 "Only one registration will be accepted per carrier": a second one that comes before the first one's proxy is there takes its place, and both clients were told that they are registered |

### Bounds

`MaxCmd` and `MaxCb` hold back clients and the RF field (`ClientMayAct`, `TagEnters`,
`PeerEnters`, and the peer's next request in `Listened`), never a thread of the
daemon: the daemon's own steps exceed both, so that a whole session (up to six
callbacks) and the detection of the next can be queued even with a bound of 1.
What matters is that the RdLib thread gets ahead of the adapter by at least one full session, that the adapter
is behind when a write or push is queued, and that an id is reused while something
still names it; the violated configurations, found with the smallest bounds, show
that these happen. `MaxId` is the largest id: the code has no such limit, and the
discovery loop waits when the ids are used up. With `MaxId` 1 or 2 an entry of a
finished session and that of the present one coexist. `MaxSnep` holds back bus
clients only; the marker is always queued.

The peer-device runs divide the work, since five threads together are too many
states: messages with two devices and two ids (`haldevice_safety`), pushes over any
number of links with one device (`haldevice_links`), and the radio ahead of the
adapter without messages (`haldevice_service`, `Texts` empty: its mapping does not
read them). Not covered by a run is a message in flight while a bus client's start
lets the radio get a whole session ahead with a second id.

In the other runs: `TagRefs` needs a thread that counts, one that takes the last
reference and one that makes a new entry under the id that got free, hence three
threads, and an entry in memory while its id is given again, hence more cells than
one; four references let two threads count on an entry a third one holds. In `Handover` two cells and two
clients let the memory of a freed agent become the other client's agent while the
first one's proxy is under way; a second creation or call at the same cell adds
nothing to tell apart, and carriers do not meet; the proof has them all.
`DiscLoop` has several things for each of two technologies, so that several technologies
and several cards of one can be detected together, a card of a kind the
helper does not know for each way out that returns PH_ERR_FAILED, and no tag of type 1,
whose case is the exception in `FoundTypeFits` that only the proof covers. `Objects` has
messages of two lengths (and none), so that a shorter one leaves records of the one before,
and four sources: a loss, a detection and the idle sources of two objects. `Ndef` is a
function of its input; with a byte of eight values records on both sides of the
limit of a short one are small, and the abbreviations contain one another in both
orders as the program's do.

Symmetry is used in runs with invariants and properties of steps only, never
with liveness. `CHECK_DEADLOCK FALSE` is said of `Objects`, where the adapter may be
gone and everything read, and of `Ndef`, where a tag is written and read once.

### Fairness

`FairSpec` asks for weak fairness of each of the program's threads: the operating
system runs a thread that can run, and every blocking call of the code is guarded by
its condition. Nothing is asked of bus clients, tags, devices or the library's
failures; a bus that is lost, a peer that connects, a link that breaks belong to
the environment. `LinkLost` is a step of the RdLib thread because the library's own
supervision ends a link whose peer is gone. `SnepThreadReturns` assumes that the link
is down again and again: a link that lasts occupies its threads.

`DiscLoop`: the RdLib thread runs and the library returns (weak fairness of each), and
no more: which answer it gives is its own, and nothing in the code makes it
give another one. `CommandsWaitForTheLibrary` therefore does not say that commands are
served. It says what alone can keep one waiting for ever: the session of a device,
or a library that never stops answering with a failed resolution, with a single
one of several devices, or with a status that has no case (991 and 1110, inside
`while(true)`). `LoneTagIsFound` is about a library that does better, and has these
assumptions in the property: iterations end again and again, a tag that can be activated
again and again is (strong fairness of `DeviceActivated`), and the technology
stays configured, which is exactly what `discloop_narrow` and `DiscLoopZero` show not
to be so.

`Handover`: the main loop dispatches what has happened (weak fairness of the name
watch, of the end of a creation, of the end of a call, which times out if the client
does not answer). Nothing is asked of clients.

### Slips

Operators commented "Slip" are the definition after them with a plausible mistake.
They are not used by the specifications. Put in the place of the original (the list
"mutants" in `PROJECT.json`), each makes the property it is listed for fail, so that
no property holds by the shape of the model.

## 4. The proofs

Checked by TLAPS for all values of the constants, from the assumptions the modules
name (`HalAssumption` with `TagAssumption` or `DeviceAssumption`; `TagRefsAssumption`;
`HandoverAssumption`; `DiscLoopAssumption`; `ObjectsAssumption`; those of `Ndef`, below)
alone:

| Theorem | Statement |
| --- | --- |
| `HalTagInvProofs!TypeCorrect` | `Spec => []TypeOK` |
| `InductiveInvariant` | `Spec => []IInv` |
| `ReferencesAreExact` | `Spec => []RefsExact` |
| `NeverAbortsByItself` | `Spec => []NoInternalAbort` |
| `ObjectsAreRight` | `Spec => []ObjectsMatchEntries` |
| `WritesReachTheirEntries` | `Spec => []WriteReachesItsEntry` |
| `TheTableEmpties` | `Spec => []NothingLeaks` |
| `RadioInvariant` | `Spec => []RadioInv` |
| `TheBusShowsTheRadio` | `Spec => []BusShowsRadio` |
| `Refinement` | `Spec => ImplementsSessionService` |
| `HalDeviceProofs!InductiveInvariant` | `Spec => []IInv` |
| `TypeCorrect` | `Spec => []TypeOK` |
| `ReferencesAreExact` | `Spec => []RefsExact` |
| `NeverAbortsByItself` | `Spec => []NoInternalAbort` |
| `ObjectsMatch` | `Spec => []ObjectsMatchEntries` |
| `LastMessageArrives` | `Spec => []LastMessageShown` |
| `MarkersStayFew` | `Spec => []MarkersDoNotPileUp` |
| `Refinement` | `Spec => ImplementsSessionService` |
| `TagRefsProofs!CarefulCallersKeepInvariant` | `Spec => []IInv` if `Careless = {}` |
| `FoundEntriesStayAlive` | `Spec => []TouchesLiveEntries` if `Careless = {}` |
| `CountsAreExact` | `Spec => []CountsReferences` if `Careless = {}` |
| `LastReferenceFrees` | `Spec => []NothingForgotten` if `Careless = {}` |
| `CallsAreAtomic` | `Spec => ImplementsRefCounting` if `Careless = {}` |
| `HandoverProofs!HandoverInvariant` | `Spec => []IInv` |
| `AgentReferencesAreExact` | `Spec => []RefsExact` |
| `AgentTableIsSound` | `Spec => []TableIsSound` |
| `CredentialsReachTheirAgent` | `Spec => []PushReachesItsAgent` |
| `DanglingIsConfined` | `Spec => []OnlyOrphansDangle` |
| `PresentClientsKeepPlaces` | `Spec => PresentClientsKeepTheirPlace` |
| `DiscLoopProofs!LoopInvariant` | `Spec => []IInv` |
| `ConfigurationIsPutBack` | `Spec => ResolutionPutsBack` |
| `TypesFitWhatIsFound` | `Spec => []FoundTypeFits` |
| `ObjectsProofs!ObjectsInvariant` | `Spec => []IInv` |
| `ObjectsTreeIsSound` | `Spec => []TreeIsSound` |
| `ObjectsTagsComeWithTheirRecords` | `Spec => []TagsComeWithTheirRecords` |
| `ObjectsClientIsInformed` | `Spec => []ClientIsInformed` |
| `NdefProofs!AskedCorrect` | `Spec => []MessageIsWhatWasAsked` |
| `GeneratedMessagesAreWellFramedCorrect` | `Spec => []GeneratedMessagesAreWellFramed` |
| `WrittenIsReadBackCorrect` | `Spec => []WrittenIsReadBack` |
| `ForeignIsReadInOrderCorrect` | `Spec => []ForeignIsReadInOrder` |

### `HalTag`

`HalTagInvProofs` proves the types first, action by action, with lemmas on the table
operators of `RefTable`, then the inductive invariant `IInv`, one lemma per action, and
derives the others.

Why `IInv` and not the properties alone: that an unref never meets a missing entry
needs the exact holders of every entry (`Holders`), hence where a detection callback
is queued and that it is queued at most once. That the adapter's assertion holds
when a loss is dispatched needs the order of the callback queue: every queued
loss has its detection dispatched or before it (`LossesFollow`). That there is one
object at a time needs that every announced session that is over has its loss
queued (`AllEnd`), before any later detection (`OneTagAtATime`), and that the present
session has been announced and not been taken back (`SessionAnnounced`). `Connection`
ties the connected flag to the session, which is what makes a write safe. `QuietBoot`
says that nothing happens before the bus is acquired, so that the detection of the
first session cannot be missed.

`BusShowsRadio` needs an invariant of its own, `RadioInv`: the published parameters are
the radio's at every place of the thread (`ParamsAreRadios`), and of each the newest
callback in the queue has the value, or there is none and the bus has it
(`AdapterIsTold`). With an empty queue the property is what is left.

The refinement is step by step: `BusAcquired` is Open, the adapter's leaving is
Close, `PollTag` is Meet, `TagGone` is Part, a dispatched detection is Show, a
dispatched loss is Hide, and every other step stutters. That a detection shows the
oldest thing not shown is a fact about queues (`AnnouncementsProofs`); that nothing
is shown then, and that a loss does not hide what the radio is busy with, is
`OneTagAtATime` and `SessionAnnounced`.

### `HalDevice`

The same argument with five threads instead of two. Three things differ. An entry is
also held by each received message on its way and by a Push, and there may be any
number of those messages, so that `RefsExact` itself, which counts the copies of a
callback in the queue, is the inductive form. The types cannot be proved first:
an id handed to `hal_device_unref` must have an entry, which is `RefsExact`. And a
process that has aborted keeps its types, its markers and its reference counts but
no order of callbacks, so that the other parts are about a running one.

`AdapterFollows` is the order of detections and losses as one
condition without recursion on the queue (`InOrder`): one object at a time, each loss after its detection,
the present session announced last. `ObjectsAreHeld` ties the objects to the
adapter's references, hence to entries that are there. `MessagesArrive` says where a
message can be that an object does not show: in the server that stored it and has
not announced it, or in the queue; the callback reads the entry when it runs, so
that one of several is enough. `SnepStages` is the hand-over between the three SNEP
threads: a client ends by throwing away the whole queue, so that only a marker
queued after that, the one of its own link, can be left for the next.

### `TagRefs`

The gap in `hal_tag_ref` and `hal_tag_unref`, between the lookup under the table's mutex
and the count under the entry's, is harmless exactly as long as each caller has a
reference of its own: that is `CallersHold`, and with `TokensAreLive` it says that the entry
a thread is on its way to is in the table still. `MutexHeld` makes the count that was
read the count that is there; `CountsReferences` then makes a count of zero the end
of all references, and `LastOneOut` says that the one thread that saw it is alone with
the entry, which is still in the table until `Remove` and out of it until `Free`. The
id is free again between the two: `New` may give it away while the memory is still
there, which is why `TableIsSound` has to say that no cell is in the table twice.
`CallsAreAtomic` maps each step to one of `RefCounting` or to a stutter. The rule is an
assumption (`Careless = {}`): `TagRefsWrite` shows what its one violation in the
code comes to.

### `Handover`

Agents are counted by the table and by calls, and by nothing else; what is
created holds no reference. So the invariant has two halves. `RefsExact` with
`CallsNeedProxy` and `TableIsSound` holds always: a reference too many or too few is not
possible, whatever comes late. The other half, `CreationsAreOwned` and `ProxiesAreOwn`,
holds until an agent is freed with its proxy under way (`orphaned`): up to then a
result that comes in finds the agent it is for. From it follow
`PushReachesItsAgent`, `OnlyOrphansDangle` and the action property. That it may happen at
all (a client that unregisters or leaves at once) is a fault of the code the
model keeps, and the theorems are stated around it.

### `DiscLoop`

Only `SeveralTechs` narrows the configuration, to the last of several technologies, and
what it saves is what the iteration began with: an iteration that has gone on after a
resolution has that again, or has lost it altogether (991 with nothing saved), and one
that has lost it detects nothing that could be narrowed (`NarrowedToResolve`, with `SavedIsBase`).
Hence `ConfigurationIsPutBack`, however often the loop has begun again. So while a technology is
resolved the library polls for one of those the client asked for (`ConfiguredAsAsked`; a
START is dropped during a session, which is what `SessionIsPresent` is for), and every
card that is resolved is of it. `rdlib_loop_helper` looks at the kinds of the cards and
not at their technology; `RecognisedFits` shows that the type it names is that of one of
them, and that of the first one if it is a tag, but for a tag of type 1, which is looked
for first; `CardsAreAlike` carries this over to the activation of one of several. After a
resolution a P2P target is reported as type F without a look at its technology, which
is right only because type A comes first and so is never the last one of several
(`ResolvedIsNotA`).

### `Objects`

`TreeIsSound` is about the time between two callbacks, and a callback takes many
steps. The invariant says it of the whole time, of the tree there will be:
`Final(tree, todo)` has for each path what the one task that is left for it will make
of it, and what is there already if there is none. `FinalIsSound` says that this tree is the one
of the registered containers. A callback changes the table and `todo` together so that
it holds again; a step of `Work` moves an object from the task to the tree and leaves
`Final` as it is, provided that no object is touched twice (`OnceEach`). With nothing
left to do `Final` is the tree.

A tag and its records cannot be exported at once, so that `TagsComeWithTheirRecords`
needs to know in which order a callback goes: `TagsAreTouchedWhole` says that while a
tag is there its records are only withdrawn together with it, which takes the tag
first, and that after a tag is exported none of its records is. The same is said of
the tree and of the client's copy, between which there is one object at most:
`Informing` lists the signals there can be (none, one, or the removal and the addition
of an object exported over an old one) and says that the copy with them read is `Told`,
the tree with the old values of properties whose idle source has not run. That such a
source exists, that there is one, and that it finds its old value is
`EmissionsArePending`; a withdrawn object's source is there still and finds no
connection.

That a loss finds its container in the table and a detection does not, and that a
message comes during its device's session, is `CallbacksInOrder`, which is the order `HalTag` and
`HalDevice` are shown to announce in, with the lemmas those proofs use on queues.

### `Ndef`

The state machine is short, its functions are not: `MessageIsWhatWasAsked` (the message is
the one generated for what was asked, the records are what is read of it) is
inductive at once, and each property is then a fact about `Generate`, `Parse` and
`Decode` for every dictionary, every frame and strings of any length.

The readers are recursive functions, of which the prover has to be shown that they
exist: what is read at a place depends on places further on only (`ReadCongruence`,
`DecodeCongruence`), so that the function is put together from the end of the
message (`ReadExists`, `DecodeExists`), by an induction on a set of naturals
(`Induction`, from the least element of the complement). `FlattenSeq` of the community
modules is recursive in the same way (`JoinsExists`, `FlattenIs`).

`FrameAt` says where the units of a record are in a message, with a length of one byte
or of four, whose digits give the length back (`Digits`, from `Division`). What
`ndef_message_record_make` makes is such a frame (`MakeLayout`), the reader of the
format finds it (`FrameDecoded`), and `ndef_message_parse` finds it if it is short
(`FrameRead`). The records of a list lie one after the other in their message
(`JoinsLayout`), which is decoded from the last one back (`Chain`, `MessageDecoded`);
hence framing. Reading back needs, besides, that the payloads can be taken apart:
that an abbreviation was chosen with which the URI begins (`AbbreviationFits`,
`UriReadBack`), and that the status byte says where the text is (`TextReadBack`). Of a
smart poster the first part is its URI and the only one that is read
(`PosterReadBack`). `FramedLies` and `ForeignRead` say the same of frames with an id.

The assumptions on the constants: a byte has at least two values and the first
abbreviation is the empty one (`NdefAssumption`; 256 and the table of `ndef.c` here); a
dictionary names one of the seven types of `ndef_record_from_dictionary`, and its
strings are strings (`DictionaryAssumption`); the parts of another writer's frame fit
short records (`FrameAssumption`); the type names "T", "U" and "Sp" differ, and the last
from that of an Android package (`NamesAssumption`); a message has a length of four
bytes (`LengthAssumption`: what a client asks for has come in a message of the bus,
which is limited to 128 MiB).

### Only model-checked

Liveness, which is out of the prover's reach: `GoneTagsAreWithdrawn`, `PollingResumes`,
`SnepThreadReturns`, `GoneDevicesAreWithdrawn`, `GoneClientsLoseTheirPlace`,
`CommandsWaitForTheLibrary` and `LoneTagIsFound`. All other properties of the passing runs are stated
by a theorem.

### What the properties leave out

Some properties are stated for the cases in which the code keeps them, which is less
than their hazard:

* `PresentClientsKeepTheirPlace` is about agents that are connected. One whose proxy is
  still being created does lose its place: `HandoverSecond`.
* `TreeIsSound` is about a registered adapter's tree and its list of tags. It says
  nothing of the references the adapter holds on the HAL's entries (`HalTag` and
  `HalDevice` do), of the list of devices, nor of the devices an adapter leaves behind when
  it is unregistered.
* `WrittenIsReadBack` is about short records, and package records that are not empty.
  `ForeignIsReadInOrder` can say no more than the first record of a message, since no
  other is read; that the others are not is a fault no property shows.
* `FoundTypeFits` says nothing of a peer that activates us, whose type nothing writes.
* `ResolutionPutsBack` is about the resolution of one of several technologies after
  which the loop goes on; `discloop_narrow` and `DiscLoopZero` show the other two.
* `TagRefs` is checked and proved for callers that have a reference; the write, which has
  none when it looks its tag up, is shown to go wrong (`TagRefsWrite`).

## 5. What the models say of the code beyond the properties

Faults and gaps that are in the models because they are in the code. No run is about
them, most because no sentence of the repository contradicts them in so many words:

* `DiscLoop`: `rdlib_loop_helper` looks through all cards resolved and not only at the one
  activated, so that an activated card that is no tag may be reported with the type of
  the other one, and one of type 1 hides all others. On ACTIVATED_BY_PEER nothing
  writes the type, and the caller's variable is not initialised: the session that
  follows is of any kind. A status with no case (1110) makes the loop begin again
  without a look at the queue. Of a card that is a tag and a target, the ATR_REQ ("Send
  ATR_REQ to activate device in P2P mode", 1039) is never sent, since the status it
  depends on is overwritten at 1033; the card is reported as a target all the same.
* During the session of a device the RdLib thread looks at no command.
* `Objects`: the list of devices is only ever updated when one goes (`adapter.c` 379
  updates the tags instead), so that `Devices` never lists a device that is there. A
  shorter message leaves the records of the longer one before on the bus, unlisted.
* `Ndef`: of a message only the first record is read (`ndef.c` 476, the test is the
  wrong way round), and of a smart poster the URI alone; the flag that would let the
  records of a poster be read is never TRUE. A payload of 256 bytes or more is written
  with four bytes of length and read with three. A record that is not valid or has
  a type the generator does not know (handover records, an AAR without a package,
  a language of more than 31 bytes) ends the process. The generator of a smart poster
  lets go of its first part once for every part (936): with two parts it has been
  freed before the second time. A package record with an empty payload is written
  and then read as no record. Smart posters of other writers are in the model but not
  in `ForeignIsReadInOrder`, which would have to say what becomes of parts that are not
  read.
* `Handover`: a "closed" handler is connected for each agent and never disconnected; a
  result and such a handler may meet freed memory. The method Release of
  `doc/neard-api/agent-api.txt` is never called.

## 6. Not modelled

* The generated bindings: but for the one algorithm in `Objects` they are marshalling,
  repeated for each interface and, in `examples/`, for each remote interface.
  Three quarters of the lines of this repository are such output, which no definition
  of these modules stands for.
* wifi-connect: an example program on the other side of `Handover`. It calls
  wpa_supplicant synchronously with the credentials it is given, starts a DHCP client
  when the interface is up and waits for that; its attribute parser is a walk over
  type, length and value. That it registers, answers and leaves is in `Handover`.
* The basic and browser examples, which only call the bus.
* `rdlib_init`, which sets the library up once and fails as a whole; the contents and
  parameters read from a tag, written before its entry is in the table.
* The failure to create a thread or to allocate memory.
* The build and installation files.

What could be added: a run of `HalDevice` with messages in flight while the radio is a
whole session ahead (the proofs have that case), and the fields of a tag that are read
before it is in the table.
