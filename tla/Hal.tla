-------------------------------- MODULE Hal --------------------------------
(***************************************************************************)
(* The part of hal.c every NFC session goes through: the "RdLib" thread    *)
(* with its command queue (pHalQueue), the two parameters it publishes     *)
(* (radio mode, polling), the callbacks it queues for the main context,    *)
(* and the life of that main context in main.c and dbus-daemon.c.          *)
(*                                                                         *)
(* The module has no Next of its own: HalTag and HalDevice extend it with  *)
(* what a tag or a peer device adds to a session.                          *)
(*                                                                         *)
(* An operator whose comment starts with "Slip" is not part of the model:  *)
(* it is the definition that follows it with a plausible mistake, put in   *)
(* its place to see that a property of the runs notices.                   *)
(***************************************************************************)
EXTENDS Naturals, Sequences

CONSTANTS
  ConstantPoll,  \* the ConstantPoll key of main.conf
  Requests,      \* what bus clients ask of the adapter
  SetupMayFail,  \* whether rdlib_loop_setup can return an error
  MaxCmd,        \* bound: clients wait while pHalQueue holds this many commands
  MaxCb          \* bound: clients and radio wait while this many callbacks are queued

ASSUME HalAssumption ==
  /\ ConstantPoll \in BOOLEAN
  /\ Requests \subseteq {"start", "stop", "write", "push"}
  /\ SetupMayFail \in BOOLEAN
  /\ MaxCmd \in Nat
  /\ MaxCb \in Nat

VARIABLES
  pc,       \* where the RdLib thread is
  cmdq,     \* pHalQueue
  cbq,      \* callbacks attached to the main context, not dispatched yet
  session,  \* hal_impl_t.session: polling, and present for tagOrDevicePresent
  params,   \* hal_impl_t.parameters: currentMode and polling
  joining,  \* hal_impl_t.joining
  main,     \* how far the main thread is in main()
  bus,      \* the Mode and Polling properties of the exported adapter
  aborted   \* why g_error or g_assert ended the process, "no" while it runs

halVars == <<pc, cmdq, cbq, session, params, joining, main, bus, aborted>>

RadioModes == {"idle", "initiator", "target"}

Start == [type |-> "start"]
Stop  == [type |-> "stop"]
Join  == [type |-> "join"]

ModeCb(m)    == [type |-> "mode", mode |-> m]
PollingCb(p) == [type |-> "polling", polling |-> p]

HalInit ==
  /\ pc = "wait"
  /\ cmdq = <<>>
  /\ cbq = <<>>
  /\ session = [polling |-> FALSE, present |-> FALSE]
  /\ params = [mode |-> "idle", polling |-> FALSE]
  /\ joining = FALSE
  /\ main = "boot"
  /\ bus = [mode |-> "idle", polling |-> FALSE]
  /\ aborted = "no"

Running == aborted = "no"

(***************************************************************************)
(* Callbacks.  g_main_context_invoke attaches the callback to the main     *)
(* context while the main loop runs.  Once main() has left the loop nobody *)
(* owns the context and the RdLib thread runs the callback itself, by then *)
(* with no adapter registered, so that it has no effect.                   *)
(***************************************************************************)
\* Slip: the newest callback runs first.
PostedFirst(cb) == IF main = "join" THEN cbq ELSE <<cb>> \o cbq

Posted(cb) == IF main = "join" THEN cbq ELSE Append(cbq, cb)

\* Slip: the parameter changes and nobody is told.
UpdatePollingQuietly(p) ==
  params' = [params EXCEPT !.polling = p] /\ UNCHANGED cbq

UpdatePolling(p) ==
  IF params.polling # p
    THEN /\ params' = [params EXCEPT !.polling = p]
         /\ cbq' = Posted(PollingCb(p))
    ELSE UNCHANGED <<params, cbq>>

UpdateMode(m) ==
  IF params.mode # m
    THEN /\ params' = [params EXCEPT !.mode = m]
         /\ cbq' = Posted(ModeCb(m))
    ELSE UNCHANGED <<params, cbq>>

-----------------------------------------------------------------------------
(***************************************************************************)
(* The RdLib thread.  hal_impl_process_queue is called from three places:  *)
(* "wait" (no session), "drain" (after each polling iteration) and "tag"   *)
(* (between two presence checks).                                          *)
(***************************************************************************)
QueueLocations == {"wait", "drain", "tag"}

\* The two while loops of hal_impl_thread_fn.
LoopHead(polling, join) ==
  IF polling THEN "poll" ELSE IF join THEN "close" ELSE "wait"

\* Slip: the presence loop empties the queue before it looks at the tag.
ReturnToQueue(l, polling, join) ==
  IF l = "tag" THEN "tag" ELSE LoopHead(polling, join)

\* Where hal_impl_process_queue, called from location l, returns to.
ReturnTo(l, polling, join) ==
  IF l = "tag" THEN "check" ELSE LoopHead(polling, join)

Popped(type) ==
  /\ pc \in QueueLocations
  /\ cmdq # <<>>
  /\ Head(cmdq).type = type
  /\ cmdq' = Tail(cmdq)

PopStart ==
  /\ Popped("start")
  /\ \/ /\ ~session.polling
        /\ ~session.present
        /\ session' = [session EXCEPT !.polling = TRUE]
        /\ UpdatePolling(TRUE)
        /\ UNCHANGED aborted
     \/ /\ ~session.polling
        /\ ~session.present
        /\ SetupMayFail
        /\ aborted' = "setup"
        /\ UNCHANGED <<session, params, cbq>>
     \/ /\ session.polling \/ session.present
        /\ UNCHANGED <<session, params, cbq, aborted>>
  /\ pc' = ReturnTo(pc, session'.polling, joining)
  /\ UNCHANGED <<joining, main, bus>>

PopStop ==
  /\ Popped("stop")
  /\ IF session.polling
       THEN /\ session' = [session EXCEPT !.polling = FALSE]
            /\ UpdatePolling(FALSE)
       ELSE UNCHANGED <<session, params, cbq>>
  /\ pc' = ReturnTo(pc, session'.polling, joining)
  /\ UNCHANGED <<joining, main, bus, aborted>>

PopJoin ==
  /\ Popped("join")
  /\ joining' = TRUE
  /\ pc' = ReturnTo(pc, session.polling, TRUE)
  /\ UNCHANGED <<cbq, session, params, main, bus, aborted>>

\* g_async_queue_timeout_pop found nothing.
PopNothing ==
  /\ pc \in QueueLocations
  /\ cmdq = <<>>
  /\ pc' = ReturnTo(pc, session.polling, joining)
  /\ UNCHANGED <<cmdq, cbq, session, params, joining, main, bus, aborted>>

\* An iteration of the discovery loop that detects nothing.
PollNothing ==
  /\ pc = "poll"
  /\ pc' = "drain"
  /\ UNCHANGED <<cmdq, cbq, session, params, joining, main, bus, aborted>>

\* Something was detected and advertised: "we are not polling anymore".
LeavePolling ==
  /\ pc = "leave"
  /\ session' = [session EXCEPT !.polling = FALSE]
  /\ UpdatePolling(FALSE)
  /\ pc' = "mode"
  /\ UNCHANGED <<cmdq, joining, main, bus, aborted>>

\* The radio mode of the session, then on to the session itself at "next".
EnterSession(mode, next) ==
  /\ pc = "mode"
  /\ UpdateMode(mode)
  /\ pc' = next
  /\ UNCHANGED <<cmdq, session, joining, main, bus, aborted>>

\* The session object has been released; the radio goes back to idle.
GoIdle ==
  /\ pc = "gone"
  /\ UpdateMode("idle")
  /\ pc' = "notify"
  /\ UNCHANGED <<cmdq, session, joining, main, bus, aborted>>

\* Slip: the session is over and the adapter never hears of it.
NotifyNobody(cb) ==
  /\ pc = "notify"
  /\ session' = [session EXCEPT !.present = FALSE]
  /\ pc' = "drain"
  /\ UNCHANGED <<cmdq, cbq, params, joining, main, bus, aborted>>

\* Slip: tagOrDevicePresent stays set.
NotifyStillPresent(cb) ==
  /\ pc = "notify"
  /\ cbq' = Posted(cb)
  /\ pc' = "drain"
  /\ UNCHANGED <<cmdq, session, params, joining, main, bus, aborted>>

\* The end of tag_present_fn and device_lost: the adapter is told, and the
\* thread returns from the iteration to the process_queue call behind it.
NotifyLost(cb) ==
  /\ pc = "notify"
  /\ session' = [session EXCEPT !.present = FALSE]
  /\ cbq' = Posted(cb)
  /\ pc' = "drain"
  /\ UNCHANGED <<cmdq, params, joining, main, bus, aborted>>

-----------------------------------------------------------------------------
(***************************************************************************)
(* The main thread: on_bus_acquired, the adapter's method handlers, the    *)
(* dispatch of the mode and polling callbacks, on_name_lost and the end of *)
(* main().  The adapter is registered with the HAL exactly at "run".       *)
(***************************************************************************)
Registered == main = "run"

BusAcquired ==
  /\ main = "boot"
  /\ main' = "run"
  /\ cmdq' = IF ConstantPoll THEN Append(cmdq, Start) ELSE cmdq
  /\ UNCHANGED <<pc, cbq, session, params, joining, bus, aborted>>

ClientMayAct ==
  /\ Registered
  /\ Len(cmdq) < MaxCmd
  /\ Len(cbq) < MaxCb

StartPollLoop ==
  /\ ClientMayAct
  /\ "start" \in Requests
  /\ cmdq' = Append(cmdq, Start)
  /\ UNCHANGED <<pc, cbq, session, params, joining, main, bus, aborted>>

StopPollLoop ==
  /\ ClientMayAct
  /\ "stop" \in Requests
  /\ cmdq' = Append(cmdq, Stop)
  /\ UNCHANGED <<pc, cbq, session, params, joining, main, bus, aborted>>

\* hal_impl_call_remote_context up to its switch, while the loop runs.
Dispatched(type) ==
  /\ main \in {"run", "quit"}
  /\ cbq # <<>>
  /\ Head(cbq).type = type
  /\ cbq' = Tail(cbq)

DispatchMode ==
  /\ Dispatched("mode")
  /\ bus' = IF Registered THEN [bus EXCEPT !.mode = Head(cbq).mode] ELSE bus
  /\ UNCHANGED <<pc, cmdq, session, params, joining, main, aborted>>

DispatchPolling ==
  /\ Dispatched("polling")
  /\ bus' = IF Registered THEN [bus EXCEPT !.polling = Head(cbq).polling] ELSE bus
  /\ UNCHANGED <<pc, cmdq, session, params, joining, main, aborted>>

\* on_name_lost, with a connection or (from "boot") without one.
NameLost ==
  /\ main \in {"boot", "run"}
  /\ main' = "quit"
  /\ UNCHANGED <<pc, cmdq, cbq, session, params, joining, bus, aborted>>

\* hal_impl_free, called once the main loop has returned ...
HalFree ==
  /\ main = "quit"
  /\ main' = "join"
  /\ cmdq' = Append(cmdq, Join)
  /\ UNCHANGED <<pc, cbq, session, params, joining, bus, aborted>>

\* ... and its g_thread_join, over when the thread function has returned.
ThreadJoined ==
  /\ main = "join"
  /\ pc = "close"
  /\ main' = "done"
  /\ UNCHANGED <<pc, cmdq, cbq, session, params, joining, bus, aborted>>

=============================================================================
