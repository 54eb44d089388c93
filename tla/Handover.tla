------------------------------ MODULE Handover ------------------------------
(***************************************************************************)
(* Handover agents (handover-agent.c, and their table in dbus-daemon.c).   *)
(* A bus client registers an agent for a carrier; the daemon creates a     *)
(* proxy for it without waiting, watches the client's name and, once       *)
(* connected, passes Wi-Fi credentials found in records on to it.          *)
(*                                                                         *)
(* Everything happens on the main thread, one event of the main loop after *)
(* the other.  Between two events, the creation of a proxy, a call and the *)
(* "closed" handler of the connection keep the bare address of an agent;   *)
(* only the call has a reference.  So agents are named by the memory they  *)
(* are in, which the next agent may get.                                   *)
(***************************************************************************)
EXTENDS RefTable, FiniteSets

CONSTANTS
  Clients,   \* the unique names of bus clients
  Paths,     \* the object paths they register
  Nobody,    \* no client
  Cells,     \* the memory agents are allocated in
  Carriers,  \* the carriers of this instance, "wifi" and "bluetooth"
  MaxEvents  \* bound: proxies being created, and calls under way, per agent

ASSUME HandoverAssumption ==
  /\ Nobody \notin Clients
  /\ Carriers \subseteq {"wifi", "bluetooth"}
  /\ MaxEvents \in Nat

VARIABLES
  bus,       \* the clients that are on the bus
  accepted,  \* per carrier, the clients whose registration stands as they know it
  table,     \* pAgentTable: the agent of each carrier
  agents,    \* the agents there are, by memory cell
  creating,  \* proxies being created, per cell and client
  calls,     \* calls of PushOOB under way, per cell
  closed,    \* the cells that "closed" handlers of the connection point to
  pushed,    \* the last data passed on: the client meant, the client called
  orphaned,  \* an agent was freed while its proxy was being created
  touched,   \* what used an agent that had been freed
  main       \* "run", "closing" (the connection was closed) and "quit"

memory == <<table, agents, orphaned>>
vars == <<bus, accepted, memory, creating, calls, closed, pushed, touched, main>>

Client(x, p) == [name |-> x, path |-> p]
NoClient == [name |-> Nobody, path |-> Nobody]

Init ==
  /\ bus = Clients
  /\ accepted = [k \in Carriers |-> {}]
  /\ table = <<>>
  /\ agents = <<>>
  /\ creating = [a \in Cells |-> [x \in Clients |-> 0]]
  /\ calls = [a \in Cells |-> 0]
  /\ closed = {}
  /\ pushed = [want |-> Nobody, got |-> Nobody]
  /\ orphaned = FALSE
  /\ touched = {}
  /\ main = "run"

-----------------------------------------------------------------------------
(***************************************************************************)
(* Agents.                                                                 *)
(***************************************************************************)
Pending(a) == \E x \in Clients : creating[a][x] > 0
StillPending(a) == \E x \in Clients : creating'[a][x] > 0

\* A new agent, referred to by the table; it connects at once.
NewAgent(k, x, p) ==
  [refs |-> 1, carrier |-> k, sender |-> Client(x, p), proxy |-> Nobody, status |-> "connecting"]

\* g_object_unref on an agent that is not in the table t any more; the event
\* that is being dispatched is not pending any more either.
Dropped(t, all, a) ==
  /\ table' = t
  /\ agents' = Unref(all, a)
  /\ orphaned' = (orphaned \/ (all[a].refs = 1 /\ StillPending(a)))

\* Slip: an agent that has disconnected keeps its place.
DisconnectQuietly(all, a) ==
  /\ agents' = [all EXCEPT ![a].sender = NoClient, ![a].status = "disconnected"]
  /\ UNCHANGED <<table, orphaned, touched>>

\* handover_agent_disconnect, which does its work once: the agent forgets its
\* client and tells the daemon, which drops it if it is the carrier's agent; if
\* that was the last reference the function goes on in freed memory.
Disconnect(all, a) ==
  IF all[a].sender = NoClient
    THEN agents' = all /\ UNCHANGED <<table, orphaned, touched>>
    ELSE LET k    == all[a].carrier
             gone == [all EXCEPT ![a].sender = NoClient, ![a].status = "disconnected"]
         IN  IF k \in DOMAIN table /\ table[k] = a
               THEN /\ Dropped(Without(table, k), gone, a)
                    /\ touched' = IF gone[a].refs = 1 THEN touched \cup {"disconnect"} ELSE touched
               ELSE agents' = gone /\ UNCHANGED <<table, orphaned, touched>>

\* handover_agent_check_connection: there is no proxy before it is created, and
\* the owner it knows may have left without its having heard of that.
Answers(a) ==
  IF agents[a].proxy \in bus THEN {TRUE}
  ELSE IF agents[a].proxy = Nobody THEN {FALSE} ELSE BOOLEAN

-----------------------------------------------------------------------------
(***************************************************************************)
(* Methods.  A carrier the daemon does not know changes nothing.           *)
(***************************************************************************)

\* The new agent, in memory that is free once the former one, if any, has gone.
Connect(t, all, k, x, p) ==
  \E a \in Cells \ DOMAIN all :
    /\ creating[a][x] < MaxEvents
    /\ table' = With(t, k, a)
    /\ agents' = With(all, a, NewAgent(k, x, p))
    /\ creating' = [creating EXCEPT ![a][x] = @ + 1]
    /\ accepted' = [accepted EXCEPT ![k] = @ \cup {Client(x, p)}]

RegisterInPlace(k, x, p) ==  \* Slip: the agent there is gets the new client
  /\ x \in bus
  /\ \/ /\ k \notin DOMAIN table
        /\ Connect(table, agents, k, x, p)
     \/ /\ k \in DOMAIN table
        /\ FALSE \in Answers(table[k])
        /\ creating[table[k]][x] < MaxEvents
        /\ agents' = [agents EXCEPT ![table[k]].sender = Client(x, p)]
        /\ creating' = [creating EXCEPT ![table[k]][x] = @ + 1]
        /\ accepted' = [accepted EXCEPT ![k] = @ \cup {Client(x, p)}]
        /\ UNCHANGED table
  /\ UNCHANGED <<bus, calls, closed, pushed, orphaned, touched, main>>

\* on_register_handover_agent.
Register(k, x, p) ==
  /\ x \in bus
  /\ \/ /\ k \notin DOMAIN table
        /\ Connect(table, agents, k, x, p)
        /\ UNCHANGED orphaned
     \/ /\ k \in DOMAIN table
        /\ FALSE \in Answers(table[k])
        /\ Connect(Without(table, k), Unref(agents, table[k]), k, x, p)
        /\ orphaned' = (orphaned \/ (agents[table[k]].refs = 1 /\ Pending(table[k])))
  /\ UNCHANGED <<bus, calls, closed, pushed, touched, main>>

\* ... which answers AlreadyExists if the present agent is still around.
Refuse(k, x) ==
  /\ x \in bus
  /\ k \in DOMAIN table
  /\ TRUE \in Answers(table[k])
  /\ UNCHANGED vars

\* Slip: whoever asks, the carrier's agent is unregistered.
MatchesCarrier(k, c) == k \in DOMAIN table

Matches(k, c) == k \in DOMAIN table /\ agents[table[k]].sender = c

\* on_unregister_handover_agent; a client that has no agent learns that.
Unregister(k, x, p) ==
  /\ x \in bus
  /\ UNCHANGED <<bus, creating, calls, closed, pushed, touched, main>>
  /\ IF Matches(k, Client(x, p))
       THEN Dropped(Without(table, k), agents, table[k])
       ELSE UNCHANGED memory
  /\ accepted' = [accepted EXCEPT ![k] = @ \ {Client(x, p)}]

-----------------------------------------------------------------------------
(***************************************************************************)
(* What the main loop brings later.                                        *)
(***************************************************************************)
Finished(a, x) ==
  /\ creating[a][x] > 0
  /\ creating' = [creating EXCEPT ![a][x] = @ - 1]

\* handover_agent_connection_result writes to whatever is at the address the
\* creation was started with.
Created(a, x) ==
  /\ Finished(a, x)
  /\ IF a \in DOMAIN agents
       THEN /\ agents' = [agents EXCEPT ![a].proxy = x, ![a].status = "connected"]
            /\ UNCHANGED touched
       ELSE /\ touched' = touched \cup {"result"}
            /\ UNCHANGED agents
  /\ closed' = closed \cup {a}
  /\ UNCHANGED <<bus, accepted, table, calls, pushed, orphaned, main>>

CreationFails(a, x) ==
  /\ Finished(a, x)
  /\ IF a \in DOMAIN agents
       THEN Disconnect([agents EXCEPT ![a].proxy = Nobody], a)
       ELSE touched' = touched \cup {"result"} /\ UNCHANGED memory
  /\ UNCHANGED <<bus, accepted, calls, closed, pushed, main>>

\* A client leaves the bus ...
Leave(x) ==
  /\ x \in bus
  /\ bus' = bus \ {x}
  /\ accepted' = [k \in Carriers |-> {c \in accepted[k] : c.name # x}]
  /\ UNCHANGED <<memory, creating, calls, closed, pushed, touched, main>>

\* ... and the watch of its agent notices (on_name_vanished).
Vanished(a) ==
  /\ a \in DOMAIN agents
  /\ agents[a].sender.name \in Clients \ bus
  /\ UNCHANGED <<bus, accepted, creating, calls, closed, pushed, main>>
  /\ Disconnect(agents, a)

\* handover_agent_check_ndef_record, for a record with Wi-Fi credentials.
Takes(a) == agents[a].status = "connected" /\ agents[a].carrier = "wifi"

PushUncounted(a) ==  \* Slip: the call has no reference of its own
  /\ \E k \in DOMAIN table : table[k] = a
  /\ Takes(a)
  /\ calls[a] < MaxEvents
  /\ calls' = [calls EXCEPT ![a] = @ + 1]
  /\ pushed' = [want |-> agents[a].sender.name, got |-> agents[a].proxy]
  /\ UNCHANGED <<bus, accepted, table, agents, creating, closed, orphaned, touched, main>>

Push(a) ==
  /\ \E k \in DOMAIN table : table[k] = a
  /\ Takes(a)
  /\ calls[a] < MaxEvents
  /\ agents' = Ref(agents, a)
  /\ calls' = [calls EXCEPT ![a] = @ + 1]
  /\ pushed' = [want |-> agents[a].sender.name, got |-> agents[a].proxy]
  /\ UNCHANGED <<bus, accepted, table, creating, closed, orphaned, touched, main>>

\* handover_agent_push_oob_result, whatever the client answered.
PushDone(a) ==
  /\ calls[a] > 0
  /\ calls' = [calls EXCEPT ![a] = @ - 1]
  /\ UNCHANGED <<bus, accepted, creating, closed, pushed, main>>
  /\ IF a \in DOMAIN agents
       THEN Dropped(table, agents, a) /\ UNCHANGED touched
       ELSE touched' = touched \cup {"push"} /\ UNCHANGED memory

-----------------------------------------------------------------------------
(***************************************************************************)
(* The end.                                                                *)
(***************************************************************************)

\* on_name_lost drops every agent and ends the main loop.
NameLost ==
  /\ main = "run"
  /\ LET last == {a \in DOMAIN agents : agents[a].refs = 1 /\ \E k \in DOMAIN table : table[k] = a}
     IN  /\ table' = <<>>
         /\ agents' = [a \in DOMAIN agents \ last |->
                         IF \E k \in DOMAIN table : table[k] = a
                           THEN [agents[a] EXCEPT !.refs = @ - 1] ELSE agents[a]]
         /\ orphaned' = (orphaned \/ \E a \in last : Pending(a))
  /\ main' = "quit"
  /\ UNCHANGED <<bus, accepted, creating, calls, closed, pushed, touched>>

\* The connection is closed: on_dbus_connection_closed runs once for every
\* agent that was ever connected, then the bus library ends the process.
ConnectionCloses ==
  /\ main = "run"
  /\ main' = "closing"
  /\ UNCHANGED <<bus, accepted, memory, creating, calls, closed, pushed, touched>>

ConnectionClosed(a) ==
  /\ a \in closed
  /\ closed' = closed \ {a}
  /\ UNCHANGED <<bus, accepted, creating, calls, pushed, main>>
  /\ IF a \in DOMAIN agents
       THEN Disconnect(agents, a)
       ELSE touched' = touched \cup {"closed"} /\ UNCHANGED memory

Terminated ==
  /\ main = "closing"
  /\ closed = {}
  /\ main' = "quit"
  /\ UNCHANGED <<bus, accepted, memory, creating, calls, closed, pushed, touched>>

\* What was done to freed memory may have no consequence, or this one.
Crash ==
  /\ touched # {}
  /\ main' = "quit"
  /\ UNCHANGED <<bus, accepted, memory, creating, calls, closed, pushed, touched>>

Over == main = "quit" /\ UNCHANGED vars

-----------------------------------------------------------------------------
Run(a) ==
  \/ \E x \in Clients : Created(a, x) \/ CreationFails(a, x)
  \/ Vanished(a)
  \/ Push(a)
  \/ PushDone(a)

Call ==
  \E x \in Clients :
    \/ Leave(x)
    \/ \E k \in Carriers :
         \/ Refuse(k, x)
         \/ \E p \in Paths : Register(k, x, p) \/ Unregister(k, x, p)

Next ==
  \/ main = "run" /\ (Call \/ \E a \in Cells : Run(a))
  \/ NameLost
  \/ ConnectionCloses
  \/ main = "closing" /\ \E a \in Cells : ConnectionClosed(a)
  \/ Terminated
  \/ main # "quit" /\ Crash
  \/ Over

Spec == Init /\ [][Next]_vars

\* The main loop dispatches what has happened, and a call that is not answered
\* times out.
FairSpec ==
  /\ Spec
  /\ \A a \in Cells :
       /\ WF_vars(main = "run" /\ Vanished(a))
       /\ WF_vars(main = "run" /\ PushDone(a))
       /\ WF_vars(main = "run" /\ \E x \in Clients : Created(a, x) \/ CreationFails(a, x))

=============================================================================
