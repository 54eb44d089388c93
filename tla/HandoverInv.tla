----------------------------- MODULE HandoverInv ----------------------------
(***************************************************************************)
(* What must be true of Handover, and what the documentation says of it    *)
(* that the program does not do.                                           *)
(***************************************************************************)
EXTENDS Handover

Registrants == [name : Clients, path : Paths] \cup {NoClient}

TypeOK ==
  /\ bus \subseteq Clients
  /\ accepted \in [Carriers -> SUBSET [name : Clients, path : Paths]]
  /\ DOMAIN table \subseteq Carriers
  /\ \A k \in DOMAIN table : table[k] \in Cells
  /\ DOMAIN agents \subseteq Cells
  /\ \A a \in DOMAIN agents :
       agents[a] \in [refs : Nat \ {0}, carrier : Carriers, sender : Registrants,
                      proxy : Clients \cup {Nobody},
                      status : {"connecting", "connected", "disconnected"}]
  /\ creating \in [Cells -> [Clients -> Nat]]
  /\ calls \in [Cells -> Nat]
  /\ closed \subseteq Cells
  /\ pushed \in [want : Clients \cup {Nobody}, got : Clients \cup {Nobody}]
  /\ orphaned \in BOOLEAN
  /\ touched \subseteq {"disconnect", "result", "push", "closed"}
  /\ main \in {"run", "closing", "quit"}

-----------------------------------------------------------------------------
InTable(a) == \E k \in DOMAIN table : table[k] = a

\* An agent has a reference from the table, if it is there, and one from each
\* call under way; there is no other, so that it is freed with the last of them
\* and no call comes back to freed memory.
RefsExact ==
  /\ \A a \in DOMAIN agents : agents[a].refs = (IF InTable(a) THEN 1 ELSE 0) + calls[a]
  /\ \A a \in Cells \ DOMAIN agents : calls[a] = 0

\* The table holds agents of the right carrier that still have their client: a
\* disconnected agent never blocks a registration.
TableIsSound ==
  \A k \in DOMAIN table :
    /\ table[k] \in DOMAIN agents
    /\ agents[table[k]].carrier = k
    /\ agents[table[k]].sender # NoClient

\* Unless an agent was freed while its proxy was being created, data goes to
\* the client that registered the agent it was meant for.
PushReachesItsAgent == ~orphaned => pushed.want = pushed.got

\* Freed agents are used by the end of handover_agent_disconnect; by the result
\* of a proxy's creation only if one was freed before it came; by a call never,
\* and by "closed" handlers not before the connection is closed.
OnlyOrphansDangle ==
  /\ "result" \in touched => orphaned
  /\ "push" \notin touched
  /\ "closed" \in touched => main # "run"

\* Unless that happened, a connected client that is on the bus loses its place
\* only by its own request or with the bus: never to another registration.
PresentClientsKeepTheirPlace ==
  [][\A k \in DOMAIN table :
       LET a == table[k]
           c == agents[a].sender
       IN  (agents[a].status = "connected" /\ c.name \in bus /\ ~orphaned)
             => \/ k \in DOMAIN table' /\ table'[k] = a
                \/ c \notin accepted'[k]
                \/ main' # "run"]_vars

\* A carrier does not stay taken for a client that has left the bus, even if the
\* agent's proxy is being created or a call to it is under way.
TakenForNobody(k) == k \in DOMAIN table /\ agents[table[k]].sender.name \notin bus

GoneClientsLoseTheirPlace ==
  \A k \in Carriers : TakenForNobody(k) ~> (~TakenForNobody(k) \/ main # "run")

-----------------------------------------------------------------------------
(***************************************************************************)
(* The inductive invariant.                                                *)
(***************************************************************************)

\* No call is made before the proxy is there.
CallsNeedProxy == \A a \in DOMAIN agents : agents[a].status = "connecting" => calls[a] = 0

\* A proxy being created is that of the agent in that memory.
CreationsAreOwned ==
  ~orphaned =>
    \A a \in Cells, x \in Clients :
      creating[a][x] > 0 =>
        /\ a \in DOMAIN agents
        /\ agents[a].sender.name = x
        /\ agents[a].status = "connecting"
        /\ creating[a][x] = 1

\* A connected agent has the proxy of its own client.
ProxiesAreOwn ==
  ~orphaned =>
    \A a \in DOMAIN agents :
      agents[a].status = "connected" =>
        agents[a].sender # NoClient /\ agents[a].proxy = agents[a].sender.name

IInv ==
  /\ TypeOK
  /\ RefsExact
  /\ TableIsSound
  /\ CallsNeedProxy
  /\ CreationsAreOwned
  /\ ProxiesAreOwn
  /\ PushReachesItsAgent
  /\ OnlyOrphansDangle

-----------------------------------------------------------------------------
\* "Only one registration will be accepted per carrier" (agent-api.txt).
OneRegistrationPerCarrier == \A k \in Carriers : Cardinality(accepted[k]) <= 1

=============================================================================
