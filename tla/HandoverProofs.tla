--------------------------- MODULE HandoverProofs ---------------------------
(***************************************************************************)
(* Proofs about Handover, for any sets of clients, paths, memory cells and *)
(* carriers: the inductive invariant IInv, and what follows from it.       *)
(*                                                                         *)
(* The argument.  The table and the calls account for every reference      *)
(* (Memory).  As an agent that is connecting has no call, the table's is   *)
(* the only reference to it, so an agent cannot live on without its place  *)
(* while its proxy is being created: it either has both or is freed, which *)
(* sets orphaned.  Until then a proxy arrives at the agent it was created  *)
(* for (Owned), and a connected agent has the proxy of its own client.     *)
(***************************************************************************)
EXTENDS HandoverInv, TLAPS

-----------------------------------------------------------------------------
(***************************************************************************)
(* The invariant's parts, as predicates of a table, agents, calls and      *)
(* creations that need not be those of the present state.                  *)
(***************************************************************************)
AgentRecs ==
  [refs : Nat \ {0}, carrier : Carriers, sender : Registrants,
   proxy : Clients \cup {Nobody}, status : {"connecting", "connected", "disconnected"}]

Typed(t, all, cl) ==
  /\ DOMAIN t \subseteq Carriers
  /\ \A k \in DOMAIN t : t[k] \in Cells
  /\ DOMAIN all \subseteq Cells
  /\ \A a \in DOMAIN all : all[a] \in AgentRecs
  /\ cl \in [Cells -> Nat]

Held(t, a) == \E k \in DOMAIN t : t[k] = a

Exact(t, all, cl) ==
  /\ \A a \in DOMAIN all : all[a].refs = (IF Held(t, a) THEN 1 ELSE 0) + cl[a]
  /\ \A a \in Cells \ DOMAIN all : cl[a] = 0

Sound(t, all, k) ==
  /\ t[k] \in DOMAIN all
  /\ all[t[k]].carrier = k
  /\ all[t[k]].sender # NoClient

Calm(all, cl) == \A a \in DOMAIN all : all[a].status = "connecting" => cl[a] = 0

Memory(t, all, cl) ==
  /\ Typed(t, all, cl)
  /\ Exact(t, all, cl)
  /\ \A k \in DOMAIN t : Sound(t, all, k)
  /\ Calm(all, cl)

Owned(all, cr) ==
  /\ \A a \in Cells, x \in Clients :
       cr[a][x] > 0 =>
         /\ a \in DOMAIN all
         /\ all[a].sender.name = x
         /\ all[a].status = "connecting"
         /\ cr[a][x] = 1
  /\ \A a \in DOMAIN all :
       all[a].status = "connected" =>
         all[a].sender # NoClient /\ all[a].proxy = all[a].sender.name

Creations == [Cells -> [Clients -> Nat]]

\* The invariant, put together from these.
Rest ==
  /\ bus \subseteq Clients
  /\ accepted \in [Carriers -> SUBSET [name : Clients, path : Paths]]
  /\ closed \subseteq Cells
  /\ pushed \in [want : Clients \cup {Nobody}, got : Clients \cup {Nobody}]
  /\ orphaned \in BOOLEAN
  /\ touched \subseteq {"disconnect", "result", "push", "closed"}
  /\ main \in {"run", "closing", "quit"}
  /\ PushReachesItsAgent
  /\ OnlyOrphansDangle

LEMMA Parts ==
  IInv <=> /\ Rest
           /\ creating \in Creations
           /\ Memory(table, agents, calls)
           /\ ~orphaned => Owned(agents, creating)
BY DEF IInv, TypeOK, RefsExact, TableIsSound, CallsNeedProxy, CreationsAreOwned, ProxiesAreOwn,
       InTable, Rest, Creations, Memory, Typed, Exact, Sound, Calm, Owned, Held, AgentRecs

-----------------------------------------------------------------------------
(***************************************************************************)
(* The operators.                                                          *)
(***************************************************************************)
LEMMA WithFacts ==
  ASSUME NEW t, NEW i, NEW e
  PROVE  /\ DOMAIN With(t, i, e) = DOMAIN t \cup {i}
         /\ With(t, i, e)[i] = e
         /\ \A j \in DOMAIN t : j # i => With(t, i, e)[j] = t[j]
BY DEF With

LEMMA WithoutFacts ==
  ASSUME NEW t, NEW i
  PROVE  /\ DOMAIN Without(t, i) = DOMAIN t \ {i}
         /\ \A j \in DOMAIN t \ {i} : Without(t, i)[j] = t[j]
BY DEF Without

\* Dropping a reference frees the agent with the last one and else only counts.
LEMMA UnrefFacts ==
  ASSUME NEW all, NEW a \in DOMAIN all, \A b \in DOMAIN all : all[b] \in AgentRecs
  PROVE  /\ DOMAIN Unref(all, a) = (IF all[a].refs = 1 THEN DOMAIN all \ {a} ELSE DOMAIN all)
         /\ \A b \in DOMAIN Unref(all, a) : Unref(all, a)[b] \in AgentRecs
         /\ \A b \in DOMAIN Unref(all, a) : b # a => Unref(all, a)[b] = all[b]
         /\ all[a].refs # 1 =>
              /\ Unref(all, a)[a].refs = all[a].refs - 1
              /\ Unref(all, a)[a].carrier = all[a].carrier
              /\ Unref(all, a)[a].sender = all[a].sender
              /\ Unref(all, a)[a].proxy = all[a].proxy
              /\ Unref(all, a)[a].status = all[a].status
<1>1. CASE all[a].refs = 1
  <2>1. Unref(all, a) = Without(all, a)
    BY <1>1 DEF Unref
  <2>2. /\ DOMAIN Without(all, a) = DOMAIN all \ {a}
        /\ \A j \in DOMAIN all \ {a} : Without(all, a)[j] = all[j]
    BY WithoutFacts
  <2>3. QED
    BY <1>1, <2>1, <2>2
<1>2. CASE all[a].refs # 1
  BY <1>2 DEF Unref, AgentRecs
<1>3. QED
  BY <1>1, <1>2

LEMMA SenderTypes ==
  ASSUME NEW x \in Clients, NEW p \in Paths
  PROVE  /\ Client(x, p) \in Registrants /\ Client(x, p) # NoClient
         /\ Client(x, p).name = x
         /\ NoClient \in Registrants /\ NoClient.name = Nobody
BY HandoverAssumption DEF Client, NoClient, Registrants

-----------------------------------------------------------------------------
(***************************************************************************)
(* Changes of the memory.                                                  *)
(***************************************************************************)

\* A carrier's agent loses its place and the table's reference to it.  It may
\* have lost its client before.
LEMMA PlaceLost ==
  ASSUME NEW t, NEW all, NEW cl, Typed(t, all, cl), Exact(t, all, cl), Calm(all, cl),
         NEW k \in DOMAIN t, t[k] \in DOMAIN all, all[t[k]].carrier = k,
         \A j \in DOMAIN t \ {k} : Sound(t, all, j)
  PROVE  Memory(Without(t, k), Unref(all, t[k]), cl)
<1> DEFINE a == t[k]
           u == Unref(all, a)
           w == Without(t, k)
<1>1. /\ DOMAIN w = DOMAIN t \ {k}
      /\ \A j \in DOMAIN t \ {k} : w[j] = t[j]
  BY WithoutFacts
<1>2. /\ DOMAIN u = (IF all[a].refs = 1 THEN DOMAIN all \ {a} ELSE DOMAIN all)
      /\ \A b \in DOMAIN u : u[b] \in AgentRecs
      /\ \A b \in DOMAIN u : b # a => u[b] = all[b]
      /\ all[a].refs # 1 => u[a].refs = all[a].refs - 1 /\ u[a].status = all[a].status
  BY UnrefFacts DEF Typed
<1>3. \A j \in DOMAIN t \ {k} : t[j] # a
  BY DEF Sound
<1>4. Held(t, a) /\ ~Held(w, a) /\ \A b : b # a => (Held(w, b) <=> Held(t, b))
  BY <1>1, <1>3 DEF Held
<1>5. all[a].refs = 1 + cl[a] /\ cl[a] \in Nat
  BY <1>4 DEF Exact, Typed
<1> HIDE DEF u, w
<1>6. Typed(w, u, cl)
  BY <1>1, <1>2 DEF Typed
<1>7. Exact(w, u, cl)
  <2>1. ASSUME NEW b \in DOMAIN u PROVE u[b].refs = (IF Held(w, b) THEN 1 ELSE 0) + cl[b]
    <3>1. CASE b = a
      BY <3>1, <1>2, <1>4, <1>5
    <3>2. CASE b # a
      BY <3>2, <1>2, <1>4 DEF Exact
    <3>3. QED
      BY <3>1, <3>2
  <2>2. ASSUME NEW b \in Cells \ DOMAIN u PROVE cl[b] = 0
    BY <1>2, <1>5 DEF Exact
  <2>3. QED
    BY <2>1, <2>2 DEF Exact
<1>8. ASSUME NEW j \in DOMAIN w PROVE Sound(w, u, j)
  BY <1>1, <1>2, <1>3 DEF Sound
<1>9. Calm(u, cl)
  BY <1>2 DEF Calm
<1>10. QED
  BY <1>6, <1>7, <1>8, <1>9 DEF Memory, u, w

\* A call has come back and drops its reference.
LEMMA CallBack ==
  ASSUME NEW t, NEW all, NEW cl, Memory(t, all, cl), NEW a \in DOMAIN all, cl[a] > 0
  PROVE  Memory(t, Unref(all, a), [cl EXCEPT ![a] = @ - 1])
<1> DEFINE u == Unref(all, a)
           d == [cl EXCEPT ![a] = @ - 1]
<1>1. /\ DOMAIN u = (IF all[a].refs = 1 THEN DOMAIN all \ {a} ELSE DOMAIN all)
      /\ \A b \in DOMAIN u : u[b] \in AgentRecs
      /\ \A b \in DOMAIN u : b # a => u[b] = all[b]
      /\ all[a].refs # 1 => /\ u[a].refs = all[a].refs - 1
                            /\ u[a].carrier = all[a].carrier
                            /\ u[a].sender = all[a].sender
                            /\ u[a].status = all[a].status
  BY UnrefFacts DEF Memory, Typed
<1>2. a \in Cells /\ cl \in [Cells -> Nat] /\ cl[a] \in Nat
  BY DEF Memory, Typed
<1>3. /\ d \in [Cells -> Nat]
      /\ d[a] = cl[a] - 1
      /\ \A b \in Cells : b # a => d[b] = cl[b]
  BY <1>2
<1>4. all[a].refs = (IF Held(t, a) THEN 1 ELSE 0) + cl[a]
  BY DEF Memory, Exact
<1> HIDE DEF u, d
<1>5. Typed(t, u, d)
  BY <1>1, <1>3 DEF Memory, Typed
<1>6. Exact(t, u, d)
  <2>1. ASSUME NEW b \in DOMAIN u PROVE u[b].refs = (IF Held(t, b) THEN 1 ELSE 0) + d[b]
    <3>1. CASE b = a
      BY <3>1, <1>1, <1>2, <1>3, <1>4
    <3>2. CASE b # a
      BY <3>2, <1>1, <1>3, <1>5 DEF Memory, Exact, Typed
    <3>3. QED
      BY <3>1, <3>2
  <2>2. ASSUME NEW b \in Cells \ DOMAIN u PROVE d[b] = 0
    BY <1>1, <1>2, <1>3, <1>4 DEF Memory, Exact
  <2>3. QED
    BY <2>1, <2>2 DEF Exact
<1>7. ASSUME NEW k \in DOMAIN t PROVE Sound(t, u, k)
  <2>1. Sound(t, all, k)
    BY DEF Memory
  <2>2. t[k] = a => all[a].refs # 1
    BY <1>2, <1>4 DEF Held
  <2>3. QED
    BY <2>1, <2>2, <1>1 DEF Sound
<1>8. Calm(u, d)
  BY <1>1, <1>2, <1>3 DEF Memory, Calm, Typed
<1>9. QED
  BY <1>5, <1>6, <1>7, <1>8 DEF Memory, u, d

\* A call is made and takes one.
LEMMA CallMade ==
  ASSUME NEW t, NEW all, NEW cl, Memory(t, all, cl), NEW a \in DOMAIN all,
         all[a].status = "connected"
  PROVE  Memory(t, Ref(all, a), [cl EXCEPT ![a] = @ + 1])
<1> DEFINE u == Ref(all, a)
           d == [cl EXCEPT ![a] = @ + 1]
<1>1. a \in Cells /\ cl \in [Cells -> Nat] /\ cl[a] \in Nat /\ all[a] \in AgentRecs
  BY DEF Memory, Typed
<1>2. /\ DOMAIN u = DOMAIN all
      /\ \A b \in DOMAIN u : b # a => u[b] = all[b]
      /\ u[a] = [all[a] EXCEPT !.refs = @ + 1]
  BY DEF Ref
<1>3. /\ d \in [Cells -> Nat]
      /\ d[a] = cl[a] + 1
      /\ \A b \in Cells : b # a => d[b] = cl[b]
  BY <1>1
<1>4. /\ u[a] \in AgentRecs
      /\ u[a].refs = all[a].refs + 1
      /\ u[a].carrier = all[a].carrier
      /\ u[a].sender = all[a].sender
      /\ u[a].status = all[a].status
  BY <1>1, <1>2 DEF AgentRecs
<1> HIDE DEF u, d
<1>5. Typed(t, u, d)
  BY <1>2, <1>3, <1>4 DEF Memory, Typed
<1>6. Exact(t, u, d)
  <2>1. ASSUME NEW b \in DOMAIN u PROVE u[b].refs = (IF Held(t, b) THEN 1 ELSE 0) + d[b]
    <3>1. CASE b = a
      BY <3>1, <1>1, <1>3, <1>4 DEF Memory, Exact
    <3>2. CASE b # a
      BY <3>2, <1>2, <1>3, <1>5 DEF Memory, Exact, Typed
    <3>3. QED
      BY <3>1, <3>2
  <2>2. ASSUME NEW b \in Cells \ DOMAIN u PROVE d[b] = 0
    BY <1>2, <1>3 DEF Memory, Exact
  <2>3. QED
    BY <2>1, <2>2 DEF Exact
<1>7. ASSUME NEW k \in DOMAIN t PROVE Sound(t, u, k)
  BY <1>2, <1>4 DEF Memory, Sound
<1>8. Calm(u, d)
  <2>1. u[a].status # "connecting"
    BY <1>4
  <2>2. QED
    BY <2>1, <1>2, <1>3, <1>5 DEF Memory, Calm, Typed
<1>9. QED
  BY <1>5, <1>6, <1>7, <1>8 DEF Memory, u, d

\* A carrier without an agent gets a new one.
LEMMA PlaceTaken ==
  ASSUME NEW t, NEW all, NEW cl, Memory(t, all, cl),
         NEW k \in Carriers \ DOMAIN t, NEW a \in Cells \ DOMAIN all,
         NEW x \in Clients, NEW p \in Paths
  PROVE  Memory(With(t, k, a), With(all, a, NewAgent(k, x, p)), cl)
<1> DEFINE u == With(all, a, NewAgent(k, x, p))
           w == With(t, k, a)
<1>1. /\ DOMAIN w = DOMAIN t \cup {k}
      /\ w[k] = a
      /\ \A j \in DOMAIN t : w[j] = t[j]
  BY DEF With
<1>2. /\ DOMAIN u = DOMAIN all \cup {a}
      /\ u[a] = NewAgent(k, x, p)
      /\ \A b \in DOMAIN all : u[b] = all[b]
  BY DEF With
<1>3. /\ NewAgent(k, x, p) \in AgentRecs
      /\ NewAgent(k, x, p).refs = 1
      /\ NewAgent(k, x, p).carrier = k
      /\ NewAgent(k, x, p).sender # NoClient
  BY SenderTypes DEF NewAgent, AgentRecs
<1>4. cl[a] = 0
  BY DEF Memory, Exact
<1>5. \A j \in DOMAIN t : t[j] # a
  BY DEF Memory, Sound
<1>6. Held(w, a) /\ \A b \in DOMAIN all : Held(w, b) <=> Held(t, b)
  BY <1>1, <1>5 DEF Held
<1> HIDE DEF u, w
<1>7. Typed(w, u, cl)
  BY <1>1, <1>2, <1>3 DEF Memory, Typed
<1>8. Exact(w, u, cl)
  <2>1. u[a].refs = 1 + cl[a]
    BY <1>2, <1>3, <1>4
  <2>2. \A b \in DOMAIN all : u[b].refs = (IF Held(w, b) THEN 1 ELSE 0) + cl[b]
    BY <1>2, <1>6 DEF Memory, Exact
  <2>3. QED
    BY <2>1, <2>2, <1>2, <1>6 DEF Memory, Exact
<1>9. ASSUME NEW j \in DOMAIN w PROVE Sound(w, u, j)
  BY <1>1, <1>2, <1>3, <1>5 DEF Memory, Sound
<1>10. Calm(u, cl)
  BY <1>2, <1>4 DEF Memory, Calm
<1>11. QED
  BY <1>7, <1>8, <1>9, <1>10 DEF Memory, u, w

\* An agent is written to; its references and its carrier stay.
LEMMA Rewritten ==
  ASSUME NEW t, NEW all, NEW cl, Memory(t, all, cl), NEW a \in DOMAIN all, NEW e \in AgentRecs,
         e.refs = all[a].refs, e.carrier = all[a].carrier,
         e.status = "connecting" => cl[a] = 0
  PROVE  LET all2 == [all EXCEPT ![a] = e]
         IN  /\ Typed(t, all2, cl)
             /\ Exact(t, all2, cl)
             /\ Calm(all2, cl)
             /\ \A k \in DOMAIN t : t[k] # a \/ e.sender # NoClient => Sound(t, all2, k)
<1> DEFINE u == [all EXCEPT ![a] = e]
<1>1. DOMAIN u = DOMAIN all /\ u[a] = e /\ \A b \in DOMAIN all : b # a => u[b] = all[b]
  OBVIOUS
<1> HIDE DEF u
<1>2. Typed(t, u, cl)
  BY <1>1 DEF Memory, Typed
<1>3. Exact(t, u, cl)
  BY <1>1 DEF Memory, Exact
<1>4. Calm(u, cl)
  BY <1>1 DEF Memory, Calm
<1>5. \A k \in DOMAIN t : t[k] # a \/ e.sender # NoClient => Sound(t, u, k)
  BY <1>1 DEF Memory, Sound
<1>6. QED
  BY <1>2, <1>3, <1>4, <1>5 DEF u

\* Memory that is not referred to by the table is not connecting, nor is memory
\* with two references.
LEMMA ConnectingIsHeldOnce ==
  ASSUME NEW t, NEW all, NEW cl, Memory(t, all, cl), NEW a \in DOMAIN all,
         all[a].status = "connecting"
  PROVE  Held(t, a) /\ all[a].refs = 1
<1>1. all[a].refs \in Nat \ {0} /\ cl[a] = 0
  BY DEF Memory, Typed, Calm, AgentRecs
<1>2. all[a].refs = (IF Held(t, a) THEN 1 ELSE 0) + cl[a]
  BY DEF Memory, Exact
<1>3. QED
  BY <1>1, <1>2

\* Dropping a reference to an agent that has no proxy coming, or another
\* reference, leaves the proxies where they belong.
LEMMA OwnedDropped ==
  ASSUME NEW all, NEW cr, cr \in Creations, Owned(all, cr),
         \A b \in DOMAIN all : all[b] \in AgentRecs,
         NEW a \in DOMAIN all, all[a].refs # 1 \/ ~\E x \in Clients : cr[a][x] > 0
  PROVE  Owned(Unref(all, a), cr)
<1> DEFINE u == Unref(all, a)
<1>1. /\ DOMAIN u = (IF all[a].refs = 1 THEN DOMAIN all \ {a} ELSE DOMAIN all)
      /\ \A b \in DOMAIN u : b # a => u[b] = all[b]
      /\ all[a].refs # 1 => /\ u[a].sender = all[a].sender
                            /\ u[a].proxy = all[a].proxy
                            /\ u[a].status = all[a].status
  BY UnrefFacts
<1> HIDE DEF u
<1>2. ASSUME NEW b \in Cells, NEW x \in Clients, cr[b][x] > 0
      PROVE  /\ b \in DOMAIN u
             /\ u[b].sender.name = x
             /\ u[b].status = "connecting"
             /\ cr[b][x] = 1
  BY <1>1, <1>2 DEF Owned
<1>3. ASSUME NEW b \in DOMAIN u, u[b].status = "connected"
      PROVE  u[b].sender # NoClient /\ u[b].proxy = u[b].sender.name
  BY <1>1, <1>3 DEF Owned
<1>4. QED
  BY <1>2, <1>3 DEF Owned, u

\* handover_agent_disconnect.
LEMMA DisconnectKeeps ==
  ASSUME NEW all, Memory(table, all, calls), creating' \in Creations,
         ~orphaned => Owned(all, creating'), orphaned \in BOOLEAN,
         NEW a \in DOMAIN all, Disconnect(all, a)
  PROVE  /\ Memory(table', agents', calls)
         /\ ~orphaned' => Owned(agents', creating')
         /\ orphaned' \in BOOLEAN
         /\ orphaned => orphaned'
         /\ touched' = touched \/ touched' = touched \cup {"disconnect"}
<1>1. CASE all[a].sender = NoClient
  BY <1>1 DEF Disconnect
<1>2. CASE all[a].sender # NoClient
  <2> DEFINE k == all[a].carrier
             e == [all[a] EXCEPT !.sender = NoClient, !.status = "disconnected"]
             gone == [all EXCEPT ![a].sender = NoClient, ![a].status = "disconnected"]
  <2>1. all[a] \in AgentRecs /\ a \in Cells
    BY DEF Memory, Typed
  <2>2. /\ e \in AgentRecs /\ e.refs = all[a].refs /\ e.carrier = all[a].carrier
        /\ e.status = "disconnected" /\ e.sender = NoClient
    <3>1. NoClient \in Registrants
      BY DEF Registrants
    <3>2. QED
      BY <2>1, <3>1 DEF AgentRecs
  <2>3. gone = [all EXCEPT ![a] = e]
    OBVIOUS
  <2>4. /\ DOMAIN gone = DOMAIN all /\ gone[a] = e
        /\ \A b \in DOMAIN all : b # a => gone[b] = all[b]
    BY <2>3
  <2>5. \/ /\ k \in DOMAIN table /\ table[k] = a
           /\ Dropped(Without(table, k), gone, a)
           /\ touched' = touched \/ touched' = touched \cup {"disconnect"}
        \/ /\ ~(k \in DOMAIN table /\ table[k] = a)
           /\ agents' = gone /\ UNCHANGED <<table, orphaned, touched>>
    BY <1>2 DEF Disconnect
  <2> HIDE DEF e, gone
  <2>6. /\ Typed(table, gone, calls) /\ Exact(table, gone, calls) /\ Calm(gone, calls)
        /\ \A j \in DOMAIN table : table[j] # a => Sound(table, gone, j)
    <3>1. e.status # "connecting"
      BY <2>2
    <3>2. QED
      BY <2>2, <2>3, <3>1, Rewritten
  <2>7. \A j \in DOMAIN table : table[j] = a => j = k
    BY DEF Memory, Sound
  <2>8. ASSUME Owned(all, creating'), ~\E x \in Clients : creating'[a][x] > 0
        PROVE  Owned(gone, creating')
    <3>1. ASSUME NEW b \in Cells, NEW x \in Clients, creating'[b][x] > 0
          PROVE  /\ b \in DOMAIN gone
                 /\ gone[b].sender.name = x
                 /\ gone[b].status = "connecting"
                 /\ creating'[b][x] = 1
      BY <2>4, <2>8, <3>1 DEF Owned
    <3>2. ASSUME NEW b \in DOMAIN gone, gone[b].status = "connected"
          PROVE  gone[b].sender # NoClient /\ gone[b].proxy = gone[b].sender.name
      BY <2>2, <2>4, <2>8, <3>2 DEF Owned
    <3>3. QED
      BY <3>1, <3>2 DEF Owned
  <2>9. CASE ~(k \in DOMAIN table /\ table[k] = a)
    <3>1. agents' = gone /\ UNCHANGED <<table, orphaned, touched>>
      BY <2>5, <2>9
    <3>2. Memory(table, gone, calls)
      BY <2>6, <2>7, <2>9 DEF Memory
    <3>3. all[a].status # "connecting"
      BY <2>7, <2>9, ConnectingIsHeldOnce DEF Held
    <3>4. ~orphaned => ~\E x \in Clients : creating'[a][x] > 0
      BY <2>1, <3>3 DEF Owned
    <3>5. QED
      BY <2>8, <3>1, <3>2, <3>4
  <2>10. CASE k \in DOMAIN table /\ table[k] = a
    <3>1. /\ table' = Without(table, k)
          /\ agents' = Unref(gone, a)
          /\ orphaned' = (orphaned \/ (gone[a].refs = 1 /\ StillPending(a)))
          /\ touched' = touched \/ touched' = touched \cup {"disconnect"}
      BY <2>5, <2>10 DEF Dropped
    <3>2. gone[table[k]].carrier = k /\ table[k] \in DOMAIN gone
      BY <2>2, <2>4, <2>10
    <3>3. \A j \in DOMAIN table \ {k} : Sound(table, gone, j)
      BY <2>6, <2>7
    <3> HIDE DEF k
    <3>4. Memory(Without(table, k), Unref(gone, table[k]), calls)
      BY <2>6, <2>10, <3>2, <3>3, PlaceLost
    <3>5. ASSUME ~orphaned' PROVE Owned(agents', creating')
      <4>1. all[a].refs # 1 \/ ~\E x \in Clients : creating'[a][x] > 0
        BY <2>2, <2>4, <3>1, <3>5 DEF StillPending
      <4>2. ~orphaned /\ Owned(all, creating')
        BY <3>1, <3>5
      <4>3. ~\E x \in Clients : creating'[a][x] > 0
        BY <2>1, <4>1, <4>2, ConnectingIsHeldOnce DEF Owned
      <4>4. Owned(gone, creating')
        BY <2>8, <4>2, <4>3
      <4>5. \A b \in DOMAIN gone : gone[b] \in AgentRecs
        BY <2>6 DEF Typed
      <4>6. Owned(Unref(gone, a), creating')
        BY <2>4, <4>3, <4>4, <4>5, OwnedDropped
      <4>7. QED
        BY <3>1, <4>6
    <3>6. QED
      BY <2>10, <3>1, <3>4, <3>5
  <2>11. QED
    BY <2>9, <2>10
<1>3. QED
  BY <1>1, <1>2

-----------------------------------------------------------------------------
(***************************************************************************)
(* The steps.                                                              *)
(***************************************************************************)
Owns == ~orphaned => Owned(agents, creating)

Whole == Rest /\ creating \in Creations /\ Memory(table, agents, calls) /\ Owns

\* Most steps change little of the rest.
LEMMA RestKept ==
  ASSUME Rest, bus' \subseteq Clients,
         accepted' \in [Carriers -> SUBSET [name : Clients, path : Paths]],
         closed' \subseteq Cells, pushed' = pushed,
         orphaned' \in BOOLEAN, orphaned => orphaned',
         touched' = touched \/ touched' = touched \cup {"disconnect"},
         main' \in {"run", "closing", "quit"}, main # "run" => main' # "run"
  PROVE  Rest'
BY DEF Rest, PushReachesItsAgent, OnlyOrphansDangle

LEMMA InitWhole == Init => Whole
<1> SUFFICES ASSUME Init PROVE Whole
  OBVIOUS
<1>1. Rest
  BY HandoverAssumption DEF Init, Rest, PushReachesItsAgent, OnlyOrphansDangle
<1>2. creating \in Creations
  BY DEF Init, Creations
<1>3. DOMAIN table = {} /\ DOMAIN agents = {}
  BY DEF Init
<1>4. calls \in [Cells -> Nat] /\ \A a \in Cells : calls[a] = 0
  BY DEF Init
<1>5. Memory(table, agents, calls)
  BY <1>3, <1>4 DEF Memory, Typed, Exact, Calm
<1>6. Owned(agents, creating)
  BY <1>3 DEF Owned, Init
<1>7. QED
  BY <1>1, <1>2, <1>5, <1>6 DEF Whole, Owns

\* A registration, after the agent that does not answer has gone.
LEMMA ConnectKeeps ==
  ASSUME NEW t, NEW all, Memory(t, all, calls), creating \in Creations,
         ~orphaned' => Owned(all, creating),
         NEW k \in Carriers \ DOMAIN t, NEW x \in Clients, NEW p \in Paths,
         Connect(t, all, k, x, p)
  PROVE  /\ Memory(table', agents', calls)
         /\ creating' \in Creations
         /\ ~orphaned' => Owned(agents', creating')
<1>1. PICK a \in Cells \ DOMAIN all :
        /\ table' = With(t, k, a)
        /\ agents' = With(all, a, NewAgent(k, x, p))
        /\ creating' = [creating EXCEPT ![a][x] = @ + 1]
  BY DEF Connect
<1>2. Memory(table', agents', calls)
  BY <1>1, PlaceTaken
<1>3. creating' \in Creations
  BY <1>1 DEF Creations
<1>4. ASSUME ~orphaned' PROVE Owned(agents', creating')
  <2>1. /\ DOMAIN agents' = DOMAIN all \cup {a}
        /\ agents'[a] = NewAgent(k, x, p)
        /\ \A b \in DOMAIN all : agents'[b] = all[b]
    BY <1>1 DEF With
  <2>2. Owned(all, creating)
    BY <1>4
  <2>3. \A y \in Clients : creating[a][y] = 0
    BY <2>2 DEF Owned, Creations
  <2>4. NewAgent(k, x, p).sender.name = x /\ NewAgent(k, x, p).status = "connecting"
    BY DEF NewAgent, Client
  <2>5. ASSUME NEW b \in Cells, NEW y \in Clients, creating'[b][y] > 0
        PROVE  /\ b \in DOMAIN agents'
               /\ agents'[b].sender.name = y
               /\ agents'[b].status = "connecting"
               /\ creating'[b][y] = 1
    <3>1. CASE b = a
      <4>1. creating'[a][y] = IF y = x THEN 1 ELSE 0
        BY <1>1, <2>3 DEF Creations
      <4>2. QED
        BY <2>1, <2>4, <2>5, <3>1, <4>1
    <3>2. CASE b # a
      <4>1. creating'[b][y] = creating[b][y]
        BY <1>1, <3>2 DEF Creations
      <4>2. QED
        BY <2>1, <2>2, <2>5, <4>1 DEF Owned
    <3>3. QED
      BY <3>1, <3>2
  <2>6. ASSUME NEW b \in DOMAIN agents', agents'[b].status = "connected"
        PROVE  agents'[b].sender # NoClient /\ agents'[b].proxy = agents'[b].sender.name
    BY <2>1, <2>2, <2>4, <2>6 DEF Owned
  <2>7. QED
    BY <2>5, <2>6 DEF Owned
<1>5. QED
  BY <1>2, <1>3, <1>4

LEMMA RegisterKeeps ==
  ASSUME Whole, NEW k \in Carriers, NEW x \in Clients, NEW p \in Paths, Register(k, x, p)
  PROVE  Whole'
<1>1. UNCHANGED <<bus, calls, closed, pushed, touched, main>>
  BY DEF Register
<1>2. accepted' \in [Carriers -> SUBSET [name : Clients, path : Paths]]
  <2>1. accepted' = [accepted EXCEPT ![k] = @ \cup {Client(x, p)}]
    BY DEF Register, Connect
  <2>2. Client(x, p) \in [name : Clients, path : Paths]
    BY DEF Client
  <2>3. QED
    BY <2>1, <2>2 DEF Whole, Rest
<1>3. /\ Memory(table', agents', calls)
      /\ creating' \in Creations
      /\ ~orphaned' => Owned(agents', creating')
      /\ orphaned' \in BOOLEAN /\ (orphaned => orphaned')
  <2>1. CASE k \notin DOMAIN table
    <3>1. Connect(table, agents, k, x, p) /\ UNCHANGED orphaned
      BY <2>1 DEF Register
    <3>2. PICK t, all : t = table /\ all = agents
      OBVIOUS
    <3>3. QED
      BY <2>1, <3>1, <3>2, ConnectKeeps DEF Whole, Owns, Rest
  <2>2. CASE k \in DOMAIN table
    <3>1. PICK t, all : t = Without(table, k) /\ all = Unref(agents, table[k])
      OBVIOUS
    <3>2. /\ Connect(t, all, k, x, p)
          /\ orphaned' = (orphaned \/ (agents[table[k]].refs = 1 /\ Pending(table[k])))
      BY <2>2, <3>1 DEF Register
    <3>3. table[k] \in DOMAIN agents /\ agents[table[k]].carrier = k
      BY <2>2 DEF Whole, Memory, Sound
    <3>4. Memory(t, all, calls)
      BY <2>2, <3>1, <3>3, PlaceLost DEF Whole, Memory
    <3>5. ASSUME ~orphaned' PROVE Owned(all, creating)
      <4>1. Owned(agents, creating) /\ ~(agents[table[k]].refs = 1 /\ Pending(table[k]))
        BY <3>2, <3>5 DEF Whole, Owns
      <4>2. \A b \in DOMAIN agents : agents[b] \in AgentRecs
        BY DEF Whole, Memory, Typed
      <4>3. QED
        BY <3>1, <3>3, <4>1, <4>2, OwnedDropped DEF Pending, Whole
    <3>6. k \notin DOMAIN t
      BY <3>1, WithoutFacts
    <3>7. QED
      BY <3>2, <3>4, <3>5, <3>6, ConnectKeeps DEF Whole, Rest
  <2>3. QED
    BY <2>1, <2>2
<1>4. Rest'
  BY <1>1, <1>2, <1>3, RestKept DEF Whole, Rest
<1>5. QED
  BY <1>1, <1>3, <1>4 DEF Whole, Owns

LEMMA UnregisterKeeps ==
  ASSUME Whole, NEW k \in Carriers, NEW x \in Clients, NEW p \in Paths, Unregister(k, x, p)
  PROVE  Whole'
<1>1. UNCHANGED <<bus, creating, calls, closed, pushed, touched, main>>
  BY DEF Unregister
<1>2. accepted' \in [Carriers -> SUBSET [name : Clients, path : Paths]]
  BY DEF Unregister, Whole, Rest
<1>3. /\ Memory(table', agents', calls)
      /\ ~orphaned' => Owned(agents', creating)
      /\ orphaned' \in BOOLEAN /\ (orphaned => orphaned')
  <2>1. CASE Matches(k, Client(x, p))
    <3>1. /\ table' = Without(table, k)
          /\ agents' = Unref(agents, table[k])
          /\ orphaned' = (orphaned \/ (agents[table[k]].refs = 1 /\ StillPending(table[k])))
      BY <2>1 DEF Unregister, Dropped
    <3>2. k \in DOMAIN table /\ table[k] \in DOMAIN agents /\ agents[table[k]].carrier = k
      BY <2>1 DEF Matches, Whole, Memory, Sound
    <3>3. Memory(table', agents', calls)
      BY <3>1, <3>2, PlaceLost DEF Whole, Memory
    <3>4. ASSUME ~orphaned' PROVE Owned(agents', creating)
      <4>1. /\ Owned(agents, creating)
            /\ agents[table[k]].refs # 1 \/ ~\E y \in Clients : creating[table[k]][y] > 0
        BY <1>1, <3>1, <3>4 DEF Whole, Owns, StillPending
      <4>2. \A b \in DOMAIN agents : agents[b] \in AgentRecs
        BY DEF Whole, Memory, Typed
      <4>3. QED
        BY <3>1, <3>2, <4>1, <4>2, OwnedDropped DEF Whole
    <3>5. QED
      BY <3>1, <3>3, <3>4 DEF Whole, Rest
  <2>2. CASE ~Matches(k, Client(x, p))
    BY <2>2 DEF Unregister, memory, Whole, Owns, Rest
  <2>3. QED
    BY <2>1, <2>2
<1>4. Rest'
  BY <1>1, <1>2, <1>3, RestKept DEF Whole, Rest
<1>5. QED
  BY <1>1, <1>3, <1>4 DEF Whole, Owns

\* The creation that ends had the only proxy under way to its agent.
LEMMA FinishedFacts ==
  ASSUME Whole, NEW a \in Cells, NEW x \in Clients, Finished(a, x)
  PROVE  /\ creating' \in Creations
         /\ ~orphaned =>
              /\ a \in DOMAIN agents
              /\ agents[a].sender.name = x
              /\ agents[a].status = "connecting"
              /\ \A y \in Clients : creating'[a][y] = 0
              /\ \A b \in Cells, y \in Clients : b # a => creating'[b][y] = creating[b][y]
<1>1. creating[a][x] > 0 /\ creating' = [creating EXCEPT ![a][x] = @ - 1]
  BY DEF Finished
<1>2. creating \in Creations
  BY DEF Whole
<1>3. creating' \in Creations
  BY <1>1, <1>2 DEF Creations
<1>4. \A b \in Cells, y \in Clients : b # a => creating'[b][y] = creating[b][y]
  BY <1>1, <1>2 DEF Creations
<1>5. \A y \in Clients : creating'[a][y] = IF y = x THEN creating[a][x] - 1 ELSE creating[a][y]
  BY <1>1, <1>2 DEF Creations
<1>6. ASSUME ~orphaned
      PROVE  /\ a \in DOMAIN agents
             /\ agents[a].sender.name = x
             /\ agents[a].status = "connecting"
             /\ creating[a][x] = 1
             /\ \A y \in Clients : y # x => creating[a][y] = 0
  BY <1>1, <1>2, <1>6 DEF Whole, Owns, Owned, Creations
<1>7. QED
  BY <1>3, <1>4, <1>5, <1>6

LEMMA CreatedKeeps ==
  ASSUME Whole, NEW a \in Cells, NEW x \in Clients, Created(a, x), main = "run"
  PROVE  Whole'
<1>1. /\ Finished(a, x)
      /\ closed' = closed \cup {a}
      /\ UNCHANGED <<bus, accepted, table, calls, pushed, orphaned, main>>
  BY DEF Created
<1>2. creating' \in Creations
  BY <1>1, FinishedFacts
<1>3. CASE a \in DOMAIN agents
  <2> DEFINE e == [agents[a] EXCEPT !.proxy = x, !.status = "connected"]
  <2>1. agents' = [agents EXCEPT ![a] = e] /\ UNCHANGED touched
    BY <1>3 DEF Created
  <2>2. agents[a] \in AgentRecs
    BY <1>3 DEF Whole, Memory, Typed
  <2>3. /\ e \in AgentRecs /\ e.refs = agents[a].refs /\ e.carrier = agents[a].carrier
        /\ e.status = "connected" /\ e.proxy = x /\ e.sender = agents[a].sender
    BY <2>2 DEF AgentRecs
  <2> HIDE DEF e
  <2>4. /\ DOMAIN agents' = DOMAIN agents
        /\ agents'[a] = e
        /\ \A b \in DOMAIN agents : b # a => agents'[b] = agents[b]
    BY <1>3, <2>1
  <2>5. Memory(table, agents', calls)
    <3>1. e.status # "connecting"
      BY <2>3
    <3>2. /\ Typed(table, agents', calls)
          /\ Exact(table, agents', calls)
          /\ Calm(agents', calls)
      BY <1>3, <2>1, <2>3, <3>1, Rewritten DEF Whole
    <3>3. \A k \in DOMAIN table : Sound(table, agents', k)
      BY <2>3, <2>4 DEF Whole, Memory, Sound
    <3>4. QED
      BY <3>2, <3>3 DEF Memory
  <2>6. ASSUME ~orphaned PROVE Owned(agents', creating')
    <3>1. /\ agents[a].sender.name = x
          /\ \A y \in Clients : creating'[a][y] = 0
          /\ \A b \in Cells, y \in Clients : b # a => creating'[b][y] = creating[b][y]
      BY <1>1, <2>6, FinishedFacts
    <3>2. Owned(agents, creating)
      BY <2>6 DEF Whole, Owns
    <3>3. ASSUME NEW b \in Cells, NEW y \in Clients, creating'[b][y] > 0
          PROVE  /\ b \in DOMAIN agents'
                 /\ agents'[b].sender.name = y
                 /\ agents'[b].status = "connecting"
                 /\ creating'[b][y] = 1
      BY <2>4, <3>1, <3>2, <3>3 DEF Owned
    <3>4. ASSUME NEW b \in DOMAIN agents', agents'[b].status = "connected"
          PROVE  agents'[b].sender # NoClient /\ agents'[b].proxy = agents'[b].sender.name
      <4>1. NoClient.name = Nobody /\ x # Nobody
        BY HandoverAssumption DEF NoClient
      <4>2. QED
        BY <2>3, <2>4, <3>1, <3>2, <3>4, <4>1 DEF Owned
    <3>5. QED
      BY <3>3, <3>4 DEF Owned
  <2>7. Rest'
    BY <1>1, <2>1, RestKept DEF Whole, Rest
  <2>8. QED
    BY <1>1, <1>2, <2>5, <2>6, <2>7 DEF Whole, Owns
<1>4. CASE a \notin DOMAIN agents
  <2>1. touched' = touched \cup {"result"} /\ UNCHANGED agents
    BY <1>4 DEF Created
  <2>2. orphaned
    <3>1. SUFFICES ASSUME ~orphaned PROVE FALSE
      OBVIOUS
    <3>2. a \in DOMAIN agents
      BY <1>1, <3>1, FinishedFacts
    <3>3. QED
      BY <1>4, <3>2
  <2>3. Rest'
    BY <1>1, <2>1, <2>2 DEF Whole, Rest, PushReachesItsAgent, OnlyOrphansDangle
  <2>4. QED
    BY <1>1, <1>2, <2>1, <2>2, <2>3 DEF Whole, Owns
<1>5. QED
  BY <1>3, <1>4

LEMMA CreationFailsKeeps ==
  ASSUME Whole, NEW a \in Cells, NEW x \in Clients, CreationFails(a, x), main = "run"
  PROVE  Whole'
<1>1. /\ Finished(a, x)
      /\ UNCHANGED <<bus, accepted, calls, closed, pushed, main>>
  BY DEF CreationFails
<1>2. creating' \in Creations
  BY <1>1, FinishedFacts
<1>3. CASE a \in DOMAIN agents
  <2> DEFINE e == [agents[a] EXCEPT !.proxy = Nobody]
  <2>1. PICK all : all = [agents EXCEPT ![a].proxy = Nobody]
    OBVIOUS
  <2>2. Disconnect(all, a)
    BY <1>3, <2>1 DEF CreationFails
  <2>3. agents[a] \in AgentRecs
    BY <1>3 DEF Whole, Memory, Typed
  <2>4. /\ e \in AgentRecs /\ e.refs = agents[a].refs /\ e.carrier = agents[a].carrier
        /\ e.status = agents[a].status /\ e.sender = agents[a].sender
    BY <2>3 DEF AgentRecs
  <2>5. all = [agents EXCEPT ![a] = e]
    BY <2>1
  <2> HIDE DEF e
  <2>6. /\ DOMAIN all = DOMAIN agents
        /\ all[a] = e
        /\ \A b \in DOMAIN agents : b # a => all[b] = agents[b]
    BY <1>3, <2>5
  <2>7. Memory(table, all, calls)
    <3>1. e.status = "connecting" => calls[a] = 0
      BY <1>3, <2>4 DEF Whole, Memory, Calm
    <3>2. /\ Typed(table, all, calls)
          /\ Exact(table, all, calls)
          /\ Calm(all, calls)
      BY <1>3, <2>5, <2>4, <3>1, Rewritten DEF Whole
    <3>3. \A k \in DOMAIN table : Sound(table, all, k)
      BY <2>4, <2>6 DEF Whole, Memory, Sound
    <3>4. QED
      BY <3>2, <3>3 DEF Memory
  <2>8. ASSUME ~orphaned PROVE Owned(all, creating')
    <3>1. /\ agents[a].status = "connecting"
          /\ \A y \in Clients : creating'[a][y] = 0
          /\ \A b \in Cells, y \in Clients : b # a => creating'[b][y] = creating[b][y]
      BY <1>1, <2>8, FinishedFacts
    <3>2. Owned(agents, creating)
      BY <2>8 DEF Whole, Owns
    <3>3. ASSUME NEW b \in Cells, NEW y \in Clients, creating'[b][y] > 0
          PROVE  /\ b \in DOMAIN all
                 /\ all[b].sender.name = y
                 /\ all[b].status = "connecting"
                 /\ creating'[b][y] = 1
      BY <2>6, <3>1, <3>2, <3>3 DEF Owned
    <3>4. ASSUME NEW b \in DOMAIN all, all[b].status = "connected"
          PROVE  all[b].sender # NoClient /\ all[b].proxy = all[b].sender.name
      <4>1. e.status # "connected"
        BY <2>4, <3>1
      <4>2. QED
        BY <2>6, <3>2, <3>4, <4>1 DEF Owned
    <3>5. QED
      BY <3>3, <3>4 DEF Owned
  <2>9. /\ Memory(table', agents', calls)
        /\ ~orphaned' => Owned(agents', creating')
        /\ orphaned' \in BOOLEAN
        /\ orphaned => orphaned'
        /\ touched' = touched \/ touched' = touched \cup {"disconnect"}
    BY <1>2, <1>3, <2>2, <2>6, <2>7, <2>8, DisconnectKeeps DEF Whole, Rest
  <2>10. Rest'
    BY <1>1, <2>9, RestKept DEF Whole, Rest
  <2>11. QED
    BY <1>1, <1>2, <2>9, <2>10 DEF Whole, Owns
<1>4. CASE a \notin DOMAIN agents
  <2>1. touched' = touched \cup {"result"} /\ UNCHANGED memory
    BY <1>4 DEF CreationFails
  <2>2. orphaned
    <3>1. SUFFICES ASSUME ~orphaned PROVE FALSE
      OBVIOUS
    <3>2. a \in DOMAIN agents
      BY <1>1, <3>1, FinishedFacts
    <3>3. QED
      BY <1>4, <3>2
  <2>3. Rest'
    BY <1>1, <2>1, <2>2 DEF Whole, Rest, PushReachesItsAgent, OnlyOrphansDangle, memory
  <2>4. QED
    BY <1>1, <1>2, <2>1, <2>2, <2>3 DEF Whole, Owns, memory
<1>5. QED
  BY <1>3, <1>4

\* A watch, or a "closed" handler, that finds its agent.
LEMMA DisconnectStepKeeps ==
  ASSUME Whole, NEW a \in DOMAIN agents, Disconnect(agents, a),
         UNCHANGED <<bus, accepted, creating, calls, pushed, main>>, closed' \subseteq Cells
  PROVE  Whole'
<1>1. PICK all : all = agents
  OBVIOUS
<1>2. /\ Memory(table', agents', calls)
      /\ ~orphaned' => Owned(agents', creating')
      /\ orphaned' \in BOOLEAN
      /\ orphaned => orphaned'
      /\ touched' = touched \/ touched' = touched \cup {"disconnect"}
  <2>1. Disconnect(all, a) /\ a \in DOMAIN all
    BY <1>1
  <2>2. /\ Memory(table, all, calls) /\ creating' \in Creations
        /\ ~orphaned => Owned(all, creating')
        /\ orphaned \in BOOLEAN
    BY <1>1 DEF Whole, Owns, Rest
  <2>3. QED
    BY <2>1, <2>2, DisconnectKeeps
<1>3. Rest'
  BY <1>2, RestKept DEF Whole, Rest
<1>4. QED
  BY <1>2, <1>3 DEF Whole, Owns

LEMMA VanishedKeeps ==
  ASSUME Whole, NEW a \in Cells, Vanished(a)
  PROVE  Whole'
BY DisconnectStepKeeps DEF Vanished, Whole, Rest

LEMMA ConnectionClosedKeeps ==
  ASSUME Whole, NEW a \in Cells, ConnectionClosed(a), main = "closing"
  PROVE  Whole'
<1>1. /\ closed' = closed \ {a}
      /\ UNCHANGED <<bus, accepted, creating, calls, pushed, main>>
  BY DEF ConnectionClosed
<1>2. closed' \subseteq Cells
  BY <1>1 DEF Whole, Rest
<1>3. CASE a \in DOMAIN agents
  BY <1>1, <1>2, <1>3, DisconnectStepKeeps DEF ConnectionClosed
<1>4. CASE a \notin DOMAIN agents
  <2>1. touched' = touched \cup {"closed"} /\ UNCHANGED memory
    BY <1>4 DEF ConnectionClosed
  <2>2. Rest'
    BY <1>1, <1>2, <2>1 DEF Whole, Rest, PushReachesItsAgent, OnlyOrphansDangle, memory
  <2>3. QED
    BY <1>1, <2>1, <2>2 DEF Whole, Owns, memory
<1>5. QED
  BY <1>3, <1>4

LEMMA PushKeeps ==
  ASSUME Whole, NEW a \in Cells, Push(a)
  PROVE  Whole'
<1>1. /\ agents[a].status = "connected"
      /\ agents' = Ref(agents, a)
      /\ calls' = [calls EXCEPT ![a] = @ + 1]
      /\ pushed' = [want |-> agents[a].sender.name, got |-> agents[a].proxy]
      /\ UNCHANGED <<bus, accepted, table, creating, closed, orphaned, touched, main>>
  BY DEF Push, Takes
<1>2. a \in DOMAIN agents
  BY DEF Push, Whole, Memory, Sound
<1>3. Memory(table, agents', calls')
  BY <1>1, <1>2, CallMade DEF Whole
<1>4. /\ DOMAIN agents' = DOMAIN agents
      /\ \A b \in DOMAIN agents :
           /\ agents'[b].sender = agents[b].sender
           /\ agents'[b].proxy = agents[b].proxy
           /\ agents'[b].status = agents[b].status
  <2>1. \A b \in DOMAIN agents : agents[b] \in AgentRecs
    BY DEF Whole, Memory, Typed
  <2>2. QED
    BY <1>1, <2>1 DEF Ref, AgentRecs
<1>5. ASSUME ~orphaned PROVE Owned(agents', creating)
  BY <1>4, <1>5 DEF Whole, Owns, Owned
<1>6. ~orphaned => pushed'.want = pushed'.got
  BY <1>1, <1>2 DEF Whole, Owns, Owned
<1>7. pushed' \in [want : Clients \cup {Nobody}, got : Clients \cup {Nobody}]
  <2>1. agents[a] \in AgentRecs
    BY <1>2 DEF Whole, Memory, Typed
  <2>2. agents[a].sender \in Registrants /\ agents[a].proxy \in Clients \cup {Nobody}
    BY <2>1 DEF AgentRecs
  <2>3. agents[a].sender.name \in Clients \cup {Nobody}
    BY <2>2 DEF Registrants, NoClient
  <2>4. QED
    BY <1>1, <2>2, <2>3
<1>8. Rest'
  BY <1>1, <1>6, <1>7 DEF Whole, Rest, PushReachesItsAgent, OnlyOrphansDangle
<1>9. QED
  BY <1>1, <1>3, <1>5, <1>8 DEF Whole, Owns

LEMMA PushDoneKeeps ==
  ASSUME Whole, NEW a \in Cells, PushDone(a)
  PROVE  Whole'
<1>1. /\ calls[a] > 0
      /\ calls' = [calls EXCEPT ![a] = @ - 1]
      /\ UNCHANGED <<bus, accepted, creating, closed, pushed, main>>
  BY DEF PushDone
<1>2. a \in DOMAIN agents
  BY <1>1 DEF Whole, Memory, Exact
<1>3. /\ table' = table
      /\ agents' = Unref(agents, a)
      /\ orphaned' = (orphaned \/ (agents[a].refs = 1 /\ StillPending(a)))
      /\ UNCHANGED touched
  BY <1>2 DEF PushDone, Dropped
<1>4. Memory(table', agents', calls')
  BY <1>1, <1>2, <1>3, CallBack DEF Whole
<1>5. ASSUME ~orphaned' PROVE Owned(agents', creating')
  <2>1. /\ Owned(agents, creating)
        /\ agents[a].refs # 1 \/ ~\E y \in Clients : creating[a][y] > 0
    BY <1>1, <1>3, <1>5 DEF Whole, Owns, StillPending
  <2>2. \A b \in DOMAIN agents : agents[b] \in AgentRecs
    BY DEF Whole, Memory, Typed
  <2>3. Owned(agents', creating)
    BY <1>2, <1>3, <2>1, <2>2, OwnedDropped DEF Whole
  <2>4. QED
    BY <1>1, <2>3
<1>6. Rest'
  BY <1>1, <1>3, RestKept DEF Whole, Rest
<1>7. QED
  BY <1>1, <1>4, <1>5, <1>6 DEF Whole, Owns

\* on_name_lost drops the table's reference to each agent in it.
LEMMA NameLostKeeps ==
  ASSUME Whole, NameLost
  PROVE  Whole'
<1> DEFINE last == {a \in DOMAIN agents : agents[a].refs = 1 /\ \E k \in DOMAIN table : table[k] = a}
<1>1. /\ table' = <<>>
      /\ agents' = [a \in DOMAIN agents \ last |->
                      IF \E k \in DOMAIN table : table[k] = a
                        THEN [agents[a] EXCEPT !.refs = @ - 1] ELSE agents[a]]
      /\ orphaned' = (orphaned \/ \E a \in last : Pending(a))
      /\ main' = "quit"
      /\ UNCHANGED <<bus, accepted, creating, calls, closed, pushed, touched>>
  BY DEF NameLost
<1>2. DOMAIN table' = {} /\ DOMAIN agents' = DOMAIN agents \ last
  BY <1>1
<1>3. ASSUME NEW a \in DOMAIN agents'
      PROVE  /\ a \in DOMAIN agents
             /\ agents'[a] \in AgentRecs
             /\ agents'[a].refs = calls[a]
             /\ agents'[a].sender = agents[a].sender
             /\ agents'[a].proxy = agents[a].proxy
             /\ agents'[a].status = agents[a].status
  <2>1. a \in DOMAIN agents /\ a \notin last
    BY <1>2
  <2>2. agents[a] \in AgentRecs /\ calls[a] \in Nat
    BY <2>1 DEF Whole, Memory, Typed
  <2>3. agents[a].refs = (IF Held(table, a) THEN 1 ELSE 0) + calls[a]
    BY <2>1 DEF Whole, Memory, Exact
  <2>4. CASE Held(table, a)
    <3>1. agents'[a] = [agents[a] EXCEPT !.refs = @ - 1] /\ agents[a].refs # 1
      BY <1>1, <2>1, <2>4 DEF Held
    <3>2. agents'[a] \in AgentRecs /\ agents'[a].refs = agents[a].refs - 1
      BY <2>2, <3>1 DEF AgentRecs
    <3>3. QED
      BY <2>1, <2>2, <2>3, <2>4, <3>1, <3>2 DEF AgentRecs
  <2>5. CASE ~Held(table, a)
    <3>1. agents'[a] = agents[a]
      BY <1>1, <2>1, <2>5 DEF Held
    <3>2. QED
      BY <2>1, <2>2, <2>3, <2>5, <3>1
  <2>6. QED
    BY <2>4, <2>5
<1>4. ASSUME NEW a \in last PROVE calls[a] = 0
  <2>1. a \in DOMAIN agents /\ agents[a].refs = 1 /\ Held(table, a)
    BY DEF Held
  <2>2. calls[a] \in Nat /\ agents[a].refs = 1 + calls[a]
    BY <2>1 DEF Whole, Memory, Exact, Typed
  <2>3. QED
    BY <2>1, <2>2
<1> HIDE DEF last
<1>5. Typed(table', agents', calls)
  BY <1>2, <1>3 DEF Whole, Memory, Typed
<1>6. Exact(table', agents', calls)
  <2>1. \A a : ~Held(table', a)
    BY <1>2 DEF Held
  <2>2. ASSUME NEW a \in DOMAIN agents'
        PROVE  agents'[a].refs = (IF Held(table', a) THEN 1 ELSE 0) + calls[a]
    BY <1>3, <1>5, <2>1 DEF Typed
  <2>3. ASSUME NEW a \in Cells \ DOMAIN agents' PROVE calls[a] = 0
    BY <1>2, <1>4 DEF Whole, Memory, Exact
  <2>4. QED
    BY <2>2, <2>3 DEF Exact
<1>7. Calm(agents', calls)
  BY <1>3 DEF Calm, Whole, Memory
<1>8. Memory(table', agents', calls')
  BY <1>1, <1>2, <1>5, <1>6, <1>7 DEF Memory
<1>9. ASSUME ~orphaned' PROVE Owned(agents', creating')
  <2>1. Owned(agents, creating) /\ \A a \in last, x \in Clients : ~(creating[a][x] > 0)
    BY <1>1, <1>9 DEF Whole, Owns, Pending
  <2>2. ASSUME NEW b \in Cells, NEW x \in Clients, creating[b][x] > 0
        PROVE  /\ b \in DOMAIN agents'
               /\ agents'[b].sender.name = x
               /\ agents'[b].status = "connecting"
               /\ creating[b][x] = 1
    <3>1. b \in DOMAIN agents'
      BY <1>2, <2>1, <2>2 DEF Owned
    <3>2. QED
      BY <1>3, <2>1, <2>2, <3>1 DEF Owned
  <2>3. ASSUME NEW b \in DOMAIN agents', agents'[b].status = "connected"
        PROVE  agents'[b].sender # NoClient /\ agents'[b].proxy = agents'[b].sender.name
    BY <1>3, <2>1, <2>3 DEF Owned
  <2>4. QED
    BY <1>1, <2>2, <2>3 DEF Owned
<1>10. orphaned' \in BOOLEAN /\ (orphaned => orphaned')
  BY <1>1 DEF Whole, Rest
<1>11. Rest'
  BY <1>1, <1>10, RestKept DEF Whole, Rest
<1>12. QED
  BY <1>1, <1>8, <1>9, <1>11 DEF Whole, Owns

\* Nothing that the invariant speaks of changes.
LEMMA StutterKeeps ==
  ASSUME Whole, UNCHANGED <<memory, creating, calls, closed, pushed>>,
         bus' \subseteq Clients,
         accepted' \in [Carriers -> SUBSET [name : Clients, path : Paths]],
         touched' = touched, main' \in {"run", "closing", "quit"},
         main # "run" => main' # "run"
  PROVE  Whole'
<1>1. Rest'
  BY RestKept DEF Whole, Rest, memory
<1>2. QED
  BY <1>1 DEF Whole, Owns, memory

LEMMA StepKeeps ==
  ASSUME Whole, [Next]_vars
  PROVE  Whole'
<1>1. ASSUME main = "run", NEW x \in Clients, Leave(x) PROVE Whole'
  <2>1. accepted' \in [Carriers -> SUBSET [name : Clients, path : Paths]]
    BY <1>1 DEF Leave, Whole, Rest
  <2>2. QED
    BY <1>1, <2>1, StutterKeeps DEF Leave, Whole, Rest
<1>2. ASSUME NEW x \in Clients, NEW k \in Carriers, Refuse(k, x) PROVE Whole'
  BY <1>2, StutterKeeps DEF Refuse, vars, Whole, Rest
<1>3. ASSUME NEW x \in Clients, NEW k \in Carriers, NEW p \in Paths, Register(k, x, p)
      PROVE  Whole'
  BY <1>3, RegisterKeeps
<1>4. ASSUME NEW x \in Clients, NEW k \in Carriers, NEW p \in Paths, Unregister(k, x, p)
      PROVE  Whole'
  BY <1>4, UnregisterKeeps
<1>5. ASSUME main = "run", NEW a \in Cells, Run(a) PROVE Whole'
  BY <1>5, CreatedKeeps, CreationFailsKeeps, VanishedKeeps, PushKeeps, PushDoneKeeps DEF Run
<1>6. CASE NameLost
  BY <1>6, NameLostKeeps
<1>7. CASE ConnectionCloses
  BY <1>7, StutterKeeps DEF ConnectionCloses, Whole, Rest
<1>8. ASSUME main = "closing", NEW a \in Cells, ConnectionClosed(a) PROVE Whole'
  BY <1>8, ConnectionClosedKeeps
<1>9. CASE Terminated
  BY <1>9, StutterKeeps DEF Terminated, Whole, Rest
<1>10. CASE Crash
  BY <1>10, StutterKeeps DEF Crash, Whole, Rest
<1>11. CASE Over
  BY <1>11, StutterKeeps DEF Over, vars, Whole, Rest
<1>12. CASE UNCHANGED vars
  BY <1>12, StutterKeeps DEF vars, Whole, Rest
<1>13. QED
  BY <1>1, <1>2, <1>3, <1>4, <1>5, <1>6, <1>7, <1>8, <1>9, <1>10, <1>11, <1>12 DEF Next, Call

-----------------------------------------------------------------------------
(***************************************************************************)
(* The theorems.                                                           *)
(***************************************************************************)

\* The inductive invariant holds of every run of the daemon, however many
\* clients, carriers and agents there are.
THEOREM HandoverInvariant == Spec => []IInv
<1>1. Init => Whole
  BY InitWhole
<1>2. Whole /\ [Next]_vars => Whole'
  BY StepKeeps
<1>3. Whole => IInv
  BY Parts DEF Whole, Owns
<1>4. QED
  BY <1>1, <1>2, <1>3, PTL DEF Spec

\* Every reference to an agent is the table's or a call's: it is freed with the
\* last of them and PushOOB's result never comes back to freed memory.
THEOREM AgentReferencesAreExact == Spec => []RefsExact
<1>1. IInv => RefsExact
  BY DEF IInv
<1>2. QED
  BY <1>1, HandoverInvariant, PTL

\* The table holds live agents of the right carrier that still have a client.
THEOREM AgentTableIsSound == Spec => []TableIsSound
<1>1. IInv => TableIsSound
  BY DEF IInv
<1>2. QED
  BY <1>1, HandoverInvariant, PTL

\* Credentials reach the client that registered the agent they were meant for,
\* unless an agent was freed while its proxy was being created.
THEOREM CredentialsReachTheirAgent == Spec => []PushReachesItsAgent
<1>1. IInv => PushReachesItsAgent
  BY DEF IInv
<1>2. QED
  BY <1>1, HandoverInvariant, PTL

\* Which of the bare addresses of agents can dangle, and when.
THEOREM DanglingIsConfined == Spec => []OnlyOrphansDangle
<1>1. IInv => OnlyOrphansDangle
  BY DEF IInv
<1>2. QED
  BY <1>1, HandoverInvariant, PTL

\* An agent that disconnects takes its place with it, and no other.
LEMMA DisconnectSpares ==
  ASSUME NEW all, NEW b, Disconnect(all, b), NEW k \in DOMAIN table, table[k] # b
  PROVE  k \in DOMAIN table' /\ table'[k] = table[k]
<1>1. \/ table' = table
      \/ /\ table' = Without(table, all[b].carrier)
         /\ table[all[b].carrier] = b
  BY DEF Disconnect, Dropped
<1>2. QED
  BY <1>1 DEF Without

\* A connected client that is on the bus keeps its place until it gives it up
\* or the bus goes, unless an agent was freed while its proxy was being created.
THEOREM PresentClientsKeepPlaces == Spec => PresentClientsKeepTheirPlace
<1> DEFINE Keeps(k) == \/ k \in DOMAIN table' /\ table'[k] = table[k]
                       \/ agents[table[k]].sender \notin accepted'[k]
                       \/ main' # "run"
<1>1. ASSUME Whole, [Next]_vars, NEW k \in DOMAIN table,
             agents[table[k]].status = "connected",
             agents[table[k]].sender.name \in bus, ~orphaned
      PROVE  Keeps(k)
  <2>1. PICK a : a = table[k]
    OBVIOUS
  <2>2. /\ a \in DOMAIN agents /\ k \in Carriers
        /\ agents[a].status = "connected"
        /\ agents[a].proxy \in bus
        /\ agents[a].sender.name \in Clients
    BY <1>1, <2>1 DEF Whole, Memory, Typed, Sound, Owns, Owned, Rest
  <2>3. ASSUME NEW x \in Clients, NEW j \in Carriers, NEW p \in Paths, Register(j, x, p)
        PROVE  Keeps(k)
    <3>1. CASE j \notin DOMAIN table
      <4>1. Connect(table, agents, j, x, p)
        BY <2>3, <3>1 DEF Register
      <4>2. PICK b : table' = With(table, j, b)
        BY <4>1 DEF Connect
      <4>3. QED
        BY <3>1, <4>2 DEF With
    <3>2. CASE j \in DOMAIN table
      <4>1. FALSE \in Answers(table[j]) /\ Connect(Without(table, j), Unref(agents, table[j]), j, x, p)
        BY <2>3, <3>2 DEF Register
      <4>2. PICK b : table' = With(Without(table, j), j, b)
        BY <4>1 DEF Connect
      <4>3. j # k
        BY <2>1, <2>2, <4>1 DEF Answers
      <4>4. QED
        BY <4>2, <4>3 DEF With, Without
    <3>3. QED
      BY <3>1, <3>2
  <2>4. ASSUME NEW x \in Clients, NEW j \in Carriers, NEW p \in Paths, Unregister(j, x, p)
        PROVE  Keeps(k)
    <3>1. CASE Matches(j, Client(x, p))
      <4>1. table' = Without(table, j) /\ agents[table[j]].sender = Client(x, p)
        BY <2>4, <3>1 DEF Unregister, Dropped, Matches
      <4>2. CASE j = k
        <5>1. accepted' = [accepted EXCEPT ![k] = @ \ {Client(x, p)}]
          BY <2>4, <4>2 DEF Unregister
        <5>2. accepted \in [Carriers -> SUBSET [name : Clients, path : Paths]]
          BY <1>1 DEF Whole, Rest
        <5>3. Client(x, p) \notin accepted'[k]
          BY <2>2, <5>1, <5>2
        <5>4. QED
          BY <4>1, <4>2, <5>3
      <4>3. CASE j # k
        BY <4>1, <4>3, WithoutFacts
      <4>4. QED
        BY <4>2, <4>3
    <3>2. CASE ~Matches(j, Client(x, p))
      BY <2>4, <3>2 DEF Unregister, memory
    <3>3. QED
      BY <3>1, <3>2
  <2>5. ASSUME NEW b \in Cells, NEW x \in Clients, CreationFails(b, x)
        PROVE  Keeps(k)
    <3>1. b \in DOMAIN agents /\ agents[b].status = "connecting"
      BY <1>1, <2>5, FinishedFacts DEF CreationFails
    <3>2. b # table[k]
      BY <1>1, <3>1
    <3>3. PICK all : all = [agents EXCEPT ![b].proxy = Nobody]
      OBVIOUS
    <3>4. Disconnect(all, b)
      BY <2>5, <3>1, <3>3 DEF CreationFails
    <3>5. QED
      BY <3>2, <3>4, DisconnectSpares
  <2>6. ASSUME NEW b \in Cells, Vanished(b)
        PROVE  Keeps(k)
    <3>1. b # table[k] /\ Disconnect(agents, b)
      BY <1>1, <2>6 DEF Vanished
    <3>2. PICK all : all = agents
      OBVIOUS
    <3>3. Disconnect(all, b)
      BY <3>1, <3>2
    <3>4. QED
      BY <3>1, <3>3, DisconnectSpares
  <2>7. ASSUME NEW b \in Cells, NEW x \in Clients, Created(b, x)
        PROVE  Keeps(k)
    BY <2>7 DEF Created
  <2>8. ASSUME NEW b \in Cells, Push(b) \/ PushDone(b)
        PROVE  Keeps(k)
    BY <2>8 DEF Push, PushDone, Dropped, memory
  <2>9. CASE NameLost \/ Crash
    BY <2>9 DEF NameLost, Crash
  <2>10. CASE ConnectionCloses \/ Terminated \/ Over \/ UNCHANGED vars
    BY <2>10 DEF ConnectionCloses, Terminated, Over, vars, memory
  <2>11. ASSUME main = "closing", NEW b \in Cells, ConnectionClosed(b)
         PROVE  Keeps(k)
    BY <2>11 DEF ConnectionClosed
  <2>12. ASSUME NEW x \in Clients, Leave(x) \/ \E j \in Carriers : Refuse(j, x)
         PROVE  Keeps(k)
    BY <2>12 DEF Leave, Refuse, vars, memory
  <2>13. QED
    BY <1>1, <2>3, <2>4, <2>5, <2>6, <2>7, <2>8, <2>9, <2>10, <2>11, <2>12 DEF Next, Call, Run
<1>2. Whole /\ [Next]_vars =>
        [\A k \in DOMAIN table :
           LET a == table[k]
               c == agents[a].sender
           IN  (agents[a].status = "connected" /\ c.name \in bus /\ ~orphaned)
                 => \/ k \in DOMAIN table' /\ table'[k] = a
                    \/ c \notin accepted'[k]
                    \/ main' # "run"]_vars
  BY <1>1
<1>3. Init => Whole
  BY InitWhole
<1>4. Whole /\ [Next]_vars => Whole'
  BY StepKeeps
<1>5. QED
  BY <1>2, <1>3, <1>4, PTL DEF Spec, PresentClientsKeepTheirPlace

=============================================================================
