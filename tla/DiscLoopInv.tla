---------------------------- MODULE DiscLoopInv -----------------------------
(***************************************************************************)
(* What must be true of DiscLoop, and a comment of the program that is not,*)
(* in two ways.                                                            *)
(***************************************************************************)
EXTENDS DiscLoop

TypeOK ==
  /\ field \subseteq Things
  /\ cmds \in Seq(Modes \cup {"stop"})
  /\ pc \in {"queue", "enter", "again", "default", "run", "resolve", "activate", "create", "session"}
  /\ polling \in BOOLEAN
  /\ present \in BOOLEAN
  /\ asked \in Modes \cup {"none"}
  /\ {pollCfg, base, saved} \subseteq SUBSET TechSet
  /\ listenCfg \subseteq TechSet
  /\ entry \in {"poll", "listen"}
  /\ cards \in Seq(Things)
  /\ found.type \in TagTypes \cup DeviceTypes \cup {"none"}
  /\ found.thing \in Things \cup {Nothing}
  /\ found.among \in Seq(Things)

-----------------------------------------------------------------------------
Fits(t, type) ==
  \/ /\ TechOf[t] = "A"
     /\ <<KindOf[t], type>> \in {<<"t1t", "type_1">>, <<"t2", "type_2">>, <<"t4a", "type_4a">>,
                                 <<"dep", "dep_a_target">>, <<"dep4a", "dep_a_target">>}
  \/ /\ TechOf[t] \in {"F212", "F424"}
     /\ <<KindOf[t], type>> \in {<<"t3", "type_3">>, <<"dep", "dep_f_target">>}

\* The helper looks through all cards: beside a tag of type 1, which has a flag
\* of its own, no other card is looked at.
BesideType1(among) == \E i \in DOMAIN among : KindOf[among[i]] = "t1t"

\* An iteration that succeeds reports the type of a card it resolved, found with
\* a technology the client asked for.  If the card activated is a tag the type
\* is its own, and not that of the other card (unless that is of type 1); if it
\* is not, the other may be reported in its place.  A peer that activates us is
\* met by a client only that asked to be a target; its type is garbage.
FoundTypeFits ==
  pc \in {"create", "session"} =>
    IF TechOf[found.thing] = "peer"
      THEN asked \in {"target", "dual"}
      ELSE /\ asked \in {"initiator", "dual"}
           /\ found.thing \in {found.among[i] : i \in DOMAIN found.among}
           /\ \E i \in DOMAIN found.among : Fits(found.among[i], found.type)
           /\ KindOf[found.thing] \in TagKinds =>
                Fits(found.thing, found.type) \/ BesideType1(found.among)

\* A resolution of one of several technologies that does not end the iteration
\* puts back all that the iteration began with (hal.c:990), whatever it has gone
\* through before.  Of the other way to that line, with no technologies to
\* choose from, see LoopPollsForAll; of the ways around it, with a session or a
\* failure, UserConfigurationRestored.
ResolutionPutsBack == [][pc = "resolve" /\ pc' = "again" => pollCfg' = base]_vars

\* What the loop can go on for ever with: resolutions that fail, several devices
\* of which one is resolved, statuses that no case is for.
InVain ==
  \/ Unresolved
  \/ pc' = "again" /\ \E x \in TechSet : SeveralDevices(x)
  \/ Unhandled

\* A command that waits for ever is kept waiting by the session of a device, or
\* by a library that never stops answering in vain.  Iterations that find
\* nothing, fail to activate, or find the field of another device do not keep
\* it, however often they come.
CommandsWaitForTheLibrary ==
  <>[](cmds # <<>>) =>
    \/ <>[](pc = "session" /\ found.type \in DeviceTypes)
    \/ []<><<InVain>>_vars

\* Given a library whose iterations end and that activates, sooner or later, a
\* tag it keeps finding: a tag that stays alone in the field, of a technology
\* that stays configured, is detected while the daemon polls.
LoneTagIsFound ==
  \A t \in Things :
    KindOf[t] \in TagKinds =>
      ([]<>(pc = "queue") /\ SF_vars(DeviceActivated(t)) =>
         [](([](polling /\ field = {t}) /\ [](TechOf[t] \in pollCfg)) => <>(pc = "create")))

-----------------------------------------------------------------------------
(***************************************************************************)
(* The inductive invariant of the safety properties.                       *)
(***************************************************************************)

\* The library is configured for what the last client asked for, or for less.
ConfiguredAsAsked ==
  /\ pollCfg \cup base \cup saved # {} => asked \in {"initiator", "dual"}
  /\ listenCfg # {} => asked \in {"target", "dual"}

\* What is saved is what the iteration began with, or nothing yet.
SavedIsBase ==
  IF pc \in {"again", "default", "run", "resolve", "activate"} THEN saved \in {base, {}} ELSE base \cup saved = {}

\* While a technology is resolved all that the iteration began with is saved:
\* a configuration that was lost (hal.c:991) detects nothing to resolve.
NarrowedToResolve ==
  /\ pc \in {"again", "default", "run"} => pollCfg \in {base, {}}
  /\ pc = "resolve" => saved = base

\* Type A comes first among the technologies, so it is never the last one of
\* several, and a P2P target found after a resolution is not of type A.
ResolvedIsNotA == pc = "resolve" => "A" \notin pollCfg

\* Two cards of one technology that is polled for.
CardsAreAlike ==
  pc = "activate" =>
    /\ Len(cards) = 2
    /\ TechOf[cards[1]] \in pollCfg
    /\ TechOf[cards[2]] = TechOf[cards[1]]

\* No command changes what was asked for during a session.
SessionIsPresent == pc = "session" => present

IInv ==
  /\ TypeOK
  /\ ConfiguredAsAsked
  /\ SavedIsBase
  /\ ResolvedIsNotA
  /\ CardsAreAlike
  /\ SessionIsPresent
  /\ NarrowedToResolve
  /\ FoundTypeFits

-----------------------------------------------------------------------------
\* hal.c:990, "Re-Store user configured poll configuration": no iteration leaves
\* the next one with a part of the technologies the client asked for.  (What is
\* lost altogether is the matter of LoopPollsForAll.)
UserConfigurationRestored ==
  (pc = "enter" /\ polling) => pollCfg \in {{}, PollTechs(asked)}

\* The same comment, in an iteration: a loop that begins again polls for what it
\* polled for.
LoopPollsForAll == pc = "again" => pollCfg = base

=============================================================================
