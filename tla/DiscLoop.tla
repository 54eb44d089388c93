------------------------------ MODULE DiscLoop ------------------------------
(***************************************************************************)
(* rdlib_loop_setup, rdlib_loop_iteration and rdlib_loop_helper of hal.c:  *)
(* how the RdLib thread drives the discovery loop of the NXP library and   *)
(* what it makes of its answers.  The configuration of the library is      *)
(* changed while several technologies or devices are told apart, and not   *)
(* every way out changes it back.                                          *)
(*                                                                         *)
(* HalTag and HalDevice take an iteration as one step; here a thing may    *)
(* come and go between two calls of the library, and commands wait for the *)
(* iteration to return.  What the library may answer is external.          *)
(***************************************************************************)
EXTENDS Naturals, Sequences, FiniteSets

CONSTANTS
  Things,     \* what may come into the RF field
  TechOf,     \* the technology of a thing; "peer" for a peer that polls itself
  KindOf,     \* what the answer of a card says it is
  Nothing,    \* no thing
  MaxInField, \* bound: things in the field at a time
  MaxCmd      \* bound: commands in the queue

Techs == <<"A", "B", "F212", "F424">>   \* by bit of the library's masks
TechSet == {Techs[i] : i \in DOMAIN Techs}
TagKinds == {"t1t", "t2", "t4a", "t3"}
Kinds == TagKinds \cup {"dep", "dep4a", "other"}   \* "dep4a": NFC-DEP and a type 4A tag
Modes == {"initiator", "target", "dual"}
TagTypes == {"type_1", "type_2", "type_3", "type_4a"}
DeviceTypes == {"dep_a_target", "dep_f_target", "dep_a_initiator", "dep_f_initiator"}

ASSUME DiscLoopAssumption ==
  /\ Nothing \notin Things
  /\ TechOf \in [Things -> TechSet \cup {"peer"}]
  /\ KindOf \in [Things -> Kinds]
  /\ \A t \in Things : KindOf[t] \in {"t1t", "t2", "t4a", "dep4a"} => TechOf[t] = "A"
  /\ \A t \in Things : KindOf[t] = "t3" => TechOf[t] \in {"F212", "F424"}
  /\ MaxInField \in Nat
  /\ MaxCmd \in Nat

VARIABLES
  field,      \* the things in the RF field
  cmds,       \* pHalQueue: the mode of a START, or "stop"
  pc,         \* where the RdLib thread is
  polling,    \* session.polling
  present,    \* session.tagOrDevicePresent
  asked,      \* the mode of the last START carried out
  pollCfg,    \* PAS_POLL_TECH_CFG of the library
  listenCfg,  \* PAS_LIS_TECH_CFG of the library
  base,       \* pollCfg when the iteration began
  saved,      \* bSavePollTechCfg
  entry,      \* wEntryPoint
  cards,      \* the cards resolved by the library, by index
  found       \* *pNFCType, with the thing activated and the cards it was among

radio == <<pollCfg, listenCfg, base, saved, entry>>
vars == <<field, cmds, pc, polling, present, asked, radio, cards, found>>

NotFound == [type |-> "none", thing |-> Nothing, among |-> <<>>]

Init ==
  /\ field = {}
  /\ cmds = <<>>
  /\ pc = "queue"
  /\ polling = FALSE
  /\ present = FALSE
  /\ asked = "none"
  /\ pollCfg = {}
  /\ listenCfg = {}
  /\ base = {}
  /\ saved = {}
  /\ entry = "listen"
  /\ cards = <<>>
  /\ found = NotFound

-----------------------------------------------------------------------------
(***************************************************************************)
(* The surroundings.                                                       *)
(***************************************************************************)
Arrive(t) ==
  /\ t \notin field
  /\ Cardinality(field) < MaxInField
  /\ field' = field \cup {t}
  /\ UNCHANGED <<cmds, pc, polling, present, asked, radio, cards, found>>

Depart(t) ==
  /\ t \in field
  /\ field' = field \ {t}
  /\ UNCHANGED <<cmds, pc, polling, present, asked, radio, cards, found>>

Post(c) ==
  /\ Len(cmds) < MaxCmd
  /\ cmds' = Append(cmds, c)
  /\ UNCHANGED <<field, pc, polling, present, asked, radio, cards, found>>

-----------------------------------------------------------------------------
(***************************************************************************)
(* Commands.  They are looked at between two iterations and between two    *)
(* presence checks of a tag, never during the session of a device.         *)
(***************************************************************************)
PollTechs(mode) == IF mode = "target" THEN {} ELSE TechSet
ListenTechs(mode) == IF mode = "initiator" THEN {} ELSE {"A", "F212", "F424"}

Serving == pc = "queue" \/ (pc = "session" /\ found.type \in TagTypes)

AfterQueue(p) == IF pc = "session" THEN "session" ELSE IF p THEN "enter" ELSE "queue"

\* rdlib_loop_setup writes the configuration anew; a START that comes while
\* polling or with a tag present is dropped.
ServeStart ==
  /\ Serving
  /\ cmds # <<>>
  /\ Head(cmds) \in Modes
  /\ cmds' = Tail(cmds)
  /\ IF ~polling /\ ~present
       THEN /\ polling' = TRUE
            /\ asked' = Head(cmds)
            /\ pollCfg' = PollTechs(Head(cmds))
            /\ listenCfg' = ListenTechs(Head(cmds))
       ELSE UNCHANGED <<polling, asked, pollCfg, listenCfg>>
  /\ pc' = AfterQueue(polling')
  /\ UNCHANGED <<field, present, base, saved, entry, cards, found>>

ServeStop ==
  /\ Serving
  /\ cmds # <<>>
  /\ Head(cmds) = "stop"
  /\ cmds' = Tail(cmds)
  /\ polling' = FALSE
  /\ pc' = AfterQueue(FALSE)
  /\ UNCHANGED <<field, present, asked, radio, cards, found>>

ServeNothing ==
  /\ pc = "queue"
  /\ cmds = <<>>
  /\ polling
  /\ pc' = "enter"
  /\ UNCHANGED <<field, cmds, polling, present, asked, radio, cards, found>>

-----------------------------------------------------------------------------
(***************************************************************************)
(* One iteration.                                                          *)
(***************************************************************************)
\* Slip: a client that may be a target only listens.
EnterListening ==
  /\ pc = "enter"
  /\ entry' = IF listenCfg = {} THEN "poll" ELSE "listen"
  /\ saved' = {}
  /\ base' = pollCfg
  /\ pc' = "run"
  /\ UNCHANGED <<field, cmds, polling, present, asked, pollCfg, listenCfg, cards, found>>

Enter ==
  /\ pc = "enter"
  /\ entry' = IF pollCfg # {} THEN "poll" ELSE "listen"
  /\ saved' = {}
  /\ base' = pollCfg
  /\ pc' = "run"
  /\ UNCHANGED <<field, cmds, polling, present, asked, pollCfg, listenCfg, cards, found>>

\* What polling for the configured technologies can detect now.
Seen(x) == {t \in field : TechOf[t] = x}
Detected == {x \in pollCfg : Seen(x) # {}}

Polled == pc = "resolve" \/ (pc = "run" /\ entry = "poll")

\* The variables of an iteration end with it; the configuration stays.
Returns(to) ==
  /\ pc' = to
  /\ base' = {}
  /\ saved' = {}
  /\ entry' = "listen"
  /\ cards' = <<>>
  /\ UNCHANGED <<field, cmds, polling, present, asked, pollCfg, listenCfg>>

\* PH_ERR_FAILED: "Wait till next iteration".
Fail == Returns("queue") /\ UNCHANGED found

\* PH_ERR_SUCCESS with *pNFCType = type, t being the thing activated.
Succeed(type, t, among) ==
  /\ found' = [type |-> type, thing |-> t, among |-> among]
  /\ Returns("create")

\* Slip: a failed resolution leaves the configuration as it is.
AgainNarrowed ==
  /\ pc' = "again"
  /\ cards' = <<>>
  /\ UNCHANGED <<field, cmds, polling, present, asked, pollCfg, listenCfg, base, entry, saved, found>>

\* "Re-Store user configured poll configuration", and the loop begins again.
\* bSavePollTechCfg is 0 if the iteration has not saved anything.
Again ==
  /\ pollCfg' = saved
  /\ pc' = "again"
  /\ cards' = <<>>
  /\ UNCHANGED <<field, cmds, polling, present, asked, listenCfg, base, entry, saved, found>>

\* The head of while(true), from the second time on: the queue is not looked at.
Begin ==
  /\ pc \in {"again", "default"}
  /\ pc' = "run"
  /\ UNCHANGED <<field, cmds, polling, present, asked, radio, cards, found>>

\* Slip: an empty field does not end the iteration.
RunsOn ==
  /\ pc = "run"
  /\ pc' = "again"
  /\ UNCHANGED <<field, cmds, polling, present, asked, radio, cards, found>>

\* NO_TECH_DETECTED, NO_DEVICE_RESOLVED and EXTERNAL_RFOFF.
NothingFound ==
  /\ pc = "run"
  /\ Fail

\* A status that no case is for: "default: break".
Unhandled ==
  /\ pc = "run"
  /\ pc' = "default"
  /\ UNCHANGED <<field, cmds, polling, present, asked, radio, cards, found>>

\* EXTERNAL_RFON: another device polls; from now on the iteration listens.
ExternalRfOn ==
  /\ pc = "run"
  /\ entry = "poll"
  /\ \E t \in field : TechOf[t] = "peer"
  /\ entry' = "listen"
  /\ pc' = "again"
  /\ UNCHANGED <<field, cmds, polling, present, asked, pollCfg, listenCfg, base, saved, cards, found>>

\* Slip: the first technology detected is resolved.
FirstOf(D) == LET i == CHOOSE n \in DOMAIN Techs : Techs[n] \in D /\ \A k \in 1..(n - 1) : Techs[k] \notin D
          IN Techs[i]

\* The last technology detected is the one to resolve.
LastOf(D) == LET i == CHOOSE n \in DOMAIN Techs :
                   Techs[n] \in D /\ \A k \in (n + 1)..Len(Techs) : Techs[k] \notin D
          IN Techs[i]

\* MULTI_TECH_DETECTED.
SeveralTechs ==
  /\ pc = "run"
  /\ entry = "poll"
  /\ Cardinality(Detected) > 1
  /\ saved' = pollCfg
  /\ pollCfg' = {LastOf(Detected)}
  /\ pc' = "resolve"
  /\ UNCHANGED <<field, cmds, polling, present, asked, listenCfg, base, entry, cards, found>>

\* Any other status of the collision resolution.
Unresolved ==
  /\ pc = "resolve"
  /\ Again

\* The cards of technology x in the order the library lists them.
Lists(x) == {<<t>> : t \in Seen(x)} \cup {s \in Seen(x) \X Seen(x) : s[1] # s[2]}

\* MULTI_DEVICES_RESOLVED: the card at index 0 of several is activated; one
\* card alone is passed over.
SeveralDevices(x) ==
  /\ Polled
  /\ x \in Detected
  /\ \E list \in Lists(x) :
       /\ \/ /\ Len(list) > 1
             /\ cards' = list
             /\ pc' = "activate"
             /\ UNCHANGED <<field, cmds, polling, present, asked, radio, found>>
          \/ /\ Len(list) = 1
             /\ Again

\* rdlib_loop_helper: the first card of a known kind decides.
Recognised(x, list) ==
  LET Has(K) == \E i \in DOMAIN list : KindOf[list[i]] \in K
      FirstIn(K) == KindOf[list[CHOOSE i \in DOMAIN list :
                      KindOf[list[i]] \in K /\ \A j \in 1..(i - 1) : KindOf[list[j]] \notin K]]
      TypeA == [t2 |-> "type_2", t4a |-> "type_4a", dep |-> "none", dep4a |-> "none"]
  IN CASE x = "A" /\ Has({"t1t"}) -> "type_1"
       [] x = "A" /\ ~Has({"t1t"}) /\ Has(DOMAIN TypeA) -> TypeA[FirstIn(DOMAIN TypeA)]
       [] x \in {"F212", "F424"} /\ Has({"t3"}) -> "type_3"
       [] OTHER -> "none"

Help(x, list) ==
  IF Recognised(x, list) # "none"
    THEN Succeed(Recognised(x, list), list[1], list)
    ELSE Fail

\* phacDiscLoop_ActivateCard.
ActivateCard ==
  /\ pc = "activate"
  /\ IF cards[1] \in field
       THEN Help(TechOf[cards[1]], cards)
       ELSE Fail

\* DEVICE_ACTIVATED.
DeviceActivated(t) ==
  /\ Polled
  /\ t \in field
  /\ TechOf[t] \in Detected
  /\ Help(TechOf[t], <<t>>)

\* PASSIVE_TARGET_ACTIVATED, or MERGED_SEL_RES_FOUND for a card that is a tag as
\* well, with a correct ATR_RES or a short one.  The status is overwritten before
\* the two are told apart, so that the ATR_REQ of the merged case is never sent
\* and the length is that of an earlier ATR_RES; after a resolution the merged
\* status has no case.
PassiveType(x) == IF pc = "run" /\ x = "A" THEN "dep_a_target" ELSE "dep_f_target"

PassiveTarget(t) ==
  /\ Polled
  /\ t \in field
  /\ KindOf[t] = "dep" \/ (KindOf[t] = "dep4a" /\ pc = "run")
  /\ TechOf[t] \in Detected \ {"B"}
  /\ \/ Succeed(PassiveType(TechOf[t]), t, <<t>>)
     \/ Fail

\* ACTIVATED_BY_PEER: the type is never written; the caller reads whatever is
\* in its variable.
ActivatedByPeer(t) ==
  /\ pc = "run"
  /\ entry = "listen"
  /\ listenCfg # {}
  /\ t \in field
  /\ TechOf[t] = "peer"
  /\ \E garbage \in TagTypes \cup DeviceTypes : Succeed(garbage, t, <<t>>)

-----------------------------------------------------------------------------
(***************************************************************************)
(* The session, taken as a whole: HalTag and HalDevice have its details.   *)
(***************************************************************************)
Create ==
  /\ pc = "create"
  /\ \/ /\ present' = TRUE
        /\ polling' = FALSE
        /\ pc' = "session"
        /\ UNCHANGED found
     \/ /\ pc' = "queue"   \* hal_impl_tag_new or hal_impl_device_new failed
        /\ found' = NotFound
        /\ UNCHANGED <<present, polling>>
  /\ UNCHANGED <<field, cmds, asked, radio, cards>>

Lost ==
  /\ pc = "session"
  /\ found.thing \notin field
  /\ present' = FALSE
  /\ pc' = "queue"
  /\ found' = NotFound
  /\ UNCHANGED <<field, cmds, polling, asked, radio, cards>>

Answer ==
  \/ NothingFound
  \/ Unhandled
  \/ ExternalRfOn
  \/ SeveralTechs
  \/ Unresolved
  \/ \E x \in TechSet : SeveralDevices(x)
  \/ ActivateCard
  \/ \E t \in Things : DeviceActivated(t)
  \/ \E t \in Things : PassiveTarget(t)
  \/ \E t \in Things : ActivatedByPeer(t)

Thread ==
  \/ ServeStart
  \/ ServeStop
  \/ ServeNothing
  \/ Enter
  \/ Begin
  \/ Answer
  \/ Create
  \/ Lost

Surroundings ==
  \/ \E t \in Things : Arrive(t)
  \/ \E t \in Things : Depart(t)
  \/ \E c \in Modes \cup {"stop"} : Post(c)

Next == Thread \/ Surroundings

Spec == Init /\ [][Next]_vars

(***************************************************************************)
(* The thread runs and the library returns; what it answers is its own.    *)
(***************************************************************************)
FairSpec ==
  /\ Spec
  /\ WF_vars(ServeStart \/ ServeStop \/ ServeNothing \/ Enter \/ Begin \/ Create \/ Lost)
  /\ WF_vars(Answer)

=============================================================================
