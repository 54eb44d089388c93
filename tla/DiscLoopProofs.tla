--------------------------- MODULE DiscLoopProofs ---------------------------
(***************************************************************************)
(* Proofs about DiscLoop, for any things in the field and any bounds: the  *)
(* inductive invariant IInv, FoundTypeFits, which is in it, and the action *)
(* property ResolutionPutsBack.                                            *)
(*                                                                         *)
(* The argument.  Only SeveralTechs narrows the configuration, to the last *)
(* of several technologies, hence never to type A (LastOfSeveral); what it *)
(* saves is what the iteration began with, since a configuration that was  *)
(* lost detects nothing.  So every card that is resolved is of a technology*)
(* the client asked for, and rdlib_loop_helper, which looks at the cards by*)
(* their answers, reports the type of one of them (RecognisedFits).        *)
(***************************************************************************)
EXTENDS DiscLoopInv, FiniteSetTheorems, TLAPS

-----------------------------------------------------------------------------
(***************************************************************************)
(* Operators.                                                              *)
(***************************************************************************)
LEMMA FourTechs == TechSet = {"A", "B", "F212", "F424"} /\ DOMAIN Techs = 1..4
BY DEF TechSet, Techs

\* What is detected has been polled for.
LEMMA DetectedIsPolled ==
  /\ Detected \subseteq pollCfg
  /\ \A t : t \in field /\ TechOf[t] \in pollCfg => TechOf[t] \in Detected
BY DEF Detected, Seen

\* Of several technologies the last one is not type A.
LEMMA LastOfSeveral ==
  ASSUME NEW D \in SUBSET TechSet, Cardinality(D) > 1
  PROVE  LastOf(D) \in D \ {"A"}
<1>1. ~ (D \subseteq {"A"})
  <2>1. IsFiniteSet({"A"}) /\ Cardinality({"A"}) = 1
    BY FS_Singleton
  <2>2. SUFFICES ASSUME D \subseteq {"A"} PROVE FALSE
    OBVIOUS
  <2>3. Cardinality(D) <= 1 /\ Cardinality(D) \in Nat
    BY <2>1, <2>2, FS_Subset, FS_CardinalityType
  <2>4. QED
    BY <2>3
<1> DEFINE Last(n) == Techs[n] \in D /\ \A k \in (n + 1)..Len(Techs) : Techs[k] \notin D
<1>2. \E n \in 2..4 : Last(n)
  <2>1. CASE "F424" \in D
    BY <2>1 DEF Techs
  <2>2. CASE "F424" \notin D /\ "F212" \in D
    <3>1. Last(3)
      BY <2>2 DEF Techs
    <3>2. QED
      BY <3>1
  <2>3. CASE "F424" \notin D /\ "F212" \notin D /\ "B" \in D
    <3>1. Last(2)
      BY <2>3 DEF Techs
    <3>2. QED
      BY <3>1
  <2>4. QED
    BY <1>1, <2>1, <2>2, <2>3, FourTechs
<1>3. ~ Last(1)
  <2>1. PICK n \in 2..4 : Last(n)
    BY <1>2
  <2>2. n \in (1 + 1)..Len(Techs)
    BY DEF Techs
  <2>3. QED
    BY <2>1, <2>2
<1> DEFINE i == CHOOSE n \in DOMAIN Techs : Last(n)
<1>4. i \in DOMAIN Techs /\ Last(i)
  BY <1>2, FourTechs
<1>5. LastOf(D) = Techs[i]
  BY DEF LastOf
<1>6. i # 1
  BY <1>3, <1>4
<1>7. QED
  BY <1>4, <1>5, <1>6, FourTechs DEF Techs

\* One card or two, all of technology x: the type reported is that of one, and
\* of the first if that is a tag with no tag of type 1 beside it.
LEMMA RecognisedFits ==
  ASSUME NEW x \in TechSet, NEW list \in Seq(Things), Len(list) \in {1, 2},
         \A i \in DOMAIN list : TechOf[list[i]] = x,
         Recognised(x, list) # "none"
  PROVE  /\ \E i \in DOMAIN list : Fits(list[i], Recognised(x, list))
         /\ KindOf[list[1]] \in TagKinds =>
              Fits(list[1], Recognised(x, list)) \/ BesideType1(list)
<1> DEFINE Has(K) == \E i \in DOMAIN list : KindOf[list[i]] \in K
           First(K, i) == KindOf[list[i]] \in K /\ \A j \in 1..(i - 1) : KindOf[list[j]] \notin K
           A == {"t2", "t4a", "dep", "dep4a"}
           f == CHOOSE i \in DOMAIN list : First(A, i)
           TypeA == [t2 |-> "type_2", t4a |-> "type_4a", dep |-> "none", dep4a |-> "none"]
<1>0. /\ 1 \in DOMAIN list /\ list[1] \in Things /\ TechOf[list[1]] = x
      /\ DOMAIN list = 1..Len(list)
  OBVIOUS
<1>1. CASE x = "A" /\ Has({"t1t"})
  <2>1. Recognised(x, list) = "type_1"
    BY <1>1 DEF Recognised
  <2>2. BesideType1(list)
    BY <1>1 DEF BesideType1
  <2>3. QED
    BY <1>1, <2>1, <2>2 DEF Fits
<1>2. CASE x = "A" /\ ~Has({"t1t"}) /\ Has(A)
  <2>1. DOMAIN TypeA = A
    OBVIOUS
  <2>2. Recognised(x, list) = TypeA[KindOf[list[f]]]
    BY <1>2, <2>1 DEF Recognised
  <2>3. \E i \in DOMAIN list : First(A, i)
    <3>1. DOMAIN list = 1..Len(list)
      OBVIOUS
    <3>2. PICK i \in DOMAIN list : KindOf[list[i]] \in A
      BY <1>2
    <3>3. CASE KindOf[list[1]] \in A
      <4>1. First(A, 1)
        BY <3>3
      <4>2. QED
        BY <3>1, <4>1
    <3>4. CASE KindOf[list[1]] \notin A
      <4>1. i = 2
        BY <3>1, <3>2, <3>4
      <4>2. First(A, 2)
        BY <3>2, <3>4, <4>1
      <4>3. QED
        BY <3>2, <4>1, <4>2
    <3>5. QED
      BY <3>3, <3>4
  <2>4. f \in DOMAIN list /\ KindOf[list[f]] \in A
    BY <2>3
  <2>5. KindOf[list[f]] \notin {"dep", "dep4a"}
    <3>1. TypeA["dep"] = "none" /\ TypeA["dep4a"] = "none"
      OBVIOUS
    <3>2. QED
      BY <2>2, <3>1
  <2>6. Fits(list[f], TypeA[KindOf[list[f]]])
    BY <1>2, <2>4, <2>5 DEF Fits
  <2>7. ASSUME KindOf[list[1]] \in TagKinds
        PROVE  f = 1
    <3>1. KindOf[list[1]] \in {"t2", "t4a"}
      BY <1>0, <1>2, <2>7, DiscLoopAssumption DEF TagKinds
    <3>2. First(A, f)
      BY <2>3
    <3>3. 1 \notin 1..(f - 1)
      BY <3>1, <3>2
    <3>4. f \in Nat \ {0}
      BY <1>0, <2>4
    <3>5. QED
      BY <3>3, <3>4
  <2>8. QED
    BY <2>2, <2>4, <2>6, <2>7
<1>3. CASE x \in {"F212", "F424"} /\ Has({"t3"})
  <2>1. Recognised(x, list) = "type_3"
    BY <1>3 DEF Recognised
  <2>2. KindOf[list[1]] \in TagKinds => KindOf[list[1]] = "t3"
    BY <1>0, <1>3, DiscLoopAssumption DEF TagKinds
  <2>3. QED
    BY <1>0, <1>3, <2>1, <2>2 DEF Fits
<1>4. CASE /\ ~ (x = "A" /\ Has({"t1t"}))
           /\ ~ (x = "A" /\ ~Has({"t1t"}) /\ Has(A))
           /\ ~ (x \in {"F212", "F424"} /\ Has({"t3"}))
  <2>1. DOMAIN TypeA = A
    OBVIOUS
  <2>2. Recognised(x, list) = "none"
    BY <1>4, <2>1 DEF Recognised
  <2>3. QED
    BY <2>2
<1>5. QED
  BY <1>1, <1>2, <1>3, <1>4

-----------------------------------------------------------------------------
(***************************************************************************)
(* Steps that need no thought: the surroundings, the queue and the session.*)
(***************************************************************************)
LEMMA InitHolds == Init => IInv
<1> SUFFICES ASSUME Init PROVE IInv
  OBVIOUS
<1>1. TypeOK
  <2>1. <<>> \in Seq(Modes \cup {"stop"}) /\ <<>> \in Seq(Things)
    OBVIOUS
  <2>2. found.type = "none" /\ found.thing = Nothing /\ found.among = <<>>
    BY DEF Init, NotFound
  <2>3. {pollCfg, base, saved} \subseteq SUBSET TechSet
    BY DEF Init
  <2>4. QED
    BY <2>1, <2>2, <2>3 DEF Init, TypeOK
<1>2. QED
  BY <1>1 DEF Init, IInv, ConfiguredAsAsked, SavedIsBase, ResolvedIsNotA, CardsAreAlike,
              SessionIsPresent, NarrowedToResolve, FoundTypeFits

\* The field and the queue are not in the rest of the invariant.
LEMMA SurroundingsKeep ==
  ASSUME IInv, Surroundings
  PROVE  IInv'
<1>1. field' \subseteq Things
  BY DEF IInv, TypeOK, Surroundings, Arrive, Depart, Post
<1>2. cmds' \in Seq(Modes \cup {"stop"})
  BY DEF IInv, TypeOK, Surroundings, Arrive, Depart, Post
<1>3. UNCHANGED <<pc, polling, present, asked, pollCfg, listenCfg, base, saved, entry, cards, found>>
  BY DEF Surroundings, Arrive, Depart, Post, radio
<1>4. TypeOK'
  BY <1>1, <1>2, <1>3 DEF IInv, TypeOK
<1>5. QED
  BY <1>3, <1>4 DEF IInv, ConfiguredAsAsked, SavedIsBase, ResolvedIsNotA, CardsAreAlike,
              SessionIsPresent, NarrowedToResolve, FoundTypeFits

\* A START that is carried out comes between two sessions.
LEMMA ServeStartKeeps ==
  ASSUME IInv, ServeStart
  PROVE  IInv'
<1> USE DEF IInv
<1>1. TypeOK'
  <2>1. PollTechs(Head(cmds)) \subseteq TechSet /\ ListenTechs(Head(cmds)) \subseteq TechSet
    BY FourTechs DEF PollTechs, ListenTechs
  <2>2. cmds' \in Seq(Modes \cup {"stop"})
    BY DEF ServeStart, TypeOK
  <2>3. pc' \in {"queue", "enter", "session"}
    BY DEF ServeStart, AfterQueue
  <2>4. QED
    BY <2>1, <2>2, <2>3 DEF ServeStart, TypeOK
<1>2. ConfiguredAsAsked'
  <2>1. base \cup saved = {}
    BY DEF ServeStart, Serving, SavedIsBase
  <2>2. CASE ~polling /\ ~present
    <3>1. Head(cmds) \in Modes /\ asked' = Head(cmds) /\ base' \cup saved' = {}
      BY <2>1, <2>2 DEF ServeStart
    <3>2. pollCfg' = PollTechs(asked') /\ listenCfg' = ListenTechs(asked')
      BY <2>2 DEF ServeStart
    <3>3. QED
      BY <3>1, <3>2 DEF ConfiguredAsAsked, PollTechs, ListenTechs, Modes
  <2>3. CASE polling \/ present
    BY <2>3 DEF ServeStart, ConfiguredAsAsked
  <2>4. QED
    BY <2>2, <2>3
<1>3. QED
  BY <1>1, <1>2 DEF ServeStart, Serving, AfterQueue, SavedIsBase, ResolvedIsNotA, CardsAreAlike,
              SessionIsPresent, NarrowedToResolve, FoundTypeFits

LEMMA ServeStopKeeps ==
  ASSUME IInv, ServeStop
  PROVE  IInv'
<1>1. TypeOK'
  <2>1. cmds' \in Seq(Modes \cup {"stop"})
    BY DEF IInv, ServeStop, TypeOK
  <2>2. pc' \in {"queue", "session"}
    BY DEF ServeStop, AfterQueue
  <2>3. QED
    BY <2>1, <2>2 DEF IInv, ServeStop, TypeOK, radio
<1>2. QED
  BY <1>1 DEF IInv, ServeStop, Serving, AfterQueue, radio, ConfiguredAsAsked, SavedIsBase,
              ResolvedIsNotA, CardsAreAlike, SessionIsPresent, NarrowedToResolve, FoundTypeFits

LEMMA ServeNothingKeeps ==
  ASSUME IInv, ServeNothing
  PROVE  IInv'
<1>1. TypeOK'
  BY DEF IInv, ServeNothing, TypeOK, radio
<1>2. QED
  BY <1>1 DEF IInv, ServeNothing, radio, ConfiguredAsAsked, SavedIsBase, ResolvedIsNotA,
              CardsAreAlike, SessionIsPresent, NarrowedToResolve, FoundTypeFits

LEMMA EnterKeeps ==
  ASSUME IInv, Enter
  PROVE  IInv'
<1>1. TypeOK'
  BY DEF IInv, Enter, TypeOK
<1>2. QED
  BY <1>1 DEF IInv, Enter, ConfiguredAsAsked, SavedIsBase, ResolvedIsNotA,
              CardsAreAlike, SessionIsPresent, NarrowedToResolve, FoundTypeFits

\* A session begins with a thing present and ends with none found.
LEMMA CreateKeeps ==
  ASSUME IInv, Create
  PROVE  IInv'
<1>1. pc' \in {"session", "queue"} /\ present' \in BOOLEAN /\ polling' \in BOOLEAN
  BY DEF Create, IInv, TypeOK
<1>2. TypeOK'
  <2>1. CASE found' = found
    BY <1>1, <2>1 DEF IInv, Create, TypeOK, radio
  <2>2. CASE found' = NotFound
    <3>1. found'.type = "none" /\ found'.thing = Nothing /\ found'.among = <<>>
      BY <2>2 DEF NotFound
    <3>2. <<>> \in Seq(Things)
      OBVIOUS
    <3>3. QED
      BY <1>1, <3>1, <3>2 DEF IInv, Create, TypeOK, radio
  <2>3. QED
    BY <2>1, <2>2 DEF Create
<1>3. FoundTypeFits'
  BY DEF IInv, Create, FoundTypeFits
<1>4. QED
  BY <1>2, <1>3 DEF IInv, Create, radio, ConfiguredAsAsked, SavedIsBase, ResolvedIsNotA,
              CardsAreAlike, SessionIsPresent, NarrowedToResolve

LEMMA LostKeeps ==
  ASSUME IInv, Lost
  PROVE  IInv'
<1>1. TypeOK'
  <2>1. <<>> \in Seq(Things)
    OBVIOUS
  <2>2. found'.type = "none" /\ found'.thing = Nothing /\ found'.among = <<>>
    BY DEF Lost, NotFound
  <2>3. QED
    BY <2>1, <2>2 DEF IInv, Lost, TypeOK, radio
<1>2. QED
  BY <1>1 DEF IInv, Lost, radio, ConfiguredAsAsked, SavedIsBase, ResolvedIsNotA,
              CardsAreAlike, SessionIsPresent, NarrowedToResolve, FoundTypeFits

-----------------------------------------------------------------------------
(***************************************************************************)
(* The ways an iteration goes on or ends.                                  *)
(***************************************************************************)
LEMMA FailKeeps ==
  ASSUME IInv, Fail
  PROVE  IInv'
<1>1. TypeOK'
  <2>1. <<>> \in Seq(Things)
    OBVIOUS
  <2>2. {pollCfg', base', saved'} \subseteq SUBSET TechSet
    BY DEF IInv, TypeOK, Fail, Returns
  <2>3. QED
    BY <2>1, <2>2 DEF IInv, Fail, Returns, TypeOK
<1>2. QED
  BY <1>1 DEF IInv, Fail, Returns, ConfiguredAsAsked, SavedIsBase, ResolvedIsNotA,
              CardsAreAlike, SessionIsPresent, NarrowedToResolve, FoundTypeFits

\* What FoundTypeFits says of a result.
Proper(type, t, among) ==
  IF TechOf[t] = "peer"
    THEN asked \in {"target", "dual"}
    ELSE /\ asked \in {"initiator", "dual"}
         /\ t \in {among[i] : i \in DOMAIN among}
         /\ \E i \in DOMAIN among : Fits(among[i], type)
         /\ KindOf[t] \in TagKinds => Fits(t, type) \/ BesideType1(among)

LEMMA SucceedKeeps ==
  ASSUME IInv, NEW type \in TagTypes \cup DeviceTypes, NEW t \in Things, NEW among \in Seq(Things),
         Succeed(type, t, among), Proper(type, t, among)
  PROVE  IInv'
<1>1. found'.type = type /\ found'.thing = t /\ found'.among = among
  BY DEF Succeed
<1>2. TypeOK'
  <2>1. <<>> \in Seq(Things)
    OBVIOUS
  <2>2. {pollCfg', base', saved'} \subseteq SUBSET TechSet
    BY DEF IInv, TypeOK, Succeed, Returns
  <2>3. QED
    BY <1>1, <2>1, <2>2 DEF IInv, Succeed, Returns, TypeOK
<1>3. FoundTypeFits'
  BY <1>1 DEF FoundTypeFits, Proper, Succeed, Returns, Fits, BesideType1
<1>4. QED
  BY <1>2, <1>3 DEF IInv, Succeed, Returns, ConfiguredAsAsked, SavedIsBase, ResolvedIsNotA,
              CardsAreAlike, SessionIsPresent, NarrowedToResolve

LEMMA BeginKeeps ==
  ASSUME IInv, Begin
  PROVE  IInv'
<1>1. TypeOK'
  BY DEF IInv, Begin, radio, TypeOK
<1>2. QED
  BY <1>1 DEF IInv, Begin, radio, ConfiguredAsAsked, SavedIsBase, ResolvedIsNotA,
              CardsAreAlike, SessionIsPresent, NarrowedToResolve, FoundTypeFits

LEMMA UnhandledKeeps ==
  ASSUME IInv, Unhandled
  PROVE  IInv'
<1>1. TypeOK'
  BY DEF IInv, Unhandled, radio, TypeOK
<1>2. QED
  BY <1>1 DEF IInv, Unhandled, radio, ConfiguredAsAsked, SavedIsBase, ResolvedIsNotA,
              CardsAreAlike, SessionIsPresent, NarrowedToResolve, FoundTypeFits

\* What is written back is what the iteration began with, or nothing.
LEMMA AgainKeeps ==
  ASSUME IInv, Again, pc \in {"run", "resolve"}
  PROVE  IInv'
<1>1. TypeOK'
  <2>1. <<>> \in Seq(Things)
    OBVIOUS
  <2>2. {pollCfg', base', saved'} \subseteq SUBSET TechSet
    BY DEF IInv, TypeOK, Again
  <2>3. QED
    BY <2>1, <2>2 DEF IInv, Again, TypeOK
<1>2. ConfiguredAsAsked'
  BY DEF IInv, Again, ConfiguredAsAsked
<1>3. NarrowedToResolve'
  BY DEF IInv, Again, SavedIsBase, NarrowedToResolve
<1>4. QED
  BY <1>1, <1>2, <1>3 DEF IInv, Again, SavedIsBase, ResolvedIsNotA,
              CardsAreAlike, SessionIsPresent, FoundTypeFits

\* rdlib_loop_helper on cards of a technology that is polled for.
LEMMA HelpKeeps ==
  ASSUME IInv, NEW x \in pollCfg, NEW list \in Seq(Things), Len(list) \in {1, 2},
         \A i \in DOMAIN list : TechOf[list[i]] = x,
         Help(x, list)
  PROVE  IInv'
<1>1. x \in TechSet /\ asked \in {"initiator", "dual"}
  BY DEF IInv, TypeOK, ConfiguredAsAsked
<1>2. 1 \in DOMAIN list /\ list[1] \in Things
  OBVIOUS
<1>3. CASE Recognised(x, list) = "none"
  BY <1>3, FailKeeps DEF Help
<1>4. CASE Recognised(x, list) # "none"
  <2>1. /\ \E i \in DOMAIN list : Fits(list[i], Recognised(x, list))
        /\ KindOf[list[1]] \in TagKinds =>
             Fits(list[1], Recognised(x, list)) \/ BesideType1(list)
    BY <1>1, <1>4, RecognisedFits
  <2>2. Recognised(x, list) \in TagTypes \cup DeviceTypes
    BY <2>1 DEF Fits, TagTypes, DeviceTypes
  <2>3. Succeed(Recognised(x, list), list[1], list)
    BY <1>4 DEF Help
  <2>4. TechOf[list[1]] # "peer"
    BY <1>1, <1>2, FourTechs
  <2>5. Proper(Recognised(x, list), list[1], list)
    BY <1>1, <1>2, <2>1, <2>4 DEF Proper
  <2>6. QED
    BY <1>2, <2>2, <2>3, <2>5, SucceedKeeps
<1>5. QED
  BY <1>3, <1>4

-----------------------------------------------------------------------------
(***************************************************************************)
(* The answers of the library.                                             *)
(***************************************************************************)
LEMMA ExternalRfOnKeeps ==
  ASSUME IInv, ExternalRfOn
  PROVE  IInv'
<1>1. TypeOK'
  BY DEF IInv, ExternalRfOn, TypeOK
<1>2. QED
  BY <1>1 DEF IInv, ExternalRfOn, ConfiguredAsAsked, SavedIsBase, ResolvedIsNotA,
              CardsAreAlike, SessionIsPresent, NarrowedToResolve, FoundTypeFits

LEMMA SeveralTechsKeeps ==
  ASSUME IInv, SeveralTechs
  PROVE  IInv'
<1>1. Detected \in SUBSET TechSet /\ Detected \subseteq pollCfg
  BY DetectedIsPolled DEF IInv, TypeOK
<1>2. LastOf(Detected) \in Detected \ {"A"}
  BY <1>1, LastOfSeveral DEF SeveralTechs
<1>3. PICK x \in Detected \ {"A"} : x = LastOf(Detected)
  BY <1>2
<1>4. pollCfg' = {x} /\ saved' = pollCfg /\ x \in pollCfg
  BY <1>1, <1>3 DEF SeveralTechs
<1>5. TypeOK'
  BY <1>1, <1>4 DEF IInv, SeveralTechs, TypeOK
<1>6. NarrowedToResolve'
  BY <1>4 DEF IInv, SeveralTechs, NarrowedToResolve
<1>7. ConfiguredAsAsked'
  BY <1>4 DEF IInv, SeveralTechs, ConfiguredAsAsked
<1>8. ResolvedIsNotA'
  BY <1>4 DEF ResolvedIsNotA
<1>9. QED
  BY <1>4, <1>5, <1>6, <1>7, <1>8 DEF IInv, SeveralTechs, SavedIsBase, NarrowedToResolve,
              CardsAreAlike, SessionIsPresent, FoundTypeFits

LEMMA SeveralDevicesKeeps ==
  ASSUME IInv, NEW x \in TechSet, SeveralDevices(x)
  PROVE  IInv'
<1>1. x \in pollCfg /\ pc \in {"run", "resolve"}
  BY DetectedIsPolled DEF SeveralDevices, Polled
<1>2. CASE Again
  BY <1>1, <1>2, AgainKeeps
<1>3. CASE ~Again
  <2>1. PICK list \in Lists(x) : /\ Len(list) > 1
                                 /\ cards' = list
                                 /\ pc' = "activate"
                                 /\ UNCHANGED <<field, cmds, polling, present, asked, radio, found>>
    BY <1>3 DEF SeveralDevices
  <2>2. Seen(x) \subseteq Things /\ \A t \in Seen(x) : TechOf[t] = x
    BY DEF Seen, IInv, TypeOK
  <2>3. /\ list \in Seq(Things) /\ Len(list) = 2
        /\ TechOf[list[1]] = x /\ TechOf[list[2]] = x
    <3>1. \A t \in Seen(x) : Len(<<t>>) = 1
      OBVIOUS
    <3>2. list \in Seen(x) \X Seen(x)
      <4>1. list \in {<<t>> : t \in Seen(x)} \/ list \in {s \in Seen(x) \X Seen(x) : s[1] # s[2]}
        BY <2>1, Zenon DEF Lists
      <4>2. CASE list \in {<<t>> : t \in Seen(x)}
        <5>1. PICK t \in Seen(x) : list = <<t>>
          BY <4>2
        <5>2. Len(list) = 1
          BY <3>1, <5>1
        <5>3. QED
          BY <2>1, <5>2
      <4>3. CASE list \in {s \in Seen(x) \X Seen(x) : s[1] # s[2]}
        BY <4>3, Zenon
      <4>4. QED
        BY <4>1, <4>2, <4>3
    <3>3. PICK t \in Seen(x), u \in Seen(x) : list = <<t, u>>
      BY <3>2
    <3>4. t \in Things /\ u \in Things /\ TechOf[t] = x /\ TechOf[u] = x
      BY <2>2, <3>3
    <3>5. QED
      BY <3>3, <3>4
  <2>4. TypeOK'
    BY <2>1, <2>3 DEF IInv, TypeOK, radio
  <2>5. CardsAreAlike'
    BY <1>1, <2>1, <2>3 DEF CardsAreAlike, radio
  <2>6. QED
    BY <1>1, <2>1, <2>4, <2>5 DEF IInv, radio, ConfiguredAsAsked, SavedIsBase, ResolvedIsNotA,
              SessionIsPresent, NarrowedToResolve, FoundTypeFits
<1>4. QED
  BY <1>2, <1>3

LEMMA ActivateCardKeeps ==
  ASSUME IInv, ActivateCard
  PROVE  IInv'
<1>1. CASE Fail
  BY <1>1, FailKeeps
<1>2. CASE Help(TechOf[cards[1]], cards)
  <2>1. /\ cards \in Seq(Things) /\ Len(cards) = 2
        /\ TechOf[cards[1]] \in pollCfg /\ TechOf[cards[2]] = TechOf[cards[1]]
    BY DEF ActivateCard, IInv, TypeOK, CardsAreAlike
  <2>2. PICK x \in pollCfg : x = TechOf[cards[1]]
    BY <2>1
  <2>3. \A i \in DOMAIN cards : TechOf[cards[i]] = x
    <3>1. DOMAIN cards = {1, 2}
      BY <2>1
    <3>2. QED
      BY <2>1, <2>2, <3>1
  <2>4. QED
    BY <1>2, <2>1, <2>2, <2>3, HelpKeeps
<1>3. QED
  BY <1>1, <1>2 DEF ActivateCard

LEMMA DeviceActivatedKeeps ==
  ASSUME IInv, NEW t \in Things, DeviceActivated(t)
  PROVE  IInv'
<1>1. PICK x \in pollCfg : x = TechOf[t]
  BY DetectedIsPolled DEF DeviceActivated
<1>2. PICK list : list = <<t>>
  OBVIOUS
<1>3. /\ list \in Seq(Things) /\ Len(list) \in {1, 2}
      /\ \A i \in DOMAIN list : TechOf[list[i]] = x
  BY <1>1, <1>2
<1>4. Help(x, list)
  BY <1>1, <1>2 DEF DeviceActivated
<1>5. QED
  BY <1>3, <1>4, HelpKeeps

\* A P2P target of type A is found at once or not at all.
LEMMA PassiveTargetKeeps ==
  ASSUME IInv, NEW t \in Things, PassiveTarget(t)
  PROVE  IInv'
<1>1. CASE Fail
  BY <1>1, FailKeeps
<1>2. CASE Succeed(PassiveType(TechOf[t]), t, <<t>>)
  <2>1. /\ TechOf[t] \in pollCfg \ {"B"} /\ KindOf[t] \notin TagKinds
        /\ KindOf[t] = "dep" \/ (KindOf[t] = "dep4a" /\ pc = "run" /\ TechOf[t] = "A")
        /\ pc \in {"run", "resolve"}
    BY DetectedIsPolled, DiscLoopAssumption DEF PassiveTarget, Polled, TagKinds
  <2>2. TechOf[t] \in {"A", "F212", "F424"} /\ asked \in {"initiator", "dual"}
    BY <2>1, FourTechs DEF IInv, TypeOK, ConfiguredAsAsked
  <2>3. PICK type : type = PassiveType(TechOf[t])
    OBVIOUS
  <2>4. type \in TagTypes \cup DeviceTypes
    BY <2>3 DEF PassiveType, TagTypes, DeviceTypes
  <2>5. Fits(t, type)
    BY <2>1, <2>2, <2>3 DEF Fits, PassiveType, IInv, ResolvedIsNotA
  <2>6. PICK list : list = <<t>>
    OBVIOUS
  <2>7. list \in Seq(Things) /\ 1 \in DOMAIN list /\ list[1] = t
    BY <2>6
  <2>8. Proper(type, t, list)
    BY <2>1, <2>2, <2>5, <2>7 DEF Proper
  <2>9. QED
    BY <1>2, <2>3, <2>4, <2>6, <2>7, <2>8, SucceedKeeps
<1>3. QED
  BY <1>1, <1>2 DEF PassiveTarget

LEMMA ActivatedByPeerKeeps ==
  ASSUME IInv, NEW t \in Things, ActivatedByPeer(t)
  PROVE  IInv'
<1>1. PICK garbage \in TagTypes \cup DeviceTypes : Succeed(garbage, t, <<t>>)
  BY DEF ActivatedByPeer
<1>2. Proper(garbage, t, <<t>>)
  BY DEF ActivatedByPeer, Proper, IInv, ConfiguredAsAsked
<1>3. <<t>> \in Seq(Things)
  OBVIOUS
<1>4. QED
  BY <1>1, <1>2, <1>3, SucceedKeeps

\* After a resolution the loop begins again in one place only.
LEMMA OnlyAgainBeginsAgain ==
  ASSUME Next, pc = "resolve", pc' = "again"
  PROVE  Again
<1>1. CASE ServeStart \/ ServeStop \/ ServeNothing \/ Enter \/ Begin \/ Create \/ Lost
  BY <1>1 DEF ServeStart, ServeStop, ServeNothing, Serving, Enter, Begin, Create, Lost
<1>2. CASE NothingFound \/ Unhandled \/ ExternalRfOn \/ SeveralTechs \/ ActivateCard
  BY <1>2 DEF NothingFound, Unhandled, ExternalRfOn, SeveralTechs, ActivateCard
<1>3. CASE Unresolved
  BY <1>3 DEF Unresolved
<1>4. CASE \E x \in TechSet : SeveralDevices(x)
  BY <1>4 DEF SeveralDevices
<1>5. CASE \E t \in Things : DeviceActivated(t) \/ PassiveTarget(t) \/ ActivatedByPeer(t)
  BY <1>5 DEF DeviceActivated, Help, PassiveTarget, ActivatedByPeer, Succeed, Fail, Returns
<1>6. CASE Surroundings
  BY <1>6 DEF Surroundings, Arrive, Depart, Post
<1>7. QED
  BY <1>1, <1>2, <1>3, <1>4, <1>5, <1>6 DEF Next, Thread, Answer

-----------------------------------------------------------------------------
LEMMA StepKeeps == IInv /\ [Next]_vars => IInv'
<1> SUFFICES ASSUME IInv, [Next]_vars PROVE IInv'
  OBVIOUS
<1>1. CASE ServeStart \/ ServeStop \/ ServeNothing \/ Enter \/ Begin \/ Create \/ Lost
  BY <1>1, ServeStartKeeps, ServeStopKeeps, ServeNothingKeeps, EnterKeeps, BeginKeeps,
     CreateKeeps, LostKeeps
<1>2. CASE NothingFound \/ Unhandled
  BY <1>2, FailKeeps, UnhandledKeeps DEF NothingFound
<1>3. CASE ExternalRfOn \/ SeveralTechs
  BY <1>3, ExternalRfOnKeeps, SeveralTechsKeeps
<1>4. CASE Unresolved
  BY <1>4, AgainKeeps DEF Unresolved
<1>5. CASE \E x \in TechSet : SeveralDevices(x)
  BY <1>5, SeveralDevicesKeeps
<1>6. CASE ActivateCard
  BY <1>6, ActivateCardKeeps
<1>7. CASE \E t \in Things : DeviceActivated(t) \/ PassiveTarget(t) \/ ActivatedByPeer(t)
  BY <1>7, DeviceActivatedKeeps, PassiveTargetKeeps, ActivatedByPeerKeeps
<1>8. CASE Surroundings
  BY <1>8, SurroundingsKeep
<1>9. CASE UNCHANGED vars
  BY <1>9 DEF vars, radio, IInv, TypeOK, ConfiguredAsAsked, SavedIsBase, ResolvedIsNotA,
              CardsAreAlike, SessionIsPresent, NarrowedToResolve, FoundTypeFits
<1>10. QED
  BY <1>1, <1>2, <1>3, <1>4, <1>5, <1>6, <1>7, <1>8, <1>9 DEF Next, Thread, Answer

-----------------------------------------------------------------------------
(***************************************************************************)
(* The theorems.                                                           *)
(***************************************************************************)

\* The inductive invariant holds in every run of the RdLib thread, whatever is
\* in the field and whatever the library answers.
THEOREM LoopInvariant == Spec => []IInv
BY InitHolds, StepKeeps, PTL DEF Spec

\* Whatever an iteration has gone through, a resolution that does not end it puts
\* back all that it began with (hal.c 986-993).
THEOREM ConfigurationIsPutBack == Spec => ResolutionPutsBack
<1>1. IInv /\ [Next]_vars => [pc = "resolve" /\ pc' = "again" => pollCfg' = base]_vars
  <2>1. SUFFICES ASSUME IInv, Next, pc = "resolve", pc' = "again"
                 PROVE  pollCfg' = base
    OBVIOUS
  <2>2. saved = base
    BY <2>1 DEF IInv, NarrowedToResolve
  <2>3. Again
    BY <2>1, OnlyAgainBeginsAgain
  <2>4. QED
    BY <2>2, <2>3 DEF Again
<1>2. QED
  BY <1>1, LoopInvariant, PTL DEF Spec, ResolutionPutsBack

\* The type rdlib_loop_helper and the P2P cases write to *pNFCType is that of a
\* card that was resolved, of a technology the client asked for, and of the card
\* activated if that is a tag with no tag of type 1 beside it.
THEOREM TypesFitWhatIsFound == Spec => []FoundTypeFits
<1>1. IInv => FoundTypeFits
  BY DEF IInv
<1>2. QED
  BY <1>1, LoopInvariant, PTL

=============================================================================
