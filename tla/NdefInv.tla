------------------------------ MODULE NdefInv -------------------------------
(***************************************************************************)
(* What must be true of Ndef, with a reader of messages written after the  *)
(* format and not after the program.                                       *)
(***************************************************************************)
EXTENDS Ndef

\* The frame at b and, from decode, those after it.  In the NDEF format a long
\* payload has a length of four bytes.  A message that breaks off has the last
\* record [tnf |-> "cut"].
DecodeFrom(m, decode, b) ==
  LET size  == IF m[b].sr THEN m[b + 2]
               ELSE ((m[b + 2] * Byte + m[b + 3]) * Byte + m[b + 4]) * Byte + m[b + 5]
      begin == IF m[b].sr THEN b + 3 ELSE b + 6
      first == begin + m[b + 1]
      next  == first + size
  IN IF next \notin (b + 1)..(Len(m) + 1) THEN <<[tnf |-> "cut"]>>
     ELSE <<[tnf |-> m[b].tnf, mb |-> m[b].mb, me |-> m[b].me,
             type |-> SubSeq(m, begin, first - 1), payload |-> SubSeq(m, first, next - 1)]>>
          \o decode[next]

\* The records of a message in the NDEF format.
Decode(m) ==
  LET decode[b \in 1..(Len(m) + 1)] == IF b > Len(m) THEN <<>> ELSE DecodeFrom(m, decode, b)
  IN decode[1]

WellFramed(m) ==
  LET frames == Decode(m)
  IN \A i \in DOMAIN frames :
       /\ frames[i].tnf # "cut"
       /\ frames[i].mb = (i = 1)
       /\ frames[i].me = (i = Len(frames))

\* What ndef_message_generate makes is a message of the format, from the mark of
\* its beginning to that of its end, and so is what is in a smart poster.
GeneratedMessagesAreWellFramed ==
  phase = "written" =>
    /\ WellFramed(message)
    /\ Len(Decode(message)) = 1
    /\ Decode(message)[1].type = PosterType => WellFramed(Decode(message)[1].payload)

-----------------------------------------------------------------------------
\* What a dictionary says about a record of its type; other fields are not
\* looked at.
Meant(r) ==
  CASE r.type = "Text" -> [Blank EXCEPT !.type = "Text", !.language = r.language,
                             !.representation = r.representation, !.utf16 = r.utf16]
    [] r.type = "URI" -> [Blank EXCEPT !.type = "URI", !.uri = r.uri]
    [] OTHER -> [Blank EXCEPT !.type = r.type, !.package = r.package]

\* Fields may be missing, those that are there are those of r.
Agrees(back, r) ==
  /\ back.type = r.type
  /\ back.uri = r.uri
  /\ back.representation \in {None, r.representation}
  /\ back.language \in {None, r.language}

\* What is not in a long record, the length of which is read otherwise than
\* it is written.
Short(m) == m[1].sr

\* A record with an empty payload, which the reader takes for no record.
NamesNothing(r) == r.type = "AAR" /\ r.package = <<>>

\* A record that was written as a short one is read back; of a smart poster at
\* least the URI.
WrittenIsReadBack ==
  (phase = "read" /\ Short(message) /\ ~NamesNothing(asked)) =>
    /\ Len(records) = 1
    /\ IF asked.type = "SmartPoster" THEN Agrees(records[1], asked)
       ELSE records[1] = Meant(asked)

\* What the record of another writer says, but for smart posters.
Says(f) ==
  CASE f.tnf = "well known" /\ f.type = TextType -> TextOf(f.payload)
    [] f.tnf = "well known" /\ f.type = UriType -> UriOf(f.payload)
    [] f.tnf = "external" /\ f.type = AarType -> AarOf(f.payload)
    [] f.tnf = "media" -> MimeOf(f.type, f.payload)
    [] OTHER -> <<>>

IsPoster(f) == f.tnf = "well known" /\ f.type = PosterType

\* Of the messages of other writers the records are read in order: none is made
\* up, none is read as another one, and the first is not left out.
ForeignIsReadInOrder ==
  (phase = "read foreign" /\ ~IsPoster(asked[1])) =>
    /\ IsPrefix(records, FlattenSeq([i \in DOMAIN asked |-> Says(asked[i])]))
    /\ Says(asked[1]) # <<>> => records # <<>>

-----------------------------------------------------------------------------
(***************************************************************************)
(* What the three rest on: the message is the one of what was asked for,   *)
(* and the records are what is read of it.                                 *)
(***************************************************************************)
MessageOf(list) == FlattenSeq([i \in DOMAIN list |-> Framed(list[i], i = 1, i = Len(list))])

MessageIsWhatWasAsked ==
  /\ phase \in {"idle", "written", "foreign", "read", "read foreign", "crashed"}
  /\ phase \in {"written", "read"} =>
       /\ asked \in Dictionaries
       /\ Valid(asked)
       /\ Generate(asked) # Crash
       /\ message = Generate(asked)
  /\ phase \in {"foreign", "read foreign"} =>
       /\ \E f, g \in Frames : asked \in {<<f>>, <<f, g>>}
       /\ message = MessageOf(asked)
  /\ phase \in {"read", "read foreign"} => records = Parse(message)

=============================================================================
