-------------------------------- MODULE Ndef --------------------------------
(***************************************************************************)
(* ndef.c: what a client writes to a tag (a dictionary) becomes a record   *)
(* and a message of bytes; what a tag carries is read back into records.   *)
(*                                                                         *)
(* A message is a sequence of units: headers, numbers below Byte and       *)
(* characters.  Byte is 256 in the program, MaxLanguage 31 and the         *)
(* abbreviations 36; the algorithms are the same for smaller ones.  A type *)
(* name is one unit, except where its length is what counts.               *)
(***************************************************************************)
EXTENDS Naturals, Sequences, SequencesExt

CONSTANTS
  Byte,           \* values of a byte
  MaxLanguage,    \* 0x1F: the longest language code that is written
  Abbreviations,  \* of URIs, by code + 1; the first one is empty
  Dictionaries,   \* what clients ask to write, as records
  Frames,         \* records of other writers: [tnf, type, id, payload]
  None,           \* a NULL string
  TextName, UriName, PosterName, AarName, ActionName, SizeName, MimeName
                  \* the names of record types

IsSequence(s) == Len(s) \in Nat /\ s = [i \in 1..Len(s) |-> s[i]]
IsString(s)   == s = None \/ IsSequence(s)
FitsByte(s)   == IsSequence(s) /\ Len(s) < Byte

ASSUME NdefAssumption ==
  /\ Byte \in Nat \ {0, 1}
  /\ MaxLanguage \in Nat
  /\ IsSequence(Abbreviations)
  /\ \A i \in DOMAIN Abbreviations : IsSequence(Abbreviations[i])
  /\ Len(Abbreviations) > 0
  /\ Abbreviations[1] = <<>>

\* The types a client may name, and what the strings of a dictionary may be.
ASSUME DictionaryAssumption ==
  \A d \in Dictionaries :
    /\ d.type \in {"SmartPoster", "Text", "URI", "AAR",
                   "HandoverRequest", "HandoverSelect", "HandoverCarrier"}
    /\ \A s \in {d.uri, d.language, d.representation, d.mime, d.package} : IsString(s)

ASSUME FrameAssumption ==
  \A f \in Frames : FitsByte(f.type) /\ FitsByte(f.id) /\ FitsByte(f.payload)

ASSUME NamesAssumption == PosterName \notin {TextName, UriName, AarName} /\ TextName # UriName

VARIABLES
  phase,    \* "idle", "written", "foreign", "read", "read foreign" or "crashed"
  asked,    \* the record asked for, or the frames of the other writer
  message,  \* the bytes on the tag
  records   \* what ndef_message_parse made of them

vars == <<phase, asked, message, records>>

Blank == [type |-> "SmartPoster", uri |-> None, language |-> None, representation |-> None,
          utf16 |-> FALSE, mime |-> None, size |-> 0, action |-> None, package |-> None,
          payload |-> None]

Init ==
  /\ phase = "idle"
  /\ asked = Blank
  /\ message = <<>>
  /\ records = <<>>

-----------------------------------------------------------------------------
TextType == <<TextName>>
UriType == <<UriName>>
PosterType == <<PosterName>>
AarType == <<AarName>>
ActionType == <<ActionName>>
SizeType == <<SizeName>>
MimeType == <<MimeName>>

(***************************************************************************)
(* Writing.  NULL is None: the caller of ndef_message_generate_record then *)
(* makes a record of the type NULL, and that ends the process.             *)
(***************************************************************************)
Crash == None

\* Four bytes, the highest first.
Number(n) ==
  LET a == n \div Byte
      b == a \div Byte
      c == b \div Byte
  IN <<c % Byte, b % Byte, a % Byte, n % Byte>>

\* ndef_message_record_make.
Make(tnf, type, payload, mb, me) ==
  <<[mb |-> mb, me |-> me, sr |-> Len(payload) < Byte, il |-> FALSE, tnf |-> tnf]>>
    \o <<Len(type) % Byte>>
    \o (IF Len(payload) < Byte THEN <<Len(payload)>> ELSE Number(Len(payload)))
    \o type \o payload

\* The first of the longest abbreviations that fit.
Abbreviation(uri) ==
  LET fits == {i \in DOMAIN Abbreviations : IsPrefix(Abbreviations[i], uri)}
  IN CHOOSE i \in fits : \A j \in fits :
       /\ Len(Abbreviations[i]) >= Len(Abbreviations[j])
       /\ Len(Abbreviations[i]) = Len(Abbreviations[j]) => i <= j

UriPayload(uri) ==
  <<Abbreviation(uri) - 1>> \o SubSeq(uri, Len(Abbreviations[Abbreviation(uri)]) + 1, Len(uri))

\* The status byte has a bit for the encoding and the length of the language.
TextPayload(r) ==
  <<[utf16 |-> r.utf16, language |-> Len(r.language)]>> \o r.language \o r.representation

ActionCode(a) == CASE a = "Do" -> 0 [] a = "Save" -> 1 [] OTHER -> 2

\* ndef_message_generate_record, for all but smart posters.
Plain(r, mb, me) ==
  CASE r.type = "Text" /\ Len(r.language) <= MaxLanguage ->
         Make("well known", TextType, TextPayload(r), mb, me)
    [] r.type = "URI" -> Make("well known", UriType, UriPayload(r.uri), mb, me)
    [] r.type = "AAR" /\ r.package # None -> Make("external", AarType, r.package, mb, me)
    [] r.type = "action" -> Make("well known", ActionType, <<ActionCode(r.action)>>, mb, me)
    [] r.type = "size" -> Make("well known", SizeType, Number(r.size), mb, me)
    [] r.type = "type" -> Make("well known", MimeType, r.mime, mb, me)
    [] OTHER -> Crash

\* Slip: the message begins with every record.
PlainMessageBegins(list) ==
  IF \E i \in DOMAIN list : Plain(list[i], TRUE, TRUE) = Crash THEN Crash
  ELSE FlattenSeq([i \in DOMAIN list |-> Plain(list[i], TRUE, i = Len(list))])

\* ndef_message_generate.
PlainMessage(list) ==
  IF \E i \in DOMAIN list : Plain(list[i], TRUE, TRUE) = Crash THEN Crash
  ELSE FlattenSeq([i \in DOMAIN list |-> Plain(list[i], i = 1, i = Len(list))])

Part(present, r) == IF present THEN <<r>> ELSE <<>>

\* The records a smart poster is made of.
Parts(r) ==
     Part(r.uri # None, [Blank EXCEPT !.type = "URI", !.uri = r.uri])
  \o Part(r.representation # None,
          [Blank EXCEPT !.type = "Text", !.language = r.language,
                        !.representation = r.representation, !.utf16 = r.utf16])
  \o Part(r.action # None, [Blank EXCEPT !.type = "action", !.action = r.action])
  \o Part(r.size # 0, [Blank EXCEPT !.type = "size", !.size = r.size])
  \o Part(r.mime # None, [Blank EXCEPT !.type = "type", !.mime = r.mime])

Generate(r) ==
  IF r.type # "SmartPoster" THEN PlainMessage(<<r>>)
  ELSE LET payload == PlainMessage(Parts(r))
       IN IF payload = Crash THEN Crash
          ELSE Make("well known", PosterType, payload, TRUE, TRUE)

\* ndef_record_validate.
Valid(r) ==
  CASE r.type = "SmartPoster" ->
         r.uri # None /\ (r.representation # None => r.language # None)
    [] r.type = "Text" -> r.representation # None /\ r.language # None
    [] r.type = "URI" -> r.uri # None
    [] OTHER -> TRUE

\* What fits into a message of the bus has a length of four bytes.
ASSUME LengthAssumption ==
  \A d \in Dictionaries : Valid(d) /\ Generate(d) # Crash =>
    Len(Generate(d)) < Byte * Byte * Byte * Byte

-----------------------------------------------------------------------------
(***************************************************************************)
(* Reading units b to e of a buffer m.  What is made of a payload is a     *)
(* sequence of one record or of none.  Lengths are read only from messages *)
(* that are long enough.                                                   *)
(***************************************************************************)
TextOf(p) ==
  IF Len(p) < 1 \/ Len(p) < 1 + p[1].language THEN <<>>
  ELSE <<[Blank EXCEPT !.type = "Text", !.utf16 = p[1].utf16,
                       !.language = SubSeq(p, 2, 1 + p[1].language),
                       !.representation = SubSeq(p, 2 + p[1].language, Len(p))]>>

\* Slip: codes are taken to begin at the first abbreviation that is not empty.
UriOfShifted(p) ==
  IF Len(p) < 1 \/ p[1] + 1 \notin DOMAIN Abbreviations THEN <<>>
  ELSE <<[Blank EXCEPT !.type = "URI",
                       !.uri = Abbreviations[IF p[1] = 0 THEN 1 ELSE p[1]] \o Tail(p)]>>

UriOf(p) ==
  IF Len(p) < 1 \/ p[1] + 1 \notin DOMAIN Abbreviations THEN <<>>
  ELSE <<[Blank EXCEPT !.type = "URI", !.uri = Abbreviations[p[1] + 1] \o Tail(p)]>>

AarOf(p) == IF Len(p) < 1 THEN <<>> ELSE <<[Blank EXCEPT !.type = "AAR", !.package = p]>>

MimeOf(type, p) == <<[Blank EXCEPT !.type = "MIME", !.mime = type, !.payload = p]>>

\* A poster takes its fields from the first part of each type that is in list;
\* the parts that only exist inside a poster are not known there.
PosterOf(list) ==
  LET Of(type)    == {i \in DOMAIN list : list[i].type = type}
      First(type) == list[CHOOSE i \in Of(type) : \A j \in Of(type) : i <= j]
      text        == IF Of("Text") = {} THEN Blank ELSE First("Text")
  IN IF Of("URI") = {} THEN <<>>
     ELSE <<[Blank EXCEPT !.uri = First("URI").uri, !.language = text.language,
                          !.representation = text.representation]>>

\* Slip: the id has no length.
HeaderWithoutId(m, b) ==
  [type |-> m[b + 1], payload |-> m[b + 2], id |-> 0, begin |-> b + 3]

\* The header at b, and where what it is about begins.
Header(m, b) ==
  LET digits == IF m[b].sr THEN 1 ELSE 3
  IN [type    |-> m[b + 1],
      payload |-> IF m[b].sr THEN m[b + 2]
                  ELSE (m[b + 2] * Byte + m[b + 3]) * Byte + m[b + 4],
      id      |-> IF m[b].il THEN m[b + 2 + digits] ELSE 0,
      begin   |-> b + 2 + digits + (IF m[b].il THEN 1 ELSE 0)]

\* The length of a short payload is not counted.  A buffer that ends just before
\* it passes the test; in the program what is left then wraps.
HasHeader(m, b, e) ==
  e + 1 - b >= 2 + (IF m[b].sr THEN 0 ELSE 3) + (IF m[b].il THEN 1 ELSE 0)

HasParts(h, e) ==
  /\ h.type \in Nat /\ h.id \in Nat /\ h.payload \in Nat
  /\ h.type + h.id + h.payload <= e + 1 - h.begin

\* What is left after a record of n bytes of a buffer of size.
Remaining(n, size) == IF n > size THEN size - n ELSE 0

\* Where a buffer may begin and end in m.
Buffers(m) == (1..(Len(m) + 1)) \X (0..Len(m))

\* A message, of which read reads the records.
Message(m, read, b, e) == IF e <= b \/ ~m[b].mb THEN <<>> ELSE read[<<b, e>>]

\* The record with header h at b.
RecordAt(m, read, b, h) ==
  LET first   == h.begin + h.type + h.id
      last    == first + h.payload - 1
      type    == SubSeq(m, h.begin, h.begin + h.type - 1)
      payload == SubSeq(m, first, last)
  IN CASE m[b].tnf = "well known" /\ type = PosterType -> PosterOf(Message(m, read, first, last))
       [] m[b].tnf = "well known" /\ type = TextType -> TextOf(payload)
       [] m[b].tnf = "well known" /\ type = UriType -> UriOf(payload)
       [] m[b].tnf = "media" -> MimeOf(type, payload)
       [] m[b].tnf = "external" /\ type = AarType -> AarOf(payload)
       [] OTHER -> <<>>

\* The record at b and those after it up to e.
ReadFrom(m, read, b, e) ==
  LET h    == Header(m, b)
      size == h.type + h.id + h.payload
      next == h.begin + size
  IN IF e <= b \/ ~HasHeader(m, b, e) \/ ~HasParts(h, e) THEN <<>>
     ELSE RecordAt(m, read, b, h)
            \o (IF m[b].me THEN <<>>
                ELSE read[<<next, next - 1 + Remaining(size, e + 1 - h.begin)>>])

\* ndef_message_parse.  Nothing is left after the first record: Remaining is
\* zero whenever the record is not longer than the buffer.
Parse(m) ==
  LET read[p \in Buffers(m)] == ReadFrom(m, read, p[1], p[2])
  IN Message(m, read, 1, Len(m))

-----------------------------------------------------------------------------
(***************************************************************************)
(* A tag that is written and read.                                         *)
(***************************************************************************)
\* The loop of ndef_message_generate_smart_poster_record lets go of the first
\* part once for every part: with two of them it has been freed before.
LetGoTwice(d) ==
  d.type = "SmartPoster" /\ Valid(d) /\ Generate(d) # Crash /\ Len(Parts(d)) > 1

\* on_write of tag.c; a dictionary that is not valid has no record.
Write(d) ==
  /\ phase = "idle"
  /\ asked' = d
  /\ \/ Valid(d) /\ Generate(d) # Crash /\ phase' = "written" /\ message' = Generate(d)
     \/ ~Valid(d) /\ phase' = "crashed" /\ UNCHANGED message
     \/ Valid(d) /\ Generate(d) = Crash /\ phase' = "crashed" /\ UNCHANGED message
     \/ LetGoTwice(d) /\ phase' = "crashed" /\ UNCHANGED message
  /\ records' = <<>>

\* Another writer, which may use ids.
Framed(f, mb, me) ==
  <<[mb |-> mb, me |-> me, sr |-> TRUE, il |-> f.id # <<>>, tnf |-> f.tnf]>>
    \o <<Len(f.type), Len(f.payload)>>
    \o (IF f.id # <<>> THEN <<Len(f.id)>> ELSE <<>>)
    \o f.type \o f.id \o f.payload

WriteForeign(list) ==
  /\ phase = "idle"
  /\ asked' = list
  /\ message' = FlattenSeq([i \in DOMAIN list |-> Framed(list[i], i = 1, i = Len(list))])
  /\ phase' = "foreign"
  /\ records' = <<>>

\* tag_populate_records.
Read ==
  /\ phase \in {"written", "foreign"}
  /\ records' = Parse(message)
  /\ phase' = IF phase = "written" THEN "read" ELSE "read foreign"
  /\ UNCHANGED <<asked, message>>

Next ==
  \/ \E d \in Dictionaries : Write(d)
  \/ \E f \in Frames : WriteForeign(<<f>>)
  \/ \E f, g \in Frames : WriteForeign(<<f, g>>)
  \/ Read

Spec == Init /\ [][Next]_vars

=============================================================================
