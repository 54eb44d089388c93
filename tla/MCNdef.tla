------------------------------- MODULE MCNdef -------------------------------
(***************************************************************************)
(* Ndef for TLC: a byte of eight values, so that URIs and texts of three   *)
(* characters in a smart poster already need a long record, and            *)
(* abbreviations that contain one another in both orders, as those of the  *)
(* program do.                                                             *)
(***************************************************************************)
EXTENDS NdefInv, TLC

Strings(n) == UNION {[1..k -> {"h", "w"}] : k \in 0..n}

MCAbbreviations == <<<<>>, <<"h", "w">>, <<"h">>, <<"w">>, <<"w", "h", "w">>>>

Texts ==
  {[Blank EXCEPT !.type = "Text", !.language = l, !.representation = t, !.utf16 = e] :
     l \in Strings(2) \cup {None}, t \in Strings(2) \cup {<<"h", "h", "w", "w", "h", "h", "w">>},
     e \in BOOLEAN}

Uris == {[Blank EXCEPT !.type = "URI", !.uri = u] : u \in Strings(6) \cup {None}}

Aars == {[Blank EXCEPT !.type = "AAR", !.package = p] : p \in {<<"h">>, <<"w", "h">>, <<>>, None}}

\* Fields that the type of the record does not have.
Mixed == {[Blank EXCEPT !.type = t, !.uri = <<"w">>, !.language = <<"h">>, !.representation = <<"h">>,
             !.mime = <<"h">>, !.size = 9, !.action = "Do", !.package = <<"w">>] :
            t \in {"Text", "URI", "AAR"}}

Posters ==
  {[Blank EXCEPT !.uri = u, !.representation = t, !.language = <<"h">>, !.size = s, !.action = a] :
     u \in Strings(3) \cup {None}, t \in {None, <<>>, <<"w">>}, s \in {0, 1, 9}, a \in {None, "Save"}}

MCDictionaries ==
  Texts \cup Uris \cup Aars \cup Posters \cup Mixed \cup {[Blank EXCEPT !.type = "HandoverSelect"]}

MCFrames ==
  [tnf : {"well known"}, type : {UriType}, id : {<<>>, <<"i">>, <<"i", "j">>},
   payload : {<<0>>, <<1, "w">>, <<4, "h">>, <<6>>}]
  \cup [tnf : {"well known"}, type : {TextType}, id : {<<>>, <<"i">>},
        payload : {<<[utf16 |-> TRUE, language |-> 1], "h", "w">>,
                   <<[utf16 |-> FALSE, language |-> 2], "h">>}]
  \cup [tnf : {"external"}, type : {AarType}, id : {<<>>}, payload : {<<>>, <<"w">>}]
  \cup [tnf : {"media"}, type : {<<"h", "w">>}, id : {<<"i">>}, payload : {<<>>, <<"w">>}]
  \cup [tnf : {"unknown"}, type : {<<>>}, id : {<<>>}, payload : {<<>>, <<"w">>}]
  \cup [tnf : {"well known"}, type : {PosterType}, id : {<<>>},
        payload : {<<>>, Make("well known", UriType, <<1>>, TRUE, TRUE)}]

=============================================================================
