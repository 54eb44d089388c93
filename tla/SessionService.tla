---------------------------- MODULE SessionService ---------------------------
(***************************************************************************)
(* What a bus client may rely on, whatever threads, queues and reference   *)
(* counts lie below: the things the radio meets (tags, peer devices) are   *)
(* shown on the bus one at a time, in the order they were met, each of     *)
(* them exactly once, and none is taken away before the radio is done      *)
(* with it.                                                                *)
(***************************************************************************)
EXTENDS Sequences

CONSTANTS Things, Nothing

VARIABLES
  onAir,    \* the thing the radio is busy with
  unshown,  \* things met by the radio and not shown yet, oldest first
  shown,    \* the thing shown on the bus
  serving   \* "not yet", "yes" and "no more": the daemon is on the bus

vars == <<onAir, unshown, shown, serving>>

Init ==
  /\ onAir = Nothing
  /\ unshown = <<>>
  /\ shown = Nothing
  /\ serving = "not yet"

Open ==
  /\ serving = "not yet"
  /\ serving' = "yes"
  /\ UNCHANGED <<onAir, unshown, shown>>

\* The radio meets a thing ...
Meet(t) ==
  /\ onAir = Nothing
  /\ onAir' = t
  /\ unshown' = IF serving = "yes" THEN Append(unshown, t) ELSE unshown
  /\ UNCHANGED <<shown, serving>>

\* ... and is done with it.
Part ==
  /\ onAir # Nothing
  /\ onAir' = Nothing
  /\ UNCHANGED <<unshown, shown, serving>>

Show ==
  /\ serving = "yes"
  /\ shown = Nothing
  /\ unshown # <<>>
  /\ shown' = Head(unshown)
  /\ unshown' = Tail(unshown)
  /\ UNCHANGED <<onAir, serving>>

\* The shown thing is the radio's present one as long as none is unshown.
Hide ==
  /\ shown # Nothing
  /\ onAir = Nothing \/ unshown # <<>>
  /\ shown' = Nothing
  /\ UNCHANGED <<onAir, unshown, serving>>

\* The daemon leaves the bus and takes everything with it.
Close ==
  /\ serving # "no more"
  /\ serving' = "no more"
  /\ shown' = Nothing
  /\ unshown' = <<>>
  /\ UNCHANGED onAir

Next ==
  \/ Open
  \/ \E t \in Things : Meet(t)
  \/ Part
  \/ Show
  \/ Hide
  \/ Close

Spec == Init /\ [][Next]_vars

=============================================================================
