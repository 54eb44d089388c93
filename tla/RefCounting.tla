---------------------------- MODULE RefCounting ----------------------------
(***************************************************************************)
(* What the callers of hal_tag.c and hal_device.c, and the modules HalTag  *)
(* and HalDevice with them, take a table of counted entries to be: entries *)
(* are made, counted and freed in one step each.                           *)
(***************************************************************************)
EXTENDS RefTable

CONSTANT MaxId  \* bound: the largest id

VARIABLE table  \* by id, the entries in use

Ids == 0..MaxId

Init == table = <<>>

New ==
  \E id \in Ids \ DOMAIN table :
    /\ \A i \in Ids : i < id => i \in DOMAIN table
    /\ table' = With(table, id, [refs |-> 1])

TakeRef  == \E id \in DOMAIN table : table' = Ref(table, id)
DropRef  == \E id \in DOMAIN table : table' = Unref(table, id)

Next == New \/ TakeRef \/ DropRef

Spec == Init /\ [][Next]_table

=============================================================================
