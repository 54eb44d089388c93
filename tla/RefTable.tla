------------------------------ MODULE RefTable ------------------------------
(***************************************************************************)
(* The tables hal_tag.c and hal_device.c keep their entries in, by id, as  *)
(* functions of their contents.  The two files hold the same code twice,   *)
(* once for tags and once for peer devices; an entry is freed, and its id  *)
(* free again, when its last reference is dropped.                         *)
(*                                                                         *)
(* An operator whose comment starts with "Slip" is not part of the model:  *)
(* it is the definition that follows it with a plausible mistake.          *)
(***************************************************************************)
EXTENDS Naturals

Without(table, id) == [i \in DOMAIN table \ {id} |-> table[i]]

With(table, id, entry) ==
  [i \in DOMAIN table \cup {id} |-> IF i = id THEN entry ELSE table[i]]

RefNothing(table, id) == table  \* Slip: the count stays

Ref(table, id) == [table EXCEPT ![id].refs = @ + 1]

UnrefOnly(table, id) == [table EXCEPT ![id].refs = @ - 1]  \* Slip: nothing is freed

Unref(table, id) ==
  IF table[id].refs = 1 THEN Without(table, id)
                        ELSE [table EXCEPT ![id].refs = @ - 1]

StayConnected(table, id) == table  \* Slip: the entry is not marked

Disconnected(table, id) == [table EXCEPT ![id].connected = FALSE]

=============================================================================
