------------------------------ MODULE TagRefs ------------------------------
(***************************************************************************)
(* pTagTable of hal_tag.c between its mutexes.  A caller names an entry by *)
(* its id; the entry is looked up under the table's mutex, and counted or  *)
(* read under its own mutex once the table's has been released; whoever    *)
(* counts down to zero takes the entry out of the table, then frees it.    *)
(* HalTag and HalDevice take each of these as one step (hal_device.c has   *)
(* the same functions for pDeviceTable).                                   *)
(*                                                                         *)
(* A token is one reference: the session's, the adapter's, or one that     *)
(* travels with a callback.  The program has no such thing.                *)
(***************************************************************************)
EXTENDS RefTable, FiniteSets

CONSTANTS
  Threads,   \* the threads that use the table
  Careless,  \* those that also name entries they hold no reference on
  NoThread,  \* no thread
  Cells,     \* the memory entries are allocated in
  Tokens,    \* bound: the references there can be at a time
  MaxId      \* bound: the largest id

ASSUME TagRefsAssumption ==
  /\ NoThread \notin Threads
  /\ Careless \subseteq Threads
  /\ MaxId \in Nat
  /\ IsFiniteSet(Tokens) /\ IsFiniteSet(Threads)

VARIABLES
  table,   \* pTagTable: the cell of each id in use
  entry,   \* the allocated cells: reference count and mutex
  token,   \* by token in use: the id and cell it is on, the thread that drops it
  thread   \* the threads inside a function of hal_tag.c

vars == <<table, entry, token, thread>>

Ids == 0..MaxId

Init ==
  /\ table = <<>>
  /\ entry = <<>>
  /\ token = <<>>
  /\ thread = <<>>

-----------------------------------------------------------------------------
(***************************************************************************)
(* hal_impl_tag_new: one critical section of the table's mutex.            *)
(***************************************************************************)
Idle(t) == t \in Threads \ DOMAIN thread

\* Every ref under way finds a token when it gets there.
Refs == {t \in DOMAIN thread : thread[t].op = "ref"}
TokenLeft == Cardinality(Tokens \ DOMAIN token) > Cardinality(Refs)

AlwaysZero(id) == id = 0  \* Slip: every tag gets id 0

FirstFree(id) ==
  id \in Ids \ DOMAIN table /\ \A i \in Ids : i < id => i \in DOMAIN table

New(t) ==
  /\ Idle(t)
  /\ TokenLeft
  /\ \E id \in Ids, c \in Cells \ DOMAIN entry, r \in Tokens \ DOMAIN token :
       /\ FirstFree(id)
       /\ table' = With(table, id, c)
       /\ entry' = With(entry, c, [refs |-> 1, mutex |-> NoThread])
       /\ token' = With(token, r, [id |-> id, cell |-> c, owner |-> t])
  /\ UNCHANGED thread

-----------------------------------------------------------------------------
(***************************************************************************)
(* hal_tag_ref, hal_tag_unref and the functions that read or mark an entry *)
(* (hal_tag_is_connected, hal_impl_tag_disconnected and others).           *)
(***************************************************************************)

Holds(t, r) == r \in DOMAIN token /\ token[r].owner = t

\* Under the table's mutex: an id that is not there ends the process.
Lookup(t, op, id, r) ==
  /\ Idle(t)
  /\ op = "ref" => TokenLeft
  /\ id \in DOMAIN table
  /\ thread' = With(thread, t,
       [at |-> "lock", op |-> op, id |-> id, cell |-> table[id], seen |-> 0, by |-> r])
  /\ UNCHANGED <<table, entry, token>>

\* Slip: any reference will do, be it somebody else's.
MayNameAny(t, op, id, r) == r \in DOMAIN token /\ id = token[r].id

\* A caller that keeps to the rule has a reference of its own for as long as
\* the call lasts; an unref gives that one up.  hal_impl_tag_ndef_write has only
\* the id that its command brought along.
MayName(t, op, id, r) ==
  \/ Holds(t, r) /\ id = token[r].id
  \/ t \in Careless /\ op = "ref" /\ r \notin DOMAIN token

Call(t) ==
  \E op \in {"ref", "unref", "read"}, id \in Ids, r \in Tokens :
    MayName(t, op, id, r) /\ Lookup(t, op, id, r)

At(t, place) == t \in DOMAIN thread /\ thread[t].at = place

\* Slip: the count is read outside the entry's mutex.
LockNothing(t) ==
  /\ At(t, "lock")
  /\ thread[t].cell \in DOMAIN entry
  /\ entry' = [entry EXCEPT ![thread[t].cell].mutex = t]
  /\ thread' = [thread EXCEPT ![t].at = "count", ![t].seen = entry[thread[t].cell].refs]
  /\ UNCHANGED <<table, token>>

\* The entry's mutex is taken and its count read.
Lock(t) ==
  /\ At(t, "lock")
  /\ thread[t].cell \in DOMAIN entry
  /\ entry[thread[t].cell].mutex = NoThread
  /\ entry' = [entry EXCEPT ![thread[t].cell].mutex = t]
  /\ thread' = [thread EXCEPT ![t].at = "count", ![t].seen = entry[thread[t].cell].refs]
  /\ UNCHANGED <<table, token>>

\* The count is written back and the mutex released.
Count(t) ==
  /\ At(t, "count")
  /\ LET c == thread[t].cell
         n == thread[t].seen
     IN  \/ /\ thread[t].op = "ref"
            /\ \E r \in Tokens \ DOMAIN token :
                 token' = With(token, r, [id |-> thread[t].id, cell |-> c, owner |-> t])
            /\ entry' = With(entry, c, [refs |-> n + 1, mutex |-> NoThread])
            /\ thread' = Without(thread, t)
         \/ /\ thread[t].op = "unref"
            /\ token' = Without(token, thread[t].by)
            /\ entry' = With(entry, c, [refs |-> n - 1, mutex |-> NoThread])
            /\ thread' = IF n = 1 THEN [thread EXCEPT ![t].at = "remove"] ELSE Without(thread, t)
         \/ /\ thread[t].op = "read"
            /\ entry' = With(entry, c, [refs |-> n, mutex |-> NoThread])
            /\ thread' = Without(thread, t)
            /\ UNCHANGED token
  /\ UNCHANGED table

\* Slip: the entry is taken out and forgotten.
RemoveOnly(t) ==
  /\ At(t, "remove")
  /\ table' = Without(table, thread[t].id)
  /\ thread' = Without(thread, t)
  /\ UNCHANGED <<entry, token>>

\* The last one out takes the entry from the table, under the table's mutex ...
Remove(t) ==
  /\ At(t, "remove")
  /\ table' = Without(table, thread[t].id)
  /\ thread' = [thread EXCEPT ![t].at = "free"]
  /\ UNCHANGED <<entry, token>>

\* ... and frees it.
Free(t) ==
  /\ At(t, "free")
  /\ entry' = Without(entry, thread[t].cell)
  /\ thread' = Without(thread, t)
  /\ UNCHANGED <<table, token>>

\* A reference changes hands: a callback is posted, or the thread that drops
\* the reference is another than the one that took it.
HandOver(t) ==
  /\ Idle(t)
  /\ \E r \in Tokens, u \in Threads : Holds(t, r) /\ token' = [token EXCEPT ![r].owner = u]
  /\ UNCHANGED <<table, entry, thread>>

-----------------------------------------------------------------------------
Next ==
  \E t \in Threads :
    New(t) \/ Call(t) \/ Lock(t) \/ Count(t) \/ Remove(t) \/ Free(t) \/ HandOver(t)

Spec == Init /\ [][Next]_vars

=============================================================================
