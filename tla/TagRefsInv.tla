----------------------------- MODULE TagRefsInv -----------------------------
(***************************************************************************)
(* What must be true of TagRefs, the invariant it follows from, and the    *)
(* mapping that makes TagRefs an implementation of RefCounting.            *)
(***************************************************************************)
EXTENDS TagRefs

TypeOK ==
  /\ DOMAIN table \subseteq Ids
  /\ \A id \in DOMAIN table : table[id] \in Cells
  /\ DOMAIN entry \subseteq Cells
  /\ \A c \in DOMAIN entry : entry[c] \in [refs : Nat, mutex : Threads \cup {NoThread}]
  /\ DOMAIN token \subseteq Tokens
  /\ \A r \in DOMAIN token : token[r] \in [id : Ids, cell : Cells, owner : Threads]
  /\ DOMAIN thread \subseteq Threads
  /\ \A t \in DOMAIN thread :
       thread[t] \in [at : {"lock", "count", "remove", "free"}, op : {"ref", "unref", "read"},
                      id : Ids, cell : Cells, seen : Nat, by : Tokens]

-----------------------------------------------------------------------------
(***************************************************************************)
(* Safety.                                                                 *)
(***************************************************************************)

\* A thread that has found an entry and goes on without the table's mutex
\* still finds it allocated, and in the table under the id it asked for
\* ("Make sure tag won't get destroyed by other thread", hal_tag.c:445).
TouchesLiveEntries ==
  \A t \in DOMAIN thread :
    thread[t].at \in {"lock", "count"} =>
      /\ thread[t].cell \in DOMAIN entry
      /\ thread[t].id \in DOMAIN table
      /\ table[thread[t].id] = thread[t].cell

TokensOn(c) == {r \in DOMAIN token : token[r].cell = c}

\* hal_tag_ref and hal_tag_unref lose no update: the count is the number of
\* references.
CountsReferences ==
  \A c \in DOMAIN entry : entry[c].refs = Cardinality(TokensOn(c))

\* hal_tag_unref frees what it took out of the table and nothing is forgotten:
\* memory without a reference has exactly one thread about to free it.
NothingForgotten ==
  \A c \in DOMAIN entry : entry[c].refs = 0 =>
    \E t \in DOMAIN thread : thread[t].at \in {"remove", "free"} /\ thread[t].cell = c

-----------------------------------------------------------------------------
(***************************************************************************)
(* The inductive invariant, of threads that keep to the rule.              *)
(***************************************************************************)

\* A reference is on an entry that is in the table under the reference's id.
TokensAreLive ==
  \A r \in DOMAIN token :
    /\ token[r].id \in DOMAIN table
    /\ table[token[r].id] = token[r].cell
    /\ token[r].cell \in DOMAIN entry

\* A cell of the table is allocated, and is there once.
TableIsSound ==
  /\ \A id \in DOMAIN table : table[id] \in DOMAIN entry
  /\ \A i, j \in DOMAIN table : table[i] = table[j] => i = j

\* A thread on its way to count has a reference of its own on that entry.
CallersHold ==
  \A t \in DOMAIN thread :
    thread[t].at \in {"lock", "count"} =>
      /\ thread[t].by \in DOMAIN token
      /\ token[thread[t].by].owner = t
      /\ token[thread[t].by].cell = thread[t].cell
      /\ token[thread[t].by].id = thread[t].id

\* The count read is the count still, and the mutex is the reader's.
MutexHeld ==
  \A t \in DOMAIN thread :
    thread[t].at = "count" =>
      /\ entry[thread[t].cell].mutex = t
      /\ entry[thread[t].cell].refs = thread[t].seen

\* Whoever is to take out or to free an entry is alone with it.
LastOneOut ==
  /\ \A t \in DOMAIN thread :
       thread[t].at \in {"remove", "free"} =>
         /\ thread[t].cell \in DOMAIN entry
         /\ entry[thread[t].cell].refs = 0
         /\ \A u \in DOMAIN thread :
              thread[u].at \in {"remove", "free"} /\ thread[u].cell = thread[t].cell => u = t
  /\ \A t \in DOMAIN thread :
       thread[t].at = "remove" =>
         thread[t].id \in DOMAIN table /\ table[thread[t].id] = thread[t].cell
  /\ \A t \in DOMAIN thread :
       thread[t].at = "free" => \A id \in DOMAIN table : table[id] # thread[t].cell

IInv ==
  /\ TypeOK
  /\ TokensAreLive
  /\ TableIsSound
  /\ CountsReferences
  /\ CallersHold
  /\ MutexHeld
  /\ LastOneOut
  /\ NothingForgotten

-----------------------------------------------------------------------------
(***************************************************************************)
(* Refinement: the last unref takes effect when the entry leaves the       *)
(* table, every other call when it counts.                                 *)
(***************************************************************************)
Counts ==
  [id \in DOMAIN table |->
     [refs |-> IF entry[table[id]].refs = 0 THEN 1 ELSE entry[table[id]].refs]]

Abstract == INSTANCE RefCounting WITH table <- Counts

\* For callers that keep to the rule the functions of hal_tag.c are the single
\* steps that HalTag takes them for, with the smallest free id for a new entry.
ImplementsRefCounting == Abstract!Spec

=============================================================================
