--------------------------- MODULE TagRefsProofs ---------------------------
(***************************************************************************)
(* Proofs about TagRefs, for any number of threads, references and memory  *)
(* cells: as long as every caller holds a reference of its own, counting   *)
(* under the entry's mutex is safe although the entry was looked up under  *)
(* the table's, and the calls are the single steps HalTag makes of them.   *)
(***************************************************************************)
EXTENDS TagRefsInv, FiniteSetTheorems, TLAPS

-----------------------------------------------------------------------------
(***************************************************************************)
(* Tables and counts.                                                      *)
(***************************************************************************)
LEMMA WithIs ==
  ASSUME NEW f, NEW x, NEW y
  PROVE  /\ DOMAIN With(f, x, y) = DOMAIN f \cup {x}
         /\ With(f, x, y)[x] = y
         /\ \A i \in DOMAIN f : i # x => With(f, x, y)[i] = f[i]
BY DEF With

LEMMA WithoutIs ==
  ASSUME NEW f, NEW x
  PROVE  /\ DOMAIN Without(f, x) = DOMAIN f \ {x}
         /\ \A i \in DOMAIN f \ {x} : Without(f, x)[i] = f[i]
BY DEF Without

LEMMA TokensFinite ==
  ASSUME TypeOK, NEW c
  PROVE  IsFiniteSet(TokensOn(c)) /\ Cardinality(TokensOn(c)) \in Nat
<1>1. TokensOn(c) \subseteq Tokens
  BY DEF TypeOK, TokensOn
<1>2. QED
  BY <1>1, FS_Subset, FS_CardinalityType, TagRefsAssumption

\* A new reference counts once, on its own entry.
LEMMA TokenAdded ==
  ASSUME TypeOK, NEW r \in Tokens \ DOMAIN token, NEW x, token' = With(token, r, x), NEW c
  PROVE  Cardinality(TokensOn(c)') = Cardinality(TokensOn(c)) + (IF x.cell = c THEN 1 ELSE 0)
<1>1. r \notin TokensOn(c)
  BY DEF TokensOn
<1> /\ DOMAIN token' = DOMAIN token \cup {r} /\ token'[r] = x
    /\ \A s \in DOMAIN token : token'[s] = token[s]
  BY DEF With
<1>2. CASE x.cell = c
  <2>1. TokensOn(c)' = TokensOn(c) \cup {r}
    BY <1>2 DEF TokensOn
  <2>2. QED
    BY <1>1, <1>2, <2>1, TokensFinite, FS_AddElement
<1>3. CASE x.cell # c
  <2>1. TokensOn(c)' = TokensOn(c)
    BY <1>3 DEF TokensOn
  <2>2. QED
    BY <1>3, <2>1, TokensFinite
<1>4. QED
  BY <1>2, <1>3

LEMMA TokenRemoved ==
  ASSUME TypeOK, NEW r \in DOMAIN token, token' = Without(token, r), NEW c
  PROVE  Cardinality(TokensOn(c)') = Cardinality(TokensOn(c)) - (IF token[r].cell = c THEN 1 ELSE 0)
<1> /\ DOMAIN token' = DOMAIN token \ {r}
    /\ \A s \in DOMAIN token \ {r} : token'[s] = token[s]
  BY WithoutIs
<1>1. CASE token[r].cell = c
  <2>1. r \in TokensOn(c) /\ TokensOn(c)' = TokensOn(c) \ {r}
    BY <1>1 DEF TokensOn
  <2>2. Cardinality(TokensOn(c)') = Cardinality(TokensOn(c)) - 1
    BY <2>1, TokensFinite, FS_RemoveElement
  <2>3. QED
    BY <1>1, <2>2
<1>2. CASE token[r].cell # c
  <2>1. TokensOn(c)' = TokensOn(c)
    BY <1>2 DEF TokensOn
  <2>2. QED
    BY <1>2, <2>1, TokensFinite
<1>3. QED
  BY <1>1, <1>2

LEMMA TokensUnchanged ==
  ASSUME UNCHANGED token, NEW c
  PROVE  TokensOn(c)' = TokensOn(c)
BY DEF TokensOn

\* A reference on an entry keeps its count above zero.
LEMMA HeldMeansCounted ==
  ASSUME IInv, NEW r \in DOMAIN token
  PROVE  /\ token[r].cell \in DOMAIN entry
         /\ entry[token[r].cell].refs \in Nat \ {0}
<1>1. token[r].cell \in DOMAIN entry /\ r \in TokensOn(token[r].cell)
  BY DEF IInv, TokensAreLive, TokensOn
<1>2. Cardinality(TokensOn(token[r].cell)) \in Nat /\ Cardinality(TokensOn(token[r].cell)) # 0
  BY <1>1, TokensFinite, FS_EmptySet DEF IInv
<1>3. QED
  BY <1>1, <1>2 DEF IInv, CountsReferences

-----------------------------------------------------------------------------
(***************************************************************************)
(* The inductive invariant, action by action.                              *)
(***************************************************************************)
LEMMA InitHolds == Init => IInv
<1>1. SUFFICES ASSUME Init PROVE IInv
  OBVIOUS
<1>2. DOMAIN table = {} /\ DOMAIN entry = {} /\ DOMAIN token = {} /\ DOMAIN thread = {}
  BY <1>1 DEF Init
<1>3. QED
  BY <1>2 DEF IInv, TypeOK, TokensAreLive, TableIsSound, CountsReferences, CallersHold,
              MutexHeld, LastOneOut, NothingForgotten

LEMMA NewHolds ==
  ASSUME IInv, NEW t \in Threads, New(t)
  PROVE  IInv'
<1>1. PICK id \in Ids, c \in Cells \ DOMAIN entry, r \in Tokens \ DOMAIN token :
        /\ FirstFree(id)
        /\ table' = With(table, id, c)
        /\ entry' = With(entry, c, [refs |-> 1, mutex |-> NoThread])
        /\ token' = With(token, r, [id |-> id, cell |-> c, owner |-> t])
  BY DEF New
<1>2. id \notin DOMAIN table /\ thread' = thread
  BY <1>1 DEF New, FirstFree
<1>3. /\ DOMAIN table' = DOMAIN table \cup {id} /\ table'[id] = c
      /\ \A i \in DOMAIN table : table'[i] = table[i]
  BY <1>1, <1>2 DEF With
<1>4. /\ DOMAIN entry' = DOMAIN entry \cup {c} /\ entry'[c] = [refs |-> 1, mutex |-> NoThread]
      /\ \A d \in DOMAIN entry : entry'[d] = entry[d]
  BY <1>1 DEF With
<1>5. /\ DOMAIN token' = DOMAIN token \cup {r} /\ token'[r] = [id |-> id, cell |-> c, owner |-> t]
      /\ \A s \in DOMAIN token : token'[s] = token[s]
  BY <1>1 DEF With
<1>6. TypeOK'
  BY <1>2, <1>3, <1>4, <1>5 DEF IInv, TypeOK
<1>7. TokensAreLive'
  BY <1>2, <1>3, <1>4, <1>5 DEF IInv, TokensAreLive
<1>8. TableIsSound'
  BY <1>3, <1>4 DEF IInv, TableIsSound
<1>9. CountsReferences'
  <2>1. TokensOn(c) = {}
    BY DEF IInv, TokensAreLive, TokensOn
  <2>2. Cardinality(TokensOn(c)') = 1
    BY <1>1, <2>1, TokenAdded, FS_EmptySet DEF IInv
  <2>3. ASSUME NEW d \in DOMAIN entry
        PROVE  Cardinality(TokensOn(d)') = Cardinality(TokensOn(d))
    BY <1>1, TokenAdded, TokensFinite DEF IInv
  <2>4. QED
    BY <1>4, <2>2, <2>3 DEF IInv, CountsReferences
<1>10. CallersHold'
  BY <1>2, <1>5 DEF IInv, CallersHold
<1>11. MutexHeld'
  BY <1>2, <1>4 DEF IInv, MutexHeld, CallersHold, TokensAreLive
<1>12. LastOneOut'
  BY <1>2, <1>3, <1>4 DEF IInv, LastOneOut
<1>13. NothingForgotten'
  BY <1>2, <1>4 DEF IInv, NothingForgotten
<1>14. QED
  BY <1>6, <1>7, <1>8, <1>9, <1>10, <1>11, <1>12, <1>13 DEF IInv

LEMMA CallHolds ==
  ASSUME Careless = {}, IInv, NEW t \in Threads, Call(t)
  PROVE  IInv'
<1>1. PICK op \in {"ref", "unref", "read"}, r \in Tokens : Holds(t, r) /\ Lookup(t, op, token[r].id, r)
  BY DEF Call, MayName
<1> DEFINE new == [at |-> "lock", op |-> op, id |-> token[r].id,
                   cell |-> table[token[r].id], seen |-> 0, by |-> r]
<1>2. /\ r \in DOMAIN token /\ token[r].owner = t
      /\ token[r].id \in DOMAIN table
      /\ t \notin DOMAIN thread
      /\ thread' = With(thread, t, new)
      /\ table' = table /\ entry' = entry /\ token' = token
  BY <1>1 DEF Holds, Lookup, Idle
<1>3. table[token[r].id] = token[r].cell
  BY <1>2 DEF IInv, TokensAreLive
<1>4. new \in [at : {"lock", "count", "remove", "free"}, op : {"ref", "unref", "read"},
               id : Ids, cell : Cells, seen : Nat, by : Tokens]
  <2>1. token[r].id \in Ids /\ table[token[r].id] \in Cells
    BY <1>2 DEF IInv, TypeOK
  <2>2. QED
    BY <2>1
<1> HIDE DEF new
<1>5. /\ DOMAIN thread' = DOMAIN thread \cup {t} /\ thread'[t] = new
      /\ \A u \in DOMAIN thread : thread'[u] = thread[u]
  BY <1>2 DEF With
<1>6. TypeOK'
  BY <1>2, <1>4, <1>5 DEF IInv, TypeOK
<1>7. TokensAreLive' /\ TableIsSound'
  BY <1>2 DEF IInv, TokensAreLive, TableIsSound
<1>8. CountsReferences'
  BY <1>2, TokensUnchanged DEF IInv, CountsReferences
<1>9. CallersHold'
  BY <1>2, <1>3, <1>5 DEF IInv, CallersHold, new
<1>10. new.at = "lock"
  BY DEF new
<1>11. MutexHeld'
  BY <1>2, <1>5, <1>10 DEF IInv, MutexHeld
<1>12. LastOneOut'
  BY <1>2, <1>5, <1>10 DEF IInv, LastOneOut
<1>13. NothingForgotten'
  BY <1>2, <1>5, <1>10 DEF IInv, NothingForgotten
<1>14. QED
  BY <1>6, <1>7, <1>8, <1>9, <1>11, <1>12, <1>13 DEF IInv

LEMMA LockHolds ==
  ASSUME IInv, NEW t \in Threads, Lock(t)
  PROVE  IInv'
<1> DEFINE c == thread[t].cell
<1>1. /\ t \in DOMAIN thread /\ thread[t].at = "lock"
      /\ c \in DOMAIN entry /\ entry[c].mutex = NoThread
      /\ entry' = [entry EXCEPT ![c].mutex = t]
      /\ thread' = [thread EXCEPT ![t].at = "count", ![t].seen = entry[c].refs]
      /\ table' = table /\ token' = token
  BY DEF Lock, At
<1>2. /\ DOMAIN entry' = DOMAIN entry
      /\ \A d \in DOMAIN entry : /\ entry'[d] \in [refs : Nat, mutex : Threads \cup {NoThread}]
                                 /\ entry'[d].refs = entry[d].refs
                                 /\ entry'[d].mutex = IF d = c THEN t ELSE entry[d].mutex
  BY <1>1 DEF IInv, TypeOK
<1>3. /\ DOMAIN thread' = DOMAIN thread
      /\ \A u \in DOMAIN thread : u # t => thread'[u] = thread[u]
  BY <1>1
<1>4. /\ thread'[t] \in [at : {"lock", "count", "remove", "free"}, op : {"ref", "unref", "read"},
                         id : Ids, cell : Cells, seen : Nat, by : Tokens]
      /\ thread'[t].at = "count" /\ thread'[t].seen = entry[c].refs
      /\ thread'[t].cell = c /\ thread'[t].by = thread[t].by /\ thread'[t].id = thread[t].id
  <2>1. thread'[t] = [[thread[t] EXCEPT !.at = "count"] EXCEPT !.seen = entry[c].refs]
    BY <1>1
  <2>2. thread[t] \in [at : {"lock", "count", "remove", "free"}, op : {"ref", "unref", "read"},
                       id : Ids, cell : Cells, seen : Nat, by : Tokens]
    BY <1>1 DEF IInv, TypeOK
  <2>3. entry[c].refs \in Nat
    BY <1>1 DEF IInv, TypeOK
  <2>4. QED
    BY <2>1, <2>2, <2>3
<1> HIDE DEF c
<1>5. TypeOK'
  BY <1>1, <1>2, <1>3, <1>4 DEF IInv, TypeOK
<1>6. TokensAreLive' /\ TableIsSound'
  BY <1>1, <1>2 DEF IInv, TokensAreLive, TableIsSound
<1>7. CountsReferences'
  BY <1>1, <1>2, TokensUnchanged DEF IInv, CountsReferences
<1>8. CallersHold'
  BY <1>1, <1>3, <1>4 DEF IInv, CallersHold, c
<1>9. MutexHeld'
  <2>1. \A u \in DOMAIN thread : thread[u].at = "count" => thread[u].cell # c
    BY <1>1, TagRefsAssumption DEF IInv, MutexHeld, TypeOK
  <2>2. \A u \in DOMAIN thread : thread[u].at = "count" => thread[u].cell \in DOMAIN entry
    BY DEF IInv, CallersHold, TokensAreLive
  <2>3. QED
    BY <1>1, <1>2, <1>3, <1>4, <2>1, <2>2 DEF IInv, MutexHeld
<1>10. LastOneOut'
  BY <1>1, <1>2, <1>3, <1>4 DEF IInv, LastOneOut
<1>11. NothingForgotten'
  BY <1>1, <1>2, <1>3, <1>4 DEF IInv, NothingForgotten
<1>12. QED
  BY <1>5, <1>6, <1>7, <1>8, <1>9, <1>10, <1>11 DEF IInv

\* Whoever counts has the entry to itself, and it is not one to be freed.
LEMMA CounterIsAlone ==
  ASSUME IInv, NEW t \in DOMAIN thread, thread[t].at = "count"
  PROVE  /\ thread[t].by \in DOMAIN token /\ token[thread[t].by].owner = t
         /\ token[thread[t].by].cell = thread[t].cell
         /\ thread[t].id \in DOMAIN table /\ table[thread[t].id] = thread[t].cell
         /\ thread[t].cell \in DOMAIN entry /\ thread[t].seen \in Nat \ {0}
         /\ entry[thread[t].cell].refs = thread[t].seen
         /\ \A u \in DOMAIN thread :
              thread[u].at # "lock" /\ thread[u].cell = thread[t].cell => u = t
<1>1. /\ thread[t].by \in DOMAIN token /\ token[thread[t].by].owner = t
      /\ token[thread[t].by].cell = thread[t].cell
      /\ token[thread[t].by].id = thread[t].id
  BY DEF IInv, CallersHold
<1>2. thread[t].id \in DOMAIN table /\ table[thread[t].id] = thread[t].cell
  BY <1>1 DEF IInv, TokensAreLive
<1>3. /\ thread[t].cell \in DOMAIN entry /\ entry[thread[t].cell].refs \in Nat \ {0}
      /\ entry[thread[t].cell].refs = thread[t].seen /\ entry[thread[t].cell].mutex = t
  BY <1>1, HeldMeansCounted DEF IInv, MutexHeld
<1>4. ASSUME NEW u \in DOMAIN thread, thread[u].at # "lock", thread[u].cell = thread[t].cell
      PROVE  u = t
  <2>1. CASE thread[u].at = "count"
    BY <1>3, <1>4, <2>1 DEF IInv, MutexHeld
  <2>2. CASE thread[u].at \in {"remove", "free"}
    BY <1>3, <1>4, <2>2 DEF IInv, LastOneOut
  <2>3. thread[u].at \in {"lock", "count", "remove", "free"}
    BY DEF IInv, TypeOK
  <2>4. QED
    BY <1>4, <2>1, <2>2, <2>3
<1>5. QED
  BY <1>1, <1>2, <1>3, <1>4

LEMMA CountHolds ==
  ASSUME IInv, NEW t \in Threads, Count(t)
  PROVE  IInv'
<1>1. t \in DOMAIN thread /\ thread[t].at = "count" /\ table' = table
  BY DEF Count, At
<1>2. PICK c \in Cells : c = thread[t].cell
  BY <1>1 DEF IInv, TypeOK
<1> DEFINE n == thread[t].seen
           EntryIs(k) == entry' = With(entry, c, [refs |-> k, mutex |-> NoThread])
<1>3. /\ thread[t].by \in DOMAIN token /\ token[thread[t].by].owner = t
      /\ token[thread[t].by].cell = c
      /\ thread[t].id \in DOMAIN table /\ table[thread[t].id] = c
      /\ c \in DOMAIN entry /\ n \in Nat \ {0} /\ entry[c].refs = n
      /\ \A u \in DOMAIN thread : thread[u].at # "lock" /\ thread[u].cell = c => u = t
  BY <1>1, <1>2, CounterIsAlone
<1> HIDE DEF n
<1>4. ASSUME NEW k \in Nat, EntryIs(k)
      PROVE  /\ DOMAIN entry' = DOMAIN entry /\ entry'[c] = [refs |-> k, mutex |-> NoThread]
             /\ \A d \in DOMAIN entry : d # c => entry'[d] = entry[d]
  BY <1>3, <1>4 DEF With
<1>5. ASSUME thread' = Without(thread, t)
      PROVE  /\ DOMAIN thread' = DOMAIN thread \ {t}
             /\ \A u \in DOMAIN thread' : thread'[u] = thread[u]
  BY <1>5 DEF Without
<1>6. CASE /\ thread[t].op = "ref"
           /\ \E r \in Tokens \ DOMAIN token :
                token' = With(token, r, [id |-> thread[t].id, cell |-> c, owner |-> t])
           /\ EntryIs(n + 1)
           /\ thread' = Without(thread, t)
  <2>1. PICK r \in Tokens \ DOMAIN token :
          token' = With(token, r, [id |-> thread[t].id, cell |-> c, owner |-> t])
    BY <1>6
  <2>2. /\ DOMAIN token' = DOMAIN token \cup {r}
        /\ token'[r] = [id |-> thread[t].id, cell |-> c, owner |-> t]
        /\ \A s \in DOMAIN token : token'[s] = token[s]
    BY <2>1 DEF With
  <2>3. /\ DOMAIN entry' = DOMAIN entry /\ entry'[c] = [refs |-> n + 1, mutex |-> NoThread]
        /\ \A d \in DOMAIN entry : d # c => entry'[d] = entry[d]
    BY <1>3, <1>4, <1>6
  <2>4. DOMAIN thread' = DOMAIN thread \ {t} /\ \A u \in DOMAIN thread' : thread'[u] = thread[u]
    BY <1>5, <1>6
  <2>5. TypeOK'
    BY <1>1, <1>2, <1>3, <2>2, <2>3, <2>4 DEF IInv, TypeOK
  <2>6. TokensAreLive' /\ TableIsSound'
    BY <1>1, <1>3, <2>2, <2>3 DEF IInv, TokensAreLive, TableIsSound
  <2>7. CountsReferences'
    <3>1. Cardinality(TokensOn(c)') = Cardinality(TokensOn(c)) + 1
      BY <2>1, TokenAdded, TokensFinite DEF IInv
    <3>2. ASSUME NEW d \in DOMAIN entry, d # c
          PROVE  Cardinality(TokensOn(d)') = Cardinality(TokensOn(d))
      BY <2>1, <3>2, TokenAdded, TokensFinite DEF IInv
    <3>3. QED
      BY <1>3, <2>3, <3>1, <3>2 DEF IInv, CountsReferences
  <2>8. CallersHold'
    BY <2>2, <2>4 DEF IInv, CallersHold
  <2>9. MutexHeld'
    BY <1>3, <2>3, <2>4 DEF IInv, MutexHeld, CallersHold, TokensAreLive
  <2>10. LastOneOut'
    BY <1>1, <1>3, <2>3, <2>4 DEF IInv, LastOneOut
  <2>11. NothingForgotten'
    BY <1>1, <1>2, <1>3, <2>3, <2>4 DEF IInv, NothingForgotten
  <2>12. QED
    BY <2>5, <2>6, <2>7, <2>8, <2>9, <2>10, <2>11 DEF IInv
<1>7. CASE /\ thread[t].op = "unref"
           /\ token' = Without(token, thread[t].by)
           /\ EntryIs(n - 1)
           /\ thread' = IF n = 1 THEN [thread EXCEPT ![t].at = "remove"] ELSE Without(thread, t)
  <2> DEFINE b == thread[t].by
  <2>1. /\ DOMAIN token' = DOMAIN token \ {b}
        /\ \A s \in DOMAIN token' : token'[s] = token[s]
    BY <1>7 DEF Without
  <2>2. /\ DOMAIN entry' = DOMAIN entry /\ entry'[c] = [refs |-> n - 1, mutex |-> NoThread]
        /\ \A d \in DOMAIN entry : d # c => entry'[d] = entry[d]
    BY <1>3, <1>4, <1>7
  <2>3. /\ DOMAIN thread' = IF n = 1 THEN DOMAIN thread ELSE DOMAIN thread \ {t}
        /\ \A u \in DOMAIN thread' : u # t => thread'[u] = thread[u]
    BY <1>1, <1>5, <1>7
  <2>4. ASSUME n = 1
        PROVE  /\ thread'[t] \in [at : {"lock", "count", "remove", "free"}, op : {"ref", "unref", "read"},
                                  id : Ids, cell : Cells, seen : Nat, by : Tokens]
               /\ thread'[t].at = "remove" /\ thread'[t].cell = c /\ thread'[t].id = thread[t].id
    <3>1. thread'[t] = [thread[t] EXCEPT !.at = "remove"]
      BY <1>1, <1>7, <2>4
    <3>2. QED
      BY <1>1, <1>2, <3>1 DEF IInv, TypeOK
  <2>5. TypeOK'
    BY <1>1, <1>3, <2>1, <2>2, <2>3, <2>4 DEF IInv, TypeOK
  <2>6. TokensAreLive' /\ TableIsSound'
    BY <1>1, <2>1, <2>2 DEF IInv, TokensAreLive, TableIsSound
  <2>7. CountsReferences'
    <3>1. Cardinality(TokensOn(c)') = Cardinality(TokensOn(c)) - 1
      BY <1>3, <1>7, TokenRemoved, TokensFinite DEF IInv
    <3>2. ASSUME NEW d \in DOMAIN entry, d # c
          PROVE  Cardinality(TokensOn(d)') = Cardinality(TokensOn(d))
      BY <1>3, <1>7, <3>2, TokenRemoved, TokensFinite DEF IInv
    <3>3. QED
      BY <1>3, <2>2, <3>1, <3>2 DEF IInv, CountsReferences
  <2>8. CallersHold'
    BY <1>3, <2>1, <2>3, <2>4 DEF IInv, CallersHold
  <2>9. MutexHeld'
    BY <1>3, <2>2, <2>3, <2>4 DEF IInv, MutexHeld, CallersHold, TokensAreLive
  <2>10. LastOneOut'
    <3>1. CASE n = 1
      BY <1>1, <1>3, <2>2, <2>3, <2>4, <3>1 DEF IInv, LastOneOut
    <3>2. CASE n # 1
      BY <1>1, <1>3, <2>2, <2>3, <3>2 DEF IInv, LastOneOut
    <3>3. QED
      BY <3>1, <3>2
  <2>11. NothingForgotten'
    <3>1. CASE n = 1
      BY <1>1, <1>2, <1>3, <2>2, <2>3, <2>4, <3>1 DEF IInv, NothingForgotten
    <3>2. CASE n # 1
      BY <1>1, <1>2, <1>3, <2>2, <2>3, <3>2 DEF IInv, NothingForgotten
    <3>3. QED
      BY <3>1, <3>2
  <2>12. QED
    BY <2>5, <2>6, <2>7, <2>8, <2>9, <2>10, <2>11 DEF IInv
<1>8. CASE /\ thread[t].op = "read"
           /\ EntryIs(n)
           /\ thread' = Without(thread, t)
           /\ token' = token
  <2>1. /\ DOMAIN entry' = DOMAIN entry /\ entry'[c] = [refs |-> n, mutex |-> NoThread]
        /\ \A d \in DOMAIN entry : d # c => entry'[d] = entry[d]
    BY <1>3, <1>4, <1>8
  <2>2. DOMAIN thread' = DOMAIN thread \ {t} /\ \A u \in DOMAIN thread' : thread'[u] = thread[u]
    BY <1>5, <1>8
  <2>3. TypeOK'
    BY <1>1, <1>3, <1>8, <2>1, <2>2 DEF IInv, TypeOK
  <2>4. TokensAreLive' /\ TableIsSound'
    BY <1>1, <1>8, <2>1 DEF IInv, TokensAreLive, TableIsSound
  <2>5. CountsReferences'
    BY <1>3, <1>8, <2>1, TokensUnchanged DEF IInv, CountsReferences
  <2>6. CallersHold'
    BY <1>8, <2>2 DEF IInv, CallersHold
  <2>7. MutexHeld'
    BY <1>3, <2>1, <2>2 DEF IInv, MutexHeld, CallersHold, TokensAreLive
  <2>8. LastOneOut'
    BY <1>1, <1>3, <2>1, <2>2 DEF IInv, LastOneOut
  <2>9. NothingForgotten'
    BY <1>1, <1>2, <1>3, <2>1, <2>2 DEF IInv, NothingForgotten
  <2>10. QED
    BY <2>3, <2>4, <2>5, <2>6, <2>7, <2>8, <2>9 DEF IInv
<1>9. QED
  BY <1>2, <1>6, <1>7, <1>8 DEF Count, n

LEMMA RemoveHolds ==
  ASSUME IInv, NEW t \in Threads, Remove(t)
  PROVE  IInv'
<1> DEFINE i0 == thread[t].id
<1>1. /\ t \in DOMAIN thread /\ thread[t].at = "remove"
      /\ table' = Without(table, i0)
      /\ thread' = [thread EXCEPT ![t].at = "free"]
      /\ entry' = entry /\ token' = token
  BY DEF Remove, At
<1>2. /\ thread[t].cell \in DOMAIN entry /\ entry[thread[t].cell].refs = 0
      /\ i0 \in DOMAIN table /\ table[i0] = thread[t].cell
  BY <1>1 DEF IInv, LastOneOut
<1>3. \A r \in DOMAIN token : token[r].id # i0
  BY <1>2, HeldMeansCounted DEF IInv, TokensAreLive
<1>4. DOMAIN table' = DOMAIN table \ {i0} /\ \A i \in DOMAIN table' : table'[i] = table[i]
  BY <1>1 DEF Without
<1>5. /\ DOMAIN thread' = DOMAIN thread
      /\ \A u \in DOMAIN thread : u # t => thread'[u] = thread[u]
  BY <1>1
<1>6. /\ thread'[t] \in [at : {"lock", "count", "remove", "free"}, op : {"ref", "unref", "read"},
                         id : Ids, cell : Cells, seen : Nat, by : Tokens]
      /\ thread'[t].at = "free" /\ thread'[t].cell = thread[t].cell
  <2>1. thread'[t] = [thread[t] EXCEPT !.at = "free"]
    BY <1>1
  <2>2. QED
    BY <1>1, <2>1 DEF IInv, TypeOK
<1> HIDE DEF i0
<1>7. TypeOK'
  BY <1>1, <1>4, <1>5, <1>6 DEF IInv, TypeOK
<1>8. TokensAreLive' /\ TableIsSound'
  BY <1>1, <1>3, <1>4 DEF IInv, TokensAreLive, TableIsSound
<1>9. CountsReferences'
  BY <1>1, TokensUnchanged DEF IInv, CountsReferences
<1>10. CallersHold'
  BY <1>1, <1>5, <1>6 DEF IInv, CallersHold
<1>11. MutexHeld'
  BY <1>1, <1>5, <1>6 DEF IInv, MutexHeld
<1>12. LastOneOut'
  BY <1>1, <1>2, <1>4, <1>5, <1>6 DEF IInv, LastOneOut, TableIsSound
<1>13. NothingForgotten'
  BY <1>1, <1>5, <1>6 DEF IInv, NothingForgotten
<1>14. QED
  BY <1>7, <1>8, <1>9, <1>10, <1>11, <1>12, <1>13 DEF IInv

LEMMA FreeHolds ==
  ASSUME IInv, NEW t \in Threads, Free(t)
  PROVE  IInv'
<1> DEFINE c == thread[t].cell
<1>1. /\ t \in DOMAIN thread /\ thread[t].at = "free"
      /\ entry' = Without(entry, c)
      /\ thread' = Without(thread, t)
      /\ table' = table /\ token' = token
  BY DEF Free, At
<1>2. /\ c \in DOMAIN entry /\ entry[c].refs = 0
      /\ \A id \in DOMAIN table : table[id] # c
      /\ \A u \in DOMAIN thread : thread[u].at \in {"remove", "free"} /\ thread[u].cell = c => u = t
  BY <1>1 DEF IInv, LastOneOut
<1>3. DOMAIN entry' = DOMAIN entry \ {c} /\ \A d \in DOMAIN entry' : entry'[d] = entry[d]
  BY <1>1 DEF Without
<1>4. DOMAIN thread' = DOMAIN thread \ {t} /\ \A u \in DOMAIN thread' : thread'[u] = thread[u]
  BY <1>1 DEF Without
<1> HIDE DEF c
<1>5. TypeOK'
  BY <1>1, <1>3, <1>4 DEF IInv, TypeOK
<1>6. TokensAreLive' /\ TableIsSound'
  BY <1>1, <1>2, <1>3 DEF IInv, TokensAreLive, TableIsSound
<1>7. CountsReferences'
  BY <1>1, <1>3, TokensUnchanged DEF IInv, CountsReferences
<1>8. CallersHold'
  BY <1>1, <1>4 DEF IInv, CallersHold
<1>9. MutexHeld'
  <2>1. \A u \in DOMAIN thread : thread[u].at = "count" => thread[u].cell \in DOMAIN entry /\ thread[u].cell # c
    BY <1>2, CounterIsAlone
  <2>2. QED
    BY <1>3, <1>4, <2>1 DEF IInv, MutexHeld
<1>10. LastOneOut'
  BY <1>1, <1>2, <1>3, <1>4 DEF IInv, LastOneOut
<1>11. NothingForgotten'
  BY <1>1, <1>3, <1>4 DEF IInv, NothingForgotten, c
<1>12. QED
  BY <1>5, <1>6, <1>7, <1>8, <1>9, <1>10, <1>11 DEF IInv

LEMMA HandOverHolds ==
  ASSUME IInv, NEW t \in Threads, HandOver(t)
  PROVE  IInv'
<1>1. PICK r \in Tokens, u \in Threads : Holds(t, r) /\ token' = [token EXCEPT ![r].owner = u]
  BY DEF HandOver
<1>2. /\ r \in DOMAIN token /\ token[r].owner = t /\ t \notin DOMAIN thread
      /\ table' = table /\ entry' = entry /\ thread' = thread
  BY <1>1 DEF HandOver, Holds, Idle
<1>3. /\ DOMAIN token' = DOMAIN token
      /\ \A s \in DOMAIN token : s # r => token'[s] = token[s]
      /\ token'[r] = [token[r] EXCEPT !.owner = u]
  BY <1>1, <1>2
<1>4. /\ \A s \in DOMAIN token : token'[s].cell = token[s].cell /\ token'[s].id = token[s].id
      /\ \A s \in DOMAIN token : token'[s] \in [id : Ids, cell : Cells, owner : Threads]
  BY <1>2, <1>3 DEF IInv, TypeOK
<1>5. TypeOK'
  BY <1>2, <1>3, <1>4 DEF IInv, TypeOK
<1>6. TokensAreLive' /\ TableIsSound'
  BY <1>2, <1>3, <1>4 DEF IInv, TokensAreLive, TableIsSound
<1>7. CountsReferences'
  <2>1. ASSUME NEW c PROVE TokensOn(c)' = TokensOn(c)
    BY <1>3, <1>4 DEF TokensOn
  <2>2. QED
    BY <1>2, <2>1 DEF IInv, CountsReferences
<1>8. CallersHold'
  BY <1>2, <1>3, <1>4 DEF IInv, CallersHold
<1>9. MutexHeld' /\ LastOneOut' /\ NothingForgotten'
  BY <1>2 DEF IInv, MutexHeld, LastOneOut, NothingForgotten
<1>10. QED
  BY <1>5, <1>6, <1>7, <1>8, <1>9 DEF IInv

-----------------------------------------------------------------------------
(***************************************************************************)
(* The theorems, for callers that keep to the rule.                        *)
(***************************************************************************)

\* The inductive invariant holds in every reachable state of hal_tag.c's table.
THEOREM CarefulCallersKeepInvariant ==
  ASSUME Careless = {}
  PROVE  Spec => []IInv
<1>1. IInv /\ [Next]_vars => IInv'
  <2>1. SUFFICES ASSUME IInv, [Next]_vars PROVE IInv'
    OBVIOUS
  <2>2. CASE UNCHANGED vars
    <3>1. table' = table /\ entry' = entry /\ token' = token /\ thread' = thread
      BY <2>2 DEF vars
    <3>2. CountsReferences'
      BY <2>1, <3>1, TokensUnchanged DEF IInv, CountsReferences
    <3>3. QED
      BY <2>1, <3>1, <3>2 DEF IInv, TypeOK, TokensAreLive, TableIsSound, CallersHold,
                              MutexHeld, LastOneOut, NothingForgotten
  <2>3. CASE Next
    <3>1. PICK t \in Threads :
            \/ New(t) \/ Call(t) \/ Lock(t) \/ Count(t) \/ Remove(t) \/ Free(t) \/ HandOver(t)
      BY <2>3 DEF Next
    <3>2. QED
      BY <2>1, <3>1, NewHolds, CallHolds, LockHolds, CountHolds, RemoveHolds, FreeHolds, HandOverHolds
  <2>4. QED
    BY <2>1, <2>2, <2>3
<1>2. QED
  BY <1>1, InitHolds, PTL DEF Spec

\* An entry found under the table's mutex is still there when it is counted or
\* read under its own.
THEOREM FoundEntriesStayAlive ==
  ASSUME Careless = {}
  PROVE  Spec => []TouchesLiveEntries
<1>1. IInv => TouchesLiveEntries
  BY DEF IInv, CallersHold, TokensAreLive, TouchesLiveEntries
<1>2. QED
  BY <1>1, CarefulCallersKeepInvariant, PTL

\* No update of a count is lost.
THEOREM CountsAreExact ==
  ASSUME Careless = {}
  PROVE  Spec => []CountsReferences
<1>1. IInv => CountsReferences
  BY DEF IInv
<1>2. QED
  BY <1>1, CarefulCallersKeepInvariant, PTL

\* Whatever has lost its last reference is about to be freed, by one thread.
THEOREM LastReferenceFrees ==
  ASSUME Careless = {}
  PROVE  Spec => []NothingForgotten
<1>1. IInv => NothingForgotten
  BY DEF IInv
<1>2. QED
  BY <1>1, CarefulCallersKeepInvariant, PTL

-----------------------------------------------------------------------------
(***************************************************************************)
(* The refinement.                                                         *)
(***************************************************************************)
LEMMA CountsIs ==
  /\ DOMAIN Counts = DOMAIN table
  /\ \A id \in DOMAIN table :
       Counts[id] = [refs |-> IF entry[table[id]].refs = 0 THEN 1 ELSE entry[table[id]].refs]
BY DEF Counts

\* A new entry is a new entry of RefCounting, under the smallest free id.
LEMMA NewIsNew ==
  ASSUME IInv, NEW t \in Threads, New(t)
  PROVE  Abstract!New
<1>1. PICK id \in Ids, c \in Cells \ DOMAIN entry :
        /\ FirstFree(id)
        /\ table' = With(table, id, c)
        /\ entry' = With(entry, c, [refs |-> 1, mutex |-> NoThread])
  BY DEF New
<1>2. /\ DOMAIN table' = DOMAIN table \cup {id} /\ table'[id] = c
      /\ \A i \in DOMAIN table : table'[i] = table[i]
  BY <1>1 DEF With, FirstFree
<1>3. entry'[c].refs = 1 /\ \A d \in DOMAIN entry : entry'[d] = entry[d]
  BY <1>1 DEF With
<1>4. \A i \in DOMAIN table : table[i] \in DOMAIN entry
  BY DEF IInv, TableIsSound
<1>5. Counts' = [i \in DOMAIN Counts \cup {id} |-> IF i = id THEN [refs |-> 1] ELSE Counts[i]]
  BY <1>1, <1>2, <1>3, <1>4 DEF Counts, FirstFree
<1>6. QED
  BY <1>1, <1>5, CountsIs DEF Abstract!New, Abstract!With, Abstract!Ids, Ids, FirstFree

\* The write-back of a count is the step, unless it writes zero or nothing new.
LEMMA CountIsRefOrUnref ==
  ASSUME IInv, NEW t \in Threads, Count(t)
  PROVE  Abstract!TakeRef \/ Abstract!DropRef \/ Counts' = Counts
<1>1. t \in DOMAIN thread /\ thread[t].at = "count" /\ table' = table
  BY DEF Count, At
<1>2. PICK c \in Cells : c = thread[t].cell
  BY <1>1 DEF IInv, TypeOK
<1>3. PICK id : id = thread[t].id
  OBVIOUS
<1>4. PICK n \in Nat \ {0} : n = thread[t].seen
  BY <1>1, CounterIsAlone
<1>5. id \in DOMAIN table /\ table[id] = c /\ c \in DOMAIN entry /\ entry[c].refs = n
  BY <1>1, <1>2, <1>3, <1>4, CounterIsAlone
<1>6. \A i \in DOMAIN table : table[i] \in DOMAIN entry /\ (table[i] = c => i = id)
  BY <1>5 DEF IInv, TableIsSound
<1>7. ASSUME NEW k \in Nat, entry' = With(entry, c, [refs |-> k, mutex |-> NoThread])
      PROVE  Counts' = [Counts EXCEPT ![id].refs = IF k = 0 THEN 1 ELSE k]
  <2>1. entry'[c].refs = k /\ \A d \in DOMAIN entry : d # c => entry'[d] = entry[d]
    BY <1>7 DEF With
  <2>2. \A i \in DOMAIN table : Counts'[i] = [refs |-> IF entry'[table[i]].refs = 0 THEN 1 ELSE entry'[table[i]].refs]
    BY <1>1 DEF Counts
  <2>3. DOMAIN Counts' = DOMAIN table
    BY <1>1 DEF Counts
  <2>4. \A i \in DOMAIN table : i # id => Counts'[i] = Counts[i]
    BY <1>6, <2>1, <2>2, CountsIs
  <2>5. Counts'[id] = [refs |-> IF k = 0 THEN 1 ELSE k]
    BY <1>5, <2>1, <2>2
  <2>6. [Counts[id] EXCEPT !.refs = IF k = 0 THEN 1 ELSE k] = [refs |-> IF k = 0 THEN 1 ELSE k]
    BY <1>5, CountsIs
  <2>7. Counts' = [i \in DOMAIN table |-> Counts'[i]]
    BY <1>1 DEF Counts
  <2>8. QED
    BY <1>5, <2>3, <2>4, <2>5, <2>6, <2>7, CountsIs
<1>8. id \in DOMAIN Counts /\ Counts[id].refs = n
  BY <1>4, <1>5, CountsIs
<1>9. CASE entry' = With(entry, c, [refs |-> n + 1, mutex |-> NoThread])
  <2>1. Counts' = [Counts EXCEPT ![id].refs = n + 1]
    BY <1>4, <1>7, <1>9
  <2>2. QED
    BY <1>8, <2>1 DEF Abstract!TakeRef, Abstract!Ref
<1>10. CASE entry' = With(entry, c, [refs |-> n - 1, mutex |-> NoThread])
  <2>1. CASE n = 1
    <3>1. Counts' = [Counts EXCEPT ![id].refs = 1]
      BY <1>7, <1>10, <2>1
    <3>2. Counts[id] = [refs |-> 1]
      BY <1>5, <2>1, CountsIs
    <3>3. QED
      BY <1>8, <3>1, <3>2 DEF Counts
  <2>2. CASE n # 1
    <3>1. Counts' = [Counts EXCEPT ![id].refs = n - 1]
      BY <1>4, <1>7, <1>10, <2>2
    <3>2. QED
      BY <1>8, <2>2, <3>1 DEF Abstract!DropRef, Abstract!Unref
  <2>3. QED
    BY <2>1, <2>2
<1>11. CASE entry' = With(entry, c, [refs |-> n, mutex |-> NoThread])
  <2>1. Counts' = [Counts EXCEPT ![id].refs = n]
    BY <1>4, <1>7, <1>11
  <2>2. Counts[id] = [refs |-> n]
    BY <1>4, <1>5, CountsIs
  <2>3. QED
    BY <1>8, <2>1, <2>2 DEF Counts
<1>12. QED
  BY <1>2, <1>4, <1>9, <1>10, <1>11 DEF Count

\* Taking the entry out of the table is the last unref.
LEMMA RemoveIsLastUnref ==
  ASSUME IInv, NEW t \in Threads, Remove(t)
  PROVE  Abstract!DropRef
<1>1. /\ t \in DOMAIN thread /\ thread[t].at = "remove"
      /\ table' = Without(table, thread[t].id) /\ entry' = entry
  BY DEF Remove, At
<1>2. PICK id : id = thread[t].id
  OBVIOUS
<1>3. id \in DOMAIN table /\ entry[table[id]].refs = 0
  BY <1>1, <1>2 DEF IInv, LastOneOut
<1>4. DOMAIN table' = DOMAIN table \ {id} /\ \A i \in DOMAIN table' : table'[i] = table[i]
  BY <1>1, <1>2 DEF Without
<1>5. Counts' = [i \in DOMAIN Counts \ {id} |-> Counts[i]]
  BY <1>1, <1>4 DEF Counts
<1>6. id \in DOMAIN Counts /\ Counts[id].refs = 1
  BY <1>3, CountsIs
<1>7. QED
  BY <1>5, <1>6 DEF Abstract!DropRef, Abstract!Unref, Abstract!Without

\* Freeing is not seen: the cell is in the table no more.
LEMMA FreeIsNothing ==
  ASSUME IInv, NEW t \in Threads, Free(t)
  PROVE  Counts' = Counts
<1>1. /\ t \in DOMAIN thread /\ thread[t].at = "free"
      /\ entry' = Without(entry, thread[t].cell) /\ table' = table
  BY DEF Free, At
<1>2. \A id \in DOMAIN table : table[id] # thread[t].cell /\ table[id] \in DOMAIN entry
  BY <1>1 DEF IInv, LastOneOut, TableIsSound
<1>3. \A id \in DOMAIN table : entry'[table[id]] = entry[table[id]]
  BY <1>1, <1>2 DEF Without
<1>4. QED
  BY <1>1, <1>3 DEF Counts

LEMMA LockIsNothing ==
  ASSUME IInv, NEW t \in Threads, Lock(t)
  PROVE  Counts' = Counts
<1>1. table' = table /\ entry' = [entry EXCEPT ![thread[t].cell].mutex = t]
  BY DEF Lock
<1>2. \A c \in DOMAIN entry : entry'[c].refs = entry[c].refs
  BY <1>1 DEF IInv, TypeOK
<1>3. \A id \in DOMAIN table : table[id] \in DOMAIN entry
  BY DEF IInv, TableIsSound
<1>4. QED
  BY <1>1, <1>2, <1>3 DEF Counts

\* hal_impl_tag_new, hal_tag_ref and hal_tag_unref, with their two mutexes, are
\* the single steps on a table of counts that HalTag takes them for.
THEOREM CallsAreAtomic ==
  ASSUME Careless = {}
  PROVE  Spec => ImplementsRefCounting
<1>1. Init => Abstract!Init
  BY DEF Init, Abstract!Init, Counts
<1>2. IInv /\ [Next]_vars => [Abstract!Next]_Counts
  <2>1. SUFFICES ASSUME IInv, [Next]_vars PROVE [Abstract!Next]_Counts
    OBVIOUS
  <2>2. CASE UNCHANGED vars
    BY <2>2 DEF vars, Counts
  <2>3. CASE Next
    <3>1. PICK t \in Threads :
            \/ New(t) \/ Call(t) \/ Lock(t) \/ Count(t) \/ Remove(t) \/ Free(t) \/ HandOver(t)
      BY <2>3 DEF Next
    <3>2. CASE Call(t) \/ HandOver(t)
      BY <3>2 DEF Call, Lookup, HandOver, Counts
    <3>3. QED
      BY <2>1, <3>1, <3>2, NewIsNew, LockIsNothing, CountIsRefOrUnref, RemoveIsLastUnref,
         FreeIsNothing DEF Abstract!Next
  <2>4. QED
    BY <2>1, <2>2, <2>3
<1>3. QED
  BY <1>1, <1>2, CarefulCallersKeepInvariant, PTL DEF Spec, ImplementsRefCounting, Abstract!Spec

=============================================================================
