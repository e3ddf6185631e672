-------------------------- MODULE SourceSyncProofs --------------------------
(***************************************************************************)
(* What TLAPS proves of SourceSync: its types, that no document is         *)
(* committed without its job or its DLQ row, that families stay            *)
(* consistent, and that a sync that reports success has stored everything. *)
(***************************************************************************)
EXTENDS SourceSync, FiniteSetTheorems, TLAPS

Creating == {"select", "family", "insert", "unlatest", "store"}

-----------------------------------------------------------------------------
(* Types.  An item is counted as failed at most once, so the items counted, *)
(* the one being created and those still to visit are at most all of them.  *)

Pending(r) == IF pc[r] \in Creating \cup {"fail"} THEN 1 ELSE 0
CountInv ==
  \A r \in Requests :
    /\ pc[r] # "idle" => failed[r] + Pending(r) + Cardinality(todo[r]) <= Cardinality(Items)
    /\ pc[r] \in Creating \cup {"fail"} => cur[r] \in Files
SyncType == STypeOK /\ faults \in Nat /\ CountInv

-----------------------------------------------------------------------------
(* What has been stored.                                                   *)

\* Nothing is written without its job or DLQ row, unless these are committed.
QueuedInv ==
  /\ EveryDocumentQueued
  /\ \A r \in Requests, f \in Files :
       writes[r].docs[f] # None => f \in writes[r].queued \cup writes[r].dlq \cup queued \cup dlq

\* While no item has failed, all that the walk has yielded is there, but for
\* the one that is being created.
StoredInv ==
  \A r \in Requests :
    /\ pc[r] = "aborted" => failed[r] > 0
    /\ pc[r] # "idle" /\ failed[r] = 0 =>
         \A f \in seen[r] :
           Doc(r, f) # None \/ (f = cur[r] /\ pc[r] \in Creating \cup {"fail"})

-----------------------------------------------------------------------------
(* Consistent families.                                                    *)

DocsSeen(r) == [f \in Files |-> Doc(r, f)]
Versions(D, i) == {c \in Contents : D[<<i, c>>] # None}
Numbered(D, i) ==
  {D[<<i, c>>].number : c \in Versions(D, i)} = 1..Cardinality(Versions(D, i))

Consistent(D, current, i) ==
  IF current = None THEN Versions(D, i) = {}
  ELSE /\ Numbered(D, i)
       /\ \A c \in Versions(D, i) :
            /\ D[<<i, c>>].latest <=> c = current
            /\ D[<<i, c>>].latest <=> D[<<i, c>>].number = Cardinality(Versions(D, i))
       /\ current \in Versions(D, i)

\* The family already points to the document that is going to be stored.
Awaiting(D, current, i) ==
  /\ current # None /\ current \notin Versions(D, i)
  /\ Numbered(D, i)
  /\ \A c \in Versions(D, i) : ~D[<<i, c>>].latest

\* What a transaction has written.
WritesInv ==
  \A r \in Requests :
    /\ pc[r] \in {"idle", "aborted"} => writes[r] = Nothing
    /\ \A i \in Items, c \in Contents :
         writes[r].docs[<<i, c>>] # None => writes[r].family[i] # None
    /\ \A q \in Requests, i \in Items :
         writes[r].family[i] # None /\ writes[q].family[i] # None => r = q
    /\ pc[r] = "insert" => writes[r].family[cur[r][1]] = None
    /\ pc[r] = "store" => writes[r].family[cur[r][1]] = cur[r][2]

\* SQLite has one writer, so what it has read stays true.
SqliteInv ==
  dialect = "sqlite" =>
    \A r \in Requests :
      /\ \A q \in Requests : pc[r] # "idle" /\ pc[q] # "idle" => q = r
      /\ pc[r] \in {"family", "insert", "unlatest"} => Doc(r, cur[r]) = None
      /\ pc[r] = "insert" => Family(r, cur[r][1]) = None
      /\ pc[r] = "unlatest" => Family(r, cur[r][1]) # None
      /\ faults = 0 => pc[r] # "fail"

\* Every transaction sees consistent families, but for the one it is changing.
ViewInv ==
  faults = 0 \/ dialect = "postgresql" =>
    /\ \A i \in Items : Consistent(docs, family[i], i)
    /\ \A r \in Requests, i \in Items :
         pc[r] \in Creating \cup {"walk"} =>
           IF pc[r] = "store" /\ i = cur[r][1] THEN Awaiting(DocsSeen(r), Family(r, i), i)
           ELSE Consistent(DocsSeen(r), Family(r, i), i)

FamilyInv == SyncType /\ WritesInv /\ SqliteInv /\ ViewInv

-----------------------------------------------------------------------------
(* Steps of one request.                                                   *)

StepOf(r) ==
  \/ Start(r) \/ (\E i \in Items : Visit(r, i))
  \/ SelectSame(r) \/ SelectFamily(r) \/ InsertFamily(r) \/ DropLatest(r)
  \/ Store(r) \/ EnqueueFails(r) \/ StatementFails(r) \/ ItemFails(r)
  \/ Finish(r) \/ FinishAborted(r) \/ SourceFails(r)

LEMMA NextIsStep ==
  ASSUME [Next]_vars
  PROVE  \/ UNCHANGED vars
         \/ \E i \in Items, c \in Contents : Edit(i, c)
         \/ \E r \in Requests : StepOf(r)
BY DEF Next, StepOf

Untouched(q) ==
  /\ pc'[q] = pc[q] /\ todo'[q] = todo[q] /\ cur'[q] = cur[q] /\ seen'[q] = seen[q]
  /\ writes'[q] = writes[q] /\ failed'[q] = failed[q]

LEMMA OthersUntouched ==
  ASSUME STypeOK, NEW r \in Requests, StepOf(r), NEW q \in Requests, q # r
  PROVE  Untouched(q)
<1> USE DEF Untouched, STypeOK, Goto
<1>1. CASE Start(r) \/ SelectSame(r) \/ SelectFamily(r) \/ InsertFamily(r)
  BY <1>1 DEF Start, SelectSame, SelectFamily, InsertFamily
<1>2. ASSUME NEW i \in Items, Visit(r, i) PROVE Untouched(q)
  BY <1>2 DEF Visit
<1>3. CASE DropLatest(r) \/ Store(r)
  BY <1>3 DEF DropLatest, Store
<1>4. CASE EnqueueFails(r) \/ StatementFails(r) \/ ItemFails(r)
  BY <1>4 DEF EnqueueFails, StatementFails, ItemFails
<1>5. CASE Finish(r) \/ FinishAborted(r) \/ SourceFails(r)
  BY <1>5 DEF Finish, FinishAborted, SourceFails
<1> QED BY <1>1, <1>2, <1>3, <1>4, <1>5 DEF StepOf

-----------------------------------------------------------------------------
(* Types.                                                                  *)

Written == [docs : [Files -> Row \cup {None}], family : [Items -> Contents \cup {None}],
            queued : SUBSET Files, dlq : SUBSET Files]

LEMMA NumberOfItems ==
  /\ Cardinality(Items) \in Nat \ {0}
  /\ \A S \in SUBSET Items : IsFiniteSet(S) /\ Cardinality(S) \in 0..Cardinality(Items)
<1>1. Cardinality(Items) \in Nat /\ Cardinality(Items) # 0
  BY ItemsAssumption, FS_CardinalityType, FS_EmptySet
<1>2. ASSUME NEW S \in SUBSET Items PROVE IsFiniteSet(S) /\ Cardinality(S) \in 0..Cardinality(Items)
  <2>1. IsFiniteSet(S) /\ Cardinality(S) <= Cardinality(Items)
    BY ItemsAssumption, FS_Subset
  <2>2. Cardinality(S) \in Nat
    BY <2>1, FS_CardinalityType
  <2> QED BY <1>1, <2>1, <2>2
<1> QED BY <1>1, <1>2

LEMMA NothingType == Nothing \in Written
BY DEF Nothing, NoDocs, NoFamily, Written

LEMMA WrittenType ==
  ASSUME STypeOK, NEW r \in Requests
  PROVE  /\ writes[r] \in Written
         /\ writes[r].docs \in [Files -> Row \cup {None}]
         /\ writes[r].family \in [Items -> Contents \cup {None}]
         /\ writes[r].queued \in SUBSET Files /\ writes[r].dlq \in SUBSET Files
         /\ \A f \in Files : Doc(r, f) \in Row \cup {None}
         /\ \A i \in Items : Family(r, i) \in Contents \cup {None}
BY DEF STypeOK, Written, Doc, Family

LEMMA NextNumberType ==
  ASSUME NEW r \in Requests, NEW i \in Items
  PROVE  NextNumber(r, i) \in Nat \ {0}
<1> DEFINE V == {c \in Contents : Doc(r, <<i, c>>) # None}
<1>1. Cardinality(V) \in Nat
  BY ItemsAssumption, FS_Subset, FS_CardinalityType
<1> HIDE DEF V
<1>2. 1 + Cardinality(V) \in Nat \ {0}
  BY <1>1
<1> QED BY <1>2 DEF NextNumber, V

LEMMA SyncTypeInitially == Init => SyncType
<1> SUFFICES ASSUME Init PROVE SyncType
  OBVIOUS
<1>1. Nothing \in Written
  BY NothingType
<1>2. writes \in [Requests -> Written]
  BY <1>1 DEF Init
<1>3. failed \in [Requests -> 0..Cardinality(Items)]
  BY NumberOfItems DEF Init
<1>4. STypeOK
  BY <1>2, <1>3 DEF Init, STypeOK, PC, NoDocs, NoFamily, Written
<1> QED BY <1>4 DEF Init, SyncType, CountInv, Creating

\* What a request has written after its step, types included.
LEMMA WritesAfter ==
  ASSUME SyncType, NEW r \in Requests, StepOf(r)
  PROVE  writes' \in [Requests -> Written]
<1>1. writes \in [Requests -> Written] /\ Nothing \in Written /\ writes[r] \in Written
  BY NothingType, WrittenType DEF SyncType, STypeOK, Written
<1>2. CASE writes' = writes \/ writes' = [writes EXCEPT ![r] = Nothing]
  BY <1>1, <1>2
<1>3. CASE InsertFamily(r)
  <2>1. cur[r] \in Files
    BY <1>3 DEF InsertFamily, SyncType, CountInv, Creating
  <2>2. [writes[r] EXCEPT !.family[cur[r][1]] = cur[r][2]] \in Written
    BY <1>1, <2>1 DEF Written, Files
  <2> QED BY <1>1, <1>3, <2>2 DEF InsertFamily
<1>4. CASE DropLatest(r)
  <2>1. cur[r] \in Files
    BY <1>4 DEF DropLatest, SyncType, CountInv, Creating
  <2> DEFINE i == cur[r][1]
             dropped == [f \in Files |-> IF f[1] = i /\ Doc(r, f) # None
                                         THEN [Doc(r, f) EXCEPT !.latest = FALSE]
                                         ELSE writes[r].docs[f]]
  <2>2. dropped \in [Files -> Row \cup {None}]
    <3>1. \A f \in Files : Doc(r, f) # None => [Doc(r, f) EXCEPT !.latest = FALSE] \in Row
      BY WrittenType DEF SyncType, Row
    <3> QED BY <3>1, WrittenType DEF SyncType
  <2>3. [writes[r] EXCEPT !.family[i] = cur[r][2], !.docs = dropped] \in Written
    BY <1>1, <2>1, <2>2 DEF Written, Files
  <2>4. writes' = writes \/ writes' = [writes EXCEPT ![r] = [writes[r] EXCEPT !.family[i] = cur[r][2], !.docs = dropped]]
    BY <1>1, <1>4 DEF DropLatest, Written
  <2> QED BY <1>1, <2>3, <2>4
<1>5. CASE Store(r) \/ EnqueueFails(r)
  <2>1. cur[r] \in Files
    BY <1>5 DEF Store, EnqueueFails, SyncType, CountInv, Creating
  <2> DEFINE new == [number |-> NextNumber(r, cur[r][1]), latest |-> TRUE]
  <2>2. new \in Row
    BY <2>1, NextNumberType DEF Row, Files
  <2> HIDE DEF new
  <2>3. /\ [writes[r] EXCEPT !.docs[cur[r]] = new, !.queued = @ \cup {cur[r]}] \in Written
        /\ [writes[r] EXCEPT !.docs[cur[r]] = new, !.dlq = @ \cup {cur[r]}] \in Written
    BY <1>1, <2>1, <2>2 DEF Written
  <2>4. \/ writes' = writes
        \/ writes' = [writes EXCEPT ![r] = [writes[r] EXCEPT !.docs[cur[r]] = new, !.queued = @ \cup {cur[r]}]]
        \/ writes' = [writes EXCEPT ![r] = [writes[r] EXCEPT !.docs[cur[r]] = new, !.dlq = @ \cup {cur[r]}]]
    BY <1>1, <1>5 DEF Store, EnqueueFails, new, Written
  <2> QED BY <1>1, <2>3, <2>4
<1> QED
  BY <1>2, <1>3, <1>4, <1>5
     DEF StepOf, Start, Visit, SelectSame, SelectFamily, StatementFails, ItemFails, Finish,
         FinishAborted, SourceFails

LEMMA TablesAfter ==
  ASSUME SyncType, NEW r \in Requests, StepOf(r)
  PROVE  /\ docs' \in [Files -> Row \cup {None}] /\ family' \in [Items -> Contents \cup {None}]
         /\ queued' \subseteq Files /\ dlq' \subseteq Files /\ readable' \subseteq Files
         /\ syncState' \in {None, "success", "partial_failure", "failed"}
         /\ UNCHANGED sourceVars
<1>1. /\ docs \in [Files -> Row \cup {None}] /\ family \in [Items -> Contents \cup {None}]
      /\ queued \subseteq Files /\ dlq \subseteq Files /\ readable \subseteq Files
      /\ syncState \in {None, "success", "partial_failure", "failed"}
  BY DEF SyncType, STypeOK
<1>2. CASE Finish(r)
  BY <1>1, <1>2, WrittenType DEF Finish, SyncType
<1>3. CASE Store(r)
  <2>1. cur[r] \in Files
    BY <1>3 DEF Store, SyncType, CountInv, Creating
  <2> QED BY <1>1, <1>3, <2>1 DEF Store, table
<1>4. CASE ~Finish(r) /\ ~Store(r)
  <2>1. UNCHANGED <<sourceVars, table, readable>>
    BY <1>4 DEF StepOf, Start, Visit, SelectSame, SelectFamily, InsertFamily, DropLatest,
                EnqueueFails, StatementFails, ItemFails, FinishAborted, SourceFails
  <2> QED BY <1>1, <2>1 DEF table
<1> QED BY <1>2, <1>3, <1>4

\* Where a step of a request leads, and what it counts.
LEMMA RequestAfter ==
  ASSUME SyncType, NEW r \in Requests, StepOf(r)
  PROVE  /\ pc' \in [Requests -> PC] /\ todo' \in [Requests -> SUBSET Items]
         /\ cur' \in [Requests -> Files \cup {None}] /\ seen' \in [Requests -> SUBSET Files]
         /\ failed' \in [Requests -> 0..Cardinality(Items)]
         /\ faults' \in Nat
         /\ pc'[r] # "idle" => failed'[r] + Pending(r)' + Cardinality(todo'[r]) <= Cardinality(Items)
         /\ pc'[r] \in Creating \cup {"fail"} => cur'[r] \in Files
<1> DEFINE N == Cardinality(Items)
<1> DEFINE Goal == /\ pc \in [Requests -> PC] /\ todo \in [Requests -> SUBSET Items]
                   /\ cur \in [Requests -> Files \cup {None}] /\ seen \in [Requests -> SUBSET Files]
                   /\ failed \in [Requests -> 0..N]
                   /\ faults \in Nat
                   /\ pc[r] # "idle" => failed[r] + Pending(r) + Cardinality(todo[r]) <= N
                   /\ pc[r] \in Creating \cup {"fail"} => cur[r] \in Files
<1>1. Goal
  BY DEF SyncType, STypeOK, CountInv
<1>2. /\ N \in Nat \ {0} /\ failed[r] \in 0..N /\ Cardinality(todo[r]) \in 0..N
      /\ Pending(r) \in {0, 1} /\ todo[r] \in SUBSET Items
  BY <1>1, NumberOfItems DEF Pending
<1> SUFFICES Goal'
  OBVIOUS
<1> HIDE DEF N
<1>3. CASE Start(r)
  BY <1>1, <1>2, <1>3, NumberOfItems DEF Start, Goto, Pending, Creating, PC, N
<1>4. ASSUME NEW i \in Items, Visit(r, i) PROVE Goal'
  <2>1. /\ pc[r] \in {"walk", "aborted"} /\ i \in todo[r]
        /\ todo' = [todo EXCEPT ![r] = @ \ {i}] /\ faults' = faults
    BY <1>4 DEF Visit
  <2>2. Cardinality(todo'[r]) = Cardinality(todo[r]) - 1 /\ todo'[r] = todo[r] \ {i}
    <3>1. IsFiniteSet(todo[r])
      BY <1>2, NumberOfItems
    <3> QED BY <1>1, <2>1, <3>1, FS_RemoveElement
  <2>3. Pending(r) = 0
    BY <2>1 DEF Pending, Creating
  <2>4. CASE source[i] = None
    <3>1. pc' = pc /\ cur' = cur /\ seen' = seen /\ failed' = failed
      BY <1>4, <2>4 DEF Visit
    <3>2. Pending(r)' = 0
      BY <2>3, <3>1 DEF Pending
    <3> QED BY <1>1, <1>2, <2>1, <2>2, <2>3, <3>1, <3>2
  <2>5. CASE source[i] # None
    <3>1. <<i, source[i]>> \in Files
      BY <2>5 DEF Files, SyncType, STypeOK
    <3>2. cur' = [cur EXCEPT ![r] = <<i, source[i]>>] /\ seen' = [seen EXCEPT ![r] = @ \cup {<<i, source[i]>>}]
      BY <1>4, <2>5 DEF Visit
    <3>3. CASE pc[r] = "aborted"
      <4>1. pc' = pc /\ failed' = [failed EXCEPT ![r] = @ + 1] /\ Pending(r)' = 0
        BY <1>4, <2>3, <2>5, <3>3 DEF Visit, Pending
      <4>2. failed[r] + 1 \in 0..N
        BY <1>1, <1>2, <2>1, <2>2, <2>3, NumberOfItems
      <4> QED BY <1>1, <1>2, <2>1, <2>2, <2>3, <3>1, <3>2, <4>1, <4>2
    <3>4. CASE pc[r] = "walk"
      <4>1. pc' = [pc EXCEPT ![r] = "select"] /\ failed' = failed
        BY <1>4, <2>5, <3>4 DEF Visit, Goto
      <4>2. Pending(r)' = 1
        BY <1>1, <4>1 DEF Pending, Creating
      <4> QED BY <1>1, <1>2, <2>1, <2>2, <2>3, <3>1, <3>2, <4>1, <4>2 DEF PC
    <3> QED BY <2>1, <3>3, <3>4
  <2> QED BY <2>4, <2>5
<1>5. ASSUME UNCHANGED <<todo, cur, seen, failed>>, pc[r] \in Creating, faults' \in Nat,
             NEW p \in PC \ {"idle"}, Goto(r, p)
      PROVE  Goal'
  <2>1. Pending(r) = 1 /\ Pending(r)' \in {0, 1}
    BY <1>5 DEF Pending
  <2>2. pc' = [pc EXCEPT ![r] = p] /\ pc[r] # "idle" /\ cur[r] \in Files
    BY <1>1, <1>5 DEF Goto, Creating
  <2> QED BY <1>1, <1>2, <1>5, <2>1, <2>2
<1>6. CASE SelectSame(r) \/ SelectFamily(r) \/ InsertFamily(r) \/ DropLatest(r) \/ Store(r) \/ StatementFails(r)
  <2>1. /\ UNCHANGED <<todo, cur, seen, failed>> /\ pc[r] \in Creating /\ faults' \in Nat
    BY <1>1, <1>6 DEF SelectSame, SelectFamily, InsertFamily, DropLatest, Store, StatementFails,
                      Creating
  <2>2. \E p \in PC \ {"idle"} : Goto(r, p)
    <3>1. PICK p \in {"walk", "family", "insert", "unlatest", "fail", "store"} : Goto(r, p)
      BY <1>6 DEF SelectSame, SelectFamily, InsertFamily, DropLatest, Store, StatementFails
    <3>2. p \in PC \ {"idle"}
      BY <3>1 DEF PC
    <3> QED BY <3>1, <3>2
  <2>3. PICK p \in PC \ {"idle"} : Goto(r, p)
    BY <2>2
  <2> QED BY <1>5, <2>1, <2>3
<1>7. ASSUME pc[r] \in Creating \cup {"fail"}, UNCHANGED <<todo, cur, seen>>, faults' \in Nat,
             failed' = [failed EXCEPT ![r] = @ + 1], NEW p \in {"walk", "aborted"}, Goto(r, p)
      PROVE  Goal'
  <2>1. Pending(r) = 1 /\ pc' = [pc EXCEPT ![r] = p]
    BY <1>7 DEF Pending, Goto
  <2>2. Pending(r)' = 0
    BY <1>1, <1>7, <2>1 DEF Pending, Creating
  <2>3. failed[r] + 1 \in 0..N
    BY <1>1, <1>2, <1>7, <2>1 DEF Creating
  <2> QED BY <1>1, <1>2, <1>7, <2>1, <2>2, <2>3 DEF PC, Creating
<1>8. CASE EnqueueFails(r)
  <2>1. pc[r] \in Creating /\ UNCHANGED <<todo, cur, seen>> /\ faults' \in Nat
    BY <1>1, <1>8 DEF EnqueueFails, Creating
  <2>2. CASE dialect = "postgresql"
    <3>1. Goto(r, "fail") /\ failed' = failed /\ "fail" \in PC \ {"idle"}
      BY <1>8, <2>2 DEF EnqueueFails, PC
    <3> QED BY <1>5, <2>1, <3>1
  <2>3. CASE dialect # "postgresql"
    <3>1. Goto(r, "walk") /\ failed' = [failed EXCEPT ![r] = @ + 1] /\ "walk" \in {"walk", "aborted"}
      BY <1>8, <2>3 DEF EnqueueFails
    <3> QED BY <1>7, <2>1, <3>1
  <2> QED BY <2>2, <2>3
<1>9. CASE ItemFails(r)
  <2>1. /\ pc[r] \in Creating \cup {"fail"} /\ UNCHANGED <<todo, cur, seen>> /\ faults' \in Nat
        /\ failed' = [failed EXCEPT ![r] = @ + 1]
    BY <1>1, <1>9 DEF ItemFails
  <2>2. PICK p \in {"walk", "aborted"} : Goto(r, p)
    BY <1>9 DEF ItemFails
  <2> QED BY <1>7, <2>1, <2>2
<1>10. ASSUME UNCHANGED <<todo, cur, seen>>, faults' \in Nat, Goto(r, "idle"),
              failed' \in [Requests -> 0..N]
       PROVE  Goal'
  <2>1. pc' \in [Requests -> PC] /\ pc'[r] = "idle"
    BY <1>1, <1>10 DEF Goto, PC
  <2> QED BY <1>1, <1>10, <2>1 DEF Creating
<1>11. CASE Finish(r) \/ FinishAborted(r)
  <2>1. UNCHANGED <<todo, cur, seen, failed, faults>> /\ Goto(r, "idle")
    BY <1>11 DEF Finish, FinishAborted
  <2> QED BY <1>1, <1>10, <2>1
<1>12. CASE SourceFails(r)
  <2>1. 1 \in 0..N
    BY <1>2
  <2>2. UNCHANGED <<todo, cur, seen>> /\ Goto(r, "idle") /\ faults' \in Nat /\ failed' = [failed EXCEPT ![r] = 1]
    BY <1>1, <1>12 DEF SourceFails
  <2>3. failed' \in [Requests -> 0..N]
    BY <1>1, <2>1, <2>2
  <2> QED BY <1>10, <2>2, <2>3
<1> QED BY <1>3, <1>4, <1>6, <1>8, <1>9, <1>11, <1>12 DEF StepOf

LEMMA SyncTypeStep ==
  ASSUME SyncType, [Next]_vars
  PROVE  SyncType'
<1>1. CASE UNCHANGED vars
  BY <1>1 DEF vars, sourceVars, table, SyncType, STypeOK, CountInv, Pending
<1>2. ASSUME NEW i \in Items, NEW c \in Contents, Edit(i, c) PROVE SyncType'
  BY <1>2 DEF Edit, table, SyncType, STypeOK, CountInv, Pending
<1>3. ASSUME NEW r \in Requests, StepOf(r) PROVE SyncType'
  <2>1. STypeOK'
    BY <1>3, TablesAfter, RequestAfter, WritesAfter DEF SyncType, STypeOK, sourceVars, Written
  <2>2. CountInv'
    <3>1. ASSUME NEW q \in Requests
          PROVE  /\ pc'[q] # "idle" => failed'[q] + Pending(q)' + Cardinality(todo'[q]) <= Cardinality(Items)
                 /\ pc'[q] \in Creating \cup {"fail"} => cur'[q] \in Files
      <4>1. CASE q = r
        BY <1>3, <4>1, RequestAfter
      <4>2. CASE q # r
        <5>1. Untouched(q)
          BY <1>3, <4>2, OthersUntouched DEF SyncType
        <5> QED BY <5>1 DEF Untouched, SyncType, CountInv, Pending
      <4> QED BY <4>1, <4>2
    <3> QED BY <3>1 DEF CountInv
  <2> QED BY <1>3, <2>1, <2>2, RequestAfter DEF SyncType
<1> QED BY <1>1, <1>2, <1>3, NextIsStep

\* For any requests, items and contents: every variable has its type, and a sync
\* never counts more failed items than the source has.
THEOREM SyncTypeCorrect == Spec => []STypeOK
<1>1. SyncType /\ [Next]_vars => SyncType'
  BY SyncTypeStep
<1>2. SyncType => STypeOK
  BY DEF SyncType
<1> QED BY <1>1, <1>2, SyncTypeInitially, PTL DEF Spec

-----------------------------------------------------------------------------
(* Every document has its job.                                             *)

\* What a step does to the tables and to what its request has written.
LEMMA QuietSteps ==
  ASSUME NEW r \in Requests, StepOf(r)
  PROVE  \/ table' = table /\ writes' = writes
         \/ table' = table /\ writes' = [writes EXCEPT ![r] = Nothing]
         \/ InsertFamily(r) \/ DropLatest(r) \/ Store(r) \/ EnqueueFails(r) \/ Finish(r)
BY DEF StepOf, Start, Visit, SelectSame, SelectFamily, StatementFails, ItemFails, FinishAborted,
       SourceFails

LEMMA QueuedStep ==
  ASSUME SyncType, SyncType', QueuedInv, [Next]_vars
  PROVE  QueuedInv'
<1> DEFINE Backed(q, f) == writes[q].docs[f] # None =>
                             f \in writes[q].queued \cup writes[q].dlq \cup queued \cup dlq
<1>1. CASE UNCHANGED vars \/ \E i \in Items, c \in Contents : Edit(i, c)
  BY <1>1 DEF vars, table, Edit, QueuedInv, EveryDocumentQueued
<1>2. ASSUME NEW r \in Requests, StepOf(r) PROVE QueuedInv'
  <2>1. /\ \A q \in Requests : q # r => writes'[q] = writes[q]
        /\ writes \in [Requests -> Written] /\ Nothing \in Written
    BY <1>2, OthersUntouched, NothingType DEF Untouched, SyncType, STypeOK, Written
  <2>2. SUFFICES ASSUME queued \subseteq queued', dlq \subseteq dlq',
                        \A f \in Files : docs'[f] # None => f \in queued' \cup dlq',
                        \A f \in Files : Backed(r, f)'
                 PROVE  QueuedInv'
    <3>1. queued \subseteq queued' /\ dlq \subseteq dlq'
      BY <1>2, QuietSteps DEF table, InsertFamily, DropLatest, Store, EnqueueFails, Finish
    <3>2. ASSUME NEW f \in Files PROVE (docs'[f] # None => f \in queued' \cup dlq') /\ Backed(r, f)'
      <4>1. Backed(r, f) /\ (docs[f] # None => f \in queued \cup dlq)
        BY DEF QueuedInv, EveryDocumentQueued
      <4>2. CASE table' = table /\ writes' = writes
        BY <4>1, <4>2 DEF table
      <4>3. CASE table' = table /\ writes' = [writes EXCEPT ![r] = Nothing]
        <5>1. writes'[r].docs[f] = None
          BY <2>1, <4>3 DEF Nothing, NoDocs
        <5> QED BY <4>1, <4>3, <5>1 DEF table
      <4>4. CASE InsertFamily(r)
        <5>1. table' = table /\ writes'[r].docs = writes[r].docs
              /\ writes'[r].queued = writes[r].queued /\ writes'[r].dlq = writes[r].dlq
          BY <2>1, <4>4 DEF InsertFamily, Written
        <5> QED BY <4>1, <5>1 DEF table
      <4>5. CASE DropLatest(r)
        <5>1. /\ table' = table
              /\ writes'[r].queued = writes[r].queued /\ writes'[r].dlq = writes[r].dlq
          BY <2>1, <4>5 DEF DropLatest, Written
        <5>2. writes'[r].docs[f] # None => Doc(r, f) # None
          BY <2>1, <4>5 DEF DropLatest, Written, Doc
        <5> QED BY <4>1, <5>1, <5>2 DEF table, Doc
      <4>6. CASE Store(r) \/ EnqueueFails(r)
        <5>1. table' = table
          BY <4>6 DEF Store, EnqueueFails
        <5>2. /\ writes[r].queued \subseteq writes'[r].queued /\ writes[r].dlq \subseteq writes'[r].dlq
              /\ \/ writes'[r].docs[f] = writes[r].docs[f]
                 \/ f = cur[r] /\ f \in writes'[r].queued \cup writes'[r].dlq
          BY <2>1, <4>6 DEF Store, EnqueueFails, Written
        <5> QED BY <4>1, <5>1, <5>2 DEF table
      <4>7. CASE Finish(r)
        <5>1. writes'[r].docs[f] = None
          BY <2>1, <4>7 DEF Finish, Nothing, NoDocs
        <5>2. docs'[f] # None => docs[f] # None \/ writes[r].docs[f] # None
          BY <4>7 DEF Finish, Doc
        <5>3. queued' = queued \cup writes[r].queued /\ dlq' = dlq \cup writes[r].dlq
          BY <4>7 DEF Finish
        <5> QED BY <4>1, <5>1, <5>2, <5>3
      <4> QED BY <1>2, <4>2, <4>3, <4>4, <4>5, <4>6, <4>7, QuietSteps
    <3> QED BY <3>1, <3>2
  <2>3. ASSUME NEW q \in Requests, NEW f \in Files PROVE Backed(q, f)'
    <3>1. CASE q = r
      BY <2>2, <3>1
    <3>2. CASE q # r
      <4>1. Backed(q, f) /\ writes'[q] = writes[q]
        BY <2>1, <3>2 DEF QueuedInv
      <4> QED BY <2>2, <4>1
    <3> QED BY <3>1, <3>2
  <2> QED BY <2>2, <2>3 DEF QueuedInv, EveryDocumentQueued
<1> QED BY <1>1, <1>2, NextIsStep

\* For any requests, items, contents and faults: a document is committed with its
\* job or with a DLQ row; what a transaction writes is backed before it commits.
THEOREM EveryDocumentQueuedHolds == Spec => []EveryDocumentQueued
<1>1. Init => QueuedInv
  BY DEF Init, QueuedInv, EveryDocumentQueued, Nothing, NoDocs
<1>2. SyncType /\ QueuedInv /\ [Next]_vars => (SyncType /\ QueuedInv)'
  BY SyncTypeStep, QueuedStep
<1>3. QueuedInv => EveryDocumentQueued
  BY DEF QueuedInv
<1> QED BY <1>1, <1>2, <1>3, SyncTypeInitially, PTL DEF Spec

-----------------------------------------------------------------------------
(* A sync that reports success.                                            *)

LEMMA WrittenDocsKept ==
  ASSUME SyncType, NEW r \in Requests, StepOf(r), NEW f \in Files,
         ~ItemFails(r), ~SourceFails(r), ~Finish(r), writes[r].docs[f] # None
  PROVE  writes'[r].docs[f] # None
<1>1. writes \in [Requests -> Written] /\ None \notin Row
  BY NoRowAssumption DEF SyncType, STypeOK, Written
<1>2. CASE InsertFamily(r)
  BY <1>1, <1>2 DEF InsertFamily, Written
<1>3. CASE DropLatest(r)
  <2>1. Doc(r, f) # None => [Doc(r, f) EXCEPT !.latest = FALSE] \in Row
    BY WrittenType DEF SyncType, Row
  <2>2. \/ writes'[r].docs[f] = writes[r].docs[f]
        \/ Doc(r, f) # None /\ writes'[r].docs[f] = [Doc(r, f) EXCEPT !.latest = FALSE]
    BY <1>1, <1>3 DEF DropLatest, Written
  <2> QED BY <1>1, <2>1, <2>2
<1>4. CASE Store(r) \/ EnqueueFails(r)
  <2>1. cur[r] \in Files
    BY <1>4 DEF Store, EnqueueFails, SyncType, CountInv, Creating
  <2> DEFINE new == [number |-> NextNumber(r, cur[r][1]), latest |-> TRUE]
  <2>2. new \in Row
    BY <2>1, NextNumberType DEF Row, Files
  <2>3. writes'[r].docs[f] = writes[r].docs[f] \/ writes'[r].docs[f] = new
    BY <1>1, <1>4 DEF Store, EnqueueFails, Written
  <2> QED BY <1>1, <2>2, <2>3
<1>5. CASE writes' = writes
  BY <1>5
<1> QED
  BY <1>2, <1>3, <1>4, <1>5
     DEF StepOf, Start, Visit, SelectSame, SelectFamily, StatementFails, FinishAborted

\* What a transaction reads stays there unless it is rolled back.
LEMMA DocsKept ==
  ASSUME SyncType, NEW r \in Requests, StepOf(r), NEW q \in Requests, NEW f \in Files,
         q = r => ~ItemFails(r) /\ ~SourceFails(r), Doc(q, f) # None
  PROVE  Doc(q, f)' # None
<1>1. /\ writes \in [Requests -> Written]
      /\ q # r => writes'[q] = writes[q]
  BY OthersUntouched DEF Untouched, SyncType, STypeOK, Written
<1>2. docs[f] # None => docs'[f] # None
  <2>1. CASE Finish(r)
    BY <2>1 DEF Finish, Doc
  <2>2. CASE ~Finish(r)
    BY <2>2, QuietSteps DEF table, InsertFamily, DropLatest, Store, EnqueueFails
  <2> QED BY <2>1, <2>2
<1>3. CASE q # r
  BY <1>1, <1>2, <1>3 DEF Doc
<1>4. CASE q = r /\ Finish(r)
  <2>1. docs'[f] = Doc(r, f) /\ writes'[r].docs[f] = None
    BY <1>1, <1>4 DEF Finish, Nothing, NoDocs
  <2> QED BY <1>4, <2>1 DEF Doc
<1>5. CASE q = r /\ ~Finish(r)
  <2>1. writes[r].docs[f] # None => writes'[r].docs[f] # None
    BY <1>5, WrittenDocsKept
  <2> QED BY <1>2, <1>5, <2>1 DEF Doc
<1> QED BY <1>3, <1>4, <1>5

StoredBy(r) ==
  /\ pc[r] = "aborted" => failed[r] > 0
  /\ pc[r] # "idle" /\ failed[r] = 0 =>
       \A f \in seen[r] : Doc(r, f) # None \/ (f = cur[r] /\ pc[r] \in Creating \cup {"fail"})

LEMMA StoredStep ==
  ASSUME SyncType, SyncType', StoredInv, [Next]_vars
  PROVE  StoredInv'
<1>1. CASE UNCHANGED vars \/ \E i \in Items, c \in Contents : Edit(i, c)
  BY <1>1 DEF vars, table, Edit, StoredInv, Doc
<1>2. ASSUME NEW r \in Requests, StepOf(r) PROVE StoredInv'
  <2>1. SUFFICES ASSUME NEW q \in Requests PROVE StoredBy(q)'
    BY <2>1 DEF StoredInv, StoredBy
  <2>2. StoredBy(q)
    BY DEF StoredInv, StoredBy
  <2>3. CASE q # r
    <3>1. Untouched(q)
      BY <1>2, <2>3, OthersUntouched DEF SyncType
    <3>2. \A f \in Files : Doc(q, f) # None => Doc(q, f)' # None
      BY <1>2, <2>3, DocsKept
    <3>3. seen[q] \in SUBSET Files
      BY DEF SyncType, STypeOK
    <3> QED BY <2>2, <3>1, <3>2, <3>3 DEF Untouched, StoredBy
  <2>4. CASE q = r
    <3>1. /\ pc \in [Requests -> PC] /\ failed \in [Requests -> Nat] /\ cur \in [Requests -> Files \cup {None}]
          /\ seen \in [Requests -> SUBSET Files]
      BY NumberOfItems DEF SyncType, STypeOK
    <3>2. StoredBy(r)
      BY <2>2, <2>4
    <3>3. SUFFICES StoredBy(r)'
      BY <2>4
    <3>4. CASE ItemFails(r)
      <4>1. failed'[r] > 0
        BY <3>1, <3>4 DEF ItemFails
      <4> QED BY <4>1 DEF StoredBy
    <3>5. CASE Finish(r) \/ FinishAborted(r) \/ SourceFails(r)
      <4>1. pc'[r] = "idle"
        BY <3>1, <3>5 DEF Finish, FinishAborted, SourceFails, Goto
      <4> QED BY <4>1 DEF StoredBy
    <3> DEFINE Kept == \A f \in Files : Doc(r, f) # None => Doc(r, f)' # None
    <3>6. ASSUME ~ItemFails(r), ~SourceFails(r) PROVE Kept
      BY <1>2, <3>6, DocsKept
    <3> HIDE DEF Kept
    <3>7. CASE Start(r)
      <4>1. pc'[r] = "walk" /\ seen'[r] = {}
        BY <3>1, <3>7 DEF Start, Goto
      <4> QED BY <4>1 DEF StoredBy
    <3>8. ASSUME NEW i \in Items, Visit(r, i) PROVE StoredBy(r)'
      <4>1. Doc(r, cur[r])' = Doc(r, cur[r])' /\ \A f \in Files : Doc(r, f)' = Doc(r, f)
        BY <3>8 DEF Visit, table, Doc
      <4>2. CASE source[i] = None
        <5>1. pc' = pc /\ cur' = cur /\ seen' = seen /\ failed' = failed
          BY <3>8, <4>2 DEF Visit
        <5> QED BY <3>1, <3>2, <4>1, <5>1 DEF StoredBy
      <4>3. CASE source[i] # None /\ pc[r] = "aborted"
        <5>1. failed'[r] > 0
          BY <3>1, <3>8, <4>3 DEF Visit
        <5> QED BY <5>1 DEF StoredBy
      <4>4. CASE source[i] # None /\ pc[r] = "walk"
        <5>1. /\ pc'[r] = "select" /\ failed'[r] = failed[r]
              /\ seen'[r] = seen[r] \cup {cur'[r]}
          BY <3>1, <3>8, <4>4 DEF Visit, Goto
        <5> QED BY <3>1, <3>2, <4>1, <4>4, <5>1 DEF StoredBy, Creating
      <4> QED BY <3>8, <4>2, <4>3, <4>4 DEF Visit
    <3>9. ASSUME UNCHANGED <<cur, seen, failed>>, pc[r] \in Creating, Kept,
                 pc'[r] \in Creating \cup {"fail", "walk"},
                 pc'[r] = "walk" => Doc(r, cur[r])' # None
          PROVE  StoredBy(r)'
      <4>1. pc[r] # "idle" /\ pc'[r] # "aborted"
        BY <3>9 DEF Creating
      <4>2. ASSUME failed[r] = 0, NEW f \in seen[r]
            PROVE  Doc(r, f)' # None \/ (f = cur[r] /\ pc'[r] \in Creating \cup {"fail"})
        <5>1. f \in Files /\ (Doc(r, f) # None \/ f = cur[r])
          BY <3>1, <3>2, <4>1, <4>2 DEF StoredBy
        <5> QED BY <3>9, <5>1 DEF Kept
      <4> QED BY <3>9, <4>1, <4>2 DEF StoredBy
    <3>10. CASE SelectSame(r)
      <4>1. Doc(r, cur[r])' = Doc(r, cur[r])
        BY <3>10 DEF SelectSame, table, Doc
      <4>2. UNCHANGED <<cur, seen, failed>> /\ pc[r] \in Creating /\ Kept
            /\ pc'[r] = (IF Doc(r, cur[r]) # None THEN "walk" ELSE "family")
        BY <3>1, <3>6, <3>10 DEF SelectSame, Goto, Creating, ItemFails, SourceFails
      <4> QED BY <3>9, <4>1, <4>2 DEF Creating
    <3>11. CASE SelectFamily(r) \/ InsertFamily(r) \/ DropLatest(r) \/ StatementFails(r)
      <4>1. UNCHANGED <<cur, seen, failed>> /\ pc[r] \in Creating /\ Kept
        BY <3>6, <3>11
           DEF SelectFamily, InsertFamily, DropLatest, StatementFails, Creating, ItemFails, SourceFails
      <4>2. pc'[r] \in {"insert", "unlatest", "store", "fail"}
        BY <3>1, <3>11 DEF SelectFamily, InsertFamily, DropLatest, StatementFails, Goto
      <4> QED BY <3>9, <4>1, <4>2 DEF Creating
    <3>12. CASE Store(r)
      <4>1. UNCHANGED <<cur, seen, failed>> /\ pc[r] \in Creating /\ Kept /\ pc'[r] = "walk"
        BY <3>1, <3>6, <3>12 DEF Store, Goto, Creating, ItemFails, SourceFails
      <4>2. Doc(r, cur[r])' # None
        <5>1. cur[r] \in Files /\ writes \in [Requests -> Written]
          BY <3>12 DEF Store, SyncType, CountInv, Creating, STypeOK, Written
        <5>2. [number |-> NextNumber(r, cur[r][1]), latest |-> TRUE] # None
          <6>1. [number |-> NextNumber(r, cur[r][1]), latest |-> TRUE] \in Row
            BY <5>1, NextNumberType DEF Row, Files
          <6> QED BY <6>1, NoRowAssumption
        <5>3. writes'[r].docs[cur[r]] = [number |-> NextNumber(r, cur[r][1]), latest |-> TRUE] /\ cur' = cur
          BY <3>12, <5>1 DEF Store, Written
        <5> QED BY <5>2, <5>3 DEF Doc
      <4> QED BY <3>9, <4>1, <4>2
    <3>13. CASE EnqueueFails(r)
      <4>1. CASE dialect = "postgresql"
        <5>1. UNCHANGED <<cur, seen, failed>> /\ pc[r] \in Creating /\ Kept /\ pc'[r] = "fail"
          BY <3>1, <3>6, <3>13, <4>1 DEF EnqueueFails, Goto, Creating, ItemFails, SourceFails
        <5> QED BY <3>9, <5>1
      <4>2. CASE dialect # "postgresql"
        <5>1. failed'[r] > 0
          BY <3>1, <3>13, <4>2 DEF EnqueueFails
        <5> QED BY <5>1 DEF StoredBy
      <4> QED BY <4>1, <4>2
    <3> QED BY <1>2, <3>4, <3>5, <3>7, <3>8, <3>10, <3>11, <3>12, <3>13 DEF StepOf
  <2> QED BY <2>3, <2>4
<1> QED BY <1>1, <1>2, NextIsStep

\* The step that ends a walk without a failure commits all that it has seen.
LEMMA SuccessStep ==
  ASSUME SyncType, StoredInv, [Next]_vars, NEW r \in Requests,
         pc[r] = "walk", pc'[r] = "idle", failed'[r] = 0, NEW f \in seen[r]
  PROVE  docs'[f] # None
<1>1. PICK q \in Requests : StepOf(q)
  BY NextIsStep DEF vars, Edit
<1>2. q = r
  BY <1>1, OthersUntouched DEF SyncType, Untouched
<1>3. pc \in [Requests -> PC] /\ failed \in [Requests -> 0..Cardinality(Items)] /\ f \in Files
  BY DEF SyncType, STypeOK
<1>4. Finish(r)
  BY <1>1, <1>2, <1>3
     DEF StepOf, Start, Visit, SelectSame, SelectFamily, InsertFamily, DropLatest, Store, EnqueueFails,
         StatementFails, ItemFails, FinishAborted, SourceFails, Goto
<1>5. Doc(r, f) # None
  BY <1>4 DEF Finish, StoredInv, Creating
<1> QED BY <1>3, <1>4, <1>5 DEF Finish

\* For any requests, items, contents and faults: a sync that reports success has
\* stored all that its walk has yielded, though other syncs commit meanwhile.
THEOREM SuccessStoresAllHolds == Spec => SuccessStoresAll
<1> DEFINE Inv == SyncType /\ StoredInv
           Stored == \A r \in Requests : pc[r] = "walk" /\ pc'[r] = "idle" /\ failed'[r] = 0 =>
                       \A f \in seen[r] : docs'[f] # None
<1>1. Init => Inv
  BY SyncTypeInitially DEF Init, StoredInv
<1>2. Inv /\ [Next]_vars => Inv'
  BY SyncTypeStep, StoredStep
<1>3. Inv /\ [Next]_vars => [Stored]_vars
  BY SuccessStep
<1> HIDE DEF Inv, Stored
<1>4. Spec => [][Stored]_vars
  BY <1>1, <1>2, <1>3, PTL DEF Spec
<1> QED BY <1>4 DEF SuccessStoresAll, Stored

-----------------------------------------------------------------------------
(* Versions of one family, as a function of the documents a request sees.  *)

LEMMA SameVersions ==
  ASSUME NEW D, NEW E, NEW i, NEW current,
         \A c \in Contents : D[<<i, c>>] = E[<<i, c>>]
  PROVE  /\ Consistent(D, current, i) => Consistent(E, current, i)
         /\ Awaiting(D, current, i) => Awaiting(E, current, i)
<1>1. Versions(D, i) = Versions(E, i)
  BY DEF Versions
<1>2. Versions(D, i) \subseteq Contents
  BY DEF Versions
<1>3. {D[<<i, c>>].number : c \in Versions(D, i)} = {E[<<i, c>>].number : c \in Versions(E, i)}
  BY <1>1, <1>2
<1>4. Numbered(D, i) => Numbered(E, i)
  BY <1>1, <1>3 DEF Numbered
<1> QED BY <1>1, <1>2, <1>4 DEF Consistent, Awaiting

LEMMA FirstVersion ==
  ASSUME NEW D, NEW i, NEW c \in Contents, Consistent(D, None, i)
  PROVE  Awaiting(D, c, i)
<1>1. Versions(D, i) = {}
  BY DEF Consistent
<1>2. Cardinality({}) = 0
  BY FS_EmptySet
<1>3. Numbered(D, i)
  BY <1>1, <1>2 DEF Numbered
<1> QED BY <1>1, <1>3, SyncBoundsAssumption DEF Awaiting

\* The older versions lose the flag and keep their numbers.
LEMMA Unlatest ==
  ASSUME NEW D, NEW E, NEW i \in Items, NEW c \in Contents, NEW old,
         D \in [Files -> Row \cup {None}], old # None, Consistent(D, old, i), D[<<i, c>>] = None,
         \A k \in Contents :
           E[<<i, k>>] = IF D[<<i, k>>] # None THEN [D[<<i, k>>] EXCEPT !.latest = FALSE]
                         ELSE D[<<i, k>>]
  PROVE  Awaiting(E, c, i)
<1>1. ASSUME NEW k \in Contents
      PROVE  /\ E[<<i, k>>] # None <=> D[<<i, k>>] # None
             /\ D[<<i, k>>] # None => E[<<i, k>>].number = D[<<i, k>>].number /\ ~E[<<i, k>>].latest
  <2>1. D[<<i, k>>] \in Row \cup {None}
    BY DEF Files
  <2>2. CASE D[<<i, k>>] = None
    BY <2>2
  <2>3. CASE D[<<i, k>>] # None
    <3>1. D[<<i, k>>] \in Row /\ E[<<i, k>>] = [D[<<i, k>>] EXCEPT !.latest = FALSE]
      BY <2>1, <2>3
    <3>2. E[<<i, k>>] \in Row /\ E[<<i, k>>].number = D[<<i, k>>].number /\ ~E[<<i, k>>].latest
      BY <3>1 DEF Row
    <3> QED BY <2>3, <3>2, NoRowAssumption
  <2> QED BY <2>2, <2>3
<1>2. Versions(E, i) = Versions(D, i) /\ Versions(D, i) \subseteq Contents /\ c \notin Versions(D, i)
  BY <1>1 DEF Versions
<1>3. \A k \in Versions(D, i) : E[<<i, k>>].number = D[<<i, k>>].number /\ ~E[<<i, k>>].latest
  BY <1>1 DEF Versions
<1>4. {E[<<i, k>>].number : k \in Versions(E, i)} = {D[<<i, k>>].number : k \in Versions(D, i)}
  BY <1>2, <1>3
<1>5. Numbered(E, i)
  BY <1>2, <1>4 DEF Numbered, Consistent
<1> QED BY <1>2, <1>3, <1>5, SyncBoundsAssumption DEF Awaiting

\* The document that a family was waiting for is its newest version.
LEMMA NewVersion ==
  ASSUME NEW D, NEW E, NEW i \in Items, NEW c \in Contents, Awaiting(D, c, i),
         \A k \in Contents : k # c => E[<<i, k>>] = D[<<i, k>>],
         E[<<i, c>>] = [number |-> 1 + Cardinality(Versions(D, i)), latest |-> TRUE],
         E[<<i, c>>] # None
  PROVE  Consistent(E, c, i)
<1> DEFINE V == Versions(D, i)
           W == Versions(E, i)
           n == Cardinality(V)
<1>1. V \subseteq Contents /\ c \notin V /\ W = V \cup {c}
  BY DEF Versions, Awaiting
<1>2. IsFiniteSet(V) /\ n \in Nat
  BY <1>1, ItemsAssumption, FS_Subset, FS_CardinalityType
<1>3. Cardinality(W) = n + 1
  BY <1>1, <1>2, FS_AddElement
<1>4. \A k \in V : E[<<i, k>>] = D[<<i, k>>] /\ k # c
  BY <1>1
<1>5. E[<<i, c>>].number = n + 1 /\ E[<<i, c>>].latest
  BY <1>2
<1>6. {D[<<i, k>>].number : k \in V} = 1..n /\ \A k \in V : ~D[<<i, k>>].latest
  BY DEF Awaiting, Numbered
<1> HIDE DEF V, W, n
<1>7. \A k \in V : E[<<i, k>>].number \in 1..n /\ ~E[<<i, k>>].latest
  BY <1>4, <1>6
<1>8. {E[<<i, k>>].number : k \in W} = 1..(n + 1)
  <2>1. {E[<<i, k>>].number : k \in W} = {E[<<i, k>>].number : k \in V} \cup {E[<<i, c>>].number}
    BY <1>1
  <2>2. {E[<<i, k>>].number : k \in V} = {D[<<i, k>>].number : k \in V}
    BY <1>4
  <2>3. {E[<<i, k>>].number : k \in W} = (1..n) \cup {n + 1}
    BY <1>5, <1>6, <2>1, <2>2
  <2>4. (1..n) \cup {n + 1} = 1..(n + 1)
    BY <1>2
  <2> QED BY <2>3, <2>4
<1>9. \A k \in W : /\ E[<<i, k>>].latest <=> k = c
                   /\ E[<<i, k>>].latest <=> E[<<i, k>>].number = n + 1
  BY <1>1, <1>2, <1>4, <1>5, <1>7
<1> QED BY <1>1, <1>3, <1>8, <1>9, SyncBoundsAssumption DEF Consistent, Numbered, W

-----------------------------------------------------------------------------
(* What a transaction has written, and what SQLite's single writer reads.  *)

WritesOf(r) ==
  /\ pc[r] \in {"idle", "aborted"} => writes[r] = Nothing
  /\ \A i \in Items, c \in Contents :
       writes[r].docs[<<i, c>>] # None => writes[r].family[i] # None
  /\ pc[r] = "insert" => writes[r].family[cur[r][1]] = None
  /\ pc[r] = "store" => writes[r].family[cur[r][1]] = cur[r][2]

\* A family entry is new to a transaction only where no other one has it.
NewEntries(r) ==
  \A i \in Items :
    writes'[r].family[i] # None =>
      \/ writes[r].family[i] # None
      \/ \A q \in Requests : q # r => writes[q].family[i] = None

LEMMA WritesOfStep ==
  ASSUME SyncType, SyncType', WritesInv, SqliteInv, NEW r \in Requests, StepOf(r)
  PROVE  WritesOf(r)' /\ NewEntries(r)
<1> USE DEF WritesOf, NewEntries
<1>1. /\ WritesOf(r) /\ writes \in [Requests -> Written] /\ Nothing \in Written
      /\ pc \in [Requests -> PC] /\ writes[r] \in Written
      /\ dialect # "postgresql" => dialect = "sqlite"
  BY NothingType, DialectAssumption DEF WritesInv, SyncType, STypeOK, Written
<1>2. /\ \A i \in Items : Nothing.family[i] = None
      /\ \A i \in Items, c \in Contents : Nothing.docs[<<i, c>>] = None
  BY DEF Nothing, NoFamily, NoDocs, Files
<1>3. CASE Start(r)
  <2>1. writes' = writes /\ pc'[r] = "walk"
    BY <1>1, <1>3 DEF Start, Goto
  <2> QED BY <1>1, <2>1
<1>4. ASSUME NEW i \in Items, Visit(r, i) PROVE WritesOf(r)' /\ NewEntries(r)
  <2>1. writes' = writes /\ (pc'[r] = pc[r] \/ pc'[r] = "select") /\ pc[r] \in {"walk", "aborted"}
    BY <1>1, <1>4 DEF Visit, Goto
  <2> QED BY <1>1, <2>1
<1>5. CASE SelectSame(r) \/ StatementFails(r)
  <2>1. writes' = writes /\ pc'[r] \in {"walk", "family", "fail"}
    BY <1>1, <1>5 DEF SelectSame, StatementFails, Goto
  <2> QED BY <1>1, <2>1
<1>6. CASE SelectFamily(r)
  <2>1. /\ writes' = writes /\ cur' = cur
        /\ pc'[r] = IF Family(r, cur[r][1]) = None THEN "insert" ELSE "unlatest"
    BY <1>1, <1>6 DEF SelectFamily, Goto
  <2>2. pc'[r] = "insert" => writes[r].family[cur[r][1]] = None
    BY <2>1 DEF Family
  <2>3. pc'[r] \in {"insert", "unlatest"}
    BY <2>1
  <2> QED BY <1>1, <2>1, <2>2, <2>3
<1>7. CASE InsertFamily(r)
  <2>1. cur[r] \in Files /\ cur' = cur
    BY <1>7 DEF InsertFamily, SyncType, CountInv, Creating
  <2>2. CASE family[cur[r][1]] # None
    <3>1. writes' = writes /\ pc'[r] = "fail"
      BY <1>1, <1>7, <2>2 DEF InsertFamily, Goto
    <3> QED BY <1>1, <3>1
  <2>3. CASE family[cur[r][1]] = None
    <3>1. /\ writes'[r] = [writes[r] EXCEPT !.family[cur[r][1]] = cur[r][2]] /\ pc'[r] = "store"
          /\ \A q \in Requests : q # r => writes[q].family[cur[r][1]] = None
      BY <1>1, <1>7, <2>3 DEF InsertFamily, Goto, FamilyLocked
    <3>2. /\ writes'[r].docs = writes[r].docs
          /\ writes'[r].family = [writes[r].family EXCEPT ![cur[r][1]] = cur[r][2]]
      BY <1>1, <3>1 DEF Written
    <3>3. cur[r][1] \in Items /\ cur[r][2] # None
      BY <2>1, SyncBoundsAssumption DEF Files
    <3>4. \A i \in Items : writes'[r].family[i] = IF i = cur[r][1] THEN cur[r][2] ELSE writes[r].family[i]
      BY <1>1, <3>2 DEF Written
    <3> QED BY <1>1, <2>1, <3>1, <3>2, <3>3, <3>4
  <2> QED BY <2>2, <2>3
<1>8. CASE DropLatest(r)
  <2>1. cur[r] \in Files /\ cur' = cur
    BY <1>8 DEF DropLatest, SyncType, CountInv, Creating
  <2>2. CASE dialect = "postgresql"
    <3>1. writes' = writes /\ pc'[r] = "fail"
      BY <1>1, <1>8, <2>2 DEF DropLatest, Goto
    <3> QED BY <1>1, <3>1
  <2>3. CASE dialect # "postgresql"
    <3>1. \A q \in Requests : q # r => \A i \in Items : writes[q].family[i] = None
      <4>1. \A q \in Requests : q # r => pc[q] = "idle"
        BY <1>1, <1>8, <2>3 DEF DropLatest, SqliteInv
      <4> QED BY <1>2, <4>1 DEF WritesInv
    <3>2. /\ pc'[r] = "store"
          /\ writes'[r].family = [writes[r].family EXCEPT ![cur[r][1]] = cur[r][2]]
          /\ writes'[r].docs = [f \in Files |-> IF f[1] = cur[r][1] /\ Doc(r, f) # None
                                                THEN [Doc(r, f) EXCEPT !.latest = FALSE]
                                                ELSE writes[r].docs[f]]
      BY <1>1, <1>8, <2>3 DEF DropLatest, Goto, Written
    <3>3. cur[r][1] \in Items /\ cur[r][2] # None
      BY <2>1, SyncBoundsAssumption DEF Files
    <3>4. \A i \in Items : writes'[r].family[i] = IF i = cur[r][1] THEN cur[r][2] ELSE writes[r].family[i]
      BY <1>1, <3>2 DEF Written
    <3>5. \A i \in Items, c \in Contents :
            i # cur[r][1] => writes'[r].docs[<<i, c>>] = writes[r].docs[<<i, c>>]
      BY <3>2 DEF Files
    <3>6. ASSUME NEW i \in Items, NEW c \in Contents, writes'[r].docs[<<i, c>>] # None
          PROVE  writes'[r].family[i] # None
      <4>1. CASE i = cur[r][1]
        BY <3>3, <3>4, <4>1
      <4>2. CASE i # cur[r][1]
        <5>1. writes[r].docs[<<i, c>>] # None
          BY <3>5, <3>6, <4>2
        <5>2. writes[r].family[i] # None
          BY <1>1, <5>1
        <5> QED BY <3>4, <4>2, <5>2
      <4> QED BY <4>1, <4>2
    <3>7. writes'[r].family[cur[r][1]] = cur[r][2]
      BY <3>3, <3>4
    <3>8. WritesOf(r)'
      BY <2>1, <3>2, <3>6, <3>7
    <3>9. NewEntries(r)
      BY <3>1
    <3> QED BY <3>8, <3>9
  <2> QED BY <2>2, <2>3
<1>9. CASE Store(r) \/ EnqueueFails(r)
  <2>1. /\ cur[r] \in Files /\ cur' = cur
        /\ writes[r].family[cur[r][1]] = cur[r][2]
    BY <1>1, <1>9 DEF Store, EnqueueFails, SyncType, CountInv, Creating
  <2>2. cur[r][2] # None /\ cur[r] = <<cur[r][1], cur[r][2]>>
    BY <2>1, SyncBoundsAssumption DEF Files
  <2>3. /\ pc'[r] \in {"walk", "fail"} /\ writes'[r].family = writes[r].family
        /\ \A f \in Files : f # cur[r] => writes'[r].docs[f] = writes[r].docs[f]
    BY <1>1, <1>9 DEF Store, EnqueueFails, Goto, Written
  <2>4. \A i \in Items, c \in Contents :
          i # cur[r][1] => writes'[r].docs[<<i, c>>] = writes[r].docs[<<i, c>>]
    BY <2>2, <2>3 DEF Files
  <2> QED BY <1>1, <2>1, <2>2, <2>3, <2>4
<1>10. CASE ItemFails(r)
  <2>1. \/ writes'[r] = Nothing
        \/ writes' = writes /\ pc'[r] = "walk"
    BY <1>1, <1>10 DEF ItemFails, Goto
  <2>2. pc'[r] \in {"walk", "aborted"}
    BY <1>1, <1>10 DEF ItemFails, Goto
  <2> QED BY <1>1, <1>2, <2>1, <2>2
<1>11. CASE Finish(r) \/ FinishAborted(r) \/ SourceFails(r)
  <2>1. writes'[r] = Nothing /\ pc'[r] = "idle"
    BY <1>1, <1>11 DEF Finish, FinishAborted, SourceFails, Goto
  <2> QED BY <1>2, <2>1
<1> QED BY <1>3, <1>4, <1>5, <1>6, <1>7, <1>8, <1>9, <1>10, <1>11 DEF StepOf

LEMMA WritesStep ==
  ASSUME SyncType, SyncType', WritesInv, SqliteInv, NEW r \in Requests, StepOf(r)
  PROVE  WritesInv'
<1>1. WritesOf(r)' /\ NewEntries(r)
  BY WritesOfStep
<1>2. ASSUME NEW q \in Requests, q # r
      PROVE  WritesOf(q)' /\ writes'[q] = writes[q]
  <2>1. Untouched(q)
    BY <1>2, OthersUntouched DEF SyncType
  <2> QED BY <2>1 DEF Untouched, WritesInv, WritesOf
<1>3. \A q \in Requests : WritesOf(q)'
  BY <1>1, <1>2
<1>4. ASSUME NEW p \in Requests, NEW q \in Requests, NEW i \in Items,
             writes'[p].family[i] # None, writes'[q].family[i] # None
      PROVE  p = q
  <2>1. \A s, t \in Requests : writes[s].family[i] # None /\ writes[t].family[i] # None => s = t
    BY DEF WritesInv
  <2>2. CASE p # r /\ q # r
    BY <1>2, <1>4, <2>1, <2>2
  <2>3. CASE p = r /\ q # r
    BY <1>1, <1>2, <1>4, <2>1, <2>3 DEF NewEntries
  <2>4. CASE p # r /\ q = r
    BY <1>1, <1>2, <1>4, <2>1, <2>4 DEF NewEntries
  <2> QED BY <2>2, <2>3, <2>4
<1> QED BY <1>3, <1>4 DEF WritesInv, WritesOf

LEMMA SqliteStep ==
  ASSUME SyncType, SyncType', WritesInv, SqliteInv, NEW r \in Requests, StepOf(r)
  PROVE  SqliteInv'
<1>1. /\ pc \in [Requests -> PC] /\ faults \in Nat /\ writes \in [Requests -> Written]
      /\ dialect' = dialect
  BY TablesAfter DEF SyncType, STypeOK, Written, sourceVars
<1>2. SUFFICES ASSUME dialect = "sqlite" PROVE SqliteInv'
  BY <1>1 DEF SqliteInv
<1> DEFINE Reads(p) ==
      /\ pc[p] \in {"family", "insert", "unlatest"} => Doc(p, cur[p]) = None
      /\ pc[p] = "insert" => Family(p, cur[p][1]) = None
      /\ pc[p] = "unlatest" => Family(p, cur[p][1]) # None
      /\ faults = 0 => pc[p] # "fail"
<1>3. \A q \in Requests : q # r => pc[q] = "idle" /\ pc'[q] = "idle"
  <2>1. ASSUME NEW q \in Requests, q # r PROVE pc[q] = "idle"
    <3>1. CASE Start(r)
      BY <1>2, <3>1 DEF Start, MayStart
    <3>2. CASE ~Start(r)
      <4>1. pc[r] # "idle"
        BY <3>2 DEF StepOf, Visit, SelectSame, SelectFamily, InsertFamily, DropLatest, Store,
                    EnqueueFails, StatementFails, ItemFails, Finish, FinishAborted, SourceFails
      <4> QED BY <1>2, <2>1, <4>1 DEF SqliteInv
    <3> QED BY <3>1, <3>2
  <2>2. \A q \in Requests : q # r => pc'[q] = pc[q]
    BY OthersUntouched DEF SyncType, Untouched
  <2> QED BY <2>1, <2>2
<1>4. Reads(r)
  BY <1>2 DEF SqliteInv
<1>5. Reads(r)'
  <2>1. CASE Start(r) \/ Finish(r) \/ FinishAborted(r) \/ SourceFails(r) \/ ItemFails(r) \/ Store(r)
    <3>1. pc'[r] \in {"walk", "idle", "aborted"}
      BY <1>1, <2>1 DEF Start, Finish, FinishAborted, SourceFails, ItemFails, Store, Goto
    <3> QED BY <3>1
  <2>2. ASSUME NEW i \in Items, Visit(r, i) PROVE Reads(r)'
    <3>1. pc'[r] \in {"walk", "aborted", "select"}
      BY <1>1, <2>2 DEF Visit, Goto
    <3> QED BY <3>1
  <2>3. CASE SelectSame(r)
    <3>1. /\ cur' = cur /\ writes' = writes /\ docs' = docs
          /\ pc'[r] = IF Doc(r, cur[r]) # None THEN "walk" ELSE "family"
      BY <1>1, <2>3 DEF SelectSame, Goto, table
    <3> QED BY <3>1 DEF Doc
  <2>4. CASE SelectFamily(r)
    <3>1. /\ cur' = cur /\ writes' = writes /\ docs' = docs /\ family' = family
          /\ pc'[r] = (IF Family(r, cur[r][1]) = None THEN "insert" ELSE "unlatest")
          /\ pc[r] = "family"
      BY <1>1, <2>4 DEF SelectFamily, Goto, table
    <3> QED BY <1>4, <3>1 DEF Doc, Family
  <2>5. CASE InsertFamily(r)
    <3>1. Family(r, cur[r][1]) = None
      BY <1>4, <2>5 DEF InsertFamily
    <3>2. family[cur[r][1]] = None
      BY <2>5, <3>1 DEF InsertFamily, WritesInv, Family
    <3>3. pc'[r] = "store"
      BY <1>1, <2>5, <3>2 DEF InsertFamily, Goto
    <3> QED BY <3>3
  <2>6. CASE DropLatest(r)
    <3>1. pc'[r] = "store"
      BY <1>1, <1>2, <2>6 DEF DropLatest, Goto
    <3> QED BY <3>1
  <2>7. CASE EnqueueFails(r) \/ StatementFails(r)
    <3>1. faults' # 0 /\ pc'[r] \in {"walk", "fail"}
      BY <1>1, <2>7 DEF EnqueueFails, StatementFails, Goto
    <3> QED BY <3>1
  <2> QED BY <2>1, <2>2, <2>3, <2>4, <2>5, <2>6, <2>7 DEF StepOf
<1>6. ASSUME NEW p \in Requests PROVE Reads(p)'
  <2>1. CASE p = r
    BY <1>5, <2>1
  <2>2. CASE p # r
    BY <1>3, <2>2
  <2> QED BY <2>1, <2>2
<1>7. \A p, q \in Requests : pc'[p] # "idle" /\ pc'[q] # "idle" => q = p
  BY <1>3
<1> QED BY <1>6, <1>7 DEF SqliteInv

-----------------------------------------------------------------------------
(* Every transaction keeps seeing consistent families.                     *)

Seeing == Creating \cup {"walk"}
ViewOf(r, i) ==
  pc[r] \in Seeing =>
    IF pc[r] = "store" /\ i = cur[r][1] THEN Awaiting(DocsSeen(r), Family(r, i), i)
    ELSE Consistent(DocsSeen(r), Family(r, i), i)
Committed(i) == Consistent(docs, family[i], i)

LEMMA SameView ==
  ASSUME NEW q \in Requests, NEW i \in Items, ViewOf(q, i),
         pc'[q] \in Seeing => pc[q] \in Seeing,
         pc'[q] \in Seeing => (pc'[q] = "store" /\ i = cur'[q][1] <=> pc[q] = "store" /\ i = cur[q][1]),
         \A c \in Contents : Doc(q, <<i, c>>)' = Doc(q, <<i, c>>),
         Family(q, i)' = Family(q, i)
  PROVE  ViewOf(q, i)'
<1>1. PICK D : D = DocsSeen(q)
  OBVIOUS
<1>2. PICK E : E = DocsSeen(q)'
  OBVIOUS
<1>3. PICK m : m = Family(q, i) /\ m = Family(q, i)'
  OBVIOUS
<1>4. \A c \in Contents : E[<<i, c>>] = D[<<i, c>>]
  BY <1>1, <1>2 DEF DocsSeen, Files
<1>5. /\ Consistent(D, m, i) => Consistent(E, m, i)
      /\ Awaiting(D, m, i) => Awaiting(E, m, i)
  BY <1>4, SameVersions
<1>6. pc[q] \in Seeing =>
        IF pc[q] = "store" /\ i = cur[q][1] THEN Awaiting(D, m, i) ELSE Consistent(D, m, i)
  BY <1>1, <1>3 DEF ViewOf
<1>7. pc'[q] \in Seeing =>
        IF pc'[q] = "store" /\ i = cur'[q][1] THEN Awaiting(E, m, i) ELSE Consistent(E, m, i)
  BY <1>5, <1>6
<1> QED BY <1>2, <1>3, <1>7 DEF ViewOf

LEMMA CommittedStep ==
  ASSUME SyncType, NEW r \in Requests, StepOf(r), NEW i \in Items, Committed(i), ViewOf(r, i)
  PROVE  Committed(i)'
<1>1. CASE Finish(r)
  <2>1. docs' = DocsSeen(r) /\ family'[i] = Family(r, i) /\ pc[r] = "walk"
    BY <1>1 DEF Finish, DocsSeen
  <2>2. Consistent(DocsSeen(r), Family(r, i), i)
    BY <2>1 DEF ViewOf, Seeing
  <2> QED BY <2>1, <2>2 DEF Committed
<1>2. CASE ~Finish(r)
  <2>1. docs' = docs /\ family' = family
    BY <1>2, QuietSteps DEF table, InsertFamily, DropLatest, Store, EnqueueFails
  <2> QED BY <2>1 DEF Committed
<1> QED BY <1>1, <1>2

\* A request whose transaction has written nothing of a family sees the committed
\* one; if it has written of it, no other transaction has.
LEMMA OthersView ==
  ASSUME SyncType, WritesInv, NEW r \in Requests, StepOf(r), NEW q \in Requests, q # r,
         NEW i \in Items, ViewOf(q, i), Committed(i)'
  PROVE  ViewOf(q, i)'
<1>1. Untouched(q)
  BY OthersUntouched DEF SyncType
<1>2. CASE ~Finish(r)
  <2>1. docs' = docs /\ family' = family
    BY <1>2, QuietSteps DEF table, InsertFamily, DropLatest, Store, EnqueueFails
  <2> QED BY <1>1, <2>1, SameView DEF Untouched, Doc, Family
<1>3. CASE Finish(r) /\ writes[q].family[i] # None
  <2>1. writes[r].family[i] = None /\ \A c \in Contents : writes[r].docs[<<i, c>>] = None
    BY <1>3 DEF WritesInv
  <2>2. family'[i] = family[i] /\ \A c \in Contents : docs'[<<i, c>>] = docs[<<i, c>>]
    BY <1>3, <2>1 DEF Finish, Doc, Family, Files
  <2> QED BY <1>1, <2>2, SameView DEF Untouched, Doc, Family
<1>4. CASE Finish(r) /\ writes[q].family[i] = None
  <2>1. \A c \in Contents : writes[q].docs[<<i, c>>] = None
    BY <1>4 DEF WritesInv
  <2>2. Family(q, i)' = family'[i] /\ \A c \in Contents : Doc(q, <<i, c>>)' = docs'[<<i, c>>]
    BY <1>1, <1>4, <2>1 DEF Untouched, Doc, Family
  <2>3. PICK D : D = docs'
    OBVIOUS
  <2>4. PICK E : E = DocsSeen(q)'
    OBVIOUS
  <2>5. PICK m : m = Family(q, i)' /\ m = family'[i]
    BY <2>2
  <2>6. \A c \in Contents : E[<<i, c>>] = D[<<i, c>>]
    BY <2>2, <2>3, <2>4 DEF DocsSeen, Files
  <2>7. Consistent(D, m, i)
    BY <2>3, <2>5 DEF Committed
  <2>8. Consistent(E, m, i)
    BY <2>6, <2>7, SameVersions
  <2>9. ~(pc'[q] = "store" /\ i = cur'[q][1])
    <3>1. ASSUME pc[q] = "store", i = cur[q][1] PROVE FALSE
      <4>1. cur[q] \in Files /\ writes[q].family[i] = cur[q][2]
        BY <3>1 DEF WritesInv, SyncType, CountInv, Creating
      <4> QED BY <1>4, <4>1, SyncBoundsAssumption DEF Files
    <3> QED BY <1>1, <3>1 DEF Untouched
  <2> QED BY <2>4, <2>5, <2>8, <2>9 DEF ViewOf
<1> QED BY <1>2, <1>3, <1>4

LEMMA OwnView ==
  ASSUME SyncType, SyncType', WritesInv, SqliteInv, NEW r \in Requests, StepOf(r),
         faults' = 0 \/ dialect = "postgresql",
         NEW i \in Items, Committed(i), ViewOf(r, i)
  PROVE  ViewOf(r, i)'
<1>1. /\ pc \in [Requests -> PC] /\ faults \in Nat /\ writes \in [Requests -> Written]
      /\ writes[r] \in Written
      /\ dialect # "postgresql" => dialect = "sqlite"
  BY DialectAssumption DEF SyncType, STypeOK, Written
<1>2. CASE Start(r)
  <2>1. /\ writes[r] = Nothing /\ pc'[r] = "walk" /\ writes' = writes /\ docs' = docs /\ family' = family
    BY <1>1, <1>2 DEF Start, MayStart, Goto, WritesInv, table
  <2>2. /\ Family(r, i)' = family[i]
        /\ \A c \in Contents : Doc(r, <<i, c>>)' = docs[<<i, c>>]
    BY <2>1 DEF Family, Doc, Nothing, NoFamily, NoDocs, Files
  <2>3. PICK E : E = DocsSeen(r)'
    OBVIOUS
  <2>4. PICK D, m : D = docs /\ m = family[i] /\ m = Family(r, i)'
    BY <2>2
  <2>5. \A c \in Contents : D[<<i, c>>] = E[<<i, c>>]
    BY <2>2, <2>3, <2>4 DEF DocsSeen, Files
  <2>6. Consistent(E, m, i)
    BY <2>4, <2>5, SameVersions DEF Committed
  <2> QED BY <2>1, <2>3, <2>4, <2>6 DEF ViewOf
<1>3. CASE (\E k \in Items : Visit(r, k)) \/ SelectSame(r) \/ SelectFamily(r)
  <2>1. /\ pc[r] # "store" /\ pc'[r] # "store" /\ (pc'[r] \in Seeing => pc[r] \in Seeing)
        /\ writes' = writes /\ docs' = docs /\ family' = family
    BY <1>1, <1>3 DEF Visit, SelectSame, SelectFamily, Goto, table, Seeing, Creating
  <2> QED BY <2>1, SameView DEF Doc, Family
<1>4. CASE pc'[r] \in {"fail", "idle", "aborted"}
  BY <1>4 DEF ViewOf, Seeing, Creating
<1>5. CASE InsertFamily(r) /\ pc'[r] # "fail"
  <2> DEFINE k == cur[r][1]
  <2>1. cur[r] \in Files /\ k \in Items /\ cur[r][2] \in Contents
    BY <1>5 DEF InsertFamily, SyncType, CountInv, Creating, Files
  <2>2. /\ family[k] = None /\ pc'[r] = "store" /\ cur' = cur /\ docs' = docs /\ family' = family
        /\ writes'[r] = [writes[r] EXCEPT !.family[k] = cur[r][2]]
        /\ writes[r].family[k] = None
    BY <1>1, <1>5 DEF InsertFamily, Goto, table, WritesInv
  <2>3. /\ writes'[r].docs = writes[r].docs
        /\ \A j \in Items : writes'[r].family[j] = IF j = k THEN cur[r][2] ELSE writes[r].family[j]
    BY <1>1, <2>1, <2>2 DEF Written
  <2>4. \A c \in Contents : Doc(r, <<i, c>>)' = Doc(r, <<i, c>>)
    BY <2>2, <2>3 DEF Doc
  <2>5. CASE i # k
    <3>1. Family(r, i)' = Family(r, i)
      BY <2>2, <2>3, <2>5 DEF Family
    <3> QED BY <1>5, <2>2, <2>4, <2>5, <3>1, SameView DEF InsertFamily, Seeing, Creating
  <2>6. CASE i = k
    <3>1. Family(r, i) = None /\ Family(r, i)' = cur[r][2]
      BY <2>1, <2>2, <2>3, <2>6, SyncBoundsAssumption DEF Family
    <3>2. PICK D : D = DocsSeen(r)
      OBVIOUS
    <3>3. PICK E : E = DocsSeen(r)'
      OBVIOUS
    <3>4. PICK m \in Contents : m = cur[r][2] /\ m = Family(r, i)'
      BY <2>1, <3>1
    <3>5. Consistent(D, None, i)
      BY <1>5, <3>1, <3>2 DEF ViewOf, InsertFamily, Seeing, Creating
    <3>6. \A c \in Contents : D[<<i, c>>] = E[<<i, c>>]
      BY <2>4, <3>2, <3>3 DEF DocsSeen, Files
    <3>7. Awaiting(E, m, i)
      BY <3>5, <3>6, FirstVersion, SameVersions
    <3> QED BY <2>2, <2>6, <3>3, <3>4, <3>7 DEF ViewOf
  <2> QED BY <2>5, <2>6
<1>6. CASE DropLatest(r) /\ pc'[r] # "fail"
  <2> DEFINE k == cur[r][1]
  <2>1. cur[r] \in Files /\ k \in Items /\ cur[r][2] \in Contents /\ cur[r] = <<k, cur[r][2]>>
    BY <1>6 DEF DropLatest, SyncType, CountInv, Creating, Files
  <2>2. /\ dialect = "sqlite" /\ pc[r] = "unlatest" /\ pc'[r] = "store"
        /\ cur' = cur /\ docs' = docs /\ family' = family
        /\ writes'[r] = [writes[r] EXCEPT !.family[k] = cur[r][2],
                           !.docs = [f \in Files |-> IF f[1] = k /\ Doc(r, f) # None
                                                     THEN [Doc(r, f) EXCEPT !.latest = FALSE]
                                                     ELSE @[f]]]
    BY <1>1, <1>6 DEF DropLatest, Goto, table
  <2>3. /\ writes'[r].docs = [f \in Files |-> IF f[1] = k /\ Doc(r, f) # None
                                              THEN [Doc(r, f) EXCEPT !.latest = FALSE]
                                              ELSE writes[r].docs[f]]
        /\ \A j \in Items : writes'[r].family[j] = IF j = k THEN cur[r][2] ELSE writes[r].family[j]
    BY <1>1, <2>1, <2>2 DEF Written
  <2>4. CASE i # k
    <3>1. Family(r, i)' = Family(r, i)
      BY <2>2, <2>3, <2>4 DEF Family
    <3>2. \A c \in Contents : Doc(r, <<i, c>>)' = Doc(r, <<i, c>>)
      BY <2>2, <2>3, <2>4 DEF Doc, Files
    <3> QED BY <2>2, <2>4, <3>1, <3>2, SameView DEF Seeing, Creating
  <2>5. CASE i = k
    <3>1. /\ Doc(r, cur[r]) = None /\ Family(r, i) # None
      BY <2>2, <2>5 DEF SqliteInv
    <3>2. Family(r, i)' = cur[r][2]
      BY <2>1, <2>3, <2>5, SyncBoundsAssumption DEF Family
    <3>3. ASSUME NEW c \in Contents
          PROVE  Doc(r, <<i, c>>)' = IF Doc(r, <<i, c>>) # None
                                     THEN [Doc(r, <<i, c>>) EXCEPT !.latest = FALSE]
                                     ELSE Doc(r, <<i, c>>)
      <4>1. <<i, c>> \in Files
        BY DEF Files
      <4>2. Doc(r, <<i, c>>) # None => [Doc(r, <<i, c>>) EXCEPT !.latest = FALSE] # None
        <5>1. Doc(r, <<i, c>>) # None => [Doc(r, <<i, c>>) EXCEPT !.latest = FALSE] \in Row
          BY <4>1, WrittenType DEF SyncType, Row
        <5> QED BY <5>1, NoRowAssumption
      <4>3. writes'[r].docs[<<i, c>>] = IF Doc(r, <<i, c>>) # None
                                        THEN [Doc(r, <<i, c>>) EXCEPT !.latest = FALSE]
                                        ELSE writes[r].docs[<<i, c>>]
        BY <2>3, <2>5, <4>1
      <4>4. CASE Doc(r, <<i, c>>) # None
        <5>1. writes'[r].docs[<<i, c>>] = [Doc(r, <<i, c>>) EXCEPT !.latest = FALSE]
          BY <4>3, <4>4
        <5>2. writes'[r].docs[<<i, c>>] # None
          BY <4>2, <4>4, <5>1
        <5>3. Doc(r, <<i, c>>)' = writes'[r].docs[<<i, c>>]
          BY <5>2 DEF Doc
        <5> QED BY <4>4, <5>1, <5>3
      <4>5. CASE Doc(r, <<i, c>>) = None
        <5>1. writes[r].docs[<<i, c>>] = None /\ docs[<<i, c>>] = None
          BY <4>5 DEF Doc
        <5>2. Doc(r, <<i, c>>)' = None
          BY <2>2, <4>3, <4>5, <5>1 DEF Doc
        <5> QED BY <4>5, <5>2
      <4> QED BY <4>4, <4>5
    <3>4. PICK D : D = DocsSeen(r)
      OBVIOUS
    <3>5. PICK E : E = DocsSeen(r)'
      OBVIOUS
    <3>6. PICK c \in Contents : c = cur[r][2] /\ c = Family(r, i)'
      BY <2>1, <3>2
    <3>7. PICK old : old = Family(r, i)
      OBVIOUS
    <3>8. Consistent(D, old, i) /\ old # None
      BY <2>2, <3>1, <3>4, <3>7 DEF ViewOf, Seeing, Creating
    <3>9. D \in [Files -> Row \cup {None}]
      BY <3>4, WrittenType DEF DocsSeen, SyncType
    <3>10. D[<<i, c>>] = None
      BY <2>1, <2>5, <3>1, <3>4, <3>6 DEF DocsSeen
    <3>11. \A l \in Contents :
             E[<<i, l>>] = IF D[<<i, l>>] # None THEN [D[<<i, l>>] EXCEPT !.latest = FALSE]
                           ELSE D[<<i, l>>]
      BY <3>3, <3>4, <3>5 DEF DocsSeen, Files
    <3>12. Awaiting(E, c, i)
      BY <3>8, <3>9, <3>10, <3>11, Unlatest
    <3> QED BY <2>2, <2>5, <3>5, <3>6, <3>12 DEF ViewOf
  <2> QED BY <2>4, <2>5
<1>7. CASE Store(r)
  <2> DEFINE k == cur[r][1]
             new == [number |-> NextNumber(r, k), latest |-> TRUE]
  <2>1. cur[r] \in Files /\ k \in Items /\ cur[r][2] \in Contents /\ cur[r] = <<k, cur[r][2]>>
    BY <1>7 DEF Store, SyncType, CountInv, Creating, Files
  <2>2. new \in Row
    BY <2>1, NextNumberType DEF Row
  <2> HIDE DEF new
  <2>3. /\ pc[r] = "store" /\ pc'[r] = "walk" /\ cur' = cur /\ docs' = docs /\ family' = family
        /\ writes'[r] = [writes[r] EXCEPT !.docs[cur[r]] = new, !.queued = @ \cup {cur[r]}]
        /\ writes[r].family[k] = cur[r][2]
    BY <1>1, <1>7 DEF Store, Goto, table, WritesInv, new
  <2>4. /\ writes'[r].family = writes[r].family
        /\ writes'[r].docs = [writes[r].docs EXCEPT ![cur[r]] = new]
    BY <1>1, <2>3 DEF Written
  <2>5. Family(r, i)' = Family(r, i)
    BY <2>3, <2>4 DEF Family
  <2>6. \A f \in Files : f # cur[r] => Doc(r, f)' = Doc(r, f)
    BY <1>1, <2>3, <2>4 DEF Doc, Written
  <2>7. CASE i # k
    <3>1. \A c \in Contents : Doc(r, <<i, c>>)' = Doc(r, <<i, c>>)
      BY <2>1, <2>6, <2>7 DEF Files
    <3> QED BY <2>3, <2>5, <2>7, <3>1, SameView DEF Seeing, Creating
  <2>8. CASE i = k
    <3>1. writes'[r].docs[cur[r]] = new /\ new # None
      BY <1>1, <2>1, <2>2, <2>4, NoRowAssumption DEF Written
    <3>2. Doc(r, cur[r])' = new
      BY <2>3, <3>1 DEF Doc
    <3>3. Family(r, i) = cur[r][2]
      BY <2>1, <2>3, <2>8, SyncBoundsAssumption DEF Family
    <3>4. PICK D : D = DocsSeen(r)
      OBVIOUS
    <3>5. PICK E : E = DocsSeen(r)'
      OBVIOUS
    <3>6. PICK c \in Contents : c = cur[r][2] /\ c = Family(r, i)' /\ c = Family(r, i)
      BY <2>1, <2>5, <3>3
    <3>7. Awaiting(D, c, i)
      BY <2>3, <2>8, <3>4, <3>6 DEF ViewOf, Seeing, Creating
    <3>8. \A l \in Contents : l # c => E[<<i, l>>] = D[<<i, l>>]
      BY <2>1, <2>6, <2>8, <3>4, <3>5, <3>6 DEF DocsSeen, Files
    <3>9. E[<<i, c>>] = new
      BY <2>1, <2>3, <2>8, <3>2, <3>5, <3>6 DEF DocsSeen
    <3>10. new = [number |-> 1 + Cardinality(Versions(D, i)), latest |-> TRUE]
      <4>1. Versions(D, i) = {l \in Contents : Doc(r, <<i, l>>) # None}
        BY <3>4 DEF Versions, DocsSeen, Files
      <4> QED BY <2>8, <4>1 DEF new, NextNumber
    <3>11. Consistent(E, c, i)
      BY <3>1, <3>7, <3>8, <3>9, <3>10, NewVersion
    <3> QED BY <2>3, <3>5, <3>6, <3>11 DEF ViewOf
  <2> QED BY <2>7, <2>8
<1>8. CASE EnqueueFails(r) \/ StatementFails(r) \/ ItemFails(r)
  <2>1. CASE EnqueueFails(r) \/ StatementFails(r)
    <3>1. dialect = "postgresql"
      BY <1>1, <2>1 DEF EnqueueFails, StatementFails
    <3>2. pc'[r] = "fail"
      BY <1>1, <2>1, <3>1 DEF EnqueueFails, StatementFails, Goto
    <3> QED BY <1>4, <3>2
  <2>2. CASE ItemFails(r)
    <3>1. pc[r] = "fail" /\ faults' = faults
      BY <2>2 DEF ItemFails
    <3>2. dialect = "postgresql"
      BY <1>1, <3>1 DEF SqliteInv
    <3>3. pc'[r] = "aborted"
      BY <1>1, <2>2, <3>2 DEF ItemFails, Goto
    <3> QED BY <1>4, <3>3
  <2> QED BY <1>8, <2>1, <2>2
<1>9. CASE Finish(r) \/ FinishAborted(r) \/ SourceFails(r)
  <2>1. pc'[r] = "idle"
    BY <1>1, <1>9 DEF Finish, FinishAborted, SourceFails, Goto
  <2> QED BY <1>4, <2>1
<1> QED BY <1>2, <1>3, <1>4, <1>5, <1>6, <1>7, <1>8, <1>9 DEF StepOf

LEMMA FamilyStep ==
  ASSUME FamilyInv, [Next]_vars
  PROVE  FamilyInv'
<1>1. CASE UNCHANGED vars \/ \E i \in Items, c \in Contents : Edit(i, c)
  <2>1. UNCHANGED <<dialect, table, pc, cur, writes, faults>>
    BY <1>1 DEF vars, sourceVars, Edit
  <2>2. \A r \in Requests, i \in Items : ViewOf(r, i) => ViewOf(r, i)'
    BY <2>1, SameView DEF Doc, Family, table
  <2>3. \A i \in Items : Committed(i) => Committed(i)'
    BY <2>1 DEF Committed, table
  <2>4. ViewInv'
    BY <2>1, <2>2, <2>3 DEF FamilyInv, ViewInv, ViewOf, Committed, Seeing
  <2>5. WritesInv' /\ SqliteInv'
    BY <2>1 DEF FamilyInv, WritesInv, SqliteInv, Doc, Family, table
  <2> QED BY <2>4, <2>5, SyncTypeStep DEF FamilyInv
<1>2. ASSUME NEW r \in Requests, StepOf(r) PROVE FamilyInv'
  <2>1. SyncType /\ SyncType' /\ WritesInv /\ SqliteInv
    BY SyncTypeStep DEF FamilyInv
  <2>2. WritesInv' /\ SqliteInv'
    BY <1>2, <2>1, WritesStep, SqliteStep
  <2>3. SUFFICES ASSUME faults' = 0 \/ dialect' = "postgresql"
                 PROVE  /\ \A i \in Items : Committed(i)'
                        /\ \A q \in Requests, i \in Items : ViewOf(q, i)'
    BY <2>1, <2>2 DEF FamilyInv, ViewInv, ViewOf, Committed, Seeing
  <2>4. dialect' = dialect /\ (faults' = 0 => faults = 0)
    <3>1. faults' = faults \/ faults' = faults + 1
      BY <1>2 DEF StepOf, Start, Visit, SelectSame, SelectFamily, InsertFamily, DropLatest, Store,
                  EnqueueFails, StatementFails, ItemFails, Finish, FinishAborted, SourceFails
    <3>2. faults \in Nat
      BY <2>1 DEF SyncType
    <3> QED BY <1>2, <2>1, <3>1, <3>2, TablesAfter DEF sourceVars
  <2>5. /\ \A i \in Items : Committed(i)
        /\ \A q \in Requests, i \in Items : ViewOf(q, i)
    BY <2>3, <2>4 DEF FamilyInv, ViewInv, ViewOf, Committed, Seeing
  <2>6. \A i \in Items : Committed(i)'
    BY <1>2, <2>1, <2>5, CommittedStep
  <2>7. ASSUME NEW q \in Requests, NEW i \in Items PROVE ViewOf(q, i)'
    <3>1. CASE q = r
      BY <1>2, <2>1, <2>3, <2>4, <2>5, <3>1, OwnView
    <3>2. CASE q # r
      BY <1>2, <2>1, <2>5, <2>6, <3>2, OthersView
    <3> QED BY <3>1, <3>2
  <2> QED BY <2>6, <2>7
<1> QED BY <1>1, <1>2, NextIsStep

LEMMA FamilyInitially == Init => FamilyInv
<1> SUFFICES ASSUME Init PROVE FamilyInv
  OBVIOUS
<1>1. WritesInv
  BY DEF Init, WritesInv, Nothing, NoDocs, NoFamily, Files
<1>2. SqliteInv
  BY DEF Init, SqliteInv
<1>3. ASSUME NEW i \in Items PROVE Committed(i)
  BY DEF Init, Committed, Consistent, Versions, NoDocs, NoFamily, Files
<1>4. ViewInv
  BY <1>3 DEF Init, ViewInv, Committed, Creating
<1> QED BY <1>1, <1>2, <1>4, SyncTypeInitially DEF FamilyInv

\* For any requests, items, contents and edits: committed families are numbered
\* 1..n with exactly the newest version current, without faults on either database
\* and whatever fails on PostgreSQL.
THEOREM FamilyConsistentHolds == Spec => []FamilyConsistent
<1>1. FamilyInv /\ [Next]_vars => FamilyInv'
  BY FamilyStep
<1>2. FamilyInv => FamilyConsistent
  BY DEF FamilyInv, ViewInv, FamilyConsistent, Consistent, Numbered, Versions, VersionsOf
<1> QED BY <1>1, <1>2, FamilyInitially, PTL DEF Spec
=============================================================================
