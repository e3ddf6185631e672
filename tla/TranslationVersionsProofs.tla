---------------------- MODULE TranslationVersionsProofs ----------------------
(***************************************************************************)
(* Proofs about TranslationVersions for any number of requests, viewers,   *)
(* pipeline workers and slow workers, and every bound.  The argument for   *)
(* the version numbers: the rows of open transactions that are not in the  *)
(* table yet carry the next number, so there is at most one of them.  For  *)
(* what a preview shows: a pipeline worker leaves a payload to fall back   *)
(* to, and one slow worker never takes back what it has completed itself.  *)
(***************************************************************************)
EXTENDS TranslationVersions, FiniteSetTheorems, WellFoundedInduction, TLAPS

Count == Cardinality(Rows(versions))
Active == {p \in Processes : pc[p] # "idle"}

\* Whether p's transaction has a row that the table does not have yet.
Inserted(p, i) == versions[i] = None /\ tx[p].rows[i] # None

\* A transaction has written no version row before it inserts, completes or
\* starts one.
Unwritten ==
  \A p \in Processes :
    pc[p] \in {"idle", "count", "existing", "number", "insert", "processed", "find",
               "running", "legacy"}
      => \A i \in Ids : tx[p].rows[i] = None

\* The row a process is going to complete or translate is there.
ChosenIsThere ==
  \A p \in Processes :
    /\ pc[p] \in {"complete", "running", "translate"} => chosen[p] \in Ids
    /\ pc[p] = "complete" => Seen(p)[chosen[p]] # None
    /\ pc[p] = "running" => versions[chosen[p]] # None
    /\ pc[p] = "translate" => tx[p].rows[chosen[p]] # None

\* An update changes neither the number nor the type of a version.
RowsKeep ==
  \A p \in Processes, i \in Ids :
    versions[i] # None /\ tx[p].rows[i] # None =>
      tx[p].rows[i].number = versions[i].number /\ tx[p].rows[i].type = versions[i].type

\* A row that waits for its commit has the next number, and there is one at most.
NextInserted ==
  /\ \A p \in Processes, i \in Ids : Inserted(p, i) => tx[p].rows[i].number = Count + 1
  /\ \A p, q \in Processes, i, j \in Ids :
       Inserted(p, i) /\ Inserted(q, j) => p = q /\ i = j

\* The number read is the next one or was, before another transaction took it.
NumberRead ==
  \A p \in Processes : pc[p] = "insert" => number[p] \in 1..(Count + 1)

\* Every open transaction has a row left to insert.
Budget == IsFiniteSet(Active) /\ Cardinality(Active) + Count <= MaxVersions

VInv ==
  VTypeOK /\ Unwritten /\ ChosenIsThere /\ RowsKeep /\ NextInserted /\ NumberRead /\ Budget
    /\ NumbersDense

-----------------------------------------------------------------------------
(* Rows and their number.                                                  *)

LEMMA RowsFinite ==
  ASSUME NEW table
  PROVE  /\ IsFiniteSet(Rows(table)) /\ Cardinality(Rows(table)) \in 0..MaxVersions
         /\ Cardinality(Rows(table)) < MaxVersions => \E i \in Ids : table[i] = None
<1>1. IsFiniteSet(Ids) /\ Cardinality(Ids) = MaxVersions
  <2>1. IsFiniteSet(1..MaxVersions)
        /\ Cardinality(1..MaxVersions) = IF 1 > MaxVersions THEN 0 ELSE MaxVersions - 1 + 1
    BY FS_Interval, BoundsAssumption
  <2> QED BY <2>1, BoundsAssumption DEF Ids
<1>2. Rows(table) \in SUBSET Ids
  BY DEF Rows
<1>3. /\ IsFiniteSet(Rows(table)) /\ Cardinality(Rows(table)) <= MaxVersions
      /\ Cardinality(Rows(table)) = MaxVersions => Rows(table) = Ids
  BY <1>1, <1>2, FS_Subset
<1>4. Cardinality(Rows(table)) \in Nat
  BY <1>3, FS_CardinalityType
<1>5. Cardinality(Rows(table)) < MaxVersions => \E i \in Ids : table[i] = None
  BY <1>1, <1>3, <1>4, BoundsAssumption DEF Rows
<1> QED BY <1>3, <1>4, <1>5, BoundsAssumption

LEMMA LeastNumber ==
  ASSUME NEW S, S \subseteq Nat, S # {}
  PROVE  \E n \in S : \A m \in S : n <= m
<1> DEFINE R == OpToRel(<, Nat)
<1>1. IsWellFoundedOn(R, Nat)
  BY NatLessThanWellFounded
<1>2. PICK n \in S : \A m \in S : ~ (<<m, n>> \in R)
  <2> HIDE DEF R
  <2> QED BY <1>1, WFMin
<1>3. \A m \in S : ~ (m < n)
  BY <1>2 DEF OpToRel
<1> QED BY <1>3

LEMMA CountType == Count \in Nat /\ Count <= MaxVersions
BY RowsFinite, BoundsAssumption DEF Count

\* In a dense table the number a SELECT computes is the next one.
LEMMA NextNumberIs ==
  ASSUME NumbersDense, NEW p \in Processes, Numbers(Seen(p)) = Numbers(versions)
  PROVE  NextNumber(p) = Count + 1
<1>1. Numbers(Seen(p)) = 1..Count
  BY DEF NumbersDense, Count
<1> DEFINE Next1(n) == (\A m \in 1..Count : m < n) /\ (n = 1 \/ n - 1 \in 1..Count)
<1>2. Next1(Count + 1) /\ Count + 1 \in 1..(MaxVersions + 1)
  BY CountType, BoundsAssumption
<1>3. \A n \in 1..(MaxVersions + 1) : Next1(n) => n = Count + 1
  BY CountType, BoundsAssumption
<1>4. NextNumber(p) = CHOOSE n \in 1..(MaxVersions + 1) : Next1(n)
  BY <1>1 DEF NextNumber
<1> HIDE DEF Next1
<1> QED BY <1>2, <1>3, <1>4

\* Adding the next number to a dense table leaves it dense.
LEMMA DenseGrows ==
  ASSUME VInv, NEW p \in Processes, versions' = Seen(p)
  PROVE  /\ NumbersDense'
         /\ \/ Count' = Count /\ \A i \in Ids : versions'[i] = None <=> versions[i] = None
            \/ Count' = Count + 1 /\ \E i \in Ids : Inserted(p, i)
<1>1. \A i \in Ids : /\ versions[i] # None => versions'[i] # None
                     /\ versions[i] # None => versions'[i].number = versions[i].number
                     /\ versions'[i] # None /\ versions[i] = None => Inserted(p, i)
                     /\ Inserted(p, i) => versions'[i] # None
                                          /\ versions'[i].number = Count + 1
  BY DEF VInv, Seen, Inserted, RowsKeep, NextInserted
<1>2. /\ \A i, j \in Rows(versions) : i # j => versions[i].number # versions[j].number
      /\ Numbers(versions) = 1..Count
      /\ \A i \in Rows(versions) : versions[i].number \in 1..Count
  BY DEF VInv, NumbersDense, Count, Numbers
<1>3. IsFiniteSet(Rows(versions)) /\ Count \in Nat
  BY RowsFinite, CountType DEF Count
<1>4. CASE \E i \in Ids : Inserted(p, i)
  <2>1. PICK i \in Ids : Inserted(p, i)
    BY <1>4
  <2>2. Rows(versions)' = Rows(versions) \cup {i} /\ i \notin Rows(versions)
    BY <1>1, <2>1 DEF Rows, VInv, NextInserted, Inserted
  <2>3. Count' = Count + 1
    BY <1>3, <2>2, FS_AddElement DEF Count
  <2>4. Numbers(versions)' = 1..(Count + 1)
    <3>1. Numbers(versions)' = {versions'[j].number : j \in Rows(versions)'}
      BY DEF Numbers
    <3>2. \A j \in Rows(versions) : versions'[j].number = versions[j].number
      BY <1>1 DEF Rows
    <3>3. Numbers(versions)' = Numbers(versions) \cup {Count + 1}
      BY <1>1, <2>1, <2>2, <3>1, <3>2 DEF Numbers
    <3> QED BY <1>2, <1>3, <3>3
  <2>5. \A j, k \in Rows(versions)' : j # k => versions'[j].number # versions'[k].number
    <3>1. \A j \in Rows(versions) : versions'[j].number = versions[j].number
      BY <1>1 DEF Rows
    <3>2. versions'[i].number = Count + 1
      BY <1>1, <2>1
    <3> QED BY <1>2, <1>3, <2>2, <3>1, <3>2
  <2>6. NumbersDense'
    BY <2>3, <2>4, <2>5 DEF NumbersDense, Count
  <2> QED BY <1>4, <2>3, <2>6
<1>5. CASE ~\E i \in Ids : Inserted(p, i)
  <2>1. \A i \in Ids : versions'[i] = None <=> versions[i] = None
    BY <1>1, <1>5
  <2>2. Rows(versions)' = Rows(versions)
    BY <2>1 DEF Rows
  <2>3. \A j \in Rows(versions) : versions'[j].number = versions[j].number
    BY <1>1 DEF Rows
  <2>4. Numbers(versions)' = Numbers(versions)
    BY <2>2, <2>3 DEF Numbers
  <2>5. NumbersDense'
    BY <1>2, <2>2, <2>3, <2>4 DEF NumbersDense, Count
  <2> QED BY <2>1, <2>2, <2>5 DEF Count
<1> QED BY <1>4, <1>5

-----------------------------------------------------------------------------
(* The steps, by what they write.                                          *)

TxType == [rows : [Ids -> Row \cup {None}], quality : Quality \cup {"unwritten"},
           payload : Text \cup {"unwritten"}, views : SUBSET Viewers]

LEMMA UnreadType == Unread \in TxType
BY DEF Unread, TxType

LEMMA VInvInit == Init => VInv
<1> SUFFICES ASSUME Init PROVE VInv
  OBVIOUS
<1>1. Rows(versions) = {} /\ Active = {}
  BY DEF Init, Rows, Active
<1>2. Count = 0 /\ IsFiniteSet(Active) /\ Cardinality(Active) = 0
  BY <1>1, FS_EmptySet DEF Count
<1>3. VTypeOK
  BY UnreadType, BoundsAssumption DEF Init, VTypeOK, TxType, Quality, Text
<1>4. Numbers(versions) = 1..Count
  BY <1>1, <1>2 DEF Numbers
<1>5. NumbersDense
  BY <1>1, <1>4 DEF NumbersDense, Count
<1>6. Budget
  BY <1>2, BoundsAssumption DEF Budget
<1> QED
  BY <1>3, <1>5, <1>6
  DEF Init, VInv, Unwritten, ChosenIsThere, RowsKeep, NextInserted, Inserted, NumberRead, Unread

\* The versions and the rows of the open transactions stay as they are.
LEMMA SameRows ==
  ASSUME VInv, VTypeOK', UNCHANGED versions, \A p \in Processes : tx'[p].rows = tx[p].rows
  PROVE  RowsKeep' /\ NextInserted' /\ NumbersDense' /\ Count' = Count
BY DEF VInv, RowsKeep, NextInserted, Inserted, NumbersDense, Count, Rows, Numbers

\* A process that has not stopped or begun keeps the budget.
LEMMA BudgetKept ==
  ASSUME VInv, NEW p \in Processes, NEW s, s # "idle", pc[p] # "idle",
         pc' = [pc EXCEPT ![p] = s], UNCHANGED versions
  PROVE  Budget'
<1>1. Active' = Active
  BY DEF Active, VInv, VTypeOK
<1>2. Count' = Count
  BY DEF Count, Rows
<1> QED BY <1>1, <1>2 DEF VInv, Budget

\* An operation begins while there is room.
LEMMA BudgetOpens ==
  ASSUME VInv, NEW p \in Processes, NEW s, s # "idle", pc[p] = "idle", Room,
         pc' = [pc EXCEPT ![p] = s], UNCHANGED versions
  PROVE  Budget'
<1>1. Active' = Active \cup {p} /\ p \notin Active
  BY DEF Active, VInv, VTypeOK
<1>2. Count' = Count
  BY DEF Count, Rows
<1>3. Cardinality(Active) < MaxVersions - Count
  BY DEF Room, Active, Count
<1>4. IsFiniteSet(Active') /\ Cardinality(Active') = Cardinality(Active) + 1
  BY <1>1, FS_AddElement DEF VInv, Budget
<1>5. Cardinality(Active) \in Nat /\ Count \in Nat
  BY CountType, FS_CardinalityType DEF VInv, Budget
<1> QED BY <1>2, <1>3, <1>4, <1>5, BoundsAssumption DEF Budget

\* A transaction ends, with at most one row more in the table.
LEMMA BudgetCloses ==
  ASSUME VInv, NEW p \in Processes, pc[p] # "idle", pc' = [pc EXCEPT ![p] = "idle"],
         Count' = Count \/ Count' = Count + 1
  PROVE  Budget'
<1>1. Active' = Active \ {p} /\ p \in Active
  BY DEF Active, VInv, VTypeOK
<1>2. IsFiniteSet(Active') /\ Cardinality(Active') = Cardinality(Active) - 1
  BY <1>1, FS_RemoveElement DEF VInv, Budget
<1>3. Cardinality(Active) \in Nat /\ Count \in Nat
  BY CountType, FS_CardinalityType DEF VInv, Budget
<1> QED BY <1>2, <1>3, BoundsAssumption DEF VInv, Budget

\* A step from one statement to the next that writes no version row.
LEMMA Quiet ==
  ASSUME VInv, VTypeOK', NEW p \in Processes, NEW s,
         pc' = [pc EXCEPT ![p] = s], s # "idle", pc[p] # "idle" \/ Room,
         UNCHANGED versions, \A q \in Processes : tx'[q].rows = tx[q].rows,
         \A q \in Processes \ {p} : number'[q] = number[q] /\ chosen'[q] = chosen[q],
         s \in {"count", "existing", "number", "insert", "processed", "find", "running", "legacy"}
           => pc[p] \in {"idle", "count", "existing", "number", "insert", "processed", "find",
                         "running", "legacy"},
         s = "insert" => number'[p] \in 1..(Count + 1),
         s \in {"complete", "running"} => chosen'[p] \in Ids /\ versions[chosen'[p]] # None,
         s # "translate"
  PROVE  VInv'
<1>1. RowsKeep' /\ NextInserted' /\ NumbersDense' /\ Count' = Count
  BY SameRows
<1>2. Budget'
  BY BudgetKept, BudgetOpens
<1>3. Unwritten'
  BY DEF VInv, VTypeOK, Unwritten
<1>4. \A q \in Processes, i \in Ids :
        /\ Seen(q)'[i] = Seen(q)[i]
        /\ versions[i] # None => Seen(q)[i] # None
  BY DEF Seen
<1>5. ChosenIsThere'
  <2>1. ASSUME NEW q \in Processes, q # p
        PROVE  /\ pc'[q] = pc[q] /\ chosen'[q] = chosen[q]
               /\ chosen[q] \in Ids => Seen(q)'[chosen'[q]] = Seen(q)[chosen[q]]
    BY <1>4, <2>1 DEF VInv, VTypeOK
  <2>2. pc'[p] = s
    BY DEF VInv, VTypeOK
  <2> QED BY <1>4, <2>1, <2>2 DEF VInv, ChosenIsThere
<1>6. NumberRead'
  BY <1>1 DEF VInv, VTypeOK, NumberRead
<1> QED BY <1>1, <1>2, <1>3, <1>5, <1>6 DEF VInv

\* What WriteRow does to the transactions.
LEMMA RowWritten ==
  ASSUME VTypeOK, NEW p \in Processes, NEW i \in Ids, NEW row \in Row, WriteRow(p, i, row)
  PROVE  /\ tx' \in [Processes -> TxType]
         /\ \A q \in Processes, j \in Ids :
              tx'[q].rows[j] = IF q = p /\ j = i THEN row ELSE tx[q].rows[j]
         /\ \A q \in Processes : /\ tx'[q].quality = tx[q].quality
                                 /\ tx'[q].payload = tx[q].payload
<1>1. tx \in [Processes -> TxType]
  BY DEF VTypeOK, TxType
<1> DEFINE new == [tx[p].rows EXCEPT ![i] = row]
<1>2. tx' = [tx EXCEPT ![p] = [tx[p] EXCEPT !.rows = new]]
  BY <1>1 DEF WriteRow
<1>3. new \in [Ids -> Row \cup {None}]
      /\ \A j \in Ids : new[j] = IF j = i THEN row ELSE tx[p].rows[j]
  BY <1>1 DEF TxType
<1> HIDE DEF new
<1> QED BY <1>1, <1>2, <1>3 DEF TxType

\* A version that is there is completed, started, translated or failed.
LEMMA UpdateRow ==
  ASSUME VInv, VTypeOK', NEW p \in Processes, NEW row \in Row, NEW s \in {"translate", "quality", "commit"},
         pc[p] \in {"complete", "running", "translate"}, pc' = [pc EXCEPT ![p] = s],
         WriteRow(p, chosen[p], row),
         row.number = Seen(p)[chosen[p]].number, row.type = Seen(p)[chosen[p]].type,
         UNCHANGED <<committed, local, faults>>
  PROVE  VInv'
<1> DEFINE i == chosen[p]
<1>1. i \in Ids /\ Seen(p)[i] # None
  BY DEF VInv, ChosenIsThere, Seen
<1>2. /\ \A q \in Processes, j \in Ids :
           tx'[q].rows[j] = IF q = p /\ j = i THEN row ELSE tx[q].rows[j]
      /\ row # None
  BY <1>1, RowWritten, RowAssumption DEF VInv
<1>3. UNCHANGED <<versions, chosen, number>>
  BY DEF committed, local
<1>4. /\ \A q \in Processes : pc'[q] = IF q = p THEN s ELSE pc[q]
      /\ p \in Processes
  BY DEF VInv, VTypeOK
<1>5. \A q \in Processes, j \in Ids : Inserted(q, j)' <=> Inserted(q, j)
  BY <1>1, <1>2, <1>3 DEF Inserted, Seen
<1>6. \A q \in Processes, j \in Ids : Seen(q)[j] # None => Seen(q)'[j] # None
  BY <1>2, <1>3 DEF Seen
<1>7. Unwritten'
  BY <1>2, <1>4 DEF VInv, Unwritten
<1>8. ChosenIsThere'
  BY <1>1, <1>2, <1>3, <1>4, <1>6 DEF VInv, ChosenIsThere
<1>9. Count' = Count /\ NumbersDense'
  BY <1>3 DEF VInv, NumbersDense, Count, Rows, Numbers
<1>10. RowsKeep'
  <2>1. versions[i] # None =>
          row.number = versions[i].number /\ row.type = versions[i].type
    BY <1>1 DEF VInv, RowsKeep, Seen
  <2> QED BY <1>2, <1>3, <2>1 DEF VInv, RowsKeep
<1>11. NextInserted'
  <2>1. Inserted(p, i) => row.number = Count + 1
    BY <1>1 DEF VInv, NextInserted, Inserted, Seen
  <2> QED BY <1>2, <1>5, <1>9, <2>1 DEF VInv, NextInserted
<1>12. NumberRead'
  BY <1>3, <1>4, <1>9 DEF VInv, NumberRead
<1>13. Budget'
  BY <1>3, BudgetKept
<1> QED BY <1>7, <1>8, <1>9, <1>10, <1>11, <1>12, <1>13 DEF VInv

\* A row an operation inserts gets the next number, which no open transaction
\* holds, and an id that no row has.
LEMMA InsertedRow ==
  ASSUME VInv, NEW p \in Processes, InsertVersion(p)
  PROVE  /\ number[p] = Count + 1 /\ \A q \in Processes, j \in Ids : ~Inserted(q, j)
         /\ FreeId \in Ids /\ versions[FreeId] = None /\ \A q \in Processes : tx[q].rows[FreeId] = None
         /\ [number |-> number[p], type |-> TypeOf(p), status |-> "pending", text |-> None] \in Row
<1>1. number[p] = Count + 1
  <2>1. number[p] \in 1..(Count + 1) /\ number[p] \notin 1..Count
    BY DEF InsertVersion, NumberFree, VInv, NumberRead, NumbersDense, Count
  <2> QED BY <2>1, CountType
<1>2. \A q \in Processes, j \in Ids : ~Inserted(q, j)
  <2> SUFFICES ASSUME NEW q \in Processes, NEW j \in Ids, Inserted(q, j) PROVE FALSE
    OBVIOUS
  <2>1. tx[q].rows[j].number = number[p] /\ tx[q].rows[j] # None
    BY <1>1 DEF VInv, NextInserted, Inserted
  <2>2. q # p
    BY <2>1 DEF InsertVersion, VInv, Unwritten
  <2>3. q \in NumberWriters(p)
    BY <2>1, <2>2 DEF NumberWriters, Others, Numbers, Rows
  <2> QED BY <2>3 DEF InsertVersion, Granted, WaitsFor
<1>3. FreeId \in Ids /\ versions[FreeId] = None /\ \A q \in Processes : tx[q].rows[FreeId] = None
  <2>1. p \in Active
    BY DEF InsertVersion, Active
  <2>2. Cardinality(Active) \in Nat /\ Cardinality(Active) # 0
    BY <2>1, FS_CardinalityType, FS_EmptySet DEF VInv, Budget
  <2>3. Count < MaxVersions
    BY <2>2, CountType, BoundsAssumption DEF VInv, Budget
  <2>4. \E i \in Ids : versions[i] = None
    BY <2>3, RowsFinite DEF Count
  <2>5. \E i \in Ids : versions[i] = None /\ \A q \in Processes : tx[q].rows[i] = None
    BY <1>2, <2>4 DEF Inserted
  <2> QED BY <2>5 DEF FreeId
<1>4. [number |-> number[p], type |-> TypeOf(p), status |-> "pending", text |-> None] \in Row
  BY CountType, <1>1 DEF Row, TypeOf
<1> QED BY <1>1, <1>2, <1>3, <1>4

\* The inserted row has the next number, and there was none before it.
LEMMA InsertRow ==
  ASSUME VInv, NEW p \in Processes, InsertVersion(p)
  PROVE  VInv'
<1> DEFINE row == [number |-> number[p], type |-> TypeOf(p), status |-> "pending", text |-> None]
<1>1. number[p] = Count + 1
  BY InsertedRow
<1>2. \A q \in Processes, j \in Ids : ~Inserted(q, j)
  BY InsertedRow
<1>3. FreeId \in Ids /\ versions[FreeId] = None /\ \A q \in Processes : tx[q].rows[FreeId] = None
  BY InsertedRow
<1>4. row \in Row /\ row # None
  BY InsertedRow, RowAssumption
<1> DEFINE i == FreeId
<1> HIDE DEF row, i
<1>5. /\ tx' \in [Processes -> TxType]
      /\ \A q \in Processes, j \in Ids :
           tx'[q].rows[j] = IF q = p /\ j = i THEN row ELSE tx[q].rows[j]
  BY <1>3, <1>4, RowWritten DEF InsertVersion, VInv, row, i
<1>6. UNCHANGED <<versions, number>>
  BY DEF InsertVersion, committed
<1>7. \A q \in Processes :
        /\ pc'[q] = IF q = p THEN IF p \in Runners THEN "complete" ELSE "quality" ELSE pc[q]
        /\ chosen'[q] = IF q = p /\ p \in Runners THEN i ELSE chosen[q]
  BY DEF InsertVersion, Goto, VInv, VTypeOK, i
<1>8. VTypeOK'
  <2>1. UNCHANGED <<committed, seen, number, produced, faults>>
    BY DEF InsertVersion
  <2>2. chosen' \in [Processes -> Ids \cup {None}] /\ i \in Ids
    BY <1>3 DEF InsertVersion, VInv, VTypeOK, i
  <2>3. \E s \in {"complete", "quality"} : pc' = [pc EXCEPT ![p] = s]
    BY DEF InsertVersion, Goto
  <2> QED BY <1>5, <2>1, <2>2, <2>3 DEF VInv, VTypeOK, TxType, committed
<1>9. Unwritten'
  BY <1>5, <1>7 DEF VInv, Unwritten
<1>10. ChosenIsThere'
  <2>1. \A q \in Processes, j \in Ids : Seen(q)[j] # None => Seen(q)'[j] # None
    BY <1>4, <1>5, <1>6 DEF Seen
  <2>2. Seen(p)'[i] # None /\ i \in Ids
    BY <1>3, <1>4, <1>5 DEF Seen, i
  <2> QED BY <1>5, <1>6, <1>7, <2>1, <2>2, <1>4 DEF VInv, ChosenIsThere
<1>11. Count' = Count /\ NumbersDense'
  BY <1>6 DEF VInv, NumbersDense, Count, Rows, Numbers
<1>12. RowsKeep'
  BY <1>3, <1>5, <1>6 DEF VInv, RowsKeep, i
<1>13. NextInserted'
  <2>1. \A q \in Processes, j \in Ids : Inserted(q, j)' => q = p /\ j = i
    BY <1>2, <1>5, <1>6 DEF Inserted
  <2>2. tx'[p].rows[i].number = Count + 1
    BY <1>1, <1>3, <1>5 DEF row, i
  <2> QED BY <1>11, <2>1, <2>2 DEF NextInserted
<1>14. NumberRead'
  BY <1>6, <1>7, <1>11 DEF VInv, NumberRead
<1>15. Budget'
  <2>1. \E s \in {"complete", "quality"} : pc' = [pc EXCEPT ![p] = s]
    BY DEF InsertVersion, Goto
  <2> QED BY <1>6, <2>1, BudgetKept DEF InsertVersion
<1> QED BY <1>8, <1>9, <1>10, <1>11, <1>12, <1>13, <1>14, <1>15 DEF VInv

\* A transaction ends without a commit.
LEMMA ResetType ==
  ASSUME VTypeOK, NEW p \in Processes, Reset(p)
  PROVE  /\ tx' \in [Processes -> TxType] /\ pc' = [pc EXCEPT ![p] = "idle"]
         /\ \A q \in Processes :
              /\ q # p => tx'[q] = tx[q] /\ pc'[q] = pc[q] /\ number'[q] = number[q]
                          /\ chosen'[q] = chosen[q] /\ produced'[q] = produced[q]
              /\ q = p => tx'[q] = Unread /\ pc'[q] = "idle"
         /\ seen' \in [Processes -> Quality] /\ number' \in [Processes -> Nat]
         /\ chosen' \in [Processes -> Ids \cup {None}] /\ produced' \in [Processes -> Text]
         /\ pc' \in [Processes -> {"idle", "count", "existing", "number", "insert", "quality",
                                   "processed", "find", "complete", "running", "translate",
                                   "legacy", "commit"}]
BY UnreadType DEF VTypeOK, Reset, Goto, TxType, Quality, Text

LEMMA ResetInv ==
  ASSUME VInv, NEW p \in Processes, pc[p] # "idle", Reset(p), UNCHANGED committed,
         faults' \in 0..MaxFaults
  PROVE  VInv'
<1>1. VTypeOK'
  BY ResetType DEF VInv, VTypeOK, TxType, committed
<1>2. versions' = versions
  BY DEF committed
<1>3. \A q \in Processes, i \in Ids :
        tx'[q].rows[i] = IF q = p THEN None ELSE tx[q].rows[i]
  BY ResetType DEF VInv, Unread
<1>4. Count' = Count /\ NumbersDense'
  BY <1>2 DEF VInv, NumbersDense, Count, Rows, Numbers
<1>5. Unwritten' /\ NumberRead'
  BY ResetType, <1>3, <1>4 DEF VInv, Unwritten, NumberRead
<1>6. ChosenIsThere'
  <2>1. \A q \in Processes \ {p} : Seen(q)' = Seen(q)
    BY ResetType, <1>2 DEF Seen, VInv
  <2> QED BY ResetType, <1>2, <2>1 DEF VInv, ChosenIsThere
<1>7. RowsKeep' /\ NextInserted'
  BY <1>2, <1>3, <1>4 DEF VInv, RowsKeep, NextInserted, Inserted
<1>8. Budget'
  BY ResetType, <1>4, BudgetCloses DEF VInv
<1> QED BY <1>1, <1>4, <1>5, <1>6, <1>7, <1>8 DEF VInv

\* A commit publishes what the transaction has written.
LEMMA CommitInv ==
  ASSUME VInv, NEW p \in Processes, Commit(p)
  PROVE  VInv'
<1>0. pc[p] = "commit" /\ Reset(p) /\ versions' = Seen(p)
  BY DEF Commit
<1>1. versions' \in [Ids -> Row \cup {None}]
  BY <1>0 DEF Seen, VInv, VTypeOK
<1>2. VTypeOK'
  BY ResetType, <1>0, <1>1 DEF Commit, VInv, VTypeOK, TxType
<1>3. /\ NumbersDense'
      /\ \/ Count' = Count /\ \A i \in Ids : versions'[i] = None <=> versions[i] = None
         \/ Count' = Count + 1 /\ \E i \in Ids : Inserted(p, i)
  BY <1>0, DenseGrows
<1>4. \A q \in Processes, i \in Ids :
        tx'[q].rows[i] = IF q = p THEN None ELSE tx[q].rows[i]
  BY <1>0, ResetType DEF VInv, Unread
<1>5. \A i \in Ids : /\ versions'[i] = IF tx[p].rows[i] # None THEN tx[p].rows[i] ELSE versions[i]
                     /\ versions[i] # None =>
                          /\ versions'[i] # None
                          /\ versions'[i].number = versions[i].number
                          /\ versions'[i].type = versions[i].type
  BY <1>0 DEF Seen, VInv, RowsKeep
<1>6. Unwritten'
  BY <1>0, <1>4, ResetType DEF VInv, Unwritten
<1>7. NumberRead'
  <2>1. \A q \in Processes : pc'[q] = "insert" => pc[q] = "insert" /\ number'[q] = number[q]
    BY <1>0, ResetType DEF VInv
  <2> QED BY <1>3, <2>1, CountType DEF VInv, NumberRead
<1>8. ChosenIsThere'
  <2>1. \A q \in Processes, i \in Ids : q # p /\ Seen(q)[i] # None => Seen(q)'[i] # None
    BY <1>4, <1>5 DEF Seen
  <2> QED BY <1>0, <1>4, <1>5, <2>1, ResetType DEF VInv, ChosenIsThere
<1>9. \A q \in Processes, i \in Ids : Inserted(q, i)' => q # p /\ Inserted(q, i)
  BY <1>4, <1>5 DEF Inserted
<1>10. NextInserted'
  <2>1. (\E q \in Processes, i \in Ids : Inserted(q, i)') => Count' = Count
    BY <1>3, <1>9 DEF VInv, NextInserted
  <2> QED BY <1>4, <1>9, <2>1 DEF VInv, NextInserted
<1>11. RowsKeep'
  <2> SUFFICES ASSUME NEW q \in Processes, NEW i \in Ids, versions'[i] # None, tx'[q].rows[i] # None
               PROVE  /\ tx'[q].rows[i].number = versions'[i].number
                      /\ tx'[q].rows[i].type = versions'[i].type
    BY DEF RowsKeep
  <2>1. q # p /\ tx[q].rows[i] # None /\ tx'[q].rows[i] = tx[q].rows[i]
    BY <1>4
  <2>2. versions[i] # None
    <3>1. SUFFICES ASSUME versions[i] = None PROVE FALSE
      OBVIOUS
    <3>2. Inserted(q, i) /\ Inserted(p, i)
      BY <1>5, <2>1, <3>1 DEF Inserted
    <3> QED BY <2>1, <3>2 DEF VInv, NextInserted
  <2> QED BY <1>5, <2>1, <2>2 DEF VInv, RowsKeep
<1>12. Budget'
  BY <1>0, <1>3, ResetType, BudgetCloses DEF VInv
<1> QED BY <1>2, <1>3, <1>6, <1>7, <1>8, <1>10, <1>11, <1>12 DEF VInv

-----------------------------------------------------------------------------
(* One lemma per group of operations.                                      *)

\* The text a request, worker or slow worker writes.
LEMMA TextTypes == HighText \in Text \cup {"high"} /\ \A text \in Texts : text \in Text
BY DEF HighText, Texts, Text

LEMMA SeenType ==
  ASSUME VTypeOK, NEW p \in Processes
  PROVE  Seen(p) \in [Ids -> Row \cup {None}]
BY DEF VTypeOK, Seen

\* A row whose status and text change is a row, of the same number and type.
LEMMA RowUpdates ==
  ASSUME NEW row \in Row, NEW status \in {"running", "available", "failed"},
         NEW text \in {None, "fast", "same", "high"}
  PROVE  /\ [row EXCEPT !.status = status, !.text = text] \in Row
         /\ [row EXCEPT !.status = status, !.text = text].number = row.number
         /\ [row EXCEPT !.status = status, !.text = text].type = row.type
         /\ [row EXCEPT !.status = status] \in Row
         /\ [row EXCEPT !.status = status].number = row.number
         /\ [row EXCEPT !.status = status].type = row.type
BY DEF Row

LEMMA RequestInv ==
  ASSUME VInv, NEW p \in Processes,
         RequestTranslation(p) \/ SelectNumber(p) \/ InsertConflicts(p) \/ QueueEnrichment(p)
  PROVE  VInv'
<1> USE DEF Goto
<1>0. VTypeOK /\ tx \in [Processes -> TxType] /\ faults \in 0..MaxFaults
  BY DEF VInv, VTypeOK, TxType
<1>1. CASE RequestTranslation(p)
  <2>1. VTypeOK'
    BY <1>0, <1>1 DEF RequestTranslation, VTypeOK, committed, local
  <2> QED BY <1>1, <2>1, Quiet DEF RequestTranslation, committed, local
<1>2. CASE SelectNumber(p)
  <2>1. \A i \in Ids : tx[p].rows[i] = None
    BY <1>2 DEF SelectNumber, VInv, Unwritten
  <2>2. Seen(p) = [i \in Ids |-> versions[i]]
    BY <2>1 DEF Seen
  <2>3. Numbers(Seen(p)) = Numbers(versions)
    BY <2>2 DEF Numbers, Rows
  <2>4. NextNumber(p) = Count + 1 /\ Count \in Nat
    BY <2>3, NextNumberIs, CountType DEF VInv
  <2>5. VTypeOK'
    BY <1>0, <1>2, <2>4 DEF SelectNumber, VTypeOK, committed
  <2>6. number'[p] = Count + 1 /\ \A q \in Processes \ {p} : number'[q] = number[q]
    BY <1>0, <1>2, <2>4 DEF SelectNumber, VTypeOK
  <2>7. number'[p] \in 1..(Count + 1)
    BY <2>4, <2>6
  <2> QED BY <1>2, <2>5, <2>6, <2>7, Quiet DEF SelectNumber, committed
<1>3. CASE InsertConflicts(p)
  BY <1>0, <1>3, ResetInv DEF InsertConflicts
<1>4. CASE QueueEnrichment(p)
  <2>1. tx' \in [Processes -> TxType] /\ \A q \in Processes : tx'[q].rows = tx[q].rows
    BY <1>0, <1>4 DEF QueueEnrichment, WriteQuality, TxType, Quality
  <2>2. VTypeOK'
    BY <1>0, <1>4, <2>1 DEF QueueEnrichment, VTypeOK, TxType, committed, local
  <2> QED BY <1>4, <2>1, <2>2, Quiet DEF QueueEnrichment, committed, local
<1> QED BY <1>1, <1>2, <1>3, <1>4

LEMMA ViewInv ==
  ASSUME VInv, NEW p \in Processes, RecordView(p) \/ CountViews(p) \/ SelectExisting(p)
  PROVE  VInv'
<1> USE DEF Goto
<1>0. VTypeOK /\ tx \in [Processes -> TxType]
  BY DEF VInv, VTypeOK, TxType
<1>1. CASE RecordView(p)
  <2>1. tx' \in [Processes -> TxType] /\ \A q \in Processes : tx'[q].rows = tx[q].rows
    BY <1>0, <1>1 DEF RecordView, TxType
  <2>2. VTypeOK'
    BY <1>0, <1>1, <2>1 DEF RecordView, VTypeOK, TxType, committed
  <2> QED BY <1>1, <2>1, <2>2, Quiet DEF RecordView, committed
<1>2. CASE CountViews(p)
  <2>1. VTypeOK'
    BY <1>0, <1>2 DEF CountViews, VTypeOK, committed, local
  <2> QED BY <1>2, <2>1, Quiet DEF CountViews, committed, local
<1>3. CASE SelectExisting(p)
  <2>1. VTypeOK'
    BY <1>0, <1>3 DEF SelectExisting, VTypeOK, committed, local
  <2> QED BY <1>3, <2>1, Quiet DEF SelectExisting, committed, local
<1> QED BY <1>1, <1>2, <1>3

LEMMA WorkerInv ==
  ASSUME VInv, NEW p \in Processes,
         ProcessDocument(p) \/ WriteIndexed(p) \/ FindUnfinished(p) \/ CompleteVersion(p)
  PROVE  VInv'
<1> USE DEF Goto
<1>0. VTypeOK /\ tx \in [Processes -> TxType] /\ produced \in [Processes -> Text]
  BY DEF VInv, VTypeOK, TxType
<1>1. CASE ProcessDocument(p)
  <2>1. VTypeOK'
    BY <1>0, <1>1, TextTypes DEF ProcessDocument, VTypeOK, committed
  <2> QED BY <1>1, <2>1, Quiet DEF ProcessDocument, committed
<1>2. CASE WriteIndexed(p)
  <2>1. tx' \in [Processes -> TxType] /\ \A q \in Processes : tx'[q].rows = tx[q].rows
    BY <1>0, <1>2 DEF WriteIndexed, TxType, Quality
  <2>2. VTypeOK'
    BY <1>0, <1>2, <2>1 DEF WriteIndexed, VTypeOK, TxType, committed, local
  <2> QED BY <1>2, <2>1, <2>2, Quiet DEF WriteIndexed, committed, local
<1>3. CASE FindUnfinished(p)
  <2>1. \A i \in Unfinished(versions) : i \in Ids /\ versions[i] # None
    BY DEF Unfinished, Rows
  <2>2. VTypeOK'
    <3>1. chosen' \in [Processes -> Ids \cup {None}]
      BY <1>0, <1>3, <2>1 DEF FindUnfinished, VTypeOK
    <3>2. \E s \in {"number", "complete"} : pc' = [pc EXCEPT ![p] = s]
      BY <1>3 DEF FindUnfinished
    <3>3. UNCHANGED <<committed, tx, seen, number, produced, faults>>
      BY <1>3 DEF FindUnfinished
    <3> QED BY <1>0, <3>1, <3>2, <3>3 DEF VTypeOK, committed
  <2>3. /\ \A q \in Processes \ {p} : chosen'[q] = chosen[q]
        /\ pc'[p] = "complete" => chosen'[p] \in Unfinished(versions)
    BY <1>0, <1>3 DEF FindUnfinished, VTypeOK
  <2>4. \E s \in {"number", "complete"} : pc' = [pc EXCEPT ![p] = s]
    BY <1>3 DEF FindUnfinished
  <2>5. pc'[p] \in {"number", "complete"} /\ pc' = [pc EXCEPT ![p] = pc'[p]]
    BY <1>0, <2>4 DEF VTypeOK
  <2> QED BY <1>3, <2>1, <2>2, <2>3, <2>5, Quiet DEF FindUnfinished, committed
<1>4. CASE CompleteVersion(p)
  <2> DEFINE i == chosen[p]
             row == [Seen(p)[i] EXCEPT !.status = "available", !.text = produced[p]]
  <2>1. i \in Ids /\ Seen(p)[i] \in Row /\ produced[p] \in {None, "fast", "same", "high"}
    BY <1>0, <1>4, SeenType DEF CompleteVersion, VInv, ChosenIsThere, Text
  <2>2. row \in Row /\ row.number = Seen(p)[i].number /\ row.type = Seen(p)[i].type
    BY <2>1, RowUpdates
  <2>3. WriteRow(p, i, row) /\ pc[p] = "complete" /\ pc' = [pc EXCEPT ![p] = "commit"]
        /\ UNCHANGED <<committed, local, faults>>
    BY <1>4 DEF CompleteVersion
  <2> HIDE DEF row
  <2>4. tx' \in [Processes -> TxType]
    BY <1>0, <2>1, <2>2, <2>3, RowWritten
  <2>5. VTypeOK'
    BY <1>0, <2>3, <2>4 DEF VTypeOK, TxType, committed, local
  <2> QED BY <2>2, <2>3, <2>5, UpdateRow
<1> QED BY <1>1, <1>2, <1>3, <1>4

\* The row the slow worker writes keeps its number and type.
LEMMA SlowUpdates ==
  ASSUME VInv, NEW p \in Processes, StartVersion(p) \/ TranslateVersion(p) \/ FailVersion(p)
  PROVE  /\ chosen[p] \in Ids /\ pc[p] \in {"running", "translate"}
         /\ \E row \in Row, s \in {"translate", "quality", "commit"} :
              /\ WriteRow(p, chosen[p], row) /\ pc' = [pc EXCEPT ![p] = s]
              /\ row.number = Seen(p)[chosen[p]].number /\ row.type = Seen(p)[chosen[p]].type
              /\ (row.status = "available" <=> s = "quality")
<1> USE DEF Goto
<1>0. VTypeOK
  BY DEF VInv
<1> DEFINE i == chosen[p]
<1>1. pc[p] \in {"running", "translate"} /\ i \in Ids /\ Seen(p)[i] \in Row
  BY <1>0, SeenType DEF StartVersion, TranslateVersion, FailVersion, VInv, ChosenIsThere, Seen
<1>2. Seen(p)[i] = IF pc[p] = "running" THEN versions[i] ELSE tx[p].rows[i]
  BY <1>1 DEF StartVersion, TranslateVersion, FailVersion, VInv, ChosenIsThere, Unwritten, Seen
<1>3. /\ Seen(p)[i].text \in {None, "fast", "same", "high"}
      /\ HighText \in {None, "fast", "same", "high"}
  BY <1>1, TextTypes DEF Row, Text
<1>4. \E row \in Row, s \in {"translate", "quality", "commit"} :
        /\ WriteRow(p, i, row) /\ row.number = Seen(p)[i].number /\ row.type = Seen(p)[i].type
        /\ pc' = [pc EXCEPT ![p] = s] /\ (row.status = "available" <=> s = "quality")
  <2>1. CASE StartVersion(p)
    <3>1. WriteRow(p, i, [Seen(p)[i] EXCEPT !.status = "running"])
      BY <1>2, <2>1 DEF StartVersion
    <3> DEFINE row == [Seen(p)[i] EXCEPT !.status = "running"]
    <3>2. row \in Row /\ row.number = Seen(p)[i].number /\ row.type = Seen(p)[i].type
          /\ row.status = "running"
      BY <1>1 DEF Row
    <3> HIDE DEF row
    <3> QED BY <2>1, <3>1, <3>2 DEF StartVersion, row
  <2>2. CASE TranslateVersion(p)
    <3>1. WriteRow(p, i, [Seen(p)[i] EXCEPT !.status = "available", !.text = HighText])
      BY <1>2, <2>2 DEF TranslateVersion
    <3> DEFINE row == [Seen(p)[i] EXCEPT !.status = "available", !.text = HighText]
    <3>2. row \in Row /\ row.number = Seen(p)[i].number /\ row.type = Seen(p)[i].type
          /\ row.status = "available"
      BY <1>1, <1>3 DEF Row
    <3> HIDE DEF row
    <3> QED BY <2>2, <3>1, <3>2 DEF TranslateVersion, row
  <2>3. CASE FailVersion(p)
    <3>1. PICK text \in {Seen(p)[i].text, HighText} :
            WriteRow(p, i, [Seen(p)[i] EXCEPT !.status = "failed", !.text = text])
      BY <1>2, <2>3 DEF FailVersion
    <3> DEFINE row == [Seen(p)[i] EXCEPT !.status = "failed", !.text = text]
    <3>2. text \in {None, "fast", "same", "high"}
      BY <1>3
    <3>3. row \in Row /\ row.number = Seen(p)[i].number /\ row.type = Seen(p)[i].type
          /\ row.status = "failed"
      BY <1>1, <3>2 DEF Row
    <3> HIDE DEF row
    <3> QED BY <2>3, <3>1, <3>3 DEF FailVersion, row
  <2> QED BY <2>1, <2>2, <2>3
<1> QED BY <1>1, <1>4

\* The row a slow worker takes first is pending.
LEMMA OldestPending ==
  ASSUME VTypeOK, Pending(versions) # {}
  PROVE  Oldest(Pending(versions)) \in Pending(versions)
<1>1. \A i \in Pending(versions) : i \in Ids /\ versions[i] \in Row
  BY DEF Pending, Rows, VTypeOK
<1> DEFINE P == Pending(versions)
           S == {versions[i].number : i \in P}
<1>2. S # {} /\ S \subseteq Nat
  BY <1>1 DEF Row
<1>3. PICK n \in S : \A m \in S : n <= m
  BY <1>2, LeastNumber
<1> QED BY <1>3 DEF Oldest

LEMMA SlowWorkerInv ==
  ASSUME VInv, NEW p \in Processes,
         \/ SelectPending(p) \/ StartVersion(p) \/ TranslateVersion(p) \/ FailVersion(p)
         \/ EnrichLegacy(p) \/ FailLegacy(p)
  PROVE  VInv'
<1> USE DEF Goto
<1>0. VTypeOK /\ tx \in [Processes -> TxType]
  BY DEF VInv, VTypeOK, TxType
<1>1. CASE SelectPending(p)
  <2>1. Pending(versions) # {} => Oldest(Pending(versions)) \in Pending(versions)
    BY <1>0, OldestPending
  <2>2. \A i \in Pending(versions) : i \in Ids /\ versions[i] # None
    BY DEF Pending, Rows
  <2>3. VTypeOK'
    <3>1. chosen' \in [Processes -> Ids \cup {None}]
      BY <1>0, <1>1, <2>1, <2>2 DEF SelectPending, VTypeOK
    <3>2. \E s \in {"legacy", "running"} : pc' = [pc EXCEPT ![p] = s]
      BY <1>1 DEF SelectPending
    <3>3. UNCHANGED <<committed, tx, seen, number, produced, faults>>
      BY <1>1 DEF SelectPending
    <3> QED BY <1>0, <3>1, <3>2, <3>3 DEF VTypeOK, committed
  <2>4. /\ \A q \in Processes \ {p} : chosen'[q] = chosen[q]
        /\ pc'[p] = "running" => chosen'[p] \in Pending(versions)
    BY <1>0, <1>1, <2>1 DEF SelectPending, VTypeOK
  <2>5. \E s \in {"legacy", "running"} : pc' = [pc EXCEPT ![p] = s]
    BY <1>1 DEF SelectPending
  <2>6. pc'[p] \in {"legacy", "running"} /\ pc' = [pc EXCEPT ![p] = pc'[p]]
    BY <1>0, <2>5 DEF VTypeOK
  <2> QED BY <1>1, <2>2, <2>3, <2>4, <2>6, Quiet DEF SelectPending, committed
<1>2. CASE StartVersion(p) \/ TranslateVersion(p) \/ FailVersion(p)
  <2> DEFINE i == chosen[p]
  <2>1. pc[p] \in {"running", "translate"} /\ i \in Ids
    BY <1>2, SlowUpdates
  <2>5. PICK row \in Row, s \in {"translate", "quality", "commit"} :
          /\ WriteRow(p, i, row) /\ row.number = Seen(p)[i].number /\ row.type = Seen(p)[i].type
          /\ pc' = [pc EXCEPT ![p] = s]
    BY <1>2, SlowUpdates
  <2>6. UNCHANGED <<committed, local, faults>>
    BY <1>2 DEF StartVersion, TranslateVersion, FailVersion
  <2>7. tx' \in [Processes -> TxType]
    BY <1>0, <2>1, <2>5, RowWritten
  <2>8. VTypeOK'
    BY <1>0, <2>5, <2>6, <2>7 DEF VTypeOK, TxType, committed, local
  <2> QED BY <2>1, <2>5, <2>6, <2>8, UpdateRow
<1>3. CASE EnrichLegacy(p)
  <2>1. tx' \in [Processes -> TxType] /\ \A q \in Processes : tx'[q].rows = tx[q].rows
    BY <1>0, <1>3 DEF EnrichLegacy, WriteQuality, TxType, Quality
  <2>2. VTypeOK'
    BY <1>0, <1>3, <2>1 DEF EnrichLegacy, VTypeOK, TxType, committed, local
  <2> QED BY <1>3, <2>1, <2>2, Quiet DEF EnrichLegacy, committed, local
<1>4. CASE FailLegacy(p)
  <2>1. VTypeOK'
    BY <1>0, <1>4 DEF FailLegacy, VTypeOK, committed, local
  <2> QED BY <1>4, <2>1, Quiet DEF FailLegacy, committed, local
<1> QED BY <1>1, <1>2, <1>3, <1>4

LEMMA AbortInv ==
  ASSUME VInv, NEW p \in Processes, AbortDeadlock(p) \/ Abort(p)
  PROVE  VInv'
<1>1. faults' \in 0..MaxFaults
  BY BoundsAssumption DEF AbortDeadlock, Abort, VInv, VTypeOK
<1>2. pc[p] # "idle"
  BY DEF AbortDeadlock, Abort, Deadlocked, WaitsFor
<1> QED BY <1>1, <1>2, ResetInv DEF AbortDeadlock, Abort

LEMMA VInvNext == VInv /\ [Next]_vars => VInv'
<1> SUFFICES ASSUME VInv, [Next]_vars PROVE VInv'
  OBVIOUS
<1>1. CASE UNCHANGED vars
  <2> USE <1>1 DEF vars, committed, local
  <2>1. VTypeOK' /\ Unwritten'
    BY DEF VInv, VTypeOK, Unwritten
  <2>2. ChosenIsThere'
    BY DEF VInv, ChosenIsThere, Seen
  <2>3. RowsKeep' /\ NextInserted' /\ NumbersDense' /\ Count' = Count
    BY <2>1, SameRows
  <2>4. NumberRead' /\ Budget'
    BY <2>3 DEF VInv, NumberRead, Budget, Active
  <2> QED BY <2>1, <2>2, <2>3, <2>4 DEF VInv
<1>2. CASE Next
  BY <1>2, RequestInv, InsertRow, ViewInv, WorkerInv, SlowWorkerInv, CommitInv, AbortInv
  DEF Next, Start, Statement
<1> QED BY <1>1, <1>2

\* The type invariant of the table, its readers and its writers.
THEOREM VersionsTypeCorrect == Spec => []VTypeOK
<1>1. VInv => VTypeOK
  BY DEF VInv
<1> QED BY <1>1, VInvInit, VInvNext, PTL DEF Spec

\* The version numbers have no duplicate and no gap, for any number of writers.
THEOREM NumbersDenseHolds == Spec => []NumbersDense
<1>1. VInv => NumbersDense
  BY DEF VInv
<1> QED BY <1>1, VInvInit, VInvNext, PTL DEF Spec

-----------------------------------------------------------------------------
(* QueuedHasRequest: whoever completes a version writes the quality too.   *)

\* Which operation reaches which statement.
Roles ==
  \A p \in Processes :
    /\ pc[p] \in {"processed", "find", "complete"} => p \in Runners
    /\ pc[p] \in {"running", "translate", "legacy"} => p \in SlowWorkers
    /\ pc[p] \in {"number", "insert"} => p \notin SlowWorkers
    /\ pc[p] = "quality" => p \notin Runners
    /\ pc[p] \in {"count", "existing"} => p \in Viewers

\* The transaction of p has written a request that waits for a translation.
Requests(p) ==
  \E i \in Ids : /\ tx[p].rows[i] # None /\ tx[p].rows[i].type # "ingestion"
                 /\ tx[p].rows[i].status # "available"
\* The transaction of p has completed a version.
Completes(p) == \E i \in Ids : tx[p].rows[i] # None /\ tx[p].rows[i].status = "available"

\* A transaction that queues the document has written the request; one that
\* completes a version takes the document off the queue, before or after.
QueueLocal(p) ==
  /\ tx[p].quality = "pending_high" \/ (pc[p] = "quality" /\ p \notin SlowWorkers) =>
       Requests(p) /\ ~Completes(p)
  /\ Completes(p) =>
       tx[p].quality \in {None, "fast", "high"} \/ (pc[p] = "quality" /\ p \in SlowWorkers)
  /\ p \in Runners /\ pc[p] \in {"find", "number", "insert", "complete"} =>
       tx[p].quality \in {None, "fast"}
  /\ \/ pc[p] \in {"number", "insert", "quality"} /\ p \notin Runners
     \/ pc[p] \in {"idle", "count", "existing", "running", "translate"} =>
       tx[p].quality = "unwritten"

QInv == Roles /\ (\A p \in Processes : QueueLocal(p)) /\ QueuedHasRequest

LEMMA ProcessDisjoint ==
  /\ \A p \in Processes : p \in Requesters \/ p \in Viewers \/ p \in Runners \/ p \in SlowWorkers
  /\ \A p \in Requesters : p \notin Viewers /\ p \notin Runners /\ p \notin SlowWorkers
  /\ \A p \in Viewers : p \notin Runners /\ p \notin SlowWorkers
  /\ \A p \in Runners : p \notin SlowWorkers
BY ProcessAssumption DEF Processes

\* None is none of the words a quality can be.
LEMMA Words ==
  /\ None # "pending_high" /\ None # "unwritten" /\ None # "fast" /\ None # "high" /\ None # "same"
BY NoneAssumption

LEMMA QInvInit == Init => QInv
BY Words DEF Init, QInv, Roles, QueueLocal, Requests, Completes, QueuedHasRequest, Unread

LEMMA RolesNext ==
  ASSUME VTypeOK, Roles, NEW p \in Processes,
         Start(p) \/ Statement(p) \/ AbortDeadlock(p) \/ Abort(p)
  PROVE  Roles'
<1> USE ProcessDisjoint DEF Goto, Roles, VTypeOK
<1>1. CASE Start(p)
  BY <1>1 DEF Start, RequestTranslation, RecordView, ProcessDocument, SelectPending
<1>2. CASE SelectNumber(p) \/ InsertVersion(p) \/ QueueEnrichment(p) \/ CountViews(p)
  BY <1>2 DEF SelectNumber, InsertVersion, QueueEnrichment, CountViews
<1>3. CASE SelectExisting(p) \/ WriteIndexed(p) \/ FindUnfinished(p) \/ CompleteVersion(p)
  BY <1>3 DEF SelectExisting, WriteIndexed, FindUnfinished, CompleteVersion
<1>4. CASE StartVersion(p) \/ TranslateVersion(p) \/ FailVersion(p) \/ EnrichLegacy(p) \/ FailLegacy(p)
  BY <1>4 DEF StartVersion, TranslateVersion, FailVersion, EnrichLegacy, FailLegacy
<1>5. CASE InsertConflicts(p) \/ Commit(p) \/ AbortDeadlock(p) \/ Abort(p)
  BY <1>5 DEF InsertConflicts, Commit, AbortDeadlock, Abort, Reset
<1> QED BY <1>1, <1>2, <1>3, <1>4, <1>5 DEF Statement

\* Who writes nothing to the table leaves the others' part of QInv alone.
LEMMA QueueStep ==
  ASSUME QInv, Roles', NEW p \in Processes, UNCHANGED <<versions, quality>>,
         \A q \in Processes \ {p} : tx'[q] = tx[q] /\ pc'[q] = pc[q],
         QueueLocal(p)'
  PROVE  QInv'
<1>1. QueuedHasRequest'
  BY DEF QInv, QueuedHasRequest, Rows
<1>2. ASSUME NEW q \in Processes, q # p
      PROVE  QueueLocal(q)'
  BY <1>2 DEF QInv, QueueLocal, Requests, Completes
<1> QED BY <1>1, <1>2 DEF QInv

\* The statements that move p without writing.
LEMMA QueueQuiet ==
  ASSUME VInv, QInv, Roles', NEW p \in Processes, NEW s, pc' = [pc EXCEPT ![p] = s],
         UNCHANGED <<versions, quality>>,
         \A q \in Processes : tx'[q].rows = tx[q].rows /\ tx'[q].quality = tx[q].quality,
         s # "quality", pc[p] # "quality",
         p \in Runners /\ s \in {"find", "number", "insert", "complete"} =>
           tx[p].quality \in {None, "fast"},
         \/ s \in {"number", "insert"} /\ p \notin Runners
         \/ s \in {"idle", "count", "existing", "running", "translate"} =>
           tx[p].quality = "unwritten"
  PROVE  QInv'
<1>1. QueuedHasRequest'
  BY DEF QInv, QueuedHasRequest, Rows
<1>2. \A q \in Processes : pc'[q] = IF q = p THEN s ELSE pc[q]
  BY DEF VInv, VTypeOK
<1>3. ASSUME NEW q \in Processes
      PROVE  QueueLocal(q)'
  <2>1. Requests(q)' = Requests(q) /\ Completes(q)' = Completes(q)
    BY DEF Requests, Completes
  <2> QED BY <1>2, <2>1 DEF QInv, QueueLocal
<1> QED BY <1>1, <1>3 DEF QInv

LEMMA QueueReads ==
  ASSUME VInv, QInv, Roles', NEW p \in Processes,
         Start(p) \/ SelectNumber(p) \/ CountViews(p) \/ SelectExisting(p)
           \/ FindUnfinished(p) \/ FailLegacy(p)
  PROVE  QInv'
<1> USE ProcessDisjoint DEF Goto, committed, local
<1>0. /\ QueueLocal(p) /\ Roles
      /\ pc[p] \in {"idle", "count", "existing", "number", "find", "legacy"}
  BY DEF QInv, Start, RequestTranslation, RecordView, ProcessDocument, SelectPending,
         SelectNumber, CountViews, SelectExisting, FindUnfinished, FailLegacy
<1>1. CASE RecordView(p)
  <2>1. \A q \in Processes : tx'[q].rows = tx[q].rows /\ tx'[q].quality = tx[q].quality
    BY <1>1 DEF RecordView, VInv, VTypeOK
  <2> QED BY <1>0, <1>1, <2>1, QueueQuiet DEF RecordView, QueueLocal
<1>2. CASE RequestTranslation(p) \/ ProcessDocument(p) \/ SelectPending(p)
  <2>1. PICK s \in {"number", "processed", "legacy", "running"} :
          pc' = [pc EXCEPT ![p] = s] /\ UNCHANGED <<versions, quality, tx>>
                /\ (s = "number" => p \in Requesters)
    BY <1>2 DEF RequestTranslation, ProcessDocument, SelectPending
  <2>2. pc[p] = "idle"
    BY <1>2 DEF RequestTranslation, ProcessDocument, SelectPending
  <2> QED BY <1>0, <2>1, <2>2, QueueQuiet DEF QueueLocal
<1>3. CASE SelectNumber(p)
  BY <1>0, <1>3, QueueQuiet DEF SelectNumber, QueueLocal
<1>4. CASE CountViews(p) \/ SelectExisting(p)
  <2>1. PICK s \in {"existing", "commit", "number"} :
          pc' = [pc EXCEPT ![p] = s] /\ UNCHANGED <<versions, quality, tx>>
    BY <1>4 DEF CountViews, SelectExisting
  <2>2. pc[p] \in {"count", "existing"} /\ p \in Viewers
    BY <1>0, <1>4 DEF CountViews, SelectExisting, Roles
  <2> QED BY <1>0, <2>1, <2>2, QueueQuiet DEF QueueLocal
<1>5. CASE FindUnfinished(p)
  <2>1. PICK s \in {"number", "complete"} :
          pc' = [pc EXCEPT ![p] = s] /\ UNCHANGED <<versions, quality, tx>>
    BY <1>5 DEF FindUnfinished
  <2>2. pc[p] = "find" /\ p \in Runners
    BY <1>0, <1>5 DEF FindUnfinished, Roles
  <2> QED BY <1>0, <2>1, <2>2, QueueQuiet DEF QueueLocal
<1>6. CASE FailLegacy(p)
  BY <1>0, <1>6, QueueQuiet DEF FailLegacy, Roles
<1> QED BY <1>1, <1>2, <1>3, <1>4, <1>5, <1>6 DEF Start

\* A request enters the table as pending; what a runner inserts it completes.
LEMMA QueueInserts ==
  ASSUME VInv, QInv, Roles', VTypeOK', NEW p \in Processes, InsertVersion(p)
  PROVE  QInv'
<1> DEFINE row == [number |-> number[p], type |-> TypeOf(p), status |-> "pending", text |-> None]
<1>0. pc[p] = "insert" /\ WriteRow(p, FreeId, row) /\ UNCHANGED <<versions, quality>>
  BY DEF InsertVersion, committed
<1>1. FreeId \in Ids /\ row \in Row
  BY InsertedRow
<1>2. row # None /\ row.status = "pending" /\ (p \notin Runners => row.type # "ingestion")
  BY <1>0, <1>1, RowAssumption, ProcessDisjoint DEF TypeOf, QInv, Roles
<1> HIDE DEF row
<1>3. /\ \A q \in Processes, j \in Ids :
           tx'[q].rows[j] = IF q = p /\ j = FreeId THEN row ELSE tx[q].rows[j]
      /\ \A q \in Processes : tx'[q].quality = tx[q].quality
  BY <1>0, <1>1, RowWritten DEF VInv
<1>4. /\ \A q \in Processes \ {p} : tx'[q] = tx[q] /\ pc'[q] = pc[q]
      /\ pc'[p] = IF p \in Runners THEN "complete" ELSE "quality"
  BY <1>0 DEF InsertVersion, WriteRow, Goto, VInv, VTypeOK
<1>5. QueueLocal(p) /\ p \notin SlowWorkers /\ \A i \in Ids : tx[p].rows[i] = None
  BY <1>0 DEF QInv, Roles, VInv, Unwritten
<1>6. ~Completes(p)'
  BY <1>2, <1>3, <1>5 DEF Completes
<1>7. p \notin Runners => Requests(p)'
  BY <1>1, <1>2, <1>3 DEF Requests
<1>8. QueueLocal(p)'
  BY <1>0, <1>3, <1>4, <1>5, <1>6, <1>7, Words DEF QueueLocal
<1> QED BY <1>0, <1>4, <1>8, QueueStep

\* The statements that write the quality.
LEMMA QueueWritesQuality ==
  ASSUME VInv, QInv, Roles', NEW p \in Processes,
         QueueEnrichment(p) \/ EnrichLegacy(p) \/ WriteIndexed(p)
  PROVE  QInv'
<1> USE DEF Goto, committed, local
<1>0. QueueLocal(p) /\ Roles /\ UNCHANGED <<versions, quality>>
  BY DEF QInv, QueueEnrichment, EnrichLegacy, WriteIndexed
<1>1. \A q \in Processes \ {p} : tx'[q] = tx[q] /\ pc'[q] = pc[q]
  BY DEF QueueEnrichment, EnrichLegacy, WriteIndexed, WriteQuality, VInv, VTypeOK
<1>2. tx'[p].rows = tx[p].rows
  BY DEF QueueEnrichment, EnrichLegacy, WriteIndexed, WriteQuality, VInv, VTypeOK
<1>3. Requests(p)' = Requests(p) /\ Completes(p)' = Completes(p)
  BY <1>2 DEF Requests, Completes
<1>4. CASE QueueEnrichment(p)
  <2>1. /\ pc[p] = "quality" /\ pc'[p] = "commit"
        /\ tx'[p].quality = IF p \in SlowWorkers THEN "high" ELSE "pending_high"
    BY <1>4 DEF QueueEnrichment, WriteQuality, VInv, VTypeOK
  <2>2. QueueLocal(p)'
    BY <1>0, <1>3, <2>1 DEF QueueLocal
  <2> QED BY <1>0, <1>1, <2>2, QueueStep
<1>5. CASE EnrichLegacy(p)
  <2>1. pc'[p] = "commit" /\ tx'[p].quality = "high"
    BY <1>5 DEF EnrichLegacy, WriteQuality, VInv, VTypeOK
  <2>2. QueueLocal(p)'
    BY <1>0, <1>3, <2>1 DEF QueueLocal
  <2> QED BY <1>0, <1>1, <2>2, QueueStep
<1>6. CASE WriteIndexed(p)
  <2>1. p \in Runners /\ p \notin SlowWorkers
    BY <1>0, <1>6, ProcessDisjoint DEF WriteIndexed, Roles
  <2>2. pc'[p] \in {"commit", "find"} /\ tx'[p].quality \in {None, "fast"}
    BY <1>6 DEF WriteIndexed, VInv, VTypeOK
  <2>3. QueueLocal(p)'
    BY <1>0, <1>3, <2>1, <2>2, Words DEF QueueLocal
  <2> QED BY <1>0, <1>1, <2>3, QueueStep
<1> QED BY <1>4, <1>5, <1>6

\* The statements that write a row that is there already.
LEMMA QueueUpdates ==
  ASSUME VInv, QInv, Roles', NEW p \in Processes, NEW row \in Row, NEW i \in Ids,
         NEW s \in {"translate", "quality", "commit"},
         UNCHANGED <<versions, quality>>, WriteRow(p, i, row), pc' = [pc EXCEPT ![p] = s],
         tx[p].quality # "pending_high",
         row.status = "available" \/ Completes(p) =>
           tx[p].quality \in {None, "fast"} \/ (s = "quality" /\ p \in SlowWorkers),
         s = "quality" => p \in SlowWorkers /\ p \notin Runners,
         s # "commit" => tx[p].quality = "unwritten"
  PROVE  QInv'
<1>1. /\ \A q \in Processes, j \in Ids :
           tx'[q].rows[j] = IF q = p /\ j = i THEN row ELSE tx[q].rows[j]
      /\ \A q \in Processes : tx'[q].quality = tx[q].quality
  BY RowWritten DEF VInv
<1>2. /\ \A q \in Processes \ {p} : tx'[q] = tx[q] /\ pc'[q] = pc[q]
      /\ pc'[p] = s
  BY DEF WriteRow, VInv, VTypeOK
<1>3. Completes(p)' => row.status = "available" \/ Completes(p)
  BY <1>1 DEF Completes
<1>4. QueueLocal(p)'
  BY <1>1, <1>2, <1>3 DEF QueueLocal
<1> QED BY <1>2, <1>4, QueueStep

LEMMA QueueCompletes ==
  ASSUME VInv, QInv, Roles', NEW p \in Processes,
         CompleteVersion(p) \/ StartVersion(p) \/ TranslateVersion(p) \/ FailVersion(p)
  PROVE  QInv'
<1>0. QueueLocal(p) /\ Roles /\ UNCHANGED <<versions, quality>>
  BY DEF QInv, CompleteVersion, StartVersion, TranslateVersion, FailVersion, committed
<1>1. CASE CompleteVersion(p)
  <2> DEFINE i == chosen[p]
             row == [Seen(p)[i] EXCEPT !.status = "available", !.text = produced[p]]
  <2>1. i \in Ids /\ row \in Row
    <3>1. i \in Ids /\ Seen(p)[i] \in Row /\ produced[p] \in {None, "fast", "same", "high"}
      BY <1>1, SeenType DEF CompleteVersion, VInv, VTypeOK, ChosenIsThere, Text
    <3> QED BY <3>1, RowUpdates
  <2>2. pc[p] = "complete" /\ WriteRow(p, i, row) /\ pc' = [pc EXCEPT ![p] = "commit"]
    BY <1>1 DEF CompleteVersion, Goto
  <2>3. tx[p].quality \in {None, "fast"}
    BY <1>0, <2>2 DEF QueueLocal, Roles
  <2> HIDE DEF row, i
  <2> QED BY <1>0, <2>1, <2>2, <2>3, Words, QueueUpdates
<1>2. CASE StartVersion(p) \/ TranslateVersion(p) \/ FailVersion(p)
  <2>1. PICK row \in Row, s \in {"translate", "quality", "commit"} :
          /\ WriteRow(p, chosen[p], row) /\ pc' = [pc EXCEPT ![p] = s]
          /\ (row.status = "available" <=> s = "quality")
    BY <1>2, SlowUpdates
  <2>2. chosen[p] \in Ids /\ pc[p] \in {"running", "translate"}
    BY <1>2, SlowUpdates
  <2>3. p \in SlowWorkers /\ p \notin Runners /\ tx[p].quality = "unwritten"
    BY <1>0, <2>2, ProcessDisjoint DEF QueueLocal, Roles
  <2>4. ~Completes(p)
    BY <1>0, <2>2, <2>3, Words DEF QueueLocal
  <2> QED BY <1>0, <2>1, <2>2, <2>3, <2>4, QueueUpdates
<1> QED BY <1>1, <1>2

\* A transaction ends: what it completed, it has also taken off the queue.
LEMMA QueueEnds ==
  ASSUME VInv, QInv, Roles', NEW p \in Processes,
         Commit(p) \/ InsertConflicts(p) \/ AbortDeadlock(p) \/ Abort(p)
  PROVE  QInv'
<1>0. Reset(p) /\ VTypeOK
  BY DEF Commit, InsertConflicts, AbortDeadlock, Abort, VInv
<1>1. \A q \in Processes \ {p} : tx'[q] = tx[q] /\ pc'[q] = pc[q]
  BY <1>0, ResetType
<1>2. tx'[p] = Unread /\ pc'[p] = "idle"
  BY <1>0, ResetType
<1>3. QueueLocal(p)'
  BY <1>2, Words DEF QueueLocal, Requests, Completes, Unread
<1>4. CASE Commit(p)
  <2>1. QueuedHasRequest'
    <3> SUFFICES ASSUME quality' = "pending_high"
                 PROVE  \E i \in Rows(versions)' : /\ versions'[i].type # "ingestion"
                                                   /\ versions'[i].status # "available"
      BY DEF QueuedHasRequest
    <3>1. versions' = Seen(p) /\ pc[p] = "commit" /\ QueueLocal(p)
      BY <1>4 DEF Commit, QInv
    <3>2. CASE tx[p].quality = "pending_high"
      <4>1. PICK i \in Ids : /\ tx[p].rows[i] # None /\ tx[p].rows[i].type # "ingestion"
                             /\ tx[p].rows[i].status # "available"
        BY <3>1, <3>2 DEF QueueLocal, Requests
      <4>2. versions'[i] = tx[p].rows[i]
        BY <3>1, <4>1 DEF Seen
      <4> QED BY <4>1, <4>2 DEF Rows
    <3>3. CASE tx[p].quality = "unwritten"
      <4>1. PICK i \in Rows(versions) : /\ versions[i].type # "ingestion"
                                        /\ versions[i].status # "available"
        BY <1>4, <3>3 DEF Commit, QInv, QueuedHasRequest
      <4>2. i \in Ids /\ versions[i] # None
        BY <4>1 DEF Rows
      <4>3. ~Completes(p)
        BY <3>1, <3>3, Words DEF QueueLocal
      <4>4. versions'[i] = IF tx[p].rows[i] # None THEN tx[p].rows[i] ELSE versions[i]
        BY <3>1, <4>2 DEF Seen
      <4>5. tx[p].rows[i] # None => /\ tx[p].rows[i].type = versions[i].type
                                    /\ tx[p].rows[i].status # "available"
        BY <4>2, <4>3 DEF VInv, RowsKeep, Completes
      <4> QED BY <4>1, <4>2, <4>4, <4>5 DEF Rows
    <3> QED BY <1>4, <3>2, <3>3 DEF Commit
  <2>2. ASSUME NEW q \in Processes, q # p PROVE QueueLocal(q)'
    BY <1>1, <2>2 DEF QInv, QueueLocal, Requests, Completes
  <2> QED BY <1>3, <2>1, <2>2 DEF QInv
<1>5. CASE InsertConflicts(p) \/ AbortDeadlock(p) \/ Abort(p)
  <2>1. UNCHANGED <<versions, quality>>
    BY <1>5 DEF InsertConflicts, AbortDeadlock, Abort, committed
  <2> QED BY <1>1, <1>3, <2>1, QueueStep
<1> QED BY <1>4, <1>5

LEMMA QInvNext == VInv /\ VInv' /\ QInv /\ [Next]_vars => QInv'
<1> SUFFICES ASSUME VInv, VInv', QInv, [Next]_vars PROVE QInv'
  OBVIOUS
<1>1. CASE UNCHANGED vars
  BY <1>1 DEF vars, committed, QInv, Roles, QueueLocal, Requests, Completes, QueuedHasRequest, Rows
<1>2. ASSUME NEW p \in Processes, Start(p) \/ Statement(p) \/ AbortDeadlock(p) \/ Abort(p)
      PROVE  QInv'
  <2>1. Roles'
    BY <1>2, RolesNext DEF VInv, QInv
  <2> QED BY <1>2, <2>1, QueueReads, QueueInserts, QueueWritesQuality, QueueCompletes, QueueEnds
      DEF Statement, VInv
<1> QED BY <1>1, <1>2 DEF Next

\* A document that waits for an enrichment has a request that is not served.
THEOREM QueuedHasRequestHolds == Spec => []QueuedHasRequest
<1>1. QInv => QueuedHasRequest
  BY DEF QInv
<1> QED BY <1>1, VInvInit, VInvNext, QInvInit, QInvNext, PTL DEF Spec

-----------------------------------------------------------------------------
(* TranslationStaysShown, with one slow worker: two could start the same   *)
(* version one after the other, and the second fail what the first showed. *)

\* Only a document with a text has translations, and then an available version
\* has one.
TextOf(row) ==
  row # None => /\ row.text # None => hasText
                /\ hasText /\ row.status = "available" => row.text # None

\* A pipeline worker writes the payload before it completes a version.
TextLocal(p) ==
  /\ produced[p] # None => hasText
  /\ tx[p].payload \notin {None, "unwritten"} => hasText
  /\ tx[p].payload = None => ~hasText
  /\ p \in Runners /\ pc[p] # "idle" /\ hasText => produced[p] # None
  /\ p \in Runners /\ pc[p] \notin {"idle", "processed"} => tx[p].payload # "unwritten"

\* Who writes which status: only a pending version is new, only workers
\* complete one, only a slow worker fails one.
RowLocal(p, i) ==
  /\ TextOf(tx[p].rows[i])
  /\ tx[p].rows[i] # None =>
       /\ tx[p].rows[i].status = "pending" => versions[i] = None
       /\ tx[p].rows[i].status = "available" => p \in Runners \/ p \in SlowWorkers
       /\ p \notin SlowWorkers => tx[p].rows[i].status \in {"pending", "available"}

\* A version that is shown without a payload to fall back to is left alone.
Kept(p, i) ==
  hasText /\ payload = None /\ versions[i] # None /\ versions[i].status = "available" =>
    /\ tx[p].rows[i] # None => tx[p].rows[i].status = "available"
    /\ pc[p] \in {"running", "translate"} => chosen[p] # i

TextInv ==
  /\ payload # None => hasText
  /\ \A i \in Ids : TextOf(versions[i])
  /\ \A p \in Processes : TextLocal(p)
  /\ \A p \in Processes, i \in Ids : RowLocal(p, i) /\ Kept(p, i)

LEMMA TextInvInit == Init => TextInv
BY Words DEF Init, TextInv, TextOf, TextLocal, RowLocal, Kept, Unread

\* Who writes nothing to the tables leaves the others' part of TextInv alone.
LEMMA TextStep ==
  ASSUME TextInv, NEW p \in Processes, UNCHANGED <<hasText, versions, payload>>,
         \A q \in Processes \ {p} :
           tx'[q] = tx[q] /\ pc'[q] = pc[q] /\ chosen'[q] = chosen[q] /\ produced'[q] = produced[q],
         TextLocal(p)', \A i \in Ids : RowLocal(p, i)' /\ Kept(p, i)'
  PROVE  TextInv'
<1>1. (payload # None => hasText)' /\ \A i \in Ids : TextOf(versions[i])'
  BY DEF TextInv, TextOf
<1>2. ASSUME NEW q \in Processes, q # p
      PROVE  TextLocal(q)' /\ \A i \in Ids : RowLocal(q, i)' /\ Kept(q, i)'
  BY <1>2 DEF TextInv, TextLocal, RowLocal, Kept, TextOf
<1> QED BY <1>1, <1>2 DEF TextInv

\* The statements of p that write no version.
LEMMA TextQuiet ==
  ASSUME VInv, TextInv, NEW p \in Processes, NEW s, pc' = [pc EXCEPT ![p] = s],
         UNCHANGED <<hasText, versions, payload>>,
         \A q \in Processes \ {p} :
           tx'[q] = tx[q] /\ chosen'[q] = chosen[q] /\ produced'[q] = produced[q],
         tx'[p].rows = tx[p].rows, TextLocal(p)', s # "translate",
         s = "running" => \A i \in Ids :
           versions[i] # None /\ versions[i].status = "available" => chosen'[p] # i
  PROVE  TextInv'
<1>1. \A q \in Processes : pc'[q] = IF q = p THEN s ELSE pc[q]
  BY DEF VInv, VTypeOK
<1>2. \A i \in Ids : RowLocal(p, i)'
  BY DEF TextInv, RowLocal, TextOf
<1>3. \A i \in Ids : Kept(p, i)'
  BY <1>1 DEF TextInv, Kept
<1> QED BY <1>1, <1>2, <1>3, TextStep

LEMMA TextReads ==
  ASSUME VInv, QInv, TextInv, NEW p \in Processes,
         Start(p) \/ SelectNumber(p) \/ CountViews(p) \/ SelectExisting(p)
           \/ FindUnfinished(p) \/ FailLegacy(p)
  PROVE  TextInv'
<1> USE ProcessDisjoint DEF Goto, committed, local
<1>0. TextLocal(p) /\ Roles /\ VTypeOK
  BY DEF TextInv, QInv, VInv
<1>1. CASE RecordView(p)
  <2>1. /\ \A q \in Processes \ {p} : tx'[q] = tx[q]
        /\ tx'[p].rows = tx[p].rows /\ tx'[p].payload = tx[p].payload
    BY <1>0, <1>1 DEF RecordView, VTypeOK
  <2>2. TextLocal(p)'
    BY <1>0, <1>1, <2>1 DEF RecordView, TextLocal
  <2> QED BY <1>1, <2>1, <2>2, TextQuiet DEF RecordView
<1>2. CASE RequestTranslation(p)
  <2>1. TextLocal(p)'
    BY <1>0, <1>2 DEF RequestTranslation, TextLocal
  <2> QED BY <1>2, <2>1, TextQuiet DEF RequestTranslation
<1>3. CASE ProcessDocument(p)
  <2>1. PICK text \in Texts : produced' = [produced EXCEPT ![p] = text]
    BY <1>3 DEF ProcessDocument
  <2>2. text # None <=> hasText
    BY <2>1, Words DEF Texts
  <2>3. /\ \A q \in Processes \ {p} : produced'[q] = produced[q]
        /\ produced'[p] = text /\ pc'[p] = "processed"
    BY <1>0, <1>3, <2>1 DEF ProcessDocument, VTypeOK
  <2>4. TextLocal(p)'
    BY <1>0, <1>3, <2>2, <2>3 DEF ProcessDocument, TextLocal
  <2> QED BY <1>3, <2>3, <2>4, TextQuiet DEF ProcessDocument
<1>4. CASE SelectPending(p)
  <2>1. \A q \in Processes \ {p} : chosen'[q] = chosen[q]
    BY <1>0, <1>4 DEF SelectPending, VTypeOK
  <2>2. PICK s \in {"legacy", "running"} : pc' = [pc EXCEPT ![p] = s]
          /\ (s = "running" => chosen'[p] \in Pending(versions))
    BY <1>0, <1>4, OldestPending DEF SelectPending, VTypeOK
  <2>3. s = "running" => \A i \in Ids :
          versions[i] # None /\ versions[i].status = "available" => chosen'[p] # i
    BY <2>2 DEF Pending
  <2>4. TextLocal(p)'
    BY <1>0, <1>4 DEF SelectPending, TextLocal
  <2> QED BY <1>4, <2>1, <2>2, <2>3, <2>4, TextQuiet DEF SelectPending
<1>5. CASE SelectNumber(p) \/ CountViews(p) \/ SelectExisting(p) \/ FailLegacy(p)
  <2>1. PICK s \in {"insert", "existing", "commit", "number"} : pc' = [pc EXCEPT ![p] = s]
    BY <1>5 DEF SelectNumber, CountViews, SelectExisting, FailLegacy
  <2>2. /\ UNCHANGED <<hasText, versions, payload, tx, chosen, produced>>
        /\ pc[p] \in {"number", "count", "existing", "legacy"}
    BY <1>5 DEF SelectNumber, CountViews, SelectExisting, FailLegacy
  <2>3. TextLocal(p)'
    BY <1>0, <2>1, <2>2 DEF TextLocal
  <2> QED BY <2>1, <2>2, <2>3, TextQuiet
<1>6. CASE FindUnfinished(p)
  <2>1. PICK s \in {"complete", "number"} : pc' = [pc EXCEPT ![p] = s]
    BY <1>6 DEF FindUnfinished
  <2>2. /\ UNCHANGED <<hasText, versions, payload, tx, produced>> /\ pc[p] = "find"
        /\ \A q \in Processes \ {p} : chosen'[q] = chosen[q]
    BY <1>0, <1>6 DEF FindUnfinished, VTypeOK
  <2>3. TextLocal(p)'
    BY <1>0, <2>1, <2>2 DEF TextLocal
  <2> QED BY <2>1, <2>2, <2>3, TextQuiet
<1> QED BY <1>1, <1>2, <1>3, <1>4, <1>5, <1>6 DEF Start

\* The statements that write the document's quality and its payload.
LEMMA TextWritesQuality ==
  ASSUME VInv, QInv, TextInv, NEW p \in Processes,
         QueueEnrichment(p) \/ EnrichLegacy(p) \/ WriteIndexed(p)
  PROVE  TextInv'
<1> USE ProcessDisjoint DEF Goto, committed, local
<1>0. TextLocal(p) /\ Roles /\ VTypeOK
  BY DEF TextInv, QInv, VInv
<1>1. /\ \A q \in Processes \ {p} : tx'[q] = tx[q]
      /\ tx'[p].rows = tx[p].rows
      /\ UNCHANGED <<hasText, versions, payload, chosen, produced>>
  BY <1>0 DEF QueueEnrichment, EnrichLegacy, WriteIndexed, WriteQuality, VTypeOK
<1>2. PICK s \in {"commit", "find"} : pc' = [pc EXCEPT ![p] = s]
  BY DEF QueueEnrichment, EnrichLegacy, WriteIndexed
<1>3. TextLocal(p)'
  <2>1. CASE QueueEnrichment(p) \/ EnrichLegacy(p)
    <3>1. tx'[p].payload = tx[p].payload /\ pc[p] \in {"quality", "legacy"}
      BY <1>0, <2>1 DEF QueueEnrichment, EnrichLegacy, WriteQuality, VTypeOK
    <3>2. p \notin Runners
      BY <1>0, <3>1 DEF Roles
    <3> QED BY <1>0, <1>1, <3>1, <3>2 DEF TextLocal
  <2>2. CASE WriteIndexed(p)
    <3>1. tx'[p].payload = produced[p] /\ pc[p] = "processed" /\ p \in Runners
      BY <1>0, <2>2 DEF WriteIndexed, VTypeOK, Roles
    <3>2. produced[p] # "unwritten"
      BY <1>0, Words DEF VTypeOK, Text
    <3> QED BY <1>0, <1>1, <3>1, <3>2 DEF TextLocal
  <2> QED BY <2>1, <2>2
<1> QED BY <1>1, <1>2, <1>3, TextQuiet

\* The statements that write a version.
LEMMA TextWritesRow ==
  ASSUME VInv, TextInv, NEW p \in Processes, NEW i \in Ids, NEW row \in Row,
         NEW s \in {"complete", "quality", "commit", "translate"},
         WriteRow(p, i, row), pc' = [pc EXCEPT ![p] = s], pc[p] \notin {"idle", "processed"},
         UNCHANGED <<hasText, versions, payload, produced>>,
         \A q \in Processes \ {p} : chosen'[q] = chosen[q],
         TextOf(row), row.status = "pending" => versions[i] = None,
         row.status = "available" => p \in Runners \/ p \in SlowWorkers,
         p \notin SlowWorkers => row.status \in {"pending", "available"},
         \/ row.status = "available" \/ versions[i] = None
         \/ Kept(p, i) /\ chosen[p] = i /\ pc[p] \in {"running", "translate"},
         s = "translate" => /\ pc[p] = "running" /\ UNCHANGED chosen
  PROVE  TextInv'
<1>0. VTypeOK /\ TextLocal(p)
  BY DEF VInv, TextInv
<1>1. /\ \A q \in Processes, j \in Ids :
           tx'[q].rows[j] = IF q = p /\ j = i THEN row ELSE tx[q].rows[j]
      /\ \A q \in Processes : tx'[q].payload = tx[q].payload
  BY <1>0, RowWritten
<1>2. /\ \A q \in Processes \ {p} : tx'[q] = tx[q] /\ pc'[q] = pc[q]
      /\ pc'[p] = s
  BY <1>0 DEF WriteRow, VTypeOK
<1>3. TextLocal(p)'
  BY <1>0, <1>1, <1>2 DEF TextLocal
<1>4. \A j \in Ids : RowLocal(p, j)'
  BY <1>1 DEF TextInv, RowLocal, TextOf
<1>5. \A j \in Ids : Kept(p, j)'
  BY <1>1, <1>2 DEF TextInv, Kept
<1> QED BY <1>2, <1>3, <1>4, <1>5, TextStep

LEMMA TextInserts ==
  ASSUME VInv, QInv, TextInv, NEW p \in Processes, InsertVersion(p)
  PROVE  TextInv'
<1> DEFINE row == [number |-> number[p], type |-> TypeOf(p), status |-> "pending", text |-> None]
<1>1. FreeId \in Ids /\ versions[FreeId] = None /\ row \in Row
  BY InsertedRow
<1>2. row.status = "pending" /\ TextOf(row)
  BY DEF TextOf
<1>3. PICK s \in {"complete", "quality"} : pc' = [pc EXCEPT ![p] = s]
  BY DEF InsertVersion, Goto
<1>4. /\ WriteRow(p, FreeId, row) /\ pc[p] = "insert"
      /\ UNCHANGED <<hasText, versions, payload, produced>>
      /\ \A q \in Processes \ {p} : chosen'[q] = chosen[q]
  BY DEF InsertVersion, committed, VInv, VTypeOK
<1> HIDE DEF row
<1> QED BY <1>1, <1>2, <1>3, <1>4, TextWritesRow

LEMMA TextUpdates ==
  ASSUME VInv, QInv, TextInv, NEW p \in Processes,
         CompleteVersion(p) \/ StartVersion(p) \/ TranslateVersion(p) \/ FailVersion(p)
  PROVE  TextInv'
<1> USE ProcessDisjoint DEF Goto, committed, local
<1> DEFINE i == chosen[p]
<1>0. VTypeOK /\ Roles /\ TextLocal(p)
  BY DEF VInv, QInv, TextInv
<1>1. /\ UNCHANGED <<hasText, versions, payload, produced, chosen>>
      /\ pc[p] \in {"complete", "running", "translate"} /\ i \in Ids
      /\ Seen(p)[i] \in Row /\ TextOf(Seen(p)[i])
  <2>1. /\ UNCHANGED <<hasText, versions, payload, produced, chosen>>
        /\ pc[p] \in {"complete", "running", "translate"} /\ i \in Ids
    BY DEF CompleteVersion, StartVersion, TranslateVersion, FailVersion, VInv, ChosenIsThere
  <2>2. Seen(p)[i] # None /\ Seen(p)[i] \in Row \cup {None}
    BY <1>0, <2>1, SeenType DEF VInv, ChosenIsThere, Seen
  <2>3. TextOf(Seen(p)[i])
    BY <2>1 DEF TextInv, RowLocal, Seen
  <2> QED BY <2>1, <2>2, <2>3
<1>2. HighText \in {None, "high"} /\ (HighText # None <=> hasText)
  BY NoneAssumption DEF HighText
<1>3. RowLocal(p, i) /\ Kept(p, i)
  BY <1>1 DEF TextInv
<1>4. Seen(p)[i] # None
  BY <1>1, RowAssumption
<1>5. CASE CompleteVersion(p)
  <2> DEFINE row == [Seen(p)[i] EXCEPT !.status = "available", !.text = produced[p]]
  <2>1. pc[p] = "complete" /\ p \in Runners /\ pc' = [pc EXCEPT ![p] = "commit"] /\ WriteRow(p, i, row)
    BY <1>0, <1>5 DEF CompleteVersion, Roles
  <2>2. produced[p] # None <=> hasText
    BY <1>0, <2>1 DEF TextLocal
  <2>3. row \in Row /\ row.status = "available" /\ row.text = produced[p]
    BY <1>0, <1>1 DEF Row, VTypeOK, Text
  <2>4. TextOf(row)
    BY <2>2, <2>3 DEF TextOf
  <2> HIDE DEF row
  <2> QED BY <1>1, <2>1, <2>3, <2>4, TextWritesRow
<1>6. CASE StartVersion(p)
  <2> DEFINE row == [versions[i] EXCEPT !.status = "running"]
  <2>1. pc[p] = "running" /\ p \in SlowWorkers /\ pc' = [pc EXCEPT ![p] = "translate"] /\ WriteRow(p, i, row)
    BY <1>0, <1>6 DEF StartVersion, Roles
  <2>2. versions[i] = Seen(p)[i]
    BY <1>1, <2>1 DEF VInv, Unwritten, Seen
  <2>3. row \in Row /\ row.status = "running" /\ row.text = versions[i].text
    BY <1>1, <2>2 DEF Row
  <2>4. TextOf(row)
    BY <1>1, <1>4, <2>2, <2>3 DEF TextOf
  <2> HIDE DEF row
  <2> QED BY <1>1, <1>3, <2>1, <2>3, <2>4, TextWritesRow
<1>7. CASE TranslateVersion(p)
  <2> DEFINE row == [tx[p].rows[i] EXCEPT !.status = "available", !.text = HighText]
  <2>1. pc[p] = "translate" /\ p \in SlowWorkers /\ pc' = [pc EXCEPT ![p] = "quality"] /\ WriteRow(p, i, row)
    BY <1>0, <1>7 DEF TranslateVersion, Roles
  <2>2. tx[p].rows[i] = Seen(p)[i]
    BY <1>1, <2>1 DEF VInv, ChosenIsThere, Seen
  <2>3. row \in Row /\ row.status = "available" /\ row.text = HighText
    BY <1>1, <1>2, <2>2 DEF Row
  <2>4. TextOf(row)
    BY <1>2, <2>3 DEF TextOf
  <2> HIDE DEF row
  <2> QED BY <1>1, <2>1, <2>3, <2>4, TextWritesRow
<1>8. CASE FailVersion(p)
  <2>1. PICK text \in {tx[p].rows[i].text, HighText} :
          WriteRow(p, i, [tx[p].rows[i] EXCEPT !.status = "failed", !.text = text])
    BY <1>8 DEF FailVersion
  <2> DEFINE row == [tx[p].rows[i] EXCEPT !.status = "failed", !.text = text]
  <2>2. pc[p] = "translate" /\ p \in SlowWorkers /\ pc' = [pc EXCEPT ![p] = "commit"]
    BY <1>0, <1>8 DEF FailVersion, Roles
  <2>3. tx[p].rows[i] = Seen(p)[i]
    BY <1>1, <2>2 DEF VInv, ChosenIsThere, Seen
  <2>4. text # None => hasText
    BY <1>1, <1>2, <1>4, <2>3 DEF TextOf
  <2>5. text \in {None, "fast", "same", "high"}
    BY <1>1, <1>2, <2>3 DEF Row
  <2>6. row \in Row /\ row.status = "failed" /\ row.text = text
    BY <1>1, <2>3, <2>5 DEF Row
  <2>7. TextOf(row) /\ WriteRow(p, i, row)
    BY <2>1, <2>4, <2>6 DEF TextOf
  <2> HIDE DEF row
  <2> QED BY <1>1, <1>3, <2>2, <2>6, <2>7, TextWritesRow
<1> QED BY <1>5, <1>6, <1>7, <1>8

\* A commit: what the table gets, and what it means for the others.
LEMMA CommitKeeps ==
  ASSUME VInv, QInv, TextInv, \A s, t \in SlowWorkers : s = t, NEW p \in Processes, Commit(p)
  PROVE  /\ UNCHANGED hasText /\ Reset(p) /\ pc[p] = "commit"
         /\ payload' # None => hasText
         /\ payload # None => payload' # None
         /\ p \in Runners /\ hasText => payload' # None
         /\ \A i \in Ids : TextOf(versions[i])'
         /\ \A i \in Ids : \/ versions'[i] = versions[i]
                           \/ /\ versions'[i] = tx[p].rows[i] /\ tx[p].rows[i] # None
                              /\ versions[i] = None => Inserted(p, i)
<1>1. UNCHANGED hasText /\ Reset(p) /\ pc[p] = "commit" /\ versions' = Seen(p)
      /\ payload' = IF tx[p].payload = "unwritten" THEN payload ELSE tx[p].payload
  BY DEF Commit
<1>2. TextLocal(p) /\ (payload # None => hasText)
  BY DEF TextInv
<1>3. \A i \in Ids : \/ versions'[i] = versions[i]
                     \/ /\ versions'[i] = tx[p].rows[i] /\ tx[p].rows[i] # None
                        /\ versions[i] = None => Inserted(p, i)
  BY <1>1 DEF Seen, Inserted
<1>4. \A i \in Ids : TextOf(versions[i])'
  BY <1>1, <1>3 DEF TextInv, RowLocal, TextOf
<1>5. /\ payload' # None => hasText
      /\ payload # None => payload' # None
      /\ p \in Runners /\ hasText => payload' # None
  BY <1>1, <1>2 DEF TextLocal
<1> QED BY <1>1, <1>3, <1>4, <1>5

LEMMA TextCommits ==
  ASSUME VInv, QInv, TextInv, \A s, t \in SlowWorkers : s = t, NEW p \in Processes, Commit(p)
  PROVE  TextInv'
<1>0. VTypeOK /\ Roles
  BY DEF VInv, QInv
<1>1. /\ \A q \in Processes \ {p} :
           tx'[q] = tx[q] /\ pc'[q] = pc[q] /\ chosen'[q] = chosen[q] /\ produced'[q] = produced[q]
      /\ tx'[p] = Unread /\ pc'[p] = "idle" /\ produced'[p] = None
  <2>1. Reset(p)
    BY CommitKeeps
  <2>2. tx'[p] = Unread /\ pc'[p] = "idle"
    BY <1>0, <2>1, ResetType
  <2>3. ASSUME NEW q \in Processes \ {p}
        PROVE  tx'[q] = tx[q] /\ pc'[q] = pc[q] /\ chosen'[q] = chosen[q] /\ produced'[q] = produced[q]
    BY <1>0, <2>1, ResetType
  <2>4. produced'[p] = None
    BY <1>0, <2>1 DEF Reset, VTypeOK
  <2> QED BY <2>2, <2>3, <2>4
<1>2. TextLocal(p)' /\ \A i \in Ids : RowLocal(p, i)' /\ Kept(p, i)'
  BY <1>1, Words DEF TextLocal, RowLocal, TextOf, Kept, Unread
<1>3. ASSUME NEW q \in Processes, q # p
      PROVE  TextLocal(q)'
  BY <1>1, <1>3, CommitKeeps DEF TextInv, TextLocal
<1>4. ASSUME NEW q \in Processes, q # p, NEW i \in Ids
      PROVE  RowLocal(q, i)'
  <2>1. tx[q].rows[i] # None /\ versions[i] = None => versions'[i] = None
    BY <1>4, CommitKeeps DEF VInv, NextInserted, Inserted
  <2> QED BY <1>1, <1>4, <2>1, CommitKeeps DEF TextInv, RowLocal, TextOf
<1>5. ASSUME NEW q \in Processes, q # p, NEW i \in Ids
      PROVE  Kept(q, i)'
  <2> SUFFICES ASSUME hasText, payload' = None, versions'[i] # None, versions'[i].status = "available"
               PROVE  /\ tx[q].rows[i] # None => tx[q].rows[i].status = "available"
                      /\ pc[q] \in {"running", "translate"} => chosen[q] # i
    BY <1>1, <1>5, CommitKeeps DEF Kept
  <2>1. payload = None /\ p \notin Runners
    BY CommitKeeps
  <2>2. CASE versions'[i] = versions[i]
    BY <2>1, <2>2 DEF TextInv, Kept
  <2>3. CASE versions'[i] # versions[i]
    <3>1. /\ versions'[i] = tx[p].rows[i] /\ tx[p].rows[i] # None
          /\ versions[i] = None => Inserted(p, i)
      BY <2>3, CommitKeeps
    <3>2. p \in SlowWorkers /\ q \notin SlowWorkers
      BY <1>5, <2>1, <3>1 DEF TextInv, RowLocal
    <3>3. pc[q] \notin {"running", "translate"}
      BY <1>0, <3>2 DEF Roles
    <3>4. tx[q].rows[i] # None => versions[i] # None
      BY <1>5, <3>1 DEF VInv, NextInserted, Inserted
    <3>5. RowLocal(q, i)
      BY DEF TextInv
    <3> QED BY <3>2, <3>3, <3>4, <3>5 DEF RowLocal
  <2> QED BY <2>2, <2>3
<1>6. (payload # None => hasText)' /\ \A i \in Ids : TextOf(versions[i])'
  BY CommitKeeps
<1> QED BY <1>2, <1>3, <1>4, <1>5, <1>6 DEF TextInv

LEMMA TextAborts ==
  ASSUME VInv, TextInv, NEW p \in Processes, InsertConflicts(p) \/ AbortDeadlock(p) \/ Abort(p)
  PROVE  TextInv'
<1>0. VTypeOK /\ Reset(p) /\ UNCHANGED <<hasText, versions, payload>>
  BY DEF VInv, InsertConflicts, AbortDeadlock, Abort, committed
<1>1. /\ \A q \in Processes \ {p} :
           tx'[q] = tx[q] /\ pc'[q] = pc[q] /\ chosen'[q] = chosen[q] /\ produced'[q] = produced[q]
      /\ tx'[p] = Unread /\ pc'[p] = "idle" /\ produced'[p] = None
  <2>1. tx'[p] = Unread /\ pc'[p] = "idle"
    BY <1>0, ResetType
  <2>2. ASSUME NEW q \in Processes \ {p}
        PROVE  tx'[q] = tx[q] /\ pc'[q] = pc[q] /\ chosen'[q] = chosen[q] /\ produced'[q] = produced[q]
    BY <1>0, ResetType
  <2>3. produced'[p] = None
    BY <1>0 DEF Reset, VTypeOK
  <2> QED BY <2>1, <2>2, <2>3
<1>2. TextLocal(p)' /\ \A i \in Ids : RowLocal(p, i)' /\ Kept(p, i)'
  BY <1>1, Words DEF TextLocal, RowLocal, TextOf, Kept, Unread
<1> QED BY <1>0, <1>1, <1>2, TextStep

LEMMA TextInvNext ==
  ASSUME \A s, t \in SlowWorkers : s = t
  PROVE  VInv /\ QInv /\ TextInv /\ [Next]_vars => TextInv'
<1> SUFFICES ASSUME VInv, QInv, TextInv, [Next]_vars PROVE TextInv'
  OBVIOUS
<1>1. CASE UNCHANGED vars
  BY <1>1 DEF vars, committed, local, TextInv, TextOf, TextLocal, RowLocal, Kept
<1>2. CASE Next
  BY <1>2, TextReads, TextInserts, TextWritesQuality, TextUpdates, TextCommits, TextAborts
     DEF Next, Statement
<1> QED BY <1>1, <1>2

-----------------------------------------------------------------------------
\* The version shown is an available one.
LEMMA NewestAvailable ==
  ASSUME VTypeOK, NumbersDense, Available # {}
  PROVE  Newest \in Available
<1>1. \A i \in Available : i \in Ids /\ versions[i] \in Row
  BY DEF Available, Rows, VTypeOK
<1>2. \A i \in Available : versions[i].number \in 1..Count
  <2>1. \A i \in Available : versions[i].number \in Numbers(versions)
    BY DEF Available, Numbers
  <2> QED BY <2>1 DEF NumbersDense, Count
<1>3. Count \in Nat
  BY CountType
<1> DEFINE A == Available
           S == {Count - versions[i].number : i \in A}
<1>4. S # {} /\ S \subseteq Nat
  <2>1. \A i \in A : Count - versions[i].number \in Nat
    BY <1>2, <1>3
  <2> QED BY <2>1
<1>5. PICK n \in S : \A m \in S : n <= m
  BY <1>4, LeastNumber
<1>6. PICK i \in A : n = Count - versions[i].number
  BY <1>5
<1>7. \A j \in A : versions[j].number <= versions[i].number
  <2> SUFFICES ASSUME NEW j \in A PROVE versions[j].number <= versions[i].number
    OBVIOUS
  <2>1. Count - versions[i].number <= Count - versions[j].number
    BY <1>5, <1>6
  <2>2. versions[i].number \in Int /\ versions[j].number \in Int
    BY <1>2
  <2> QED BY <1>3, <2>1, <2>2
<1> QED BY <1>6, <1>7 DEF Newest

NewestIsAvailable == VTypeOK /\ NumbersDense /\ Available # {} => Newest \in Available

LEMMA NewestAvailableNext == NewestIsAvailable'
<1>1. NewestIsAvailable
  BY NewestAvailable DEF NewestIsAvailable
<1> QED BY <1>1, PTL

\* One step: without a payload to fall back to, what is available stays so.
LEMMA StaysShown ==
  ASSUME \A s, t \in SlowWorkers : s = t
  PROVE  VInv /\ VInv' /\ QInv /\ TextInv /\ TextInv' /\ [Next]_vars
           => [Snippet # None => Snippet' # None]_vars
<1> SUFFICES ASSUME VInv, VInv', QInv, TextInv, TextInv', [Next]_vars, Snippet # None
             PROVE  Snippet' # None
  OBVIOUS
<1>1. CASE UNCHANGED <<versions, payload>>
  BY <1>1 DEF Snippet, Available, Newest, Rows
<1>2. ASSUME NEW p \in Processes, Commit(p) PROVE Snippet' # None
  <2>1. CASE payload' # None
    BY <2>1 DEF Snippet
  <2>2. CASE payload' = None
    <3>1. payload = None
      BY <1>2, <2>2, CommitKeeps
    <3>2. Available # {} /\ versions[Newest].text # None
      BY <3>1 DEF Snippet
    <3>3. Newest \in Available
      BY <3>2, NewestAvailable DEF VInv
    <3>4. hasText
      BY <3>2, <3>3 DEF TextInv, TextOf, Available, Rows
    <3>5. p \notin Runners
      BY <1>2, <2>2, <3>4, CommitKeeps
    <3>6. Newest \in Available'
      <4>1. /\ Newest \in Ids /\ versions[Newest] # None /\ versions[Newest].status = "available"
        BY <3>3 DEF Available, Rows
      <4>2. \A i \in Ids : versions[i] # None /\ versions[i].status = "available" =>
              versions'[i] # None /\ versions'[i].status = "available"
        <5>1. \A i \in Ids : \/ versions'[i] = versions[i]
                             \/ versions'[i] = tx[p].rows[i] /\ tx[p].rows[i] # None
          BY <1>2, CommitKeeps
        <5>2. \A i \in Ids : Kept(p, i)
          BY DEF TextInv
        <5> QED BY <3>1, <3>4, <5>1, <5>2 DEF Kept
      <4> QED BY <4>1, <4>2 DEF Available, Rows
    <3>7. Newest' \in Available'
      BY <3>6, NewestAvailableNext DEF NewestIsAvailable, VInv
    <3>8. versions'[Newest'].text # None
      <4>1. hasText'
        BY <1>2, <3>4, CommitKeeps
      <4> QED BY <3>7, <4>1 DEF TextInv, TextOf, Available, Rows
    <3> QED BY <3>7, <3>8 DEF Snippet
  <2> QED BY <2>1, <2>2
<1>3. ASSUME NEW p \in Processes, Start(p) \/ Statement(p) \/ AbortDeadlock(p) \/ Abort(p), ~Commit(p)
      PROVE  UNCHANGED <<versions, payload>>
  BY <1>3
     DEF Start, RequestTranslation, RecordView, ProcessDocument, SelectPending, Statement, SelectNumber,
         InsertVersion, InsertConflicts, QueueEnrichment, CountViews, SelectExisting, WriteIndexed,
         FindUnfinished, CompleteVersion, StartVersion, TranslateVersion, FailVersion, EnrichLegacy,
         FailLegacy, AbortDeadlock, Abort, committed
<1>4. CASE UNCHANGED vars
  BY <1>1, <1>4 DEF vars, committed
<1> QED BY <1>1, <1>2, <1>3, <1>4 DEF Next

\* Once a preview shows a translation it never shows the original again, for
\* any number of requests, viewers and pipeline workers and one slow worker.
THEOREM TranslationStaysShownHolds ==
  ASSUME \A s, t \in SlowWorkers : s = t
  PROVE  Spec => TranslationStaysShown
<1>1. Init => VInv /\ QInv /\ TextInv
  BY VInvInit, QInvInit, TextInvInit
<1>2. (VInv /\ QInv /\ TextInv) /\ [Next]_vars => (VInv /\ QInv /\ TextInv)'
  BY VInvNext, QInvNext, TextInvNext
<1>3. (VInv /\ QInv /\ TextInv) /\ (VInv /\ QInv /\ TextInv)' /\ [Next]_vars
        => [Snippet # None => Snippet' # None]_vars
  BY StaysShown
<1> QED BY <1>1, <1>2, <1>3, PTL DEF Spec, TranslationStaysShown
=============================================================================
