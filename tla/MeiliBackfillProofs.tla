------------------------- MODULE MeiliBackfillProofs -------------------------
(***************************************************************************)
(* The index that goes live is complete and has nothing else:              *)
(* CompleteAfterSwap for all sets of documents, texts, groups and workers, *)
(* all page and batch sizes, any number of runs.  Three arguments meet.    *)
(* A record sent to the shadow index stays there or is replaced by its     *)
(* equal, because every record queued for a document the run may count on  *)
(* is one of its present text.  Paging by OFFSET passes over no document   *)
(* while none leaves the table: the documents that come in only move others*)
(* to later pages.  And every record on its way to the new index fits its  *)
(* document, or the document is one of those the run is excused from.      *)
(***************************************************************************)
EXTENDS MeiliBackfill, FiniteSetTheorems, WellFoundedInduction, TLAPS

Chunks == UNION {DOMAIN t : t \in Texts}
Sums   == UNION {{t[i] : i \in DOMAIN t} : t \in Texts}
Record == [doc : Docs, chunk : Chunks, checksum : Sums, groups : SUBSET Groups]
Task   == [kind : {"add"}, index : {"live", "shadow"}, records : SUBSET Record]
            \cup [kind : {"swap", "drop"}, records : {{}}]
Job    == [doc : Docs, text : Texts, groups : SUBSET Groups, sent : BOOLEAN]
Reading == {"groups", "compare", "send"}

BTypeOK ==
  /\ docs \in [Docs -> [status : {"pending", "indexed", "failed"}, text : Texts \cup {None}]]
  /\ acl \in [Docs -> SUBSET Groups]
  /\ index \in [live : SUBSET Record, shadow : SUBSET Record]
  /\ tasks \in Seq(Task) /\ stage \in {"populate", "swapping", "swapped", "dropped"}
  /\ pc \in {"idle", "fetch", "text", "done"} \cup Reading
  /\ offset \in Nat /\ page \subseteq Docs
  /\ text \in Texts \cup {None} /\ groups \subseteq Groups /\ outbox \subseteq Record
  /\ failed \in BOOLEAN
  /\ ingest \in [Workers -> Job \cup {None}]
  /\ touched \subseteq Docs /\ regranted \subseteq Docs /\ leftover \subseteq Docs
  /\ shifted \in BOOLEAN

\* Records of the current text of a document.
Current(r) ==
  docs[r.doc].text # None /\ r.chunk \in DOMAIN docs[r.doc].text =>
    r.checksum = docs[r.doc].text[r.chunk]

ForShadow(k) == tasks[k].kind = "add" /\ tasks[k].index = "shadow"

\* What is on its way to the shadow index is current, for untouched documents.
QueuedInv == \A r \in Queued : r.doc \notin touched => Current(r)

\* What the command has read of an untouched document is current.
ReadInv ==
  /\ pc \in Reading => page # {} /\ text \in Texts \ {None}
  /\ pc \in Reading /\ First \notin touched => text = docs[First].text
  /\ pc = "send" => outbox \subseteq Records(First, text, groups)

\* The swap comes behind all records for the shadow index, and what is queued
\* behind it is of documents touched since.
TouchedLive(k) ==
  /\ tasks[k].kind = "add" /\ tasks[k].index = "live"
  /\ \A r \in tasks[k].records : r.doc \in touched

StageInv ==
  /\ stage # "populate" => pc = "done" /\ ~failed
  /\ stage = "populate" => \A k \in DOMAIN tasks : tasks[k].kind = "add"
  /\ stage = "swapping" =>
       \E p \in DOMAIN tasks :
         /\ tasks[p].kind = "swap"
         /\ \A k \in DOMAIN tasks : /\ k < p => tasks[k].kind = "add"
                                    /\ k > p => TouchedLive(k)
  /\ stage \in {"swapped", "dropped"} =>
       \A k \in DOMAIN tasks : tasks[k].kind = "drop" \/ TouchedLive(k)

\* The documents the run has to bring to the shadow index.
Due(d) == d \notin touched /\ docs[d].status = "indexed" /\ docs[d].text # None

Holds(records, d, i) ==
  \E r \in records : r.doc = d /\ r.chunk = i /\ r.checksum = docs[d].text[i]

Sent(d, i) == Holds(index.shadow \cup Queued, d, i)
AllSent(d) == \A i \in DOMAIN docs[d].text : Sent(d, i)

Indexed == {d \in Docs : docs[d].status = "indexed"}
Rank(d) == Cardinality({e \in Indexed : e <= d})
Passed == IF pc = "fetch" THEN offset ELSE offset + PageSize

\* While the records of the document at hand are sent: none is left out.
FirstProgress ==
  pc = "send" /\ Due(First) =>
    \A i \in DOMAIN docs[First].text : Sent(First, i) \/ Holds(outbox, First, i)
\* A document to bring has been sent, ranks behind the pages read so far, or is
\* on the page at hand.
PageProgress ==
  ~failed /\ ~shifted /\ pc \in {"fetch", "text"} \cup Reading =>
    \A d \in Docs : Due(d) => AllSent(d) \/ Rank(d) > Passed \/ (pc # "fetch" /\ d \in page)
\* Behind the last page all have been sent.
RunProgress ==
  ~failed /\ ~shifted /\ pc = "done" /\ stage \in {"populate", "swapping"} =>
    \A d \in Docs : Due(d) => AllSent(d)
ProgressInv == FirstProgress /\ PageProgress /\ RunProgress

\* The swap has brought them to the live index, and they stay there.
LiveInv ==
  ~shifted /\ stage \in {"swapped", "dropped"} =>
    \A d \in Docs : Due(d) => \A i \in DOMAIN docs[d].text : Holds(index.live, d, i)

\* A record that goes live, or is on its way there, has a chunk its document has,
\* with its groups, except of documents processed or granted anew since the run
\* began, or that it began with an unfit record of.
Excused(d) == d \in touched \cup regranted \cup leftover
Fitting(r) == Excused(r.doc) \/ Fits(r)

GroupsInv ==
  /\ stage \in {"populate", "swapping"} => \A r \in index.shadow \cup Queued : Fitting(r)
  /\ stage \in {"swapped", "dropped"} => \A r \in index.live : Fitting(r)
  /\ pc = "compare" => Excused(First) \/ groups = acl[First]
  /\ pc = "send" => \A r \in outbox : Fitting(r)

BackfillInv ==
  BTypeOK /\ GroupsInv /\ QueuedInv /\ ReadInv /\ StageInv /\ ProgressInv /\ LiveInv

-----------------------------------------------------------------------------
(* Documents in order.                                                     *)

LEMMA Least ==
  ASSUME NEW S, S \subseteq Nat, S # {}
  PROVE  \E n \in S : \A m \in S : n <= m
<1> DEFINE R == OpToRel(<, Nat)
<1>1. IsWellFoundedOn(R, Nat)
  BY NatLessThanWellFounded
<1>2. PICK n \in S : \A m \in S : ~ (<<m, n>> \in R)
  <2> HIDE DEF R
  <2> QED BY <1>1, WFMin
<1>3. \A m \in S : ~ (m < n)
  BY <1>2 DEF OpToRel
<1> QED BY <1>3

LEMMA Greatest ==
  ASSUME NEW e \in Nat, NEW S, S \subseteq 0..e, S # {}
  PROVE  \E n \in S : \A m \in S : m <= n
<1> DEFINE below == {e - n : n \in S}
<1>1. below \subseteq Nat /\ below # {}
  <2>1. \A n \in S : e - n \in Nat
    OBVIOUS
  <2>2. PICK n \in S : TRUE
    OBVIOUS
  <2> QED BY <2>1, <2>2
<1>2. PICK k \in below : \A l \in below : k <= l
  BY <1>1, Least
<1>3. PICK n \in S : k = e - n
  OBVIOUS
<1>4. \A m \in S : e - n <= e - m
  BY <1>2, <1>3
<1> QED BY <1>4

LEMMA FirstOfPage ==
  ASSUME page \subseteq Docs, page # {}
  PROVE  First \in page
<1>1. \E d \in page : \A e \in page : d <= e
  BY Least, DocsAssumption
<1> QED BY <1>1 DEF First

\* The number of members of a set of documents up to one of them.
LEMMA UpTo ==
  ASSUME NEW S \in SUBSET Docs
  PROVE  /\ \A d \in Docs : IsFiniteSet({e \in S : e <= d}) /\ Cardinality({e \in S : e <= d}) \in Nat
         /\ \A d \in S : Cardinality({e \in S : e <= d}) >= 1
<1>1. \A d \in Docs : IsFiniteSet({e \in S : e <= d})
  BY DocsAssumption, FS_Subset
<1>2. \A d \in Docs : Cardinality({e \in S : e <= d}) \in Nat
  BY <1>1, FS_CardinalityType
<1>3. ASSUME NEW d \in S
      PROVE  Cardinality({e \in S : e <= d}) >= 1
  <2>1. d \in {e \in S : e <= d}
    BY DocsAssumption
  <2>2. Cardinality({e \in S : e <= d}) # 0
    BY <1>1, <2>1, FS_EmptySet
  <2> QED BY <1>2, <2>2
<1> QED BY <1>1, <1>2, <1>3

LEMMA Orders ==
  ASSUME NEW S \in SUBSET Nat, NEW n \in S
  PROVE  /\ {e \in S : e <= n} = {e \in S : e < n} \cup {n}
         /\ {e \in S : e < n} \subseteq 0..n
         /\ \A m \in S : m < n /\ (\A e \in S : e < n => e <= m) =>
              {e \in S : e <= m} = {e \in S : e < n}
<1>1. \A e \in S : e \in Nat
  OBVIOUS
<1>2. \A e \in S : e <= n <=> e < n \/ e = n
  BY <1>1
<1>3. ASSUME NEW m \in S, m < n, \A e \in S : e < n => e <= m
      PROVE  \A e \in S : e <= m <=> e < n
  BY <1>1, <1>3
<1>4. \A e \in S : e < n => e \in 0..n
  BY <1>1
<1> QED BY <1>2, <1>3, <1>4

\* Ranks leave no gap: behind a rank that is passed comes the next one.
LEMMA NoGap ==
  ASSUME NEW S \in SUBSET Docs, NEW o \in Nat, NEW d \in S, Cardinality({e \in S : e <= d}) > o
  PROVE  \E n \in S : Cardinality({e \in S : e <= n}) = o + 1
<1> DEFINE rank(n) == Cardinality({e \in S : e <= n})
           Late == {n \in S : rank(n) > o}
<1>1. Late \subseteq Nat /\ Late # {}
  BY DocsAssumption
<1>2. PICK n \in Late : \A m \in Late : n <= m
  BY <1>1, Least
<1>3. n \in S /\ n \in Nat /\ rank(n) \in Nat /\ rank(n) > o
  BY <1>2, UpTo, DocsAssumption
<1>4. rank(n) <= o + 1
  <2> DEFINE before == {e \in S : e < n}
  <2>0. S \subseteq Nat
    BY DocsAssumption
  <2>1. /\ IsFiniteSet(before)
        /\ n \notin before /\ {e \in S : e <= n} = before \cup {n}
    <3>1. IsFiniteSet(before)
      BY DocsAssumption, FS_Subset
    <3>2. n \notin before
      BY <1>3
    <3> QED BY <1>3, <2>0, <3>1, <3>2, Orders
  <2>2. rank(n) = Cardinality(before) + 1 /\ Cardinality(before) \in Nat
    BY <2>1, FS_AddElement, FS_CardinalityType
  <2>3. CASE before = {}
    BY <2>2, <2>3, FS_EmptySet
  <2>4. CASE before # {}
    <3>1. before \subseteq 0..n
      BY <1>3, <2>0, Orders
    <3>2. PICK m \in before : \A e \in before : e <= m
      BY <1>3, <2>4, <3>1, Greatest
    <3>3. {e \in S : e <= m} = before
      <4>1. m \in S /\ m < n /\ \A e \in S : e < n => e <= m
        BY <3>2
      <4> QED BY <1>3, <2>0, <4>1, Orders
    <3>4. m \in S /\ m \notin Late
      <4>1. m \in S /\ m \in Nat /\ m < n
        BY <2>0, <3>2
      <4> QED BY <1>2, <1>3, <4>1
    <3>5. rank(m) = Cardinality(before)
      BY <3>3
    <3>6. ~ (rank(m) > o)
      BY <3>4
    <3> HIDE DEF before, rank
    <3> QED BY <2>2, <3>5, <3>6
  <2> QED BY <2>3, <2>4
<1> QED BY <1>3, <1>4

-----------------------------------------------------------------------------
(* The task queue.                                                         *)

LEMMA RecordsType ==
  ASSUME NEW d \in Docs, NEW t \in Texts, NEW gs \in SUBSET Groups
  PROVE  Records(d, t, gs) \subseteq Record
<1>1. \A i \in DOMAIN t : i \in Chunks /\ t[i] \in Sums
  BY DEF Chunks, Sums
<1> QED BY <1>1 DEF Records, Record

ShadowRecords(task) == IF task.kind = "add" /\ task.index = "shadow" THEN task.records ELSE {}

LEMMA QueueGrows ==
  ASSUME tasks \in Seq(Task), NEW t \in Task, tasks' = Append(tasks, t)
  PROVE  /\ tasks' \in Seq(Task) /\ Len(tasks) \in Nat
         /\ DOMAIN tasks = 1..Len(tasks) /\ DOMAIN tasks' = 1..(Len(tasks) + 1)
         /\ \A k \in DOMAIN tasks : k \in DOMAIN tasks' /\ tasks'[k] = tasks[k]
         /\ tasks'[Len(tasks) + 1] = t
         /\ Queued' = Queued \cup ShadowRecords(t)
<1>1. /\ tasks' \in Seq(Task) /\ Len(tasks) \in Nat
      /\ DOMAIN tasks = 1..Len(tasks) /\ DOMAIN tasks' = 1..(Len(tasks) + 1)
      /\ \A k \in DOMAIN tasks : k \in DOMAIN tasks' /\ tasks'[k] = tasks[k]
      /\ tasks'[Len(tasks) + 1] = t
  OBVIOUS
<1>2. ASSUME NEW r \in Queued'
      PROVE  r \in Queued \cup ShadowRecords(t)
  <2>1. PICK k \in DOMAIN tasks' : ForShadow(k)' /\ r \in tasks'[k].records
    BY DEF Queued, ForShadow
  <2>2. CASE k \in DOMAIN tasks
    BY <1>1, <2>1, <2>2 DEF Queued, ForShadow
  <2>3. CASE k = Len(tasks) + 1
    BY <1>1, <2>1, <2>3 DEF ShadowRecords, ForShadow
  <2> QED BY <1>1, <2>1, <2>2, <2>3
<1>3. ASSUME NEW r \in Queued
      PROVE  r \in Queued'
  <2>1. PICK k \in DOMAIN tasks : ForShadow(k) /\ r \in tasks[k].records
    BY DEF Queued, ForShadow
  <2>2. k \in DOMAIN tasks' /\ ForShadow(k)' /\ r \in tasks'[k].records
    BY <1>1, <2>1 DEF ForShadow
  <2> QED BY <2>2 DEF Queued, ForShadow
<1>4. ASSUME NEW r \in ShadowRecords(t)
      PROVE  r \in Queued'
  <2>1. PICK k \in DOMAIN tasks' : tasks'[k] = t
    BY <1>1
  <2>2. ForShadow(k)' /\ r \in tasks'[k].records
    BY <1>4, <2>1 DEF ForShadow, ShadowRecords
  <2> QED BY <2>2 DEF Queued, ForShadow
<1> QED BY <1>1, <1>2, <1>3, <1>4

LEMMA QueueShrinks ==
  ASSUME tasks \in Seq(Task), tasks # <<>>, tasks' = Tail(tasks)
  PROVE  /\ tasks' \in Seq(Task) /\ Len(tasks) \in Nat
         /\ Head(tasks) \in Task /\ 1 \in DOMAIN tasks /\ Head(tasks) = tasks[1]
         /\ DOMAIN tasks = 1..Len(tasks) /\ DOMAIN tasks' = 1..(Len(tasks) - 1)
         /\ \A k \in DOMAIN tasks' : k + 1 \in DOMAIN tasks /\ tasks'[k] = tasks[k + 1]
         /\ Queued = Queued' \cup ShadowRecords(Head(tasks))
<1>1. /\ tasks' \in Seq(Task) /\ Len(tasks) \in Nat
      /\ Head(tasks) \in Task /\ 1 \in DOMAIN tasks /\ Head(tasks) = tasks[1]
      /\ DOMAIN tasks = 1..Len(tasks) /\ DOMAIN tasks' = 1..(Len(tasks) - 1)
      /\ \A k \in DOMAIN tasks' : k + 1 \in DOMAIN tasks /\ tasks'[k] = tasks[k + 1]
  OBVIOUS
<1>2. ASSUME NEW r \in Queued
      PROVE  r \in Queued' \cup ShadowRecords(Head(tasks))
  <2>1. PICK k \in DOMAIN tasks : ForShadow(k) /\ r \in tasks[k].records
    BY DEF Queued, ForShadow
  <2>2. CASE k = 1
    BY <1>1, <2>1, <2>2 DEF ShadowRecords, ForShadow
  <2>3. CASE k # 1
    <3>1. k - 1 \in DOMAIN tasks' /\ tasks'[k - 1] = tasks[k]
      <4>1. k \in 1..Len(tasks) /\ k - 1 \in 1..(Len(tasks) - 1)
        BY <1>1, <2>3
      <4> QED BY <1>1, <4>1
    <3>2. ForShadow(k - 1)' /\ r \in tasks'[k - 1].records
      BY <2>1, <3>1 DEF ForShadow
    <3> QED BY <3>1, <3>2 DEF Queued, ForShadow
  <2> QED BY <2>2, <2>3
<1>3. ASSUME NEW r \in Queued'
      PROVE  r \in Queued
  <2>1. PICK k \in DOMAIN tasks' : ForShadow(k)' /\ r \in tasks'[k].records
    BY DEF Queued, ForShadow
  <2>2. k + 1 \in DOMAIN tasks /\ ForShadow(k + 1) /\ r \in tasks[k + 1].records
    BY <1>1, <2>1 DEF ForShadow
  <2> QED BY <2>2 DEF Queued, ForShadow
<1>4. ASSUME NEW r \in ShadowRecords(Head(tasks))
      PROVE  r \in Queued
  BY <1>1, <1>4 DEF ShadowRecords, ForShadow, Queued
<1> QED BY <1>1, <1>2, <1>3, <1>4

-----------------------------------------------------------------------------
(* Types.                                                                  *)

Types == BTypeOK /\ ReadInv

LEMMA TaskTypes ==
  /\ \A rs \in SUBSET Record, i \in {"live", "shadow"} :
       [kind |-> "add", index |-> i, records |-> rs] \in Task
  /\ \A k \in {"swap", "drop"} : [kind |-> k, records |-> {}] \in Task
BY DEF Task

LEMMA TypesStart ==
  ASSUME Types, StartRun
  PROVE  Types'
BY DEF Types, BTypeOK, ReadInv, StartRun, others, database, Outdated, Leftover, Reading

LEMMA TypesMoved ==
  ASSUME Types, pc' = "text", page' = page \ {First}, text' = None, groups' = {}, outbox' = {},
         failed' \in BOOLEAN, tasks' = tasks, UNCHANGED <<others, offset, runs, history>>
  PROVE  Types'
BY DEF Types, BTypeOK, ReadInv, others, database, history, Reading

LEMMA TypesCommand ==
  ASSUME Types, CommandStep \/ StatementFails \/ StopRun
  PROVE  Types'
<1>1. CASE FetchPage
  BY <1>1 DEF FetchPage, IndexedPage, Types, BTypeOK, ReadInv, others, database, history, Reading
<1>2. CASE NextPage
  BY <1>2, SizesAssumption DEF NextPage, Types, BTypeOK, ReadInv, others, database, history, Reading
<1>3. CASE StatementFails \/ DocumentSent
  BY <1>3, TypesMoved DEF StatementFails, DocumentSent, DocumentFails, NextDocument, Types, BTypeOK
<1>4. CASE StopRun
  BY <1>4 DEF StopRun, Types, BTypeOK, ReadInv, others, database, history, Reading
<1>5. CASE ReadText
  <2>1. First \in Docs
    BY <1>5, FirstOfPage DEF ReadText, Types, BTypeOK
  <2>2. CASE docs[First].text = None
    BY <1>5, <2>2, TypesMoved DEF ReadText, NextDocument, Types, BTypeOK
  <2>3. CASE docs[First].text # None
    <3>1. text' = docs[First].text /\ text' \in Texts \ {None} /\ pc' = "groups" /\ page # {}
          /\ UNCHANGED <<others, tasks, offset, page, groups, outbox, failed, runs, history, faults>>
      BY <1>5, <2>1, <2>3 DEF ReadText, Types, BTypeOK
    <3>2. docs' = docs /\ First' = First
      BY <3>1 DEF others, database, First
    <3> QED BY <3>1, <3>2 DEF Types, BTypeOK, ReadInv, others, database, history, Reading
  <2> QED BY <2>2, <2>3
<1>6. CASE ReadGroups
  <2>1. First \in Docs /\ (First' = First \/ acl[First] = {})
    BY <1>6, FirstOfPage DEF ReadGroups, Types, BTypeOK, ReadInv, Reading, First
  <2>2. CASE acl[First] = {}
    BY <1>6, <2>2, TypesMoved DEF ReadGroups, DocumentFails, NextDocument, Types, BTypeOK
  <2>3. CASE acl[First] # {}
    BY <1>6, <2>1, <2>3 DEF ReadGroups, Types, BTypeOK, ReadInv, others, database, history, Reading
  <2> QED BY <2>2, <2>3
<1>7. CASE Compare
  <2>1. First \in Docs /\ First' = First /\ text \in Texts /\ groups \subseteq Groups
    BY <1>7, FirstOfPage DEF Compare, Types, BTypeOK, ReadInv, Reading, First
  <2>2. /\ outbox' \subseteq Records(First, text, groups) /\ pc' = "send" /\ pc = "compare"
        /\ UNCHANGED <<others, tasks, offset, page, text, groups, failed, runs, history, faults>>
    BY <1>7 DEF Compare
  <2>3. outbox' \subseteq Record
    BY <2>1, <2>2, RecordsType
  <2>4. outbox' \subseteq Records(First, text, groups)'
    BY <2>1, <2>2 DEF Records
  <2> QED BY <2>1, <2>2, <2>3, <2>4 DEF Types, BTypeOK, ReadInv, others, database, history, Reading
<1>8. CASE SendBatch
  <2>1. PICK batch \in SUBSET outbox :
          /\ tasks' = Append(tasks, [kind |-> "add", index |-> "shadow", records |-> batch])
          /\ outbox' = outbox \ batch
    BY <1>8 DEF SendBatch, Send
  <2>2. batch \subseteq Record /\ tasks \in Seq(Task)
    BY <2>1 DEF Types, BTypeOK
  <2>3. tasks' \in Seq(Task)
    BY <2>1, <2>2, TaskTypes, QueueGrows
  <2>4. /\ pc = "send" /\ UNCHANGED <<others, pc, offset, page, text, groups, failed, runs, history>>
    BY <1>8 DEF SendBatch
  <2>5. Records(First, text, groups)' = Records(First, text, groups)
    BY <2>4 DEF Records, First
  <2>6. First' = First
    BY <2>4 DEF First
  <2> QED BY <2>1, <2>2, <2>3, <2>4, <2>5, <2>6
          DEF Types, BTypeOK, ReadInv, others, database, history, Reading
<1> QED BY <1>1, <1>2, <1>3, <1>4, <1>5, <1>6, <1>7, <1>8 DEF CommandStep

\* A step of anyone else leaves what the command has read right.
Aside ==
  /\ UNCHANGED command
  /\ touched \subseteq touched'
  /\ \A d \in Docs \ touched' : docs'[d] = docs[d]

LEMMA AsideReads ==
  ASSUME Types, Aside
  PROVE  ReadInv'
<1>1. First' = First /\ (page # {} => First \in Docs)
  BY FirstOfPage DEF First, Aside, command, Types, BTypeOK
<1>2. Records(First, text, groups)' = Records(First, text, groups)
  BY <1>1 DEF Records, Aside, command
<1> QED BY <1>1, <1>2 DEF Aside, command, Types, ReadInv, Reading

MeiliStep == ProcessTask \/ TaskFails \/ RequestSwap \/ RequestDrop
PipelineStep ==
  \/ \E w \in Workers :
       \/ \E d \in Docs, t \in Texts : BeginIngest(w, d, t)
       \/ SendLive(w) \/ CommitIngest(w) \/ FailIngest(w)
  \/ \E d \in Docs, g \in Groups : Regrant(d, g)

LEMMA JobType ==
  ASSUME Types, NEW w \in Workers, ingest[w] # None
  PROVE  /\ ingest[w] \in Job /\ ingest[w].doc \in Docs /\ ingest[w].text \in Texts
         /\ ingest[w].groups \subseteq Groups
BY DEF Types, BTypeOK, Job

LEMMA StepsAside ==
  ASSUME Types, MeiliStep \/ PipelineStep
  PROVE  Aside
<1>1. CASE MeiliStep
  BY <1>1 DEF MeiliStep, ProcessTask, TaskFails, RequestSwap, RequestDrop, Aside, command,
     database, history
<1>2. ASSUME NEW w \in Workers,
             (\E d \in Docs, t \in Texts : BeginIngest(w, d, t)) \/ SendLive(w)
      PROVE  Aside
  BY <1>2 DEF BeginIngest, SendLive, Touch, Aside, command, database, history
<1>3. ASSUME NEW w \in Workers, CommitIngest(w) \/ FailIngest(w)
      PROVE  Aside
  BY <1>3, JobType DEF CommitIngest, FailIngest, Touch, Aside, command, Types, BTypeOK
<1>4. ASSUME NEW d \in Docs, NEW g \in Groups, Regrant(d, g)
      PROVE  Aside
  BY <1>4 DEF Regrant, Aside, command
<1> QED BY <1>1, <1>2, <1>3, <1>4 DEF PipelineStep

LEMMA AddedType ==
  ASSUME NEW old \in SUBSET Record, NEW new \in SUBSET Record
  PROVE  Added(old, new) \subseteq Record
BY DEF Added

LEMMA TypesMeili ==
  ASSUME Types, MeiliStep
  PROVE  BTypeOK'
<1>1. tasks \in Seq(Task) /\ index \in [live : SUBSET Record, shadow : SUBSET Record]
  BY DEF Types, BTypeOK
<1>2. CASE ProcessTask
  <2>1. PICK task \in Task : task = Head(tasks) /\ tasks' \in Seq(Task)
    BY <1>1, <1>2, QueueShrinks DEF ProcessTask
  <2>2. task.kind = "add" => task.index \in {"live", "shadow"} /\ task.records \subseteq Record
    BY <2>1 DEF Task
  <2>3. index' \in [live : SUBSET Record, shadow : SUBSET Record] /\ stage' \in {stage, "swapped"}
    <3>1. CASE task.kind = "add"
      <4>1. Added(index[task.index], task.records) \subseteq Record
        BY <1>1, <2>2, <3>1, AddedType
      <4>2. /\ index' = [index EXCEPT ![task.index] = Added(index[task.index], task.records)]
            /\ stage' = stage
        BY <1>2, <2>1, <3>1 DEF ProcessTask
      <4> QED BY <1>1, <2>2, <3>1, <4>1, <4>2
    <3>2. CASE task.kind = "swap"
      <4>1. index' = [live |-> index.shadow, shadow |-> index.live] /\ stage' = "swapped"
        BY <1>2, <2>1, <3>2 DEF ProcessTask
      <4>2. index.shadow \in SUBSET Record /\ index.live \in SUBSET Record
        BY <1>1
      <4> QED BY <4>1, <4>2
    <3>3. CASE task.kind = "drop"
      BY <1>1, <1>2, <2>1, <3>3 DEF ProcessTask
    <3> QED BY <2>1, <3>1, <3>2, <3>3 DEF Task
  <2> QED BY <1>2, <2>1, <2>3 DEF ProcessTask, Types, BTypeOK, command, database, history
<1>3. CASE TaskFails
  <2>1. PICK task \in Task : task = Head(tasks) /\ tasks' \in Seq(Task)
    BY <1>1, <1>3, QueueShrinks DEF TaskFails
  <2>2. {r.doc : r \in task.records} \subseteq Docs
    BY <2>1 DEF Task, Record
  <2> QED BY <1>3, <2>1, <2>2 DEF TaskFails, Types, BTypeOK, command, database
<1>4. CASE RequestSwap \/ RequestDrop
  <2>1. tasks' \in Seq(Task)
    BY <1>1, <1>4, TaskTypes, QueueGrows DEF RequestSwap, RequestDrop, Send
  <2> QED BY <1>4, <2>1 DEF RequestSwap, RequestDrop, Types, BTypeOK, command, database, history
<1> QED BY <1>2, <1>3, <1>4 DEF MeiliStep

LEMMA TypesPipeline ==
  ASSUME Types, PipelineStep
  PROVE  BTypeOK'
<1>1. ASSUME NEW w \in Workers, NEW d \in Docs, NEW t \in Texts, BeginIngest(w, d, t)
      PROVE  BTypeOK'
  <2>1. PICK job \in Job : ingest' = [ingest EXCEPT ![w] = job]
    <3>1. [doc |-> d, text |-> t, groups |-> acl[d], sent |-> FALSE] \in Job
      BY DEF Types, BTypeOK, Job
    <3> QED BY <1>1, <3>1 DEF BeginIngest
  <2> QED BY <1>1, <2>1 DEF BeginIngest, Types, BTypeOK, command, database, meili, history
<1>2. ASSUME NEW w \in Workers, SendLive(w)
      PROVE  BTypeOK'
  <2>1. PICK job \in Job : /\ ingest[w] = job /\ job.doc \in Docs /\ job.text \in Texts
                           /\ job.groups \subseteq Groups
    BY <1>2, JobType DEF SendLive
  <2>2. PICK sent \in Job : ingest' = [ingest EXCEPT ![w] = sent]
    <3>1. [job EXCEPT !.sent = TRUE] \in Job
      BY <2>1 DEF Job
    <3>2. ingest' = [ingest EXCEPT ![w] = [job EXCEPT !.sent = TRUE]]
      BY <1>2, <2>1 DEF SendLive
    <3> QED BY <3>1, <3>2
  <2>3. tasks' \in Seq(Task)
    <3>1. Records(job.doc, job.text, job.groups) \in SUBSET Record /\ tasks \in Seq(Task)
      BY <2>1, RecordsType DEF Types, BTypeOK
    <3> QED BY <1>2, <2>1, <3>1, TaskTypes, QueueGrows DEF SendLive, Send
  <2> QED BY <1>2, <2>1, <2>2, <2>3 DEF SendLive, Touch, Types, BTypeOK, command, database
<1>3. ASSUME NEW w \in Workers, CommitIngest(w) \/ FailIngest(w)
      PROVE  BTypeOK'
  <2>1. ingest[w].doc \in Docs /\ ingest[w].text \in Texts /\ docs[ingest[w].doc].text \in Texts \cup {None}
    BY <1>3, JobType DEF CommitIngest, FailIngest, Types, BTypeOK
  <2>2. PICK row \in [status : {"pending", "indexed", "failed"}, text : Texts \cup {None}] :
          docs' = [docs EXCEPT ![ingest[w].doc] = row]
    BY <1>3, <2>1 DEF CommitIngest, FailIngest, Types, BTypeOK
  <2> QED BY <1>3, <2>1, <2>2 DEF CommitIngest, FailIngest, Touch, Types, BTypeOK, command, meili
<1>4. ASSUME NEW d \in Docs, NEW g \in Groups, Regrant(d, g)
      PROVE  BTypeOK'
  BY <1>4 DEF Regrant, Types, BTypeOK, command, meili
<1> QED BY <1>1, <1>2, <1>3, <1>4 DEF PipelineStep

LEMMA NextCases ==
  ASSUME [Next]_bvars
  PROVE  \/ StartRun \/ CommandStep \/ StatementFails \/ StopRun \/ MeiliStep \/ PipelineStep
         \/ UNCHANGED bvars
BY DEF Next, MeiliStep, PipelineStep

LEMMA TypesNext ==
  ASSUME Types, [Next]_bvars
  PROVE  Types'
<1>1. CASE MeiliStep \/ PipelineStep
  BY <1>1, StepsAside, AsideReads, TypesMeili, TypesPipeline DEF Types
<1>2. CASE UNCHANGED bvars
  BY <1>2 DEF Types, BTypeOK, ReadInv, First, Records, bvars, command, database, meili, history
<1> QED BY <1>1, <1>2, NextCases, TypesStart, TypesCommand

-----------------------------------------------------------------------------
(* What is on its way to the shadow index.                                 *)

RunStep == CommandStep \/ StatementFails \/ StopRun

LEMMA RunStepFrame ==
  ASSUME RunStep
  PROVE  /\ UNCHANGED <<others, history>>
         /\ SendBatch \/ UNCHANGED tasks
BY DEF RunStep, CommandStep, StatementFails, StopRun, FetchPage, NextPage, ReadText,
       ReadGroups, Compare, SendBatch, DocumentSent, DocumentFails, NextDocument

LEMMA QueueSame ==
  ASSUME Types, [Next]_bvars, ~SendBatch, ~ProcessTask, ~TaskFails
  PROVE  Queued' = Queued
<1>1. CASE UNCHANGED tasks
  BY <1>1 DEF Queued, ForShadow
<1>2. ASSUME NEW t \in Task, tasks' = Append(tasks, t), ShadowRecords(t) = {}
      PROVE  Queued' = Queued
  BY <1>2, QueueGrows DEF Types, BTypeOK
<1>3. CASE RequestSwap \/ RequestDrop
  BY <1>2, <1>3, TaskTypes DEF RequestSwap, RequestDrop, Send, ShadowRecords
<1>4. ASSUME NEW w \in Workers, SendLive(w)
      PROVE  Queued' = Queued
  <2> DEFINE new == Records(ingest[w].doc, ingest[w].text, ingest[w].groups)
             t == [kind |-> "add", index |-> "live", records |-> new]
  <2>1. t \in Task
    BY <1>4, JobType, RecordsType, TaskTypes DEF SendLive
  <2>2. ShadowRecords(t) = {}
    BY DEF ShadowRecords
  <2>3. UNCHANGED tasks \/ tasks' = Append(tasks, t)
    BY <1>4 DEF SendLive, Send
  <2> QED BY <1>1, <1>2, <2>1, <2>2, <2>3
<1>5. CASE PipelineStep
  BY <1>1, <1>4, <1>5 DEF PipelineStep, BeginIngest, CommitIngest, FailIngest, Regrant, meili
<1>6. CASE StartRun \/ UNCHANGED bvars
  BY <1>1, <1>6 DEF StartRun, bvars, meili
<1> QED BY <1>1, <1>3, <1>5, <1>6, RunStepFrame, NextCases DEF MeiliStep, RunStep

LEMMA QueueBatch ==
  ASSUME Types, SendBatch
  PROVE  \E batch \in SUBSET outbox : outbox' = outbox \ batch /\ Queued' = Queued \cup batch
<1>1. PICK batch \in SUBSET outbox :
        /\ tasks' = Append(tasks, [kind |-> "add", index |-> "shadow", records |-> batch])
        /\ outbox' = outbox \ batch
  BY DEF SendBatch, Send
<1>2. [kind |-> "add", index |-> "shadow", records |-> batch] \in Task /\ tasks \in Seq(Task)
  BY <1>1, TaskTypes DEF Types, BTypeOK
<1>3. Queued' = Queued \cup batch
  BY <1>1, <1>2, QueueGrows DEF ShadowRecords
<1> QED BY <1>1, <1>3

LEMMA QueueHead ==
  ASSUME Types, ProcessTask \/ TaskFails
  PROVE  Queued = Queued' \cup ShadowRecords(Head(tasks))
BY QueueShrinks DEF ProcessTask, TaskFails, Types, BTypeOK

\* During a run, what has been touched stays so, and the rest as it was.
LEMMA RunFrame ==
  ASSUME Types, [Next]_bvars, ~StartRun
  PROVE  touched \subseteq touched' /\ \A d \in Docs \ touched' : docs'[d] = docs[d]
<1>1. CASE RunStep
  BY <1>1, RunStepFrame DEF others, database, history
<1>2. CASE UNCHANGED bvars
  BY <1>2 DEF bvars, database, history
<1> QED BY <1>1, <1>2, NextCases, StepsAside DEF RunStep, Aside

LEMMA QueuedType ==
  ASSUME Types
  PROVE  Queued \subseteq Record /\ \A r \in Queued : r.doc \in Docs
<1>1. \A k \in DOMAIN tasks : tasks[k].records \subseteq Record
  BY DEF Types, BTypeOK, Task
<1> QED BY <1>1 DEF Queued, ForShadow, Record

LEMMA QueuedNext ==
  ASSUME Types, QueuedInv, [Next]_bvars
  PROVE  QueuedInv'
<1>1. CASE StartRun
  <2>1. Queued' = Queued /\ docs' = docs /\ touched' = Outdated
    BY <1>1 DEF StartRun, others, database, Queued, ForShadow
  <2>2. ASSUME NEW r \in Queued, r.doc \notin Outdated
        PROVE  Current(r)
    <3>1. PICK k \in DOMAIN tasks : ForShadow(k) /\ r \in tasks[k].records
      BY DEF Queued, ForShadow
    <3> QED BY <2>2, <3>1, QueuedType DEF Outdated, ForShadow, Current
  <2> QED BY <2>1, <2>2 DEF QueuedInv, Current
<1>2. CASE ~StartRun
  <2>1. touched \subseteq touched' /\ \A d \in Docs \ touched' : docs'[d] = docs[d]
    BY <1>2, RunFrame
  <2>2. ASSUME NEW r \in Queued, r.doc \notin touched'
        PROVE  Current(r)'
    BY <2>1, <2>2, QueuedType DEF QueuedInv, Current
  <2>3. CASE SendBatch
    <3>1. PICK batch \in SUBSET outbox : Queued' = Queued \cup batch
      BY <2>3, QueueBatch
    <3>2. ASSUME NEW r \in batch, r.doc \notin touched'
          PROVE  Current(r)'
      <4>1. /\ r \in Records(First, text, groups) /\ pc \in Reading /\ docs' = docs /\ touched' = touched
        BY <2>3, <3>2 DEF SendBatch, Types, ReadInv, Reading, others, database, history
      <4>2. r.doc = First /\ text = docs[First].text /\ r.checksum = text[r.chunk]
        BY <3>2, <4>1 DEF Records, Types, ReadInv
      <4> QED BY <4>1, <4>2 DEF Current
    <3> QED BY <2>2, <3>1, <3>2 DEF QueuedInv
  <2>4. CASE ~SendBatch
    <3>1. Queued' \subseteq Queued
      BY <2>4, QueueSame, QueueHead
    <3> QED BY <2>2, <3>1 DEF QueuedInv
  <2> QED BY <2>3, <2>4
<1> QED BY <1>1, <1>2

-----------------------------------------------------------------------------
(* The order of the queue.                                                 *)

\* A run goes on only before the swap is asked for.
LEMMA RunPopulates ==
  ASSUME StageInv, StartRun \/ RunStep
  PROVE  stage = "populate" /\ stage' = stage
BY DEF StageInv, StartRun, RunStep, CommandStep, StatementFails, StopRun, FetchPage, NextPage, ReadText,
       ReadGroups, Compare, SendBatch, DocumentSent, DocumentFails, NextDocument, others

LEMMA TouchedLiveKept ==
  ASSUME Types, [Next]_bvars, ~StartRun, NEW k, NEW l, tasks'[l] = tasks[k], TouchedLive(k)
  PROVE  TouchedLive(l)'
BY RunFrame DEF TouchedLive

LEMMA StageSame ==
  ASSUME Types, StageInv, [Next]_bvars, ~StartRun, UNCHANGED <<tasks, stage, pc, failed>>
  PROVE  StageInv'
BY TouchedLiveKept DEF StageInv

\* A task is taken from the queue.
LEMMA StageTaken ==
  ASSUME Types, StageInv, ProcessTask \/ TaskFails
  PROVE  StageInv'
<1>1. /\ [Next]_bvars /\ ~StartRun /\ tasks \in Seq(Task) /\ tasks # <<>> /\ tasks' = Tail(tasks)
      /\ UNCHANGED <<pc, failed>>
  BY DEF ProcessTask, TaskFails, StartRun, Next, Types, BTypeOK, command
<1>2. /\ 1 \in DOMAIN tasks /\ Head(tasks) = tasks[1] /\ tasks[1] \in Task
      /\ DOMAIN tasks = 1..Len(tasks) /\ DOMAIN tasks' = 1..(Len(tasks) - 1) /\ Len(tasks) \in Nat
      /\ \A k \in DOMAIN tasks' : k + 1 \in DOMAIN tasks /\ tasks'[k] = tasks[k + 1]
  BY <1>1, QueueShrinks
<1>3. \A k \in DOMAIN tasks' : TouchedLive(k + 1) => TouchedLive(k)'
  BY <1>1, <1>2, TouchedLiveKept
<1>4. stage' = stage \/ (tasks[1].kind = "swap" /\ stage' \in {"populate", "swapped"})
  BY <1>2 DEF ProcessTask, TaskFails, Task
<1>5. CASE stage = "populate"
  <2>1. stage' = "populate"
    BY <1>2, <1>4, <1>5 DEF StageInv
  <2> QED BY <1>2, <1>5, <2>1 DEF StageInv
<1>6. CASE stage \in {"swapped", "dropped"}
  <2>1. tasks[1].kind # "swap"
    BY <1>2, <1>6 DEF StageInv, TouchedLive
  <2>2. stage' = stage
    BY <1>4, <2>1
  <2> QED BY <1>1, <1>2, <1>3, <1>6, <2>2 DEF StageInv
<1>7. CASE stage = "swapping"
  <2>1. PICK p \in DOMAIN tasks :
          /\ tasks[p].kind = "swap"
          /\ \A k \in DOMAIN tasks : (k < p => tasks[k].kind = "add") /\ (k > p => TouchedLive(k))
    BY <1>7 DEF StageInv
  <2>2. p \in 1..Len(tasks)
    BY <1>2
  <2>3. CASE p = 1
    <3>1. \A k \in DOMAIN tasks' : TouchedLive(k + 1)
      BY <1>2, <2>1, <2>3
    <3>2. \A k \in DOMAIN tasks' : TouchedLive(k)' /\ tasks'[k].kind = "add"
      BY <1>2, <1>3, <3>1 DEF TouchedLive
    <3>3. stage' \in {"populate", "swapped"}
      BY <1>2, <2>1, <2>3 DEF ProcessTask, TaskFails
    <3> QED BY <1>1, <1>7, <3>2, <3>3 DEF StageInv
  <2>4. CASE p # 1
    <3>1. tasks[1].kind = "add"
      BY <1>2, <2>1, <2>2, <2>4
    <3>2. stage' = stage
      BY <1>4, <3>1
    <3>3. PICK q \in DOMAIN tasks' : q = p - 1
      BY <1>2, <2>2, <2>4
    <3>4. tasks'[q].kind = "swap"
      BY <1>2, <2>1, <2>2, <3>3
    <3>5. ASSUME NEW k \in DOMAIN tasks'
          PROVE  (k < q => tasks'[k].kind = "add") /\ (k > q => TouchedLive(k)')
      <4>1. /\ k + 1 \in DOMAIN tasks /\ tasks'[k] = tasks[k + 1]
            /\ (k < q <=> k + 1 < p) /\ (k > q <=> k + 1 > p)
        BY <1>2, <2>2, <3>3, <3>5
      <4> QED BY <1>3, <2>1, <4>1
    <3> QED BY <1>1, <1>7, <3>2, <3>4, <3>5 DEF StageInv
  <2> QED BY <2>3, <2>4
<1> QED BY <1>5, <1>6, <1>7 DEF Types, BTypeOK

\* A task joins the queue.
LEMMA StageAdded ==
  ASSUME Types, StageInv, [Next]_bvars, ~StartRun, NEW t \in Task, tasks' = Append(tasks, t),
         UNCHANGED <<stage, pc, failed>>, t.kind = "add",
         stage = "populate" \/ (t.index = "live" /\ \A r \in t.records : r.doc \in touched')
  PROVE  StageInv'
<1>1. tasks \in Seq(Task)
  BY DEF Types, BTypeOK
<1>2. /\ DOMAIN tasks = 1..Len(tasks) /\ DOMAIN tasks' = 1..(Len(tasks) + 1) /\ Len(tasks) \in Nat
      /\ \A k \in DOMAIN tasks : k \in DOMAIN tasks' /\ tasks'[k] = tasks[k]
      /\ tasks'[Len(tasks) + 1] = t
  BY <1>1, QueueGrows
<1>3. \A k \in DOMAIN tasks : TouchedLive(k) => TouchedLive(k)'
  BY <1>2, TouchedLiveKept
<1>4. PICK n \in DOMAIN tasks' : n = Len(tasks) + 1 /\ tasks'[n] = t
  BY <1>2
<1>5. \A k \in DOMAIN tasks' : k = n \/ k \in DOMAIN tasks
  BY <1>2, <1>4
<1>6. CASE stage = "populate"
  BY <1>2, <1>4, <1>5, <1>6 DEF StageInv
<1>7. CASE stage # "populate"
  <2>1. TouchedLive(n)'
    BY <1>4, <1>7 DEF TouchedLive
  <2>2. CASE stage = "swapping"
    <3>1. PICK p \in DOMAIN tasks :
            /\ tasks[p].kind = "swap"
            /\ \A k \in DOMAIN tasks : (k < p => tasks[k].kind = "add") /\ (k > p => TouchedLive(k))
      BY <2>2 DEF StageInv
    <3>2. p \in DOMAIN tasks' /\ tasks'[p].kind = "swap" /\ n > p
      BY <1>2, <1>4, <3>1
    <3>3. ASSUME NEW k \in DOMAIN tasks'
          PROVE  (k < p => tasks'[k].kind = "add") /\ (k > p => TouchedLive(k)')
      BY <1>2, <1>3, <1>4, <1>5, <2>1, <3>1, <3>2
    <3> QED BY <2>2, <3>2, <3>3 DEF StageInv
  <2>3. CASE stage \in {"swapped", "dropped"}
    BY <1>2, <1>3, <1>5, <2>1, <2>3 DEF StageInv
  <2> QED BY <1>7, <2>2, <2>3 DEF Types, BTypeOK
<1> QED BY <1>6, <1>7

LEMMA StageNext ==
  ASSUME Types, StageInv, [Next]_bvars
  PROVE  StageInv'
<1>1. CASE StartRun
  BY <1>1 DEF StartRun, StageInv, others
<1>2. CASE RunStep
  <2>1. stage = "populate" /\ stage' = stage
    BY <1>2, RunPopulates
  <2>2. CASE UNCHANGED tasks
    BY <2>1, <2>2 DEF StageInv
  <2>3. CASE SendBatch
    <3>1. PICK batch \in SUBSET outbox :
            tasks' = Append(tasks, [kind |-> "add", index |-> "shadow", records |-> batch])
      BY <2>3 DEF SendBatch, Send
    <3>2. [kind |-> "add", index |-> "shadow", records |-> batch] \in Task
      BY TaskTypes DEF Types, BTypeOK
    <3>3. UNCHANGED <<stage, pc, failed>> /\ ~StartRun
      BY <2>3 DEF SendBatch, StartRun, others
    <3> QED BY <2>1, <3>1, <3>2, <3>3, StageAdded
  <2> QED BY <1>2, <2>2, <2>3, RunStepFrame
<1>3. CASE ProcessTask \/ TaskFails
  BY <1>3, StageTaken
<1>4. CASE RequestSwap
  <2>1. PICK t \in Task : tasks' = Append(tasks, t) /\ t.kind = "swap"
    BY <1>4, TaskTypes DEF RequestSwap, Send
  <2>2. /\ DOMAIN tasks = 1..Len(tasks) /\ DOMAIN tasks' = 1..(Len(tasks) + 1) /\ Len(tasks) \in Nat
        /\ \A k \in DOMAIN tasks : k \in DOMAIN tasks' /\ tasks'[k] = tasks[k]
        /\ tasks'[Len(tasks) + 1] = t
    BY <2>1, QueueGrows DEF Types, BTypeOK
  <2>3. PICK n \in DOMAIN tasks' : n = Len(tasks) + 1 /\ tasks'[n] = t
    BY <2>2
  <2>4. ASSUME NEW k \in DOMAIN tasks'
        PROVE  (k < n => tasks'[k].kind = "add") /\ (k > n => TouchedLive(k)')
    BY <1>4, <2>2, <2>3, <2>4 DEF RequestSwap, StageInv
  <2> QED BY <1>4, <2>1, <2>3, <2>4 DEF RequestSwap, StageInv, command
<1>5. CASE RequestDrop
  <2>1. PICK t \in Task : tasks' = Append(tasks, t) /\ t.kind = "drop"
    BY <1>5, TaskTypes DEF RequestDrop, Send
  <2>2. /\ DOMAIN tasks = 1..Len(tasks) /\ DOMAIN tasks' = 1..(Len(tasks) + 1) /\ Len(tasks) \in Nat
        /\ \A k \in DOMAIN tasks : k \in DOMAIN tasks' /\ tasks'[k] = tasks[k]
        /\ tasks'[Len(tasks) + 1] = t
    BY <2>1, QueueGrows DEF Types, BTypeOK
  <2>3. \A k \in DOMAIN tasks : TouchedLive(k) => TouchedLive(k)'
    BY <1>5, <2>2, TouchedLiveKept DEF RequestDrop, StartRun, Next
  <2>4. \A k \in DOMAIN tasks' : tasks'[k].kind = "drop" \/ TouchedLive(k)'
    BY <1>5, <2>1, <2>2, <2>3 DEF RequestDrop, StageInv
  <2> QED BY <1>5, <2>4 DEF RequestDrop, StageInv, command
<1>6. ASSUME NEW w \in Workers, SendLive(w)
      PROVE  StageInv'
  <2> DEFINE new == Records(ingest[w].doc, ingest[w].text, ingest[w].groups)
             t == [kind |-> "add", index |-> "live", records |-> new]
  <2>1. t \in Task
    BY <1>6, JobType, RecordsType, TaskTypes DEF SendLive
  <2>2. \A r \in new : r.doc \in touched'
    BY <1>6 DEF SendLive, Touch, Records
  <2>3. UNCHANGED <<stage, pc, failed>>
    BY <1>6 DEF SendLive, command
  <2>4. t.kind = "add" /\ t.index = "live" /\ t.records = new
    OBVIOUS
  <2>5. CASE StartRun
    BY <1>1, <2>5
  <2>6. UNCHANGED tasks \/ tasks' = Append(tasks, t)
    BY <1>6 DEF SendLive, Send
  <2> HIDE DEF t, new
  <2> QED BY <2>1, <2>2, <2>3, <2>4, <2>5, <2>6, StageSame, StageAdded
<1>7. CASE PipelineStep
  <2>1. StartRun => StageInv'
    BY <1>1
  <2>2. CASE \E w \in Workers : SendLive(w)
    BY <1>6, <2>2
  <2>3. CASE ~ \E w \in Workers : SendLive(w)
    <3>1. UNCHANGED <<tasks, stage, pc, failed>>
      BY <1>7, <2>3 DEF PipelineStep, BeginIngest, CommitIngest, FailIngest, Regrant, meili, command
    <3> QED BY <2>1, <3>1, StageSame
  <2> QED BY <2>2, <2>3
<1>8. CASE UNCHANGED bvars
  BY <1>1, <1>8, StageSame DEF bvars, meili, command
<1> QED BY <1>1, <1>2, <1>3, <1>4, <1>5, <1>7, <1>8, NextCases DEF MeiliStep, RunStep

-----------------------------------------------------------------------------
(* A record sent to the shadow index arrives and stays.                    *)

LEMMA IndexSame ==
  ASSUME [Next]_bvars, ~ProcessTask
  PROVE  index' = index
<1>1. CASE StartRun \/ RunStep
  BY <1>1, RunStepFrame DEF StartRun, others
<1>2. CASE MeiliStep
  BY <1>2 DEF MeiliStep, TaskFails, RequestSwap, RequestDrop
<1>3. CASE PipelineStep
  BY <1>3 DEF PipelineStep, BeginIngest, SendLive, CommitIngest, FailIngest, Regrant, meili
<1>4. CASE UNCHANGED bvars
  BY <1>4 DEF bvars, meili
<1> QED BY <1>1, <1>2, <1>3, <1>4, NextCases DEF RunStep

\* An addition replaces a record of an untouched document by its equal.
LEMMA AddedKeeps ==
  ASSUME Types, QueuedInv, tasks # <<>>, ForShadow(1),
         NEW d \in Docs \ touched, docs[d].text # None, NEW i \in DOMAIN docs[d].text,
         Holds(index.shadow \cup tasks[1].records, d, i)
  PROVE  Holds(Added(index.shadow, tasks[1].records), d, i)
<1>1. PICK r \in index.shadow \cup tasks[1].records :
        r.doc = d /\ r.chunk = i /\ r.checksum = docs[d].text[i]
  BY DEF Holds
<1>2. tasks[1].records \subseteq Queued
  <2>1. 1 \in DOMAIN tasks
    BY DEF Types, BTypeOK
  <2> QED BY <2>1 DEF Queued, ForShadow
<1>3. CASE r \in tasks[1].records
  BY <1>1, <1>3 DEF Holds, Added
<1>4. CASE r \in index.shadow /\ \E n \in tasks[1].records : <<n.doc, n.chunk>> = <<r.doc, r.chunk>>
  <2>1. PICK n \in tasks[1].records : n.doc = d /\ n.chunk = i
    BY <1>1, <1>4
  <2>2. n.checksum = docs[d].text[i]
    BY <1>2, <2>1 DEF QueuedInv, Current
  <2> QED BY <2>1, <2>2 DEF Holds, Added
<1>5. CASE r \in index.shadow /\ \A n \in tasks[1].records : <<n.doc, n.chunk>> # <<r.doc, r.chunk>>
  BY <1>1, <1>5 DEF Holds, Added
<1> QED BY <1>1, <1>3, <1>4, <1>5

LEMMA SentKept ==
  ASSUME Types, QueuedInv, [Next]_bvars, ~StartRun,
         ProcessTask => Head(tasks).kind = "add",
         NEW d \in Docs \ touched', docs[d].text # None, NEW i \in DOMAIN docs[d].text, Sent(d, i)
  PROVE  Sent(d, i)'
<1>1. d \notin touched /\ docs'[d] = docs[d]
  BY RunFrame
<1>2. PICK r \in index.shadow \cup Queued : r.doc = d /\ r.chunk = i /\ r.checksum = docs[d].text[i]
  BY DEF Sent, Holds
<1>3. r \in index'.shadow \cup Queued' => Sent(d, i)'
  BY <1>1, <1>2 DEF Sent, Holds
<1>4. CASE ProcessTask
  <2>1. /\ tasks # <<>> /\ Head(tasks) = tasks[1] /\ tasks[1] \in Task /\ tasks[1].kind = "add"
        /\ Queued = Queued' \cup ShadowRecords(tasks[1])
    BY <1>4, QueueHead, QueueShrinks DEF ProcessTask, Types, BTypeOK
  <2>2. /\ tasks[1].index \in {"live", "shadow"}
        /\ index \in [live : SUBSET Record, shadow : SUBSET Record]
        /\ index' = [index EXCEPT ![tasks[1].index] = Added(index[tasks[1].index], tasks[1].records)]
    BY <1>4, <2>1 DEF ProcessTask, Task, Types, BTypeOK
  <2>3. CASE tasks[1].index = "live"
    BY <1>2, <1>3, <2>1, <2>2, <2>3 DEF ShadowRecords
  <2>4. CASE tasks[1].index = "shadow"
    <3>1. index'.shadow = Added(index.shadow, tasks[1].records)
      BY <2>2, <2>4
    <3>2. CASE r \in Queued'
      BY <1>3, <3>2
    <3>3. CASE r \in index.shadow \cup tasks[1].records
      <4>1. Holds(index.shadow \cup tasks[1].records, d, i)
        BY <1>2, <3>3 DEF Holds
      <4>2. Holds(index'.shadow, d, i)
        BY <1>1, <2>1, <2>4, <3>1, <4>1, AddedKeeps DEF ForShadow
      <4> QED BY <1>1, <4>2 DEF Sent, Holds
    <3> QED BY <1>2, <2>1, <3>2, <3>3 DEF ShadowRecords
  <2> QED BY <2>2, <2>3, <2>4
<1>5. CASE TaskFails
  <2>1. Queued = Queued' \cup ShadowRecords(Head(tasks))
    BY <1>5, QueueHead
  <2>2. r \notin ShadowRecords(Head(tasks))
    BY <1>2, <1>5 DEF TaskFails, ShadowRecords
  <2>3. index' = index
    BY <1>5 DEF TaskFails
  <2> QED BY <1>2, <1>3, <2>1, <2>2, <2>3
<1>6. CASE ~ProcessTask /\ ~TaskFails
  <2>1. index' = index /\ Queued \subseteq Queued'
    BY <1>6, IndexSame, QueueSame, QueueBatch
  <2> QED BY <1>2, <1>3, <2>1
<1> QED BY <1>4, <1>5, <1>6

\* While nothing is swapped, only additions change the shadow index.
LEMMA AllSentKept ==
  ASSUME Types, QueuedInv, StageInv, [Next]_bvars, ~StartRun,
         stage \in {"populate", "swapping"}, stage' \in {"populate", "swapping"},
         NEW d \in Docs, Due(d)', AllSent(d)
  PROVE  AllSent(d)'
<1>1. d \in Docs \ touched' /\ docs'[d] = docs[d] /\ docs[d].text # None
  BY RunFrame DEF Due
<1>2. ASSUME ProcessTask
      PROVE  Head(tasks).kind = "add"
  <2>1. 1 \in DOMAIN tasks /\ Head(tasks) = tasks[1] /\ tasks[1] \in Task /\ DOMAIN tasks \subseteq Nat
        /\ \A k \in DOMAIN tasks : k = 1 \/ k > 1
    BY <1>2, QueueShrinks DEF ProcessTask, Types, BTypeOK
  <2>2. tasks[1].kind # "swap"
    BY <1>2, <2>1 DEF ProcessTask
  <2> QED BY <2>1, <2>2 DEF StageInv, TouchedLive
<1>3. \A i \in DOMAIN docs[d].text : Sent(d, i)'
  BY <1>1, <1>2, SentKept DEF AllSent
<1> QED BY <1>1, <1>3 DEF AllSent

-----------------------------------------------------------------------------
(* Paging.                                                                 *)

LEMMA RankType ==
  ASSUME Types
  PROVE  \A d \in Docs : Rank(d) \in Nat /\ (docs[d].status = "indexed" => Rank(d) >= 1)
<1>1. Indexed \in SUBSET Docs
  BY DEF Indexed
<1> QED BY <1>1, UpTo DEF Rank, Indexed

\* Unless a document leaves the status indexed, none moves to an earlier page.
LEMMA RankGrows ==
  ASSUME Types, Types', [Next]_bvars, ~shifted'
  PROVE  \A d \in Docs : Rank(d)' >= Rank(d)
<1>1. Indexed \subseteq Indexed'
  <2>1. ASSUME NEW w \in Workers, CommitIngest(w)
        PROVE  Indexed \subseteq Indexed'
    BY <2>1 DEF CommitIngest, Indexed, Types, BTypeOK
  <2>2. ASSUME NEW w \in Workers, FailIngest(w)
        PROVE  Indexed \subseteq Indexed'
    <3>1. docs[ingest[w].doc].status # "indexed" /\ ingest[w].doc \in Docs
      BY <2>2, JobType DEF FailIngest
    <3>2. \A d \in Docs \ {ingest[w].doc} : docs'[d] = docs[d]
      BY <2>2, <3>1 DEF FailIngest, Types, BTypeOK
    <3> QED BY <3>1, <3>2 DEF Indexed
  <2>3. CASE docs' = docs
    BY <2>3 DEF Indexed
  <2>4. CASE StartRun \/ RunStep
    BY <2>3, <2>4, RunStepFrame DEF StartRun, others, database
  <2>5. CASE MeiliStep
    BY <2>3, <2>5 DEF MeiliStep, ProcessTask, TaskFails, RequestSwap, RequestDrop, database
  <2>6. CASE PipelineStep
    BY <2>1, <2>2, <2>3, <2>6 DEF PipelineStep, BeginIngest, SendLive, Regrant, database
  <2>7. CASE UNCHANGED bvars
    BY <2>3, <2>7 DEF bvars, database
  <2> QED BY <2>4, <2>5, <2>6, <2>7, NextCases DEF RunStep
<1>2. ASSUME NEW d \in Docs
      PROVE  Rank(d)' >= Rank(d)
  <2>1. IsFiniteSet({e \in Indexed' : e <= d})
    BY UpTo DEF Indexed
  <2>2. {e \in Indexed : e <= d} \in SUBSET {e \in Indexed' : e <= d}
    BY <1>1
  <2>3. Cardinality({e \in Indexed : e <= d}) <= Cardinality({e \in Indexed' : e <= d})
    BY <2>1, <2>2, FS_Subset
  <2> QED BY <2>3, RankType DEF Rank
<1> QED BY <1>2

\* A page holds the documents whose ranks come next, and is empty only behind
\* the last one.
LEMMA PageRanks ==
  ASSUME Types
  PROVE  /\ \A d \in Docs : docs[d].status = "indexed" /\ Rank(d) > offset =>
                              d \in IndexedPage \/ Rank(d) > offset + PageSize
         /\ \A d \in Docs : docs[d].status = "indexed" /\ Rank(d) > offset => IndexedPage # {}
<1>1. /\ IndexedPage = {d \in Indexed : Rank(d) \in offset + 1 .. offset + PageSize}
      /\ offset \in Nat /\ PageSize \in Nat \ {0} /\ Indexed \in SUBSET Docs
  BY SizesAssumption DEF IndexedPage, Indexed, Rank, Types, BTypeOK
<1>2. ASSUME NEW d \in Docs, docs[d].status = "indexed", Rank(d) > offset
      PROVE  /\ d \in IndexedPage \/ Rank(d) > offset + PageSize
             /\ IndexedPage # {}
  <2>1. d \in Indexed /\ Rank(d) \in Nat
    BY <1>2, RankType DEF Indexed
  <2>2. PICK n \in Indexed : Rank(n) = offset + 1
    BY <1>1, <1>2, <2>1, NoGap DEF Rank
  <2>3. n \in IndexedPage
    BY <1>1, <2>2
  <2> QED BY <1>1, <1>2, <2>1, <2>3
<1> QED BY <1>2

-----------------------------------------------------------------------------
(* A run gets through all documents it has to.                             *)

Safe == Types /\ QueuedInv /\ StageInv

LEMMA RunKeeps ==
  ASSUME Safe, [Next]_bvars, RunStep, NEW d \in Docs
  PROVE  /\ Due(d)' <=> Due(d)
         /\ Rank(d)' = Rank(d)
         /\ Due(d) /\ AllSent(d) => AllSent(d)'
<1>1. UNCHANGED <<docs, touched, stage>> /\ stage = "populate" /\ ~StartRun
  BY RunStepFrame, RunPopulates DEF Safe, others, database, history, RunStep, CommandStep, StatementFails,
     StopRun, FetchPage, NextPage, ReadText, ReadGroups, Compare, SendBatch, DocumentSent, StartRun
<1>2. Due(d)' <=> Due(d)
  BY <1>1 DEF Due
<1>3. Rank(d)' = Rank(d)
  BY <1>1 DEF Rank, Indexed
<1>4. Due(d) /\ AllSent(d) => AllSent(d)'
  BY <1>1, <1>2, AllSentKept DEF Safe
<1> QED BY <1>2, <1>3, <1>4

\* The first document of the page is done with: its records are sent, or it has none.
LEMMA Moved ==
  ASSUME Safe, ProgressInv, [Next]_bvars, RunStep, NextDocument, pc \in {"text"} \cup Reading,
         page # {}, failed' = failed, Due(First) => AllSent(First)
  PROVE  ProgressInv'
<1>1. /\ page' = page \ {First} /\ pc' = "text" /\ offset' = offset /\ shifted' = shifted
  BY DEF NextDocument, history
<1>2. Passed' = Passed
  BY <1>1 DEF Passed, Reading
<1>3. PageProgress'
  <2> SUFFICES ASSUME ~failed, ~shifted, NEW d \in Docs, Due(d)'
               PROVE  AllSent(d)' \/ Rank(d)' > Passed' \/ d \in page'
    BY <1>1 DEF PageProgress
  <2>1. AllSent(d) \/ Rank(d) > Passed \/ d \in page
    BY RunKeeps DEF ProgressInv, PageProgress
  <2> QED BY <1>1, <1>2, <2>1, RunKeeps
<1> QED BY <1>1, <1>3 DEF ProgressInv, FirstProgress, RunProgress

\* A statement that leaves the page as it is.
LEMMA SamePage ==
  ASSUME Safe, ProgressInv, [Next]_bvars, RunStep, pc \in {"text"} \cup Reading, pc' \in Reading,
         UNCHANGED <<page, offset, failed>>, FirstProgress'
  PROVE  ProgressInv'
<1>1. Passed' = Passed /\ shifted' = shifted
  BY RunStepFrame DEF Passed, Reading, history
<1>2. PageProgress'
  <2> SUFFICES ASSUME ~failed, ~shifted, NEW d \in Docs, Due(d)'
               PROVE  AllSent(d)' \/ Rank(d)' > Passed' \/ d \in page'
    BY <1>1 DEF PageProgress, Reading
  <2>1. AllSent(d) \/ Rank(d) > Passed \/ d \in page
    BY RunKeeps DEF ProgressInv, PageProgress
  <2> QED BY <1>1, <2>1, RunKeeps
<1> QED BY <1>2 DEF ProgressInv, RunProgress, Reading

LEMMA ProgressRun ==
  ASSUME Safe, ProgressInv, [Next]_bvars, RunStep
  PROVE  ProgressInv'
<1>1. UNCHANGED <<docs, touched, shifted, index, stage>> /\ (SendBatch \/ Queued' = Queued)
  BY RunStepFrame DEF others, database, history, Queued, ForShadow
<1>2. CASE FetchPage
  <2>1. /\ page' = IndexedPage /\ pc = "fetch" /\ pc' = IF IndexedPage = {} THEN "done" ELSE "text"
        /\ UNCHANGED <<offset, failed>>
    BY <1>2 DEF FetchPage
  <2>2. ASSUME ~failed, ~shifted, NEW d \in Docs, Due(d)'
        PROVE  AllSent(d)' \/ (Rank(d) > offset /\ docs[d].status = "indexed")
    BY <2>1, <2>2, RunKeeps DEF ProgressInv, PageProgress, Passed, Due
  <2>3. PageProgress'
    <3> SUFFICES ASSUME pc' = "text", ~failed, ~shifted, NEW d \in Docs, Due(d)'
                 PROVE  AllSent(d)' \/ Rank(d)' > Passed' \/ d \in page'
      BY <1>1, <2>1 DEF PageProgress, Reading
    <3> QED BY <2>1, <2>2, RunKeeps, PageRanks DEF Passed, Safe
  <2>4. RunProgress'
    <3> SUFFICES ASSUME pc' = "done", ~failed, ~shifted, NEW d \in Docs, Due(d)'
                 PROVE  AllSent(d)'
      BY <1>1, <2>1 DEF RunProgress
    <3>1. IndexedPage = {}
      BY <2>1
    <3> QED BY <2>2, <3>1, PageRanks DEF Safe
  <2> QED BY <2>1, <2>3, <2>4 DEF ProgressInv, FirstProgress
<1>3. CASE NextPage
  <2>1. /\ page = {} /\ pc = "text" /\ pc' = "fetch" /\ offset' = offset + PageSize /\ failed' = failed
    BY <1>3 DEF NextPage
  <2>2. PageProgress'
    <3> SUFFICES ASSUME ~failed, ~shifted, NEW d \in Docs, Due(d)'
                 PROVE  AllSent(d)' \/ Rank(d)' > Passed'
      BY <1>1, <2>1 DEF PageProgress
    <3> QED BY <2>1, RunKeeps DEF ProgressInv, PageProgress, Passed
  <2> QED BY <2>1, <2>2 DEF ProgressInv, FirstProgress, RunProgress
<1>4. CASE StatementFails \/ StopRun \/ (ReadGroups /\ acl[First] = {})
  <2>1. pc' = "idle" \/ (pc' = "text" /\ failed' = TRUE)
    BY <1>4 DEF StatementFails, StopRun, ReadGroups, DocumentFails, NextDocument
  <2> QED BY <2>1 DEF ProgressInv, FirstProgress, PageProgress, RunProgress, Reading
<1>5. CASE ReadText
  <2>1. CASE docs[First].text = None
    BY <1>5, <2>1, Moved DEF ReadText, Due
  <2>2. CASE docs[First].text # None
    BY <1>5, <2>2, SamePage DEF ReadText, FirstProgress, Reading
  <2> QED BY <2>1, <2>2
<1>6. CASE ReadGroups /\ acl[First] # {}
  BY <1>6, SamePage DEF ReadGroups, FirstProgress, Reading
<1>7. CASE Compare
  <2>1. /\ outbox' = {r \in Records(First, text, groups) : ~Existing(r.doc, r.chunk, r.checksum)}
        /\ pc = "compare" /\ pc' = "send" /\ UNCHANGED <<page, offset, failed>>
    BY <1>7 DEF Compare
  <2>2. First' = First
    BY <2>1 DEF First
  <2>3. ASSUME Due(First), NEW i \in DOMAIN docs[First].text
        PROVE  Holds(index.shadow, First, i) \/ Holds(outbox', First, i)
    <3>1. text = docs[First].text
      BY <2>1, <2>3 DEF Due, Safe, Types, ReadInv, Reading
    <3>2. PICK r \in Records(First, text, groups) : r.doc = First /\ r.chunk = i /\ r.checksum = text[i]
      <4>1. [doc |-> First, chunk |-> i, checksum |-> text[i], groups |-> groups]
              \in Records(First, text, groups)
        BY <2>3, <3>1 DEF Records
      <4> QED BY <4>1
    <3>3. CASE Existing(r.doc, r.chunk, r.checksum)
      BY <3>1, <3>2, <3>3 DEF Existing, Holds
    <3>4. CASE ~Existing(r.doc, r.chunk, r.checksum)
      BY <2>1, <3>1, <3>2, <3>4 DEF Holds
    <3> QED BY <3>3, <3>4
  <2>4. FirstProgress'
    BY <1>1, <2>2, <2>3 DEF FirstProgress, Due, Sent, Holds
  <2> QED BY <2>1, <2>4, SamePage DEF Reading
<1>8. CASE SendBatch
  <2>1. PICK batch \in SUBSET outbox : outbox' = outbox \ batch /\ Queued' = Queued \cup batch
    BY <1>8, QueueBatch DEF Safe
  <2>2. pc = "send" /\ pc' = "send" /\ UNCHANGED <<page, offset, failed>>
    BY <1>8 DEF SendBatch
  <2>3. First' = First
    BY <2>2 DEF First
  <2>4. FirstProgress'
    <3>1. FirstProgress
      BY DEF ProgressInv
    <3> QED BY <1>1, <2>1, <2>2, <2>3, <3>1 DEF FirstProgress, Due, Sent, Holds
  <2> QED BY <2>2, <2>4, SamePage DEF Reading
<1>9. CASE DocumentSent
  <2>1. pc = "send" /\ outbox = {} /\ page # {}
    BY <1>9 DEF DocumentSent, Safe, Types, ReadInv, Reading
  <2>2. Due(First) => AllSent(First)
    BY <2>1 DEF ProgressInv, FirstProgress, AllSent, Holds
  <2> QED BY <1>9, <2>1, <2>2, Moved DEF DocumentSent, Reading
<1> QED BY <1>2, <1>3, <1>4, <1>5, <1>6, <1>7, <1>8, <1>9 DEF RunStep, CommandStep

\* Until the swap there are only additions before it, and one that is taken back
\* comes from "swapping".
LEMMA StageBack ==
  ASSUME Safe, MeiliStep \/ PipelineStep \/ UNCHANGED bvars
  PROVE  /\ stage' \in {"populate", "swapping"} => stage \in {"populate", "swapping"}
         /\ pc \notin {"idle", "done"} => stage = "populate" /\ stage' = "populate"
<1>1. CASE ProcessTask \/ TaskFails
  <2>1. Head(tasks) = tasks[1] /\ 1 \in DOMAIN tasks /\ tasks[1] \in Task
    BY <1>1, QueueShrinks DEF ProcessTask, TaskFails, Safe, Types, BTypeOK
  <2>2. stage' = stage \/ (tasks[1].kind = "swap" /\ stage' \in {"populate", "swapped"})
    BY <1>1, <2>1 DEF ProcessTask, TaskFails, Task
  <2> QED BY <2>1, <2>2 DEF Safe, StageInv, TouchedLive, Types, BTypeOK
<1>2. CASE ~ProcessTask /\ ~TaskFails
  <2>1. \/ stage' = stage
        \/ stage = "populate" /\ stage' = "swapping" /\ pc = "done"
        \/ stage = "swapped" /\ stage' = "dropped" /\ pc = "done"
    BY <1>2 DEF MeiliStep, RequestSwap, RequestDrop, PipelineStep, BeginIngest, SendLive, CommitIngest,
         FailIngest, Regrant, bvars, meili, Safe, StageInv
  <2> QED BY <2>1 DEF Safe, StageInv
<1> QED BY <1>1, <1>2

LEMMA ProgressAside ==
  ASSUME Safe, ProgressInv, [Next]_bvars, MeiliStep \/ PipelineStep \/ UNCHANGED bvars, ~StartRun,
         Types'
  PROVE  ProgressInv'
<1>1. UNCHANGED command /\ touched \subseteq touched' /\ \A d \in Docs \ touched' : docs'[d] = docs[d]
  BY StepsAside, RunFrame DEF Aside, Safe, bvars
<1>2. UNCHANGED <<pc, page, offset, outbox, failed>> /\ First' = First /\ Passed' = Passed
  BY <1>1 DEF command, First, Passed
<1>3. shifted => shifted'
  <2>1. CASE MeiliStep \/ UNCHANGED bvars
    BY <2>1 DEF MeiliStep, ProcessTask, TaskFails, RequestSwap, RequestDrop, bvars, history
  <2>2. CASE PipelineStep
    BY <2>2 DEF PipelineStep, BeginIngest, SendLive, CommitIngest, FailIngest, Regrant, history
  <2> QED BY <2>1, <2>2
<1>4. \A d \in Docs : Due(d)' => Due(d)
  BY <1>1 DEF Due
<1>5. FirstProgress'
  <2> SUFFICES ASSUME pc = "send", Due(First)', NEW i \in DOMAIN docs'[First].text
               PROVE  Sent(First, i)' \/ Holds(outbox, First, i)'
    BY <1>2 DEF FirstProgress
  <2>1. PICK d \in Docs : d = First /\ Due(d)' /\ Due(d)
    BY <1>2, <1>4, FirstOfPage DEF Safe, Types, BTypeOK, ReadInv, Reading
  <2>2. d \in Docs \ touched' /\ docs'[d] = docs[d] /\ docs[d].text # None /\ i \in DOMAIN docs[d].text
    BY <1>1, <1>2, <2>1 DEF Due
  <2>3. CASE Sent(d, i)
    <3>1. ProcessTask => Head(tasks).kind = "add"
      <4>1. stage = "populate"
        BY StageBack
      <4> QED BY <4>1, QueueShrinks DEF ProcessTask, Safe, Types, BTypeOK, StageInv
    <3>2. Sent(d, i)'
      BY <2>2, <2>3, <3>1, SentKept DEF Safe
    <3> QED BY <1>2, <2>1, <3>2
  <2>4. CASE Holds(outbox, d, i)
    BY <1>2, <2>1, <2>2, <2>4 DEF Holds
  <2> QED BY <2>1, <2>2, <2>3, <2>4 DEF ProgressInv, FirstProgress
<1>6. PageProgress'
  <2> SUFFICES ASSUME ~failed, ~shifted', pc \in {"fetch", "text"} \cup Reading, NEW d \in Docs, Due(d)'
               PROVE  AllSent(d)' \/ Rank(d)' > Passed \/ (pc # "fetch" /\ d \in page)
    BY <1>2 DEF PageProgress
  <2>1. AllSent(d) \/ Rank(d) > Passed \/ (pc # "fetch" /\ d \in page)
    BY <1>3, <1>4 DEF ProgressInv, PageProgress
  <2>2. AllSent(d) => AllSent(d)'
    <3>1. stage = "populate" /\ stage' = "populate"
      BY StageBack DEF Reading
    <3> QED BY <3>1, AllSentKept DEF Safe
  <2>3. Rank(d)' >= Rank(d) /\ Rank(d) \in Nat /\ Rank(d)' \in Nat /\ Passed \in Nat
    <3>1. Rank(d)' \in Nat
      BY UpTo DEF Rank, Indexed
    <3> QED BY <3>1, RankGrows, RankType, SizesAssumption DEF Safe, Passed, Types, BTypeOK
  <2> QED BY <2>1, <2>2, <2>3
<1>7. RunProgress'
  <2> SUFFICES ASSUME ~failed, ~shifted', pc = "done", stage' \in {"populate", "swapping"},
                      NEW d \in Docs, Due(d)'
               PROVE  AllSent(d)'
    BY <1>2 DEF RunProgress
  <2>1. stage \in {"populate", "swapping"}
    BY StageBack
  <2> QED BY <1>3, <1>4, <2>1, AllSentKept DEF Safe, ProgressInv, RunProgress
<1> QED BY <1>5, <1>6, <1>7 DEF ProgressInv

LEMMA ProgressNext ==
  ASSUME Safe, ProgressInv, [Next]_bvars, Types'
  PROVE  ProgressInv'
<1>1. CASE StartRun
  <2>1. pc' = "fetch" /\ offset' = 0 /\ docs' = docs
    BY <1>1 DEF StartRun, others, database
  <2>2. ASSUME NEW d \in Docs, Due(d)'
        PROVE  Rank(d)' > Passed'
    <3>1. Rank(d)' = Rank(d) /\ docs[d].status = "indexed"
      BY <2>1, <2>2 DEF Rank, Indexed, Due
    <3> QED BY <2>1, <3>1, RankType DEF Passed, Safe
  <2> QED BY <2>1, <2>2 DEF ProgressInv, FirstProgress, PageProgress, RunProgress
<1>2. CASE ~StartRun
  BY <1>2, ProgressRun, ProgressAside, NextCases DEF RunStep
<1> QED BY <1>1, <1>2

-----------------------------------------------------------------------------
(* The index that is live after the swap.                                  *)

LEMMA LiveNext ==
  ASSUME Safe, ProgressInv, LiveInv, [Next]_bvars
  PROVE  LiveInv'
<1> SUFFICES ASSUME ~shifted', stage' \in {"swapped", "dropped"}, NEW d \in Docs, Due(d)',
                    NEW i \in DOMAIN docs'[d].text
             PROVE  Holds(index.live, d, i)'
  BY DEF LiveInv
<1>1. ~StartRun /\ ~RunStep
  BY RunPopulates DEF Safe
<1>2. Due(d) /\ docs'[d] = docs[d] /\ d \notin touched /\ d \notin touched'
  BY <1>1, RunFrame DEF Due, Safe
<1>3. ~shifted
  <2>1. CASE MeiliStep \/ UNCHANGED bvars
    BY <2>1 DEF MeiliStep, ProcessTask, TaskFails, RequestSwap, RequestDrop, bvars, history
  <2>2. CASE PipelineStep
    BY <2>2 DEF PipelineStep, BeginIngest, SendLive, CommitIngest, FailIngest, Regrant, history
  <2> QED BY <1>1, <2>1, <2>2, NextCases DEF RunStep
<1>4. CASE stage \in {"swapped", "dropped"} /\ ~ProcessTask
  BY <1>2, <1>3, <1>4, IndexSame DEF LiveInv, Holds
<1>5. CASE ProcessTask
  <2>1. /\ Head(tasks) = tasks[1] /\ 1 \in DOMAIN tasks /\ tasks[1] \in Task /\ DOMAIN tasks = 1..Len(tasks)
        /\ index \in [live : SUBSET Record, shadow : SUBSET Record]
        /\ Queued = Queued' \cup ShadowRecords(tasks[1])
    BY <1>5, QueueShrinks, QueueHead DEF ProcessTask, Safe, Types, BTypeOK
  <2>2. CASE stage \in {"swapped", "dropped"}
    <3>1. PICK r \in index.live : r.doc = d /\ r.chunk = i /\ r.checksum = docs[d].text[i]
      BY <1>2, <1>3, <2>2 DEF LiveInv, Holds
    <3>2. CASE tasks[1].kind = "drop"
      <4>1. index'.live = index.live
        BY <1>5, <2>1, <3>2 DEF ProcessTask
      <4> QED BY <1>2, <3>1, <4>1 DEF Holds
    <3>3. CASE TouchedLive(1)
      <4>1. index' = [index EXCEPT !["live"] = Added(index["live"], tasks[1].records)]
        BY <1>5, <2>1, <3>3 DEF ProcessTask, TouchedLive
      <4>2. \A n \in tasks[1].records : n.doc # d
        BY <1>2, <3>3 DEF TouchedLive
      <4>3. r \in index'.live
        BY <2>1, <3>1, <4>1, <4>2 DEF Added
      <4> QED BY <1>2, <3>1, <4>3 DEF Holds
    <3> QED BY <2>1, <2>2, <3>2, <3>3 DEF Safe, StageInv
  <2>3. CASE stage \in {"populate", "swapping"}
    <3>1. tasks[1].kind = "swap" /\ stage = "swapping"
      BY <1>5, <2>1, <2>3 DEF ProcessTask, Task, Safe, StageInv
    <3>2. \A k \in DOMAIN tasks : ~ForShadow(k)
      <4>1. PICK p \in DOMAIN tasks :
              /\ tasks[p].kind = "swap"
              /\ \A k \in DOMAIN tasks : (k < p => tasks[k].kind = "add") /\ (k > p => TouchedLive(k))
        BY <3>1 DEF Safe, StageInv
      <4>2. p = 1
        BY <2>1, <3>1, <4>1
      <4> QED BY <2>1, <3>1, <4>1, <4>2 DEF TouchedLive, ForShadow
    <3>3. Queued = {}
      BY <3>2 DEF Queued, ForShadow
    <3>4. Sent(d, i)
      BY <1>2, <1>3, <3>1 DEF Safe, StageInv, ProgressInv, RunProgress, AllSent
    <3>5. index'.live = index.shadow
      <4>1. index' = [live |-> index.shadow, shadow |-> index.live]
        BY <1>5, <2>1, <3>1 DEF ProcessTask
      <4> QED BY <4>1
    <3> QED BY <1>2, <3>3, <3>4, <3>5 DEF Sent, Holds
  <2> QED BY <2>2, <2>3 DEF Safe, Types, BTypeOK
<1>6. CASE stage \in {"populate", "swapping"} /\ ~ProcessTask
  BY <1>1, <1>6, NextCases DEF RunStep, MeiliStep, TaskFails, RequestSwap, RequestDrop, PipelineStep,
     BeginIngest, SendLive, CommitIngest, FailIngest, Regrant, meili, bvars
<1> QED BY <1>4, <1>5, <1>6 DEF Safe, Types, BTypeOK

-----------------------------------------------------------------------------
(* Nothing else goes live.                                                 *)

\* During a run, a record that fits is not made unfit unnoticed.
LEMMA FittingKept ==
  ASSUME Types, [Next]_bvars, ~StartRun
  PROVE  /\ \A d \in Docs : Excused(d) => Excused(d)'
         /\ \A d \in Docs : Excused(d)' \/ acl'[d] = acl[d]
         /\ \A r : r.doc \in Docs /\ Fitting(r) => Fitting(r)'
<1>1. touched \subseteq touched' /\ \A d \in Docs \ touched' : docs'[d] = docs[d]
  BY RunFrame
<1>2. CASE UNCHANGED <<acl, regranted, leftover>>
  BY <1>1, <1>2 DEF Excused, Fitting, Fits
<1>3. ASSUME NEW d \in Docs, NEW g \in Groups, Regrant(d, g)
      PROVE  /\ \A e \in Docs : Excused(e) => Excused(e)'
             /\ \A e \in Docs : Excused(e)' \/ acl'[e] = acl[e]
             /\ \A r : r.doc \in Docs /\ Fitting(r) => Fitting(r)'
  <2>1. /\ regranted' = regranted \cup {d} /\ leftover' = leftover
        /\ \A e \in Docs \ {d} : acl'[e] = acl[e]
    BY <1>3 DEF Regrant, Types, BTypeOK
  <2> QED BY <1>1, <2>1 DEF Excused, Fitting, Fits
<1>4. CASE RunStep
  BY <1>2, <1>4, RunStepFrame DEF others, database, history
<1>5. CASE MeiliStep \/ UNCHANGED bvars
  BY <1>2, <1>5 DEF MeiliStep, ProcessTask, TaskFails, RequestSwap, RequestDrop, database, history, bvars
<1>6. CASE PipelineStep
  BY <1>2, <1>3, <1>6 DEF PipelineStep, BeginIngest, SendLive, CommitIngest, FailIngest, database, history
<1> QED BY <1>4, <1>5, <1>6, NextCases DEF RunStep

\* A run begins by excusing the documents of what is there and does not fit.
LEMMA GroupsStart ==
  ASSUME Types, GroupsInv, StageInv, StartRun
  PROVE  GroupsInv'
<1>1. stage' = "populate" /\ pc' = "fetch" /\ leftover' = Leftover
      /\ UNCHANGED <<index, tasks, docs, acl>>
  BY DEF StartRun, others, database
<1>2. Queued' = Queued
  BY <1>1 DEF Queued
<1>3. ASSUME NEW r \in index.shadow \cup Queued
      PROVE  Fitting(r)'
  <2>1. r.doc \in Docs
    BY QueuedType DEF Types, BTypeOK, Record
  <2>2. CASE Fits(r)
    BY <1>1, <2>2 DEF Fitting, Fits
  <2>3. CASE ~Fits(r)
    BY <1>1, <2>1, <2>3 DEF Leftover, Fitting, Excused
  <2> QED BY <2>2, <2>3
<1> QED BY <1>1, <1>2, <1>3 DEF GroupsInv

\* What the command sends has the groups it has read, and the text.
LEMMA GroupsRun ==
  ASSUME Types, GroupsInv, StageInv, [Next]_bvars, RunStep, ~StartRun
  PROVE  GroupsInv'
<1>1. /\ UNCHANGED <<docs, acl, index, stage, touched, regranted, leftover>>
      /\ stage = "populate"
  BY RunStepFrame, RunPopulates DEF others, database, history
<1>2. \A r : Fitting(r) => Fitting(r)'
  BY <1>1 DEF Fitting, Fits, Excused
<1>3. \A r \in index'.shadow \cup Queued' : Fitting(r)'
  <2>1. CASE SendBatch
    <3>1. pc = "send" /\ \E batch \in SUBSET outbox : Queued' = Queued \cup batch
      BY <2>1, QueueBatch DEF SendBatch
    <3> QED BY <1>1, <1>2, <3>1 DEF GroupsInv
  <2>2. CASE ~SendBatch
    <3>1. Queued' = Queued
      BY <2>2, RunStepFrame DEF Queued
    <3> QED BY <1>1, <1>2, <3>1 DEF GroupsInv
  <2> QED BY <2>1, <2>2
<1>4. pc' = "compare" => Excused(First)' \/ groups' = acl'[First']
  <2>1. CASE ReadGroups
    BY <1>1, <2>1 DEF ReadGroups, DocumentFails, NextDocument, First
  <2>2. CASE ~ReadGroups
    BY <2>2 DEF RunStep, CommandStep, StatementFails, StopRun, FetchPage, NextPage, ReadText,
         Compare, SendBatch, DocumentSent, DocumentFails, NextDocument
  <2> QED BY <2>1, <2>2
<1>5. pc' = "send" => \A r \in outbox' : Fitting(r)'
  <2>1. CASE Compare
    <3>1. pc = "compare" /\ outbox' \subseteq Records(First, text, groups)
      BY <2>1 DEF Compare
    <3>2. ASSUME NEW r \in Records(First, text, groups) PROVE Fitting(r)
      <4>1. r.doc = First /\ r.chunk \in DOMAIN text /\ r.groups = groups
        BY DEF Records
      <4>2. Excused(First) \/ (groups = acl[First] /\ text = docs[First].text /\ text # None)
        <5>1. Excused(First) \/ groups = acl[First]
          BY <3>1 DEF GroupsInv
        <5>2. First \notin touched => text = docs[First].text
          BY <3>1 DEF Types, ReadInv, Reading
        <5>3. text # None
          BY <2>1, <3>1 DEF Types, ReadInv, Reading
        <5> QED BY <5>1, <5>2, <5>3 DEF Excused
      <4> QED BY <4>1, <4>2 DEF Fitting, Fits
    <3> QED BY <1>2, <3>1, <3>2
  <2>2. CASE SendBatch
    <3>1. pc = "send" /\ outbox' \subseteq outbox
      BY <2>2 DEF SendBatch
    <3> QED BY <1>2, <3>1 DEF GroupsInv
  <2>3. CASE ~Compare /\ ~SendBatch
    BY <2>3 DEF RunStep, CommandStep, StatementFails, StopRun, FetchPage, NextPage, ReadText,
         ReadGroups, DocumentSent, DocumentFails, NextDocument
  <2> QED BY <2>1, <2>2, <2>3
<1> QED BY <1>1, <1>3, <1>4, <1>5 DEF GroupsInv

\* What the others leave of it.
LEMMA GroupsAside ==
  ASSUME Types, GroupsInv, StageInv, [Next]_bvars, ~StartRun, ~RunStep
  PROVE  GroupsInv'
<1>1. /\ \A d \in Docs : Excused(d) => Excused(d)'
      /\ \A d \in Docs : Excused(d)' \/ acl'[d] = acl[d]
      /\ \A r : r.doc \in Docs /\ Fitting(r) => Fitting(r)'
  BY FittingKept
<1>2. UNCHANGED command
  BY NextCases, StepsAside DEF RunStep, Aside, bvars
<1>3. /\ index.live \subseteq Record /\ index.shadow \subseteq Record /\ outbox \subseteq Record
      /\ Queued \subseteq Record
      /\ \A r \in Record : r.doc \in Docs
  BY QueuedType DEF Types, BTypeOK, Record
<1>4. pc' = "compare" => Excused(First)' \/ groups' = acl'[First']
  <2>1. page # {} => First \in Docs
    BY FirstOfPage DEF Types, BTypeOK
  <2> QED BY <1>1, <1>2, <2>1 DEF GroupsInv, command, First, Types, ReadInv, Reading
<1>5. pc' = "send" => \A r \in outbox' : Fitting(r)'
  BY <1>1, <1>2, <1>3 DEF GroupsInv, command
<1>6. CASE ~ProcessTask
  <2>1. index' = index /\ Queued' \subseteq Queued
    BY <1>6, IndexSame, QueueSame, QueueHead DEF RunStep, CommandStep
  <2>2. \/ stage' = stage
        \/ stage' \in {"populate", "swapping"} /\ stage \in {"populate", "swapping"}
        \/ stage' = "dropped" /\ stage = "swapped"
    <3>1. CASE TaskFails
      <4>1. tasks # <<>> /\ tasks[1] = Head(tasks) /\ 1 \in DOMAIN tasks
        BY <3>1, QueueShrinks DEF TaskFails, Types, BTypeOK
      <4>2. Head(tasks).kind = "swap" => stage \in {"populate", "swapping"}
        BY <4>1 DEF StageInv, TouchedLive, Types, BTypeOK
      <4> QED BY <3>1, <4>2 DEF TaskFails
    <3>2. CASE RequestSwap \/ RequestDrop
      BY <3>2 DEF RequestSwap, RequestDrop
    <3>3. CASE PipelineStep \/ UNCHANGED bvars
      BY <3>3 DEF PipelineStep, BeginIngest, SendLive, CommitIngest, FailIngest, Regrant, meili, bvars
    <3> QED BY <1>6, <3>1, <3>2, <3>3, NextCases DEF RunStep, MeiliStep
  <2> QED BY <1>1, <1>3, <1>4, <1>5, <2>1, <2>2 DEF GroupsInv
<1>7. CASE ProcessTask
  <2>1. /\ Head(tasks) = tasks[1] /\ 1 \in DOMAIN tasks /\ tasks[1] \in Task
        /\ index \in [live : SUBSET Record, shadow : SUBSET Record]
        /\ Queued = Queued' \cup ShadowRecords(tasks[1])
    BY <1>7, QueueShrinks, QueueHead DEF ProcessTask, Types, BTypeOK
  <2>2. CASE stage \in {"swapped", "dropped"}
    <3>1. CASE tasks[1].kind = "drop"
      <4>1. index'.live = index.live /\ stage' = stage
        BY <1>7, <2>1, <3>1 DEF ProcessTask
      <4> QED BY <1>1, <1>3, <1>4, <1>5, <2>2, <4>1 DEF GroupsInv
    <3>2. CASE TouchedLive(1)
      <4>1. index' = [index EXCEPT !["live"] = Added(index["live"], tasks[1].records)] /\ stage' = stage
        BY <1>7, <2>1, <3>2 DEF ProcessTask, TouchedLive
      <4>2. index'.live \subseteq index.live \cup tasks[1].records
        BY <2>1, <4>1 DEF Added
      <4>3. \A r \in tasks[1].records : Fitting(r) /\ r.doc \in Docs
        BY <1>3, <2>1, <3>2 DEF TouchedLive, Fitting, Excused, Task
      <4> QED BY <1>1, <1>3, <1>4, <1>5, <2>2, <4>1, <4>2, <4>3 DEF GroupsInv
    <3> QED BY <2>1, <2>2, <3>1, <3>2 DEF StageInv
  <2>3. CASE stage \in {"populate", "swapping"}
    <3>1. CASE tasks[1].kind = "swap"
      <4>1. index' = [live |-> index.shadow, shadow |-> index.live] /\ stage' = "swapped"
        BY <1>7, <2>1, <3>1 DEF ProcessTask
      <4>2. index'.live = index.shadow
        BY <4>1
      <4> QED BY <1>1, <1>3, <1>4, <1>5, <2>3, <4>1, <4>2 DEF GroupsInv
    <3>2. CASE tasks[1].kind = "add"
      <4>1. index' = [index EXCEPT ![tasks[1].index] = Added(index[tasks[1].index], tasks[1].records)]
            /\ stage' = stage
        BY <1>7, <2>1, <3>2 DEF ProcessTask
      <4>2. tasks[1].index \in {"live", "shadow"}
        BY <2>1, <3>2 DEF Task
      <4>3. index'.shadow \subseteq index.shadow \cup Queued
        BY <2>1, <3>2, <4>1, <4>2 DEF Added, ShadowRecords
      <4> QED BY <1>1, <1>3, <1>4, <1>5, <2>1, <2>3, <4>1, <4>3 DEF GroupsInv
    <3>3. tasks[1].kind \in {"swap", "add"}
      <4>1. \A p \in DOMAIN tasks : p = 1 \/ 1 < p
        BY DEF Types, BTypeOK
      <4> QED BY <2>1, <2>3, <4>1 DEF StageInv
    <3> QED BY <3>1, <3>2, <3>3
  <2> QED BY <2>2, <2>3 DEF Types, BTypeOK
<1> QED BY <1>6, <1>7

LEMMA GroupsNext ==
  ASSUME Types, GroupsInv, StageInv, [Next]_bvars
  PROVE  GroupsInv'
BY GroupsStart, GroupsRun, GroupsAside

-----------------------------------------------------------------------------

LEMMA BackfillInvInit == Init => BackfillInv
<1> SUFFICES ASSUME Init PROVE BackfillInv
  OBVIOUS
<1>1. tasks = <<>> /\ tasks \in Seq(Task) /\ DOMAIN tasks = {}
  BY DEF Init
<1>2. BTypeOK
  <2>1. docs \in [Docs -> [status : {"pending", "indexed", "failed"}, text : Texts \cup {None}]]
    BY DEF Init
  <2>2. index \in [live : SUBSET Record, shadow : SUBSET Record]
    BY DEF Init
  <2>3. ingest \in [Workers -> Job \cup {None}]
    BY DEF Init
  <2> QED BY <1>1, <2>1, <2>2, <2>3 DEF Init, BTypeOK
<1>3. GroupsInv /\ QueuedInv
  BY <1>1 DEF Init, GroupsInv, QueuedInv, Queued, ForShadow
<1>4. ReadInv /\ StageInv
  BY <1>1 DEF Init, ReadInv, StageInv, Reading
<1>5. ProgressInv /\ LiveInv
  BY DEF Init, ProgressInv, FirstProgress, PageProgress, RunProgress, LiveInv, Reading
<1> QED BY <1>2, <1>3, <1>4, <1>5 DEF BackfillInv

LEMMA BackfillInvNext == BackfillInv /\ [Next]_bvars => BackfillInv'
<1> SUFFICES ASSUME BackfillInv, [Next]_bvars PROVE BackfillInv'
  OBVIOUS
<1>1. Safe /\ Types /\ ProgressInv /\ LiveInv /\ GroupsInv /\ QueuedInv /\ StageInv
  BY DEF BackfillInv, Safe, Types
<1>2. Types' /\ GroupsInv' /\ QueuedInv' /\ StageInv'
  BY <1>1, TypesNext, GroupsNext, QueuedNext, StageNext
<1>3. ProgressInv' /\ LiveInv'
  BY <1>1, <1>2, ProgressNext, LiveNext
<1> QED BY <1>2, <1>3 DEF BackfillInv, Types

\* The index that goes live has every chunk of every document that the run had to
\* bring there, and of these documents no other and no record with other groups
\* than their source's, whatever is indexed, fails or is granted meanwhile, with
\* the exceptions that CompleteAfterSwap names: documents whose groups have changed
\* since the run began, and those earlier runs had left such a record of
\* (run of BackfillService, swap_indexes, drop_shadow_index).
THEOREM CompleteAfterSwapHolds == Spec => []CompleteAfterSwap
<1>1. BackfillInv => CompleteAfterSwap
  <2> SUFFICES ASSUME BackfillInv, stage \in {"swapped", "dropped"}, ~shifted, NEW d \in ToBring
               PROVE  AllChunksLive(d) /\ (d \in regranted \cup leftover \/ NothingElseLive(d))
    BY DEF CompleteAfterSwap
  <2>1. d \in Docs /\ Due(d)
    BY DEF ToBring, Due
  <2>2. AllChunksLive(d)
    BY <2>1 DEF BackfillInv, LiveInv, Holds, AllChunksLive
  <2>3. d \in regranted \cup leftover \/ NothingElseLive(d)
    BY <2>1 DEF BackfillInv, GroupsInv, Fitting, Excused, NothingElseLive, Due
  <2> QED BY <2>2, <2>3
<1> QED BY <1>1, BackfillInvInit, BackfillInvNext, PTL DEF Spec
=============================================================================
