--------------------------- MODULE RetrievalProofs ---------------------------
(***************************************************************************)
(* Search results and versions, and the chunks of a text, for all values   *)
(* of the constants.  A search reads the indexes, the rows and the current *)
(* versions in statements of their own; its results stay right because a   *)
(* row, once there, keeps its family and number and is never made latest   *)
(* again.  The prompt of an answer is bounded because every chunk is.      *)
(***************************************************************************)
EXTENDS Retrieval, Chunking, FiniteSetTheorems, WellFoundedInduction, TLAPS

(* The tables.                                                             *)

RowsType ==
  rows \in [Docs -> Row \cup {None}] /\ current \in [Families -> Docs \cup {None}]

\* The current version of a family has its highest number, and is the only one
\* that can be marked as latest.
CurrentIsHighest ==
  \A d \in Docs : rows[d] # None =>
    LET c == current[rows[d].family] IN
    /\ c \in Docs /\ rows[c] # None /\ rows[c].family = rows[d].family
    /\ rows[d].number <= rows[c].number
    /\ ~ rows[d].latest => rows[d].number < rows[c].number

\* What registrations leave of a row.
RowKept(d) ==
  rows[d] # None => /\ rows'[d] # None /\ rows'[d].family = rows[d].family
                    /\ rows'[d].number = rows[d].number
                    /\ ~ rows[d].latest => ~ rows'[d].latest

(* The request.                                                            *)

RequestKinds ==
  /\ pc # "none" => kind \in {"search", "qa", "related"}
  /\ pc = "qa" => kind = "qa"
  /\ pc = "related" => kind = "related"

HitsInDocs == \A h \in DOMAIN matches \cup DOMAIN vectors : h[1] \in Docs

RankedInv ==
  kind = "search" /\ pc \in {"filter", "page"} =>
    /\ DOMAIN ranked \subseteq Docs
    /\ pc = "page" /\ ~ older => DOMAIN ranked \cap superseded = {}

SeenInv ==
  kind = "search" /\ pc \in {"current", "done"} =>
    /\ DOMAIN seen \subseteq Docs
    /\ ~ older => DOMAIN seen \cap superseded = {}
    /\ \A d \in DOMAIN seen : seen[d] # None =>
         /\ rows[d] # None /\ rows[d].family = seen[d].family /\ rows[d].number = seen[d].number
         /\ ~ seen[d].latest => ~ rows[d].latest
         /\ ~ seen[d].latest /\ pc = "done" => named[seen[d].family] \in Docs

SearchInv ==
  /\ RowsType /\ CurrentIsHighest
  /\ superseded \subseteq NotLatest
  /\ RequestKinds /\ HitsInDocs /\ RankedInv /\ SeenInv /\ OlderNamesNewer

-----------------------------------------------------------------------------
\* The number of a new version is above those of its family.
LEMMA NewNumber ==
  ASSUME RowsType, CurrentIsHighest, NEW f \in Families
  PROVE  LET n == Max(Versions(f) \cup {0}) + 1 IN
         n \in Nat /\ \A d \in Docs : rows[d] # None /\ rows[d].family = f => rows[d].number < n
<1> DEFINE S == Versions(f) \cup {0}
<1>1. S \subseteq Nat
  BY DEF Versions, RowsType, Row
<1>2. \E x \in S : \A y \in S : x >= y
  <2>1. CASE Versions(f) = {}
    BY <2>1
  <2>2. CASE Versions(f) # {}
    <3>1. PICK d \in Docs : rows[d] # None /\ rows[d].family = f
      BY <2>2 DEF Versions
    <3>2. /\ current[f] \in Docs /\ rows[current[f]] # None /\ rows[current[f]].family = f
          /\ \A e \in Docs : rows[e] # None /\ rows[e].family = f => rows[e].number <= rows[current[f]].number
      BY <3>1 DEF CurrentIsHighest
    <3>3. rows[current[f]].number \in Versions(f)
      BY <3>2 DEF Versions
    <3>4. \A y \in Versions(f) : y <= rows[current[f]].number
      BY <3>2 DEF Versions
    <3> QED BY <1>1, <3>3, <3>4
  <2> QED BY <2>1, <2>2
<1>3. Max(S) \in S /\ \A y \in S : Max(S) >= y
  BY <1>2 DEF Max
<1>4. \A d \in Docs : rows[d] # None /\ rows[d].family = f => rows[d].number \in Versions(f)
  BY DEF Versions
<1> HIDE DEF S
<1>5. Max(S) \in Nat
  BY <1>1, <1>3
<1>6. \A d \in Docs : rows[d] # None /\ rows[d].family = f => rows[d].number < Max(S) + 1
  <2> SUFFICES ASSUME NEW d \in Docs, rows[d] # None, rows[d].family = f
               PROVE  rows[d].number < Max(S) + 1
    OBVIOUS
  <2>1. rows[d].number \in S
    BY <1>4 DEF S
  <2>2. PICK m \in Nat : m = Max(S) /\ \A y \in S : m >= y
    BY <1>3, <1>5
  <2>3. m >= rows[d].number /\ rows[d].number \in Nat
    BY <1>1, <2>1, <2>2
  <2>4. rows[d].number < m + 1
    BY <2>3
  <2> QED BY <2>2, <2>4
<1> QED BY <1>5, <1>6 DEF S

LEMMA RegisterRows ==
  ASSUME SearchInv, NEW d \in Docs, NEW f \in Families, Register(d, f)
  PROVE  RowsType' /\ CurrentIsHighest' /\ \A e \in Docs : RowKept(e)
<1> PICK n \in Nat : /\ n = Max(Versions(f) \cup {0}) + 1
                     /\ \A e \in Docs : rows[e] # None /\ rows[e].family = f => rows[e].number < n
  BY NewNumber DEF SearchInv
<1>1. /\ rows[d] = None /\ current' = [current EXCEPT ![f] = d]
      /\ rows' = [e \in Docs |->
           IF e = d THEN [family |-> f, number |-> n, latest |-> TRUE]
           ELSE IF rows[e] # None /\ rows[e].family = f THEN [rows[e] EXCEPT !.latest = FALSE]
           ELSE rows[e]]
  BY DEF Register
<1>2. \A r \in Row : /\ [r EXCEPT !.latest = FALSE] \in Row /\ [r EXCEPT !.latest = FALSE].family = r.family
                     /\ [r EXCEPT !.latest = FALSE].number = r.number /\ ~ [r EXCEPT !.latest = FALSE].latest
  BY DEF Row
<1>3. [family |-> f, number |-> n, latest |-> TRUE] \in Row
  BY DEF Row
<1>4. RowsType'
  BY <1>1, <1>2, <1>3 DEF SearchInv, RowsType
<1>5. \A e \in Docs : rows[e] # None =>
        /\ rows'[e] # None /\ rows'[e].family = rows[e].family /\ rows'[e].number = rows[e].number
        /\ rows[e].family = f => ~ rows'[e].latest
        /\ rows[e].family # f => rows'[e] = rows[e]
  BY <1>1, <1>2, NoneAssumption DEF SearchInv, RowsType
<1>6. /\ rows'[d] # None /\ rows'[d].family = f /\ rows'[d].number = n /\ rows'[d].latest
      /\ \A e \in Docs : rows[e] = None /\ e # d => rows'[e] = None
  BY <1>1, <1>3, NoneAssumption
<1>7. /\ current'[f] = d
      /\ \A g \in Families : g # f => current'[g] = current[g]
  BY <1>1 DEF SearchInv, RowsType
<1>8. CurrentIsHighest'
  <2> SUFFICES ASSUME NEW e \in Docs, rows'[e] # None
               PROVE  LET c == current'[rows'[e].family] IN
                      /\ c \in Docs /\ rows'[c] # None /\ rows'[c].family = rows'[e].family
                      /\ rows'[e].number <= rows'[c].number
                      /\ ~ rows'[e].latest => rows'[e].number < rows'[c].number
    BY DEF CurrentIsHighest
  <2>1. CASE e = d
    BY <1>6, <1>7, <2>1
  <2>2. CASE e # d /\ rows[e].family = f
    <3>1. rows[e] # None /\ rows'[e].family = f /\ rows'[e].number = rows[e].number
      BY <1>5, <1>6, <2>2
    <3>2. rows[e].number \in Nat /\ rows[e].number < n
      BY <2>2, <3>1 DEF SearchInv, RowsType, Row
    <3> QED BY <1>6, <1>7, <3>1, <3>2
  <2>3. CASE e # d /\ rows[e].family # f
    <3>1. rows[e] # None /\ rows'[e] = rows[e] /\ rows[e].family \in Families
      BY <1>5, <1>6, <2>3 DEF SearchInv, RowsType, Row
    <3>2. PICK c \in Docs : c = current[rows[e].family]
      BY <3>1 DEF SearchInv, CurrentIsHighest
    <3>3. rows[c] # None /\ rows[c].family = rows[e].family /\ rows'[c] = rows[c] /\ c = current'[rows'[e].family]
      BY <1>5, <1>7, <2>3, <3>1, <3>2 DEF SearchInv, CurrentIsHighest
    <3> QED BY <3>1, <3>2, <3>3 DEF SearchInv, CurrentIsHighest
  <2> QED BY <2>1, <2>2, <2>3
<1>9. \A e \in Docs : RowKept(e)
  <2>1. \A e \in Docs : rows[e] # None /\ ~ rows[e].latest => ~ rows'[e].latest
    BY <1>1, <1>2, NoneAssumption DEF SearchInv, RowsType
  <2> QED BY <1>5, <2>1 DEF RowKept
<1> QED BY <1>4, <1>8, <1>9

\* Of the tables and the request, any other step leaves the former alone.
LEMMA TablesStep ==
  ASSUME SearchInv, [RNext]_rvars
  PROVE  /\ RowsType' /\ CurrentIsHighest' /\ \A d \in Docs : RowKept(d)
         /\ UNCHANGED current \/ UNCHANGED <<request, answers, reads, pc, superseded>>
<1>1. CASE \E d \in Docs, f \in Families : Register(d, f)
  BY <1>1, RegisterRows DEF Register, idle
<1>2. CASE UNCHANGED <<rows, current>>
  BY <1>2 DEF SearchInv, RowsType, CurrentIsHighest, RowKept
<1> QED BY <1>1, <1>2
        DEF RNext, Request, SearchText, SearchVectors, Merge, FilterVersions, ReadPage, ReadCurrent,
            AssembleContext, Relate, UseMeili, Begin, IndexText, IndexPoints, constant, database, rvars

\* What stays right of a request while others register and index.
LEMMA RequestWaits ==
  ASSUME SearchInv, RowsType', \A d \in Docs : RowKept(d),
         UNCHANGED <<request, answers, reads, pc, superseded>>
  PROVE  /\ superseded' \subseteq NotLatest'
         /\ RequestKinds' /\ HitsInDocs' /\ RankedInv' /\ SeenInv' /\ OlderNamesNewer'
<1> USE DEF request, answers, reads
<1>1. superseded' \subseteq NotLatest'
  BY DEF SearchInv, NotLatest, RowKept
<1>2. RequestKinds' /\ HitsInDocs' /\ RankedInv'
  BY DEF SearchInv, RequestKinds, HitsInDocs, RankedInv
<1>3. SeenInv'
  BY DEF SearchInv, SeenInv, RowKept
<1>4. OlderNamesNewer'
  BY DEF SearchInv, OlderNamesNewer, SeenInv, RowKept
<1> QED BY <1>1, <1>2, <1>3, <1>4

\* An answer of an index has hits of that index.
LEMMA AnswerHits ==
  ASSUME NEW hits, NEW limit, NEW a \in Answer(hits, limit)
  PROVE  DOMAIN a \subseteq hits
BY DEF Answer

\* A step of the request: the tables are read, never written.
LEMMA RequestStep ==
  ASSUME SearchInv, UNCHANGED database,
         Request \/ UseMeili \/ \E k \in {"search", "qa", "related"}, d \in Docs \cup {None} : Begin(k, d)
  PROVE  /\ superseded' \subseteq NotLatest'
         /\ RequestKinds' /\ HitsInDocs' /\ RankedInv' /\ SeenInv' /\ OlderNamesNewer'
<1> USE DEF database, answers, reads, request, settings
<1>1. ASSUME NEW k \in {"search", "qa", "related"}, NEW d, Begin(k, d)
      PROVE  /\ superseded' \subseteq NotLatest'
             /\ RequestKinds' /\ HitsInDocs' /\ RankedInv' /\ SeenInv' /\ OlderNamesNewer'
  BY <1>1
     DEF Begin, SearchInv, NotLatest, RequestKinds, HitsInDocs, RankedInv, SeenInv, OlderNamesNewer
<1>2. CASE UseMeili
  BY <1>2
     DEF UseMeili, SearchInv, NotLatest, RequestKinds, HitsInDocs, RankedInv, SeenInv, OlderNamesNewer
<1>3. CASE Request
  <2>1. superseded' \subseteq NotLatest' /\ UNCHANGED <<request, database, superseded>>
    BY <1>3
       DEF Request, SearchText, SearchVectors, Merge, FilterVersions, ReadPage, ReadCurrent, AssembleContext,
           Relate, constant, SearchInv, NotLatest
  <2>2. CASE SearchText \/ SearchVectors
    <3>1. HitsInDocs'
      <4>1. \A h \in TextHits \cup PointHits : h[1] \in Docs
        BY DEF TextHits, PointHits
      <4>2. CASE SearchText
        <5>1. UNCHANGED vectors /\ DOMAIN matches' \subseteq TextHits
          BY <4>2, AnswerHits DEF SearchText, NoScores
        <5> QED BY <4>1, <5>1 DEF SearchInv, HitsInDocs
      <4>3. CASE SearchVectors
        <5>1. UNCHANGED matches /\ DOMAIN vectors' \subseteq PointHits
          BY <4>3, AnswerHits DEF SearchVectors, NoScores
        <5> QED BY <4>1, <5>1 DEF SearchInv, HitsInDocs
      <4> QED BY <2>2, <4>2, <4>3
    <3>2. /\ pc \in {"text", "vectors"} /\ pc' \in {"vectors", "failed", kind, "search", "done"}
          /\ kind = "search" => pc' \in {"vectors", "failed", "search"}
      BY <2>2 DEF SearchText, SearchVectors
    <3> QED BY <2>1, <3>1, <3>2
            DEF SearchInv, RequestKinds, RankedInv, SeenInv, OlderNamesNewer
  <2>3. CASE Merge
    <3>1. ranked' = Merged /\ matches' = NoScores /\ vectors' = NoScores /\ pc' = IF older THEN "page" ELSE "filter"
      BY <2>3 DEF Merge
    <3>2. DOMAIN ranked' \subseteq Docs /\ HitsInDocs'
      BY <3>1 DEF Merged, Hit, SearchInv, HitsInDocs, NoScores
    <3> QED BY <2>1, <2>3, <3>1, <3>2
            DEF Merge, SearchInv, RequestKinds, RankedInv, SeenInv, OlderNamesNewer
  <2>4. CASE FilterVersions
    <3>1. /\ pc = "filter" /\ pc' = "page" /\ UNCHANGED <<matches, vectors>>
          /\ DOMAIN ranked' = DOMAIN ranked \ NotLatest
      BY <2>4 DEF FilterVersions
    <3> QED BY <2>1, <3>1
            DEF SearchInv, RequestKinds, HitsInDocs, RankedInv, SeenInv, OlderNamesNewer
  <2>5. CASE ReadPage
    <3>1. /\ pc = "page" /\ pc' = "current" /\ UNCHANGED <<matches, vectors, ranked, rows>>
          /\ seen' = [d \in Page |-> rows[d]] /\ Page \subseteq DOMAIN ranked
      BY <2>5 DEF ReadPage, Page
    <3>2. HitsInDocs' /\ RequestKinds' /\ RankedInv' /\ OlderNamesNewer'
      BY <2>1, <3>1 DEF SearchInv, HitsInDocs, RequestKinds, RankedInv, OlderNamesNewer
    <3>3. SeenInv'
      BY <2>1, <3>1 DEF SearchInv, SeenInv, RankedInv
    <3> QED BY <2>1, <3>2, <3>3
  <2>6. CASE ReadCurrent
    <3>1. /\ pc = "current" /\ pc' = "done" /\ UNCHANGED <<matches, vectors, ranked, seen, rows>>
          /\ \A d \in DOMAIN seen : seen[d] # None /\ ~ seen[d].latest =>
               named'[seen[d].family] = current[seen[d].family]
      BY <2>6 DEF ReadCurrent
    <3>2. HitsInDocs' /\ RequestKinds' /\ RankedInv'
      BY <2>1, <3>1 DEF SearchInv, HitsInDocs, RequestKinds, RankedInv
    <3>3. ASSUME kind = "search", NEW d \in DOMAIN seen, seen[d] # None, ~ seen[d].latest
          PROVE  LET e == named'[seen[d].family] IN
                 e \in Docs /\ rows[e] # None /\ rows[e].family = seen[d].family /\ rows[e].number > seen[d].number
      <4>1. d \in Docs /\ rows[d] # None /\ ~ rows[d].latest
            /\ rows[d].family = seen[d].family /\ rows[d].number = seen[d].number
        BY <3>1, <3>3 DEF SearchInv, SeenInv
      <4>2. PICK e : e = current[rows[d].family]
        OBVIOUS
      <4>3. e \in Docs /\ rows[e] # None /\ rows[e].family = rows[d].family /\ rows[d].number < rows[e].number
        BY <4>1, <4>2 DEF SearchInv, CurrentIsHighest
      <4>4. rows[e].number \in Nat /\ rows[d].number \in Nat
        BY <4>1, <4>3 DEF SearchInv, RowsType, Row
      <4> QED BY <3>1, <3>3, <4>1, <4>2, <4>3, <4>4
    <3>4. SeenInv'
      BY <2>1, <3>1, <3>3 DEF SearchInv, SeenInv
    <3>5. OlderNamesNewer'
      BY <2>1, <3>1, <3>3, NoneAssumption DEF OlderNamesNewer
    <3> QED BY <2>1, <3>2, <3>4, <3>5
  <2>7. CASE AssembleContext \/ Relate
    <3>1. /\ kind # "search" /\ pc' = "done" /\ UNCHANGED matches
          /\ vectors' = vectors \/ vectors' = NoScores
      BY <2>7 DEF AssembleContext, Relate, SearchInv, RequestKinds
    <3>2. pc # "none"
      BY <2>7 DEF AssembleContext, Relate
    <3> QED BY <2>1, <3>1, <3>2
            DEF SearchInv, HitsInDocs, NoScores, RequestKinds, RankedInv, SeenInv, OlderNamesNewer
  <2> QED BY <1>3, <2>2, <2>3, <2>4, <2>5, <2>6, <2>7 DEF Request
<1> QED BY <1>1, <1>2, <1>3

LEMMA SearchInvNext == SearchInv /\ [RNext]_rvars => SearchInv'
<1> SUFFICES ASSUME SearchInv, [RNext]_rvars PROVE SearchInv'
  OBVIOUS
<1>1. RowsType' /\ CurrentIsHighest' /\ \A d \in Docs : RowKept(d)
  BY TablesStep
<1>2. CASE UNCHANGED <<request, answers, reads, pc, superseded>>
  BY <1>1, <1>2, RequestWaits DEF SearchInv
<1>3. CASE Request \/ UseMeili \/ \E k \in {"search", "qa", "related"}, d \in Docs \cup {None} : Begin(k, d)
  <2>1. UNCHANGED database
    BY <1>3
       DEF Request, SearchText, SearchVectors, Merge, FilterVersions, ReadPage, ReadCurrent, AssembleContext,
           Relate, UseMeili, Begin, constant
  <2> QED BY <1>1, <1>3, <2>1, RequestStep DEF SearchInv
<1> QED BY <1>2, <1>3 DEF RNext, IndexText, IndexPoints, Register, idle, rvars

LEMMA SearchInvInit == RInit => SearchInv
BY NoneAssumption
   DEF RInit, SearchInv, RowsType, CurrentIsHighest, NotLatest, RequestKinds, HitsInDocs, NoScores, RankedInv,
       SeenInv, OlderNamesNewer

\* Unless older versions are asked for, POST /search shows no version that was
\* superseded when it began, whichever index still has it and whichever fails.
THEOREM SupersededHiddenHolds == RSpec => []SupersededHidden
<1>1. SearchInv => SupersededHidden
  BY DEF SearchInv, SeenInv, SupersededHidden
<1> QED BY <1>1, SearchInvInit, SearchInvNext, PTL DEF RSpec

\* A result POST /search marks as having a newer version names a later version
\* of its family, though rows and current versions are read by two statements.
THEOREM OlderNamesNewerHolds == RSpec => []OlderNamesNewer
<1>1. SearchInv => OlderNamesNewer
  BY DEF SearchInv
<1> QED BY <1>1, SearchInvInit, SearchInvNext, PTL DEF RSpec

-----------------------------------------------------------------------------
(* The chunks.  chunk_text loses no word and fits every chunk, for every   *)
(* chunk size, overlap and text.  The inductive invariant adds to          *)
(* ChunksCoverText where the current chunk begins and what it holds.       *)


Chunk == [from : Nat, to : Nat]

CTypeOK ==
  /\ read \in Nat /\ start \in Nat /\ start <= read
  /\ chunks \in Seq(Chunk) /\ ends \subseteq Nat /\ done \in BOOLEAN

Last == chunks[Len(chunks)]

\* The current chunk begins with the words kept of the last one flushed, and
\* has more words than those.
CurrentFollows ==
  IF chunks = <<>> THEN start = 0
  ELSE ~done => start = Last.to - Kept(Last.from, Last.to) /\ Last.to < read

EndsKnown == read = 0 \/ read \in ends

ChunkInv == CTypeOK /\ ChunksCoverText /\ CurrentFollows /\ EndsKnown

\* What flushing the words start .. t - 1 does to the list of chunks.
LEMMA FlushKeeps ==
  ASSUME ChunkInv, ~done, NEW t \in Nat,
         start < t, t <= start + ChunkSize,
         chunks # <<>> => Last.to < t,
         t \in ends \/ t = start + ChunkSize,
         chunks' = Append(chunks, [from |-> start, to |-> t]),
         ends \subseteq ends'
  PROVE  /\ chunks' \in Seq(Chunk) /\ chunks' # <<>>
         /\ Last' = [from |-> start, to |-> t]
         /\ ChunksFit' /\ ChunksOverlap' /\ ChunksEndSentences'
<1> USE SizeAssumption
<1> DEFINE c == [from |-> start, to |-> t]
<1>1. start \in Nat /\ c \in Chunk /\ chunks \in Seq(Chunk)
  BY DEF ChunkInv, CTypeOK, Chunk
<1>2. /\ chunks' \in Seq(Chunk) /\ Len(chunks') = Len(chunks) + 1
      /\ chunks'[Len(chunks) + 1] = c
      /\ \A i \in 1 .. Len(chunks) : chunks'[i] = chunks[i]
  BY <1>1
<1>3. DOMAIN chunks = 1 .. Len(chunks) /\ DOMAIN chunks' = 1 .. (Len(chunks) + 1) /\ Len(chunks) \in Nat
  BY <1>1, <1>2
<1>4. ChunksFit'
  <2> SUFFICES ASSUME NEW i \in DOMAIN chunks'
               PROVE  chunks'[i].from < chunks'[i].to /\ chunks'[i].to <= chunks'[i].from + ChunkSize
    BY DEF ChunksFit
  <2>1. CASE i = Len(chunks) + 1
    BY <2>1, <1>1, <1>2
  <2>2. CASE i \in 1 .. Len(chunks)
    BY <2>2, <1>2, <1>3 DEF ChunkInv, ChunksCoverText, ChunksFit
  <2> QED BY <2>1, <2>2, <1>3
<1>5. ChunksOverlap'
  <2> SUFFICES ASSUME NEW i \in DOMAIN chunks'
               PROVE  IF i = 1 THEN chunks'[i].from = 0
                      ELSE /\ chunks'[i].from = chunks'[i-1].to - Kept(chunks'[i-1].from, chunks'[i-1].to)
                           /\ chunks'[i-1].from <= chunks'[i].from
                           /\ chunks'[i-1].to - Overlap <= chunks'[i].from
                           /\ chunks'[i-1].to < chunks'[i].to
    BY DEF ChunksOverlap, Kept
  <2>1. CASE i \in 1 .. Len(chunks)
    <3>1. i # 1 => i - 1 \in 1 .. Len(chunks)
      BY <2>1, <1>3
    <3> QED BY <2>1, <3>1, <1>2, <1>3 DEF ChunkInv, ChunksCoverText, ChunksOverlap
  <2>2. CASE i = Len(chunks) + 1 /\ i = 1
    <3>1. chunks = <<>>
      BY <2>2, <1>1, <1>3
    <3> QED BY <2>2, <3>1, <1>2 DEF ChunkInv, CurrentFollows
  <2>3. CASE i = Len(chunks) + 1 /\ i # 1
    <3>1. chunks # <<>> /\ Len(chunks) \in 1 .. Len(chunks)
      BY <2>3, <1>1, <1>3
    <3>2. start = Last.to - Kept(Last.from, Last.to) /\ Last.to < t
      BY <3>1 DEF ChunkInv, CurrentFollows
    <3>3. Last.from \in Nat /\ Last.to \in Nat
      <4>1. chunks[Len(chunks)] \in Chunk
        BY <3>1, <1>1, <1>3
      <4> QED BY <4>1 DEF Last, Chunk
    <3>4. Last.from < Last.to
      BY <3>1, <1>3 DEF ChunkInv, ChunksCoverText, ChunksFit, Last
    \* Python's slice never reaches back over the beginning of the chunk.
    <3>5. /\ Kept(Last.from, Last.to) \in 0 .. Overlap
          /\ Last.to - Kept(Last.from, Last.to) \in Last.from .. Last.to
      BY <3>3, <3>4 DEF Kept
    <3>6. chunks'[i-1] = Last /\ chunks'[i] = c
      BY <2>3, <3>1, <1>2, <1>3 DEF Last
    <3> QED BY <2>3, <3>2, <3>3, <3>5, <3>6
  <2> QED BY <2>1, <2>2, <2>3, <1>3
<1>6. ChunksEndSentences'
  <2> SUFFICES ASSUME NEW i \in DOMAIN chunks'
               PROVE  chunks'[i].to \in ends' \/ chunks'[i].to = chunks'[i].from + ChunkSize
    BY DEF ChunksEndSentences
  <2>1. CASE i = Len(chunks) + 1
    BY <2>1, <1>1, <1>2
  <2>2. CASE i \in 1 .. Len(chunks)
    BY <2>2, <1>2, <1>3 DEF ChunkInv, ChunksCoverText, ChunksEndSentences
  <2> QED BY <2>1, <2>2, <1>3
<1> QED BY <1>2, <1>3, <1>4, <1>5, <1>6 DEF Last

LEMMA ChunkInvInit == ChunkInit => ChunkInv
<1> SUFFICES ASSUME ChunkInit PROVE ChunkInv
  OBVIOUS
<1>1. chunks = <<>> /\ done = FALSE /\ read = 0 /\ start = 0 /\ ends = {}
  BY DEF ChunkInit
<1>2. CTypeOK
  <2>1. chunks \in Seq(Chunk)
    BY <1>1
  <2>2. done \in BOOLEAN
    BY <1>1
  <2>3. read \in Nat /\ start \in Nat /\ start <= read /\ ends \subseteq Nat
    BY <1>1
  <2> QED BY <2>1, <2>2, <2>3 DEF CTypeOK
<1>3. ChunksFit /\ ChunksOverlap /\ ChunksEndSentences
  BY <1>1 DEF ChunksFit, ChunksOverlap, ChunksEndSentences
<1>4. LastWordKept /\ CurrentFollows /\ EndsKnown
  BY <1>1 DEF LastWordKept, CurrentFollows, EndsKnown
<1> QED BY <1>2, <1>3, <1>4 DEF ChunkInv, ChunksCoverText

LEMMA ChunkInvNext == ChunkInv /\ [ChunkNext]_cvars => ChunkInv'
<1> SUFFICES ASSUME ChunkInv, [ChunkNext]_cvars PROVE ChunkInv'
  OBVIOUS
<1> USE SizeAssumption, LengthAssumption
<1>0. /\ read \in Nat /\ start \in Nat /\ start <= read /\ chunks \in Seq(Chunk)
      /\ ends \subseteq Nat /\ done \in BOOLEAN
      /\ Len(chunks) \in Nat
  BY DEF ChunkInv, CTypeOK
<1>1. ASSUME HardCut PROVE ChunkInv'
  <2>1. ~done /\ start + ChunkSize < read /\ start + ChunkSize \in Nat
    BY <1>1, <1>0 DEF HardCut, Full
  <2>2. /\ chunks' = Append(chunks, [from |-> start, to |-> start + ChunkSize])
        /\ start' = (start + ChunkSize) - Kept(start, start + ChunkSize)
    BY <1>1 DEF HardCut, Flush
  <2>2a. read' = read /\ ends' = ends /\ done' = done
    BY <1>1 DEF HardCut
  <2>3. start' = (start + ChunkSize) - Overlap
    BY <2>2, <1>0 DEF Kept
  <2>4. chunks # <<>> => Last.to < start + ChunkSize
    <3> SUFFICES ASSUME chunks # <<>> PROVE Last.to < start + ChunkSize
      OBVIOUS
    <3>1. start = Last.to - Kept(Last.from, Last.to)
      BY <2>1 DEF ChunkInv, CurrentFollows
    <3>2. chunks[Len(chunks)] \in Chunk
      BY <1>0
    <3>3. Last.from \in Nat /\ Last.to \in Nat
      BY <3>2 DEF Last, Chunk
    <3> QED BY <3>1, <3>3, <1>0 DEF Kept
  <2>5. /\ chunks' \in Seq(Chunk) /\ chunks' # <<>>
        /\ Last' = [from |-> start, to |-> start + ChunkSize]
        /\ ChunksFit' /\ ChunksOverlap' /\ ChunksEndSentences'
    BY <2>1, <2>2, <2>2a, <2>4, <1>0, FlushKeeps
  <2>6. CTypeOK'
    BY <2>1, <2>2, <2>2a, <2>3, <2>5, <1>0 DEF CTypeOK
  <2>7. CurrentFollows' /\ EndsKnown' /\ LastWordKept'
    BY <2>1, <2>2, <2>2a, <2>5, <1>0 DEF CurrentFollows, Kept, ChunkInv, EndsKnown, LastWordKept
  <2> QED BY <2>5, <2>6, <2>7 DEF ChunkInv, ChunksCoverText
<1>2. ASSUME Finish PROVE ChunkInv'
  <2>1. ~done /\ read <= start + ChunkSize /\ done' = TRUE
        /\ read' = read /\ start' = start /\ ends' = ends
    BY <1>2, <1>0 DEF Finish, Full
  <2>2. CASE start < read
    <3>1. chunks' = Append(chunks, [from |-> start, to |-> read])
      BY <2>2, <1>2 DEF Finish
    <3>2. read \in ends
      BY <2>2, <1>0 DEF ChunkInv, EndsKnown
    <3>3. chunks # <<>> => Last.to < read
      BY <2>1 DEF ChunkInv, CurrentFollows
    <3>4. /\ chunks' \in Seq(Chunk) /\ chunks' # <<>>
          /\ Last' = [from |-> start, to |-> read]
          /\ ChunksFit' /\ ChunksOverlap' /\ ChunksEndSentences'
      BY <2>1, <2>2, <3>1, <3>2, <3>3, <1>0, FlushKeeps
    <3>5. CTypeOK' /\ CurrentFollows' /\ EndsKnown' /\ LastWordKept'
      BY <2>1, <2>2, <3>2, <3>4, <1>0 DEF CTypeOK, CurrentFollows, EndsKnown, LastWordKept, Last
    <3> QED BY <3>4, <3>5 DEF ChunkInv, ChunksCoverText
  <2>3. CASE start = read
    <3>1. chunks' = chunks
      BY <2>3, <1>2, <1>0 DEF Finish
    \* A current chunk without words is that of the empty text.
    <3>2. chunks = <<>>
      <4> SUFFICES ASSUME chunks # <<>> PROVE FALSE
        OBVIOUS
      <4>1. start = Last.to - Kept(Last.from, Last.to) /\ Last.to < read
        BY <2>1 DEF ChunkInv, CurrentFollows
      <4>2. chunks[Len(chunks)] \in Chunk
        BY <1>0
      <4>3. Last.from \in Nat /\ Last.to \in Nat
        BY <4>2 DEF Last, Chunk
      <4>4. chunks[Len(chunks)].from < chunks[Len(chunks)].to
        BY <1>0 DEF ChunkInv, ChunksCoverText, ChunksFit
      <4> QED BY <4>1, <4>3, <4>4, <2>3, <1>0 DEF Kept, Last
    <3>3. start = 0
      BY <3>2 DEF ChunkInv, CurrentFollows
    <3>4. CTypeOK' /\ CurrentFollows' /\ EndsKnown' /\ LastWordKept'
      BY <2>1, <2>3, <3>1, <3>2, <3>3, <1>0 DEF CTypeOK, CurrentFollows, EndsKnown, LastWordKept
    <3>5. ChunksFit' /\ ChunksOverlap' /\ ChunksEndSentences'
      BY <3>1, <3>2 DEF ChunksFit, ChunksOverlap, ChunksEndSentences
    <3> QED BY <3>4, <3>5 DEF ChunkInv, ChunksCoverText
  <2> QED BY <2>2, <2>3, <1>0
<1>3. ASSUME NEW n \in 1 .. MaxSentence, AddSentence(n) PROVE ChunkInv'
  <2>1. /\ ~done /\ read <= start + ChunkSize /\ done' = done
        /\ n \in Nat /\ n > 0 /\ read' = read + n /\ ends' = ends \cup {read + n}
    BY <1>3, <1>0 DEF AddSentence, Full
  <2>2. LastWordKept' /\ EndsKnown'
    BY <2>1 DEF LastWordKept, EndsKnown
  <2>3. CASE start < read /\ Full(start, read + n)
    <3>1. /\ chunks' = Append(chunks, [from |-> start, to |-> read])
          /\ start' = read - Kept(start, read)
      BY <2>3, <1>3 DEF AddSentence, Flush
    <3>2. read \in ends
      BY <2>3, <1>0 DEF ChunkInv, EndsKnown
    <3>3. chunks # <<>> => Last.to < read
      BY <2>1 DEF ChunkInv, CurrentFollows
    <3>4. /\ chunks' \in Seq(Chunk) /\ chunks' # <<>>
          /\ Last' = [from |-> start, to |-> read]
          /\ ChunksFit' /\ ChunksOverlap' /\ ChunksEndSentences'
      BY <2>1, <2>3, <3>1, <3>2, <3>3, <1>0, FlushKeeps
    <3>5. start' \in Nat /\ start' <= read
      BY <2>3, <3>1, <1>0 DEF Kept
    <3>6. CTypeOK'
      BY <2>1, <3>4, <3>5, <1>0 DEF CTypeOK
    <3>7. CurrentFollows'
      BY <2>1, <3>1, <3>4, <1>0 DEF CurrentFollows, Kept
    <3> QED BY <2>2, <3>4, <3>6, <3>7 DEF ChunkInv, ChunksCoverText
  <2>4. CASE ~(start < read /\ Full(start, read + n))
    <3>1. start' = start /\ chunks' = chunks
      BY <2>4, <1>3 DEF AddSentence
    <3>2. CTypeOK'
      BY <2>1, <3>1, <1>0 DEF CTypeOK
    <3>3. ChunksFit' /\ ChunksOverlap' /\ ChunksEndSentences'
      BY <2>1, <3>1 DEF ChunkInv, ChunksCoverText, ChunksFit, ChunksOverlap, ChunksEndSentences, Kept
    <3>4. CurrentFollows'
      <4>1. CASE chunks = <<>>
        BY <4>1, <3>1 DEF ChunkInv, CurrentFollows
      <4>2. CASE chunks # <<>>
        <5>1. start = Last.to - Kept(Last.from, Last.to) /\ Last.to < read
          BY <4>2, <2>1 DEF ChunkInv, CurrentFollows
        <5>2. chunks[Len(chunks)] \in Chunk
          BY <4>2, <1>0
        <5>3. Last.to \in Nat /\ Last' = Last
          BY <5>2, <3>1 DEF Last, Chunk
        <5> QED BY <5>1, <5>3, <4>2, <3>1, <2>1, <1>0 DEF CurrentFollows, Kept
      <4> QED BY <4>1, <4>2
    <3> QED BY <2>2, <3>2, <3>3, <3>4 DEF ChunkInv, ChunksCoverText
  <2> QED BY <2>3, <2>4
<1>4. ASSUME UNCHANGED cvars PROVE ChunkInv'
  BY <1>4 DEF cvars, ChunkInv, CTypeOK, ChunksCoverText, ChunksFit, ChunksOverlap,
         ChunksEndSentences, LastWordKept, CurrentFollows, EndsKnown, Last, Kept
<1> QED BY <1>1, <1>2, <1>3, <1>4 DEF ChunkNext

\* chunk_text: at every step, and so for the list returned, the chunks fit, are
\* cut at sentences unless full, overlap as asked and leave out no word.
THEOREM ChunksCoverTextHolds == ChunkSpec => []ChunksCoverText
<1>1. ChunkInv => ChunksCoverText
  BY DEF ChunkInv
<1> QED BY <1>1, ChunkInvInit, ChunkInvNext, PTL DEF ChunkSpec

-----------------------------------------------------------------------------
(* The prompt.  Its words are a sum over the passages, defined by          *)
(* recursion over sets: two sums with the same summands are two choices of *)
(* the same function, and a sum of one is computed.                        *)

LEMMA FiniteImage ==
  ASSUME NEW S, IsFiniteSet(S), NEW f, DOMAIN f = S
  PROVE  IsFiniteSet({f[x] : x \in S})
<1> DEFINE T == {f[x] : x \in S}
           h == [x \in S |-> f[x]]
<1>1. h \in Surjection(S, T)
  BY DEF Surjection
<1> QED BY <1>1, FS_Surjection

LEMMA SameSum ==
  ASSUME NEW c, NEW s, NEW n, \A i \in 1..n : c[i].words = PassageWords(s[i])
  PROVE  MapThenSumSet(LAMBDA i : c[i].words, 1..n) = ContextWords(s, n)
<1> DEFINE x(S) == CHOOSE y \in S : TRUE
           F(f) == [S \in SUBSET (1..n) |-> IF S = {} THEN 0 ELSE c[x(S)].words + f[S \ {x(S)}]]
           G(f) == [S \in SUBSET (1..n) |-> IF S = {} THEN 0 ELSE PassageWords(s[x(S)]) + f[S \ {x(S)}]]
<1>1. \A f : F(f) = G(f)
  <2>1. \A S \in SUBSET (1..n) : S # {} => c[x(S)].words = PassageWords(s[x(S)])
    OBVIOUS
  <2> QED BY <2>1
<1>2. (CHOOSE f : f = F(f)) = (CHOOSE f : f = G(f))
  <2> HIDE DEF F, G
  <2> QED BY <1>1, Zenon
<1>3. MapThenSumSet(LAMBDA i : c[i].words, 1..n) = (CHOOSE f : f = F(f))[1..n]
  BY DEF MapThenSumSet, MapThenFoldSet
<1>4. ContextWords(s, n) = (CHOOSE f : f = G(f))[1..n]
  BY DEF ContextWords, MapThenSumSet, MapThenFoldSet
<1> HIDE DEF F, G
<1> QED BY <1>2, <1>3, <1>4

LEMMA SumOfOne ==
  ASSUME NEW s, PassageWords(s[1]) \in Nat
  PROVE  ContextWords(s, 1) = PassageWords(s[1])
<1> DEFINE w == PassageWords(s[1])
           x(S) == CHOOSE y \in S : TRUE
           G(f) == [S \in SUBSET (1..1) |-> IF S = {} THEN 0 ELSE PassageWords(s[x(S)]) + f[S \ {x(S)}]]
           g == [S \in SUBSET (1..1) |-> IF S = {} THEN 0 ELSE w]
<1>1. 1..1 = {1} /\ \A S \in SUBSET {1} : S = {} \/ S = {1}
  <2>1. 1..1 = {1}
    OBVIOUS
  <2>2. ASSUME NEW S \in SUBSET {1} PROVE S = {} \/ S = {1}
    <3>1. CASE 1 \in S
      BY <3>1
    <3>2. CASE 1 \notin S
      BY <3>2
    <3> QED BY <3>1, <3>2
  <2> QED BY <2>1, <2>2
<1>2. x({1}) = 1 /\ {1} \ {x({1})} = {} /\ w + 0 = w
  OBVIOUS
<1>3. g = G(g)
  <2>1. g[{}] = 0 /\ {} \in SUBSET (1..1)
    OBVIOUS
  <2>2. \A S \in SUBSET (1..1) : g[S] = G(g)[S]
    <3> SUFFICES ASSUME NEW S \in SUBSET (1..1), S # {} PROVE g[S] = G(g)[S]
      OBVIOUS
    <3>1. S = {1}
      BY <1>1
    <3>2. G(g)[S] = PassageWords(s[x({1})]) + g[{1} \ {x({1})}]
      BY <3>1
    <3> QED BY <1>2, <2>1, <3>1, <3>2
  <2> QED BY <2>2
<1>4. ContextWords(s, 1) = (CHOOSE f : f = G(f))[1..1]
  BY DEF ContextWords, MapThenSumSet, MapThenFoldSet
<1>5. \A f : f = G(f) => f[1..1] = w
  <2> SUFFICES ASSUME NEW f, f = G(f) PROVE f[1..1] = w
    OBVIOUS
  <2>1. f[{}] = 0
    OBVIOUS
  <2>2. f[{1}] = PassageWords(s[x({1})]) + f[{1} \ {x({1})}]
    BY <1>1
  <2> QED BY <1>1, <1>2, <2>1, <2>2
<1>6. (CHOOSE f : f = G(f)) = G(CHOOSE f : f = G(f))
  <2> HIDE DEF G, g
  <2> QED BY <1>3, Zenon
<1> HIDE DEF G
<1> QED BY <1>4, <1>5, <1>6

LEMMA LeastPassages ==
  ASSUME NEW S, S \subseteq Nat, S # {}
  PROVE  \E n \in S : \A m \in S : n <= m
<1> DEFINE R == OpToRel(<, Nat)
<1>1. IsWellFoundedOn(R, Nat)
  BY NatLessThanWellFounded
<1>2. PICK n \in S : \A m \in S : ~ (<<m, n>> \in R)
  <2> HIDE DEF R
  <2> QED BY <1>1, WFMin
<1>3. \A m \in S : ~ (m < n)
  BY <1>2 DEF OpToRel
<1> QED BY <1>3

LEMMA MostPassages ==
  ASSUME NEW e \in Nat, NEW S, S \subseteq 1..e, S # {}
  PROVE  Max(S) \in S
<1> DEFINE left == {e - n : n \in S}
<1>1. left \subseteq Nat /\ left # {}
  <2>1. \A n \in S : e - n \in Nat
    OBVIOUS
  <2>2. PICK n \in S : TRUE
    OBVIOUS
  <2> QED BY <2>1, <2>2
<1>2. PICK k \in left : \A l \in left : k <= l
  BY <1>1, LeastPassages
<1>3. PICK n \in S : k = e - n
  OBVIOUS
<1>4. \A m \in S : e - n <= e - m
  BY <1>2, <1>3
<1>5. \A m \in S : n >= m
  BY <1>4
<1> QED BY <1>5 DEF Max

-----------------------------------------------------------------------------
(* What Qdrant holds and answers: finitely many chunks, none larger than a *)
(* chunk may be.                                                           *)

PointsInv ==
  /\ DOMAIN points = Docs
  /\ \A d \in Docs : \E n \in Nat : points[d] \in [1..n -> {1, PassageSize}]

VectorsInv ==
  /\ vectors = [h \in DOMAIN vectors |-> vectors[h]] /\ IsFiniteSet(DOMAIN vectors)
  /\ \A h \in DOMAIN vectors : h[3] \in Nat /\ h[3] <= PassageSize

\* Chunks are cited by the step that ends the request, and only for a question.
WordsInv == PointsInv /\ VectorsInv /\ (pc # "done" => cited = <<>>) /\ ContextFits

LEMMA PointHitsFinite ==
  ASSUME PointsInv
  PROVE  IsFiniteSet(PointHits) /\ \A h \in PointHits : h[3] \in Nat /\ h[3] <= PassageSize
<1> DEFINE of(d) == {<<d, i, points[d][i]>> : i \in DOMAIN points[d]}
           hitsOf == [d \in Docs |-> of(d)]
<1>1. ASSUME NEW d \in Docs PROVE IsFiniteSet(of(d)) /\ \A h \in of(d) : h[3] \in Nat /\ h[3] <= PassageSize
  <2>1. PICK n \in Nat : points[d] \in [1..n -> {1, PassageSize}]
    BY DEF PointsInv
  <2>2. DOMAIN points[d] = 1..n /\ IsFiniteSet(1..n)
    BY <2>1, FS_Interval
  <2> DEFINE f == [i \in 1..n |-> <<d, i, points[d][i]>>]
  <2>3. IsFiniteSet({f[i] : i \in 1..n})
    <3>1. DOMAIN f = 1..n
      OBVIOUS
    <3> HIDE DEF f
    <3> QED BY <2>2, <3>1, FiniteImage
  <2>4. of(d) = {f[i] : i \in 1..n}
    BY <2>2
  <2>5. \A i \in 1..n : points[d][i] \in Nat /\ points[d][i] <= PassageSize
    BY <2>1, RetrievalAssumption
  <2>6. \A h \in of(d) : h[3] \in Nat /\ h[3] <= PassageSize
    BY <2>2, <2>5
  <2> HIDE DEF of, f
  <2> QED BY <2>3, <2>4, <2>6
<1>2. PointHits = UNION {hitsOf[d] : d \in Docs}
  BY DEF PointHits
<1>3. IsFiniteSet({hitsOf[d] : d \in Docs})
  <2>1. DOMAIN hitsOf = Docs
    OBVIOUS
  <2> HIDE DEF hitsOf
  <2> QED BY <2>1, FiniteImage, RetrievalAssumption
<1>4. \A T \in {hitsOf[d] : d \in Docs} : IsFiniteSet(T) /\ \A h \in T : h[3] \in Nat /\ h[3] <= PassageSize
  <2> HIDE DEF of
  <2> QED BY <1>1
<1> HIDE DEF hitsOf
<1> QED BY <1>2, <1>3, <1>4, FS_UNION

LEMMA AnswerVectors ==
  ASSUME PointsInv, NEW limit, NEW a \in Answer(PointHits, limit)
  PROVE  /\ a = [h \in DOMAIN a |-> a[h]] /\ IsFiniteSet(DOMAIN a)
         /\ \A h \in DOMAIN a : h[3] \in Nat /\ h[3] <= PassageSize
<1>1. DOMAIN a \subseteq PointHits /\ a = [h \in DOMAIN a |-> a[h]]
  BY DEF Answer
<1> QED BY <1>1, PointHitsFinite, FS_Subset

LEMMA NoVectors ==
  /\ NoScores = [h \in DOMAIN NoScores |-> NoScores[h]] /\ DOMAIN NoScores = {}
  /\ IsFiniteSet(DOMAIN NoScores)
BY FS_EmptySet DEF NoScores

-----------------------------------------------------------------------------
\* What ContextFits says of the chunks cited and the number in the prompt.
Fits(c, n) == n \in 1..Len(c) /\ MapThenSumSet(LAMBDA i : c[i].words, 1..n) <= MaxContext

ContextFitsNow == kind = "qa" /\ pc = "done" /\ cited # <<>> => Fits(cited, passages)

LEMMA FitsSaysSo == (ContextFits <=> ContextFitsNow) /\ (ContextFits' <=> ContextFitsNow')
<1>1. ContextFits <=> ContextFitsNow
  BY DEF ContextFits, ContextFitsNow, Fits
<1> QED BY <1>1, PTL

\* The prompt: a passage alone fits, more are taken only while they do.
LEMMA PromptFits ==
  ASSUME VectorsInv, vectors # NoScores, NEW s \in ByScore(vectors)
  PROVE  LET c == [i \in DOMAIN s |-> [doc |-> s[i][1], words |-> PassageWords(s[i])]]
             n == Max(InPrompt(s))
         IN Fits(c, n)
<1> DEFINE c == [i \in DOMAIN s |-> [doc |-> s[i][1], words |-> PassageWords(s[i])]]
           e == Cardinality(DOMAIN vectors)
           n == Max(InPrompt(s))
<1>1. e \in Nat /\ e >= 1
  <2>1. DOMAIN vectors # {}
    BY DEF VectorsInv, NoScores
  <2>2. e \in Nat /\ e # 0
    BY <2>1, FS_CardinalityType, FS_EmptySet DEF VectorsInv
  <2> QED BY <2>2
<1>2. s \in [1..e -> DOMAIN vectors]
  BY DEF ByScore
<1> HIDE DEF e
<1>3. n \in InPrompt(s)
  <2>1. InPrompt(s) \subseteq 1..e
    BY <1>2 DEF InPrompt
  <2>2. 1 \in InPrompt(s)
    <3>1. 1 \in DOMAIN s
      BY <1>1, <1>2
    <3>2. \A i \in 2..1 : FALSE
      OBVIOUS
    <3> QED BY <3>1, <3>2 DEF InPrompt
  <2> HIDE DEF n
  <2> QED BY <1>1, <2>1, <2>2, MostPassages DEF n
<1>4. n \in 1..e /\ n \in DOMAIN s /\ Len(c) = e
  <2>1. n \in 1..e /\ n \in DOMAIN s
    BY <1>2, <1>3 DEF InPrompt
  <2>2. DOMAIN c = 1..e
    BY <1>2
  <2>3. c \in Seq(Range(c))
    BY <1>1, <2>2 DEF Range
  <2> QED BY <1>1, <2>1, <2>2, <2>3
<1>5. ContextWords(s, n) <= MaxContext
  <2>1. CASE n = 1
    <3>1. PassageWords(s[1]) \in Nat /\ PassageWords(s[1]) <= MaxContext
      <4>1. s[1] \in DOMAIN vectors
        BY <1>1, <1>2
      <4>2. s[1][3] \in Nat /\ s[1][3] <= PassageSize
        BY <4>1 DEF VectorsInv
      <4> QED BY <4>2, ContextAssumption, RetrievalAssumption DEF PassageWords
    <3>2. ContextWords(s, 1) = PassageWords(s[1])
      BY <3>1, SumOfOne
    <3> HIDE DEF n
    <3> QED BY <2>1, <3>1, <3>2
  <2>2. CASE n # 1
    <3>1. n \in 2..n
      BY <1>1, <1>4, <2>2
    <3> QED BY <1>3, <3>1 DEF InPrompt
  <2> QED BY <2>1, <2>2
<1>6. MapThenSumSet(LAMBDA i : c[i].words, 1..n) = ContextWords(s, n)
  <2>1. \A i \in 1..n : c[i].words = PassageWords(s[i])
    <3>1. \A i \in 1..n : i \in DOMAIN s
      BY <1>1, <1>2, <1>4
    <3> QED BY <3>1
  <2> HIDE DEF c, n
  <2> QED BY <2>1, SameSum
<1> QED BY <1>4, <1>5, <1>6 DEF Fits

LEMMA WordsNext == SearchInv /\ WordsInv /\ [RNext]_rvars => WordsInv'
<1> SUFFICES ASSUME SearchInv, WordsInv, [RNext]_rvars PROVE WordsInv'
  OBVIOUS
<1> USE DEF quoted, answers, indexes, request, settings, reads
<1>1. PointsInv'
  <2>1. ASSUME NEW d \in Docs, IndexPoints(d) PROVE PointsInv'
    <3>1. PICK n \in 0..MaxChunks : \E words \in [1..n -> {1, PassageSize}] : points' = [points EXCEPT ![d] = words]
      BY <2>1 DEF IndexPoints
    <3>2. PICK words \in [1..n -> {1, PassageSize}] : points' = [points EXCEPT ![d] = words]
      BY <3>1
    <3>3. n \in Nat
      OBVIOUS
    <3> QED BY <3>2, <3>3 DEF WordsInv, PointsInv
  <2>2. CASE UNCHANGED points
    BY <2>2 DEF WordsInv, PointsInv
  <2> QED BY <2>1, <2>2
          DEF RNext, Request, SearchText, SearchVectors, Merge, FilterVersions, ReadPage, ReadCurrent,
              AssembleContext, Relate, UseMeili, Begin, IndexText, Register, constant, idle, rvars
<1>2. CASE SearchVectors
  <2>1. VectorsInv'
    BY <1>2, AnswerVectors, NoVectors DEF SearchVectors, WordsInv, VectorsInv
  <2>2. cited' = <<>>
    BY <1>2 DEF SearchVectors, WordsInv
  <2> QED BY <1>1, <2>1, <2>2 DEF WordsInv, ContextFits
<1>3. CASE AssembleContext
  <2>1. vectors' = NoScores /\ pc' = "done" /\ cited = <<>>
    BY <1>3 DEF AssembleContext, WordsInv
  <2>2. VectorsInv'
    BY <2>1, NoVectors DEF VectorsInv
  <2>3. ContextFits'
    <3>1. CASE vectors = NoScores
      BY <1>3, <2>1, <3>1 DEF AssembleContext, ContextFits
    <3>2. CASE vectors # NoScores
      <4>1. PICK s \in ByScore(vectors) :
              /\ cited' = [i \in DOMAIN s |-> [doc |-> s[i][1], words |-> PassageWords(s[i])]]
              /\ passages' = Max(InPrompt(s))
        BY <1>3, <3>2 DEF AssembleContext
      <4> DEFINE c == [i \in DOMAIN s |-> [doc |-> s[i][1], words |-> PassageWords(s[i])]]
                 n == Max(InPrompt(s))
      <4>2. Fits(c, n)
        <5> HIDE DEF c, n
        <5> QED BY <3>2, PromptFits DEF WordsInv, c, n
      <4>3. cited' = c /\ passages' = n
        BY <4>1
      <4> HIDE DEF c, n
      <4> QED BY <4>2, <4>3, FitsSaysSo DEF ContextFitsNow
    <3> QED BY <3>1, <3>2
  <2> QED BY <1>1, <2>1, <2>2, <2>3 DEF WordsInv
<1>4. CASE UNCHANGED quoted /\ (vectors' = vectors \/ vectors' = NoScores) /\ (pc # "done" \/ UNCHANGED <<pc, kind>>)
  <2>1. VectorsInv'
    BY <1>4, NoVectors DEF WordsInv, VectorsInv
  <2>2. (pc' # "done" => cited' = <<>>) /\ ContextFits'
    BY <1>4, FitsSaysSo DEF ContextFitsNow, WordsInv
  <2> QED BY <1>1, <2>1, <2>2 DEF WordsInv
<1>5. CASE Request
  <2>1. CASE SearchText \/ Merge \/ FilterVersions \/ ReadPage \/ ReadCurrent \/ Relate
    <3>1. pc # "done" /\ UNCHANGED quoted /\ (vectors' = vectors \/ vectors' = NoScores)
      BY <2>1 DEF SearchText, Merge, FilterVersions, ReadPage, ReadCurrent, Relate
    <3> QED BY <1>4, <3>1 DEF WordsInv
  <2> QED BY <1>2, <1>3, <1>5, <2>1 DEF Request
<1>6. CASE UseMeili \/ \E k, d : Begin(k, d)
  <2>1. pc # "done" /\ UNCHANGED quoted /\ UNCHANGED vectors
    BY <1>6 DEF UseMeili, Begin
  <2> QED BY <1>4, <2>1 DEF WordsInv
<1>7. CASE \E d \in Docs : IndexText(d) \/ IndexPoints(d) \/ \E f \in Families : Register(d, f)
  BY <1>4, <1>7 DEF IndexText, IndexPoints, Register, idle
<1>8. CASE UNCHANGED rvars
  BY <1>4, <1>8 DEF rvars
<1> QED BY <1>5, <1>6, <1>7, <1>8 DEF RNext

\* A prompt holds the first of the chunks cited, at least one, and never more
\* words than the context may have, whatever the chunks and their scores are.
THEOREM ContextFitsHolds == RSpec => []ContextFits
<1>1. RInit => WordsInv
  <2> SUFFICES ASSUME RInit PROVE WordsInv
    OBVIOUS
  <2>1. PointsInv
    <3>1. <<>> \in [1..0 -> {1, PassageSize}] /\ 0 \in Nat
      OBVIOUS
    <3> QED BY <3>1 DEF RInit, PointsInv
  <2> QED BY <2>1, NoVectors DEF RInit, WordsInv, VectorsInv, ContextFits
<1>2. WordsInv => ContextFits
  BY DEF WordsInv
<1> QED BY <1>1, <1>2, SearchInvInit, SearchInvNext, WordsNext, PTL DEF RSpec
==============================================================================
