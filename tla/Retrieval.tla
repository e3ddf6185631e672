----------------------------- MODULE Retrieval -----------------------------
(***************************************************************************)
(* One request that reads the indexes: POST /search, POST /qa or GET       *)
(* /documents/{id}/related.  It asks the full-text index and the vectors,  *)
(* then PostgreSQL in several statements, while new versions are           *)
(* registered and workers index documents.  The permission filters are     *)
(* those of AccessControl: the documents here are the ones the caller may  *)
(* find.  Scores are integers; a record or point is a tuple <<document,    *)
(* chunk, ...>>, and an index returns a function from those to scores.     *)
(***************************************************************************)
EXTENDS Integers, FiniteSets, FiniteSetsExt, Sequences

CONSTANTS
  Docs,        \* document ids, numbers since ties are broken by id
  Families,
  Scores, Weights, DefaultWeight,
  Limit,       \* results asked of an index
  PageSize, TopK, MaxRelated,
  PassageSize, \* words of a chunk at most, see Chunking
  TitleWords, MaxContext,
  MaxChunks, MaxChanges, \* bounds on the chunks of a document, and on changes
  None

ASSUME RetrievalAssumption ==
  /\ Docs \subseteq Nat /\ IsFiniteSet(Docs) /\ Scores \subseteq Nat
  /\ PageSize \in Nat \ {0} /\ PassageSize \in Nat \ {0}
\* A full chunk under its title fits in the context.
ASSUME ContextAssumption ==
  TitleWords \in Nat /\ MaxContext \in Nat /\ 1 + TitleWords + PassageSize <= MaxContext

Row == [family : Families, number : Nat, latest : BOOLEAN]
ASSUME NoneAssumption == None \notin Row /\ None \notin Docs

VARIABLES
  rows,    \* the table documents: family, version number and is_latest, or None
  current, \* the table document_version_families
  text,    \* per document, the records the full-text index has of it
  points,  \* per document, the words of each of its points in Qdrant
  config,  \* the two search weights, None when missing or no number
  meili,   \* whether Meilisearch, and not Elasticsearch, is configured
  pc, kind, subject, older, number,  \* the request
  matches, vectors,                  \* what the indexes answered
  ranked,  \* the total score of each document left
  seen,    \* the rows read for the page
  named,   \* the current versions read for it
  cited, passages, \* QA: the chunks retrieved, and how many are in the prompt
  superseded, \* what was no latest version when the request began
  changes

database == <<rows, current>>
indexes == <<text, points>>
request == <<kind, subject, older, number>>
settings == <<config, meili>>
answers == <<matches, vectors, ranked>>
reads == <<seen, named>>
quoted == <<cited, passages>>
rvars == <<database, indexes, settings, request, answers, reads, quoted, pc, superseded, changes>>

NoScores == [h \in {} |-> 0]

RInit ==
  /\ rows = [d \in Docs |-> None] /\ current = [f \in Families |-> None]
  /\ text = [d \in Docs |-> 0] /\ points = [d \in Docs |-> <<>>]
  /\ config = [k \in {"vector", "bm25"} |-> None] /\ meili = FALSE
  /\ pc = "none" /\ kind = None /\ subject = None /\ older = FALSE /\ number = 1
  /\ matches = NoScores /\ vectors = NoScores /\ ranked = NoScores
  /\ seen = [d \in {} |-> None] /\ named = [f \in {} |-> None]
  /\ cited = <<>> /\ passages = 0
  /\ superseded = {} /\ changes = 0

NotLatest == {d \in Docs : rows[d] # None /\ ~rows[d].latest}

-----------------------------------------------------------------------------
(* Registration and indexing.                                              *)

Change == changes < MaxChanges /\ changes' = changes + 1
idle == <<settings, request, answers, reads, quoted, pc, superseded>>

Versions(f) == {rows[d].number : d \in {e \in Docs : rows[e] # None /\ rows[e].family = f}}

\* A mutant: the family keeps naming the document it was created with.
RegisterKeepsCurrent(d, f) ==
  /\ rows[d] = None /\ Change
  /\ rows' = [e \in Docs |->
       IF e = d THEN [family |-> f, number |-> Max(Versions(f) \cup {0}) + 1, latest |-> TRUE]
       ELSE IF rows[e] # None /\ rows[e].family = f THEN [rows[e] EXCEPT !.latest = FALSE]
       ELSE rows[e]]
  /\ current' = [current EXCEPT ![f] = IF @ = None THEN d ELSE @]
  /\ UNCHANGED <<indexes, idle>>

\* DocumentRepository.create with its version family, one transaction.  A second
\* version of a file needs SQLite: PostgreSQL refuses the UPDATE, see SourceSync.
Register(d, f) ==
  /\ rows[d] = None /\ Change
  /\ rows' = [e \in Docs |->
       IF e = d THEN [family |-> f, number |-> Max(Versions(f) \cup {0}) + 1, latest |-> TRUE]
       ELSE IF rows[e] # None /\ rows[e].family = f THEN [rows[e] EXCEPT !.latest = FALSE]
       ELSE rows[e]]
  /\ current' = [current EXCEPT ![f] = d]
  /\ UNCHANGED <<indexes, idle>>

\* An attachment's document is indexed before its row is committed, and the
\* transaction may still roll back: its row need not exist.
IndexText(d) ==
  /\ Change
  /\ \E n \in 1 .. IF meili THEN MaxChunks ELSE 1 : text' = [text EXCEPT ![d] = n]
  /\ UNCHANGED <<database, points, idle>>

\* The points of a document are deleted, then those of its chunks are added.
IndexPoints(d) ==
  /\ Change
  /\ \E n \in 0 .. MaxChunks :
       \E words \in [1 .. n -> {1, PassageSize}] : points' = [points EXCEPT ![d] = words]
  /\ UNCHANGED <<database, text, idle>>

-----------------------------------------------------------------------------
(* A request begins.                                                       *)

Begin(k, d) ==
  /\ pc = "none" /\ changes > 0
  /\ kind' = k /\ subject' = d
  /\ older' \in IF k = "search" THEN BOOLEAN ELSE {FALSE}
  /\ number' \in IF k = "search" THEN {1, 2} ELSE {1}
  /\ config' \in IF k = "search" THEN [{"vector", "bm25"} -> Weights \cup {None}] ELSE {config}
  /\ superseded' = NotLatest
  /\ pc' = IF k = "search" THEN "text" ELSE "vectors"
  /\ UNCHANGED <<database, indexes, meili, answers, reads, quoted, changes>>

UseMeili ==
  /\ pc = "none" /\ ~meili /\ changes = 0
  /\ meili' = TRUE
  /\ UNCHANGED <<database, indexes, config, request, answers, reads, quoted, pc, superseded, changes>>

Answer(hits, limit) ==
  UNION {[H -> Scores] : H \in {S \in SUBSET hits : Cardinality(S) <= limit}}

TextHits == {h \in Docs \X (1 .. MaxChunks) : h[2] <= text[h[1]]}
\* A point's payload holds its chunk, here the number of its words.
PointHits == UNION {{<<d, i, points[d][i]>> : i \in DOMAIN points[d]} : d \in Docs}

constant == <<database, indexes, settings, request, superseded, changes>>

\* Elasticsearch failing only degrades the search; Meilisearch failing ends it.
SearchText ==
  /\ pc = "text"
  /\ \/ matches' \in Answer(TextHits, Limit) /\ pc' = "vectors"
     \/ matches' = NoScores /\ pc' = IF meili THEN "failed" ELSE "vectors"
  /\ UNCHANGED <<constant, vectors, ranked, reads, quoted>>

\* The encoder or Qdrant failing leaves no vector results: the search is
\* degraded, the answer an apology, the list of related documents empty.
SearchVectors ==
  /\ pc = "vectors"
  /\ \/ /\ vectors' \in Answer(PointHits, CASE kind = "search" -> Limit
                                           [] kind = "qa" -> TopK
                                           [] kind = "related" -> 4 * MaxRelated)
        /\ pc' = kind
     \/ /\ vectors' = NoScores
        /\ pc' = IF kind = "search" THEN "search" ELSE "done"
  /\ UNCHANGED <<constant, matches, ranked, reads, quoted>>

-----------------------------------------------------------------------------
(* POST /search.                                                           *)

\* get and + over the results of one index: what a document's hits add up to.
Added(hits, d) == MapThenSumSet(LAMBDA h : hits[h], {h \in DOMAIN hits : h[1] = d})
Hit(hits) == {h[1] : h \in DOMAIN hits}

Weight(k) == IF config[k] = None THEN DefaultWeight[k] ELSE config[k]
Weighted ==
  IF vectors = NoScores THEN [vector |-> 0, bm25 |-> 10]
  ELSE [vector |-> Weight("vector"), bm25 |-> Weight("bm25")]

\* merge_results
Merged ==
  [d \in Hit(matches) \cup Hit(vectors) |->
    Weighted.vector * Added(vectors, d) + Weighted.bm25 * Added(matches, d)]

\* A mutant: versions are filtered only after a hybrid search.
MergeDegradedUnfiltered ==
  /\ pc = "search"
  /\ ranked' = Merged /\ matches' = NoScores /\ vectors' = NoScores
  /\ pc' = IF older \/ vectors = NoScores THEN "page" ELSE "filter"
  /\ UNCHANGED <<constant, reads, quoted>>

Merge ==
  /\ pc = "search"
  /\ ranked' = Merged /\ matches' = NoScores /\ vectors' = NoScores
  /\ pc' = IF older THEN "page" ELSE "filter"
  /\ UNCHANGED <<constant, reads, quoted>>

\* Documents without a row stay; so do those registered over from now on.
FilterVersions ==
  /\ pc = "filter"
  /\ ranked' = [d \in DOMAIN ranked \ NotLatest |-> ranked[d]]
  /\ pc' = "page"
  /\ UNCHANGED <<constant, matches, vectors, reads, quoted>>

\* Highest score first, then lowest id.
Precedes(scores, d, e) == scores[d] > scores[e] \/ (scores[d] = scores[e] /\ d < e)
Position(scores, d) == Cardinality({e \in DOMAIN scores : Precedes(scores, e, d)})
Page ==
  {d \in DOMAIN ranked : Position(ranked, d) \in (number - 1) * PageSize .. number * PageSize - 1}

ReadPage ==
  /\ pc = "page"
  /\ seen' = [d \in Page |-> rows[d]]
  /\ pc' = "current"
  /\ UNCHANGED <<constant, answers, named, quoted>>

\* get_family_current_doc_ids, the next statement of the same transaction.
ReadCurrent ==
  /\ pc = "current"
  /\ named' = [f \in {seen[d].family : d \in {e \in DOMAIN seen : seen[e] # None /\ ~seen[e].latest}}
                |-> current[f]]
  /\ pc' = "done"
  /\ UNCHANGED <<constant, answers, seen, quoted>>

-----------------------------------------------------------------------------
(* POST /qa.                                                               *)

\* Qdrant returns the best chunks first; a chunk is one point, so removing
\* duplicates by chunk id changes nothing.
ByScore(hits) ==
  {s \in [1 .. Cardinality(DOMAIN hits) -> DOMAIN hits] :
    /\ \A h \in DOMAIN hits : \E i \in DOMAIN s : s[i] = h
    /\ \A i, j \in DOMAIN s : i < j => hits[s[i]] >= hits[s[j]]}

\* "[i] title:" and the chunk.
PassageWords(h) == 1 + TitleWords + h[3]
ContextWords(hits, n) == MapThenSumSet(LAMBDA i : PassageWords(hits[i]), 1 .. n)

\* A mutant: the bound is compared before the passage is counted.
InPromptLate(hits) ==
  {n \in DOMAIN hits : \A i \in 2 .. n : ContextWords(hits, i - 1) <= MaxContext}

\* _assemble_context takes passages until one does not fit; never less than one.
InPrompt(hits) ==
  {n \in DOMAIN hits : \A i \in 2 .. n : ContextWords(hits, i) <= MaxContext}

AssembleContext ==
  /\ pc = "qa"
  /\ IF vectors = NoScores THEN UNCHANGED quoted
     ELSE \E s \in ByScore(vectors) :
            /\ cited' = [i \in DOMAIN s |-> [doc |-> s[i][1], words |-> PassageWords(s[i])]]
            /\ passages' = Max(InPrompt(s))
  /\ vectors' = NoScores
  /\ pc' = "done"
  /\ UNCHANGED <<constant, matches, ranked, reads>>

-----------------------------------------------------------------------------
(* GET /documents/{id}/related.                                            *)

\* _dedupe_results
BestChunks(hits) ==
  [d \in Hit(hits) \ {subject} |-> Max({hits[h] : h \in {g \in DOMAIN hits : g[1] = d}})]

\* document_metadata drops what has no row.
Relate ==
  LET best == BestChunks(vectors)
      listed == [d \in {e \in DOMAIN best : rows[e] # None} |-> best[d]]
  IN /\ pc = "related"
     /\ ranked' = [d \in {e \in DOMAIN listed : Position(listed, e) < MaxRelated} |-> listed[d]]
     /\ pc' = "done"
     /\ UNCHANGED <<constant, matches, vectors, reads, quoted>>

-----------------------------------------------------------------------------
Request ==
  \/ SearchText \/ SearchVectors
  \/ Merge \/ FilterVersions \/ ReadPage \/ ReadCurrent
  \/ AssembleContext \/ Relate

RNext ==
  \/ Request \/ UseMeili
  \/ \E k \in {"search", "qa"} : Begin(k, None)
  \/ \E d \in {e \in Docs : rows[e] # None} : Begin("related", d)
  \/ \E d \in Docs : IndexText(d) \/ IndexPoints(d) \/ \E f \in Families : Register(d, f)
RSpec == RInit /\ [][RNext]_rvars

-----------------------------------------------------------------------------
\* Unless older versions are asked for, a search shows none that was already
\* superseded when it began, whichever index still has it and whichever failed.
SupersededHidden ==
  kind = "search" /\ pc = "done" /\ ~older => DOMAIN seen \cap superseded = {}

\* A result marked as having a newer version names a later version of the same
\* family, though the two are read by different statements and a version may be
\* registered at any time.
OlderNamesNewer ==
  kind = "search" /\ pc = "done" =>
    \A d \in DOMAIN seen :
      seen[d] # None /\ ~seen[d].latest =>
        LET e == named[seen[d].family]
        IN /\ e # None /\ rows[e] # None
           /\ rows[e].family = seen[d].family /\ rows[e].number > seen[d].number

\* The prompt holds the first of the chunks cited, at least one if there is any,
\* and no more words than the context may have.
ContextFits ==
  kind = "qa" /\ pc = "done" /\ cited # <<>> =>
    /\ passages \in 1 .. Len(cited)
    /\ MapThenSumSet(LAMBDA i : cited[i].words, 1 .. passages) <= MaxContext

\* The formula of merge_results' comment: a document's total is made of one
\* score from each index.
CombinedScore ==
  \A d \in DOMAIN Merged :
    \E v \in {0} \cup {vectors[h] : h \in {g \in DOMAIN vectors : g[1] = d}},
       b \in {0} \cup {matches[h] : h \in {g \in DOMAIN matches : g[1] = d}} :
      Merged[d] = Weighted.vector * v + Weighted.bm25 * b
=============================================================================
