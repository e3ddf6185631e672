---------------------------- MODULE Enrichment ----------------------------
(***************************************************************************)
(* What is added to indexed documents on an administrator's request:       *)
(* alert notifications for the subscriptions a document matches, and the   *)
(* summary, entities and tags a language model finds.  Each request is one *)
(* READ COMMITTED transaction, open while the models are called.  It locks *)
(* every row it writes (wrote), and rows are written in an order nobody    *)
(* fixes, so two requests can wait for each other.  Elasticsearch is       *)
(* written outside the transaction.                                        *)
(***************************************************************************)
EXTENDS Integers, Sequences, FiniteSets, Functions

CONSTANTS
  Docs, Entities,
  Subs,       \* alert subscriptions, each used once
  Triggers,   \* admin requests, each made once
  MaxEdits,   \* bound on the owners' requests
  MaxFaults,  \* bound on failing models, services and statements
  Deleted, None

ASSUME BoundsAssumption == MaxEdits \in Nat /\ MaxFaults \in Nat
ASSUME SubsAssumption == IsFiniteSet(Subs) /\ IsFiniteSet(Entities)
ASSUME NoneAssumption ==
  /\ None \notin Docs \cup Triggers \cup {"unread", "read"}
  /\ None # Deleted
  /\ \A similar \in SUBSET Docs : similar # None /\ similar # Deleted

VARIABLES
  subs,      \* per subscription, None, Deleted, or the documents it is active
             \* for: it is enabled, a group of its owner may read them, and they
             \* are similar enough to its query
  notices,   \* alert_notifications: per subscription and document, None or whether read
  summary,   \* document_summaries: the request that wrote it, or None
  tags,      \* document_tags: the requests whose tags are there
  mentions,  \* document_entities: per document and entity, the frequency
  entry,     \* the Elasticsearch document: who wrote its summary and its tags
  pc,        \* per request, the step it takes next
  doc,       \* per request, its document
  todo,      \* per request, the subscriptions or entities it has still to write
  seen,      \* per request, the rows its SELECT or DELETE has found
  wrote,     \* per request, the rows it has written and locked
  due,       \* the pairs that a committed request has found to match
  drifted,   \* documents whose entry and rows a failure or an indexing has separated
  faults,
  edits

rows == <<subs, notices, summary, tags, mentions>>
request == <<pc, doc, todo, seen, wrote>>
evars == <<rows, entry, request, due, drifted, faults, edits>>

NoEntry == [summary |-> None, tags |-> None]
Live(s) == subs[s] \notin {None, Deleted}

EnrichmentInit ==
  /\ subs = [s \in Subs |-> None]
  /\ notices = [s \in Subs |-> [d \in Docs |-> None]]
  /\ summary = [d \in Docs |-> None] /\ tags = [d \in Docs |-> {}]
  /\ mentions = [d \in Docs |-> [e \in Entities |-> 0]]
  /\ entry = [d \in Docs |-> NoEntry]
  /\ pc = [t \in Triggers |-> "idle"] /\ doc = [t \in Triggers |-> None]
  /\ todo = [t \in Triggers |-> <<>>] /\ seen = [t \in Triggers |-> {}]
  /\ wrote = [t \in Triggers |-> {}]
  /\ due = {} /\ drifted = {} /\ faults = 0 /\ edits = 0

-----------------------------------------------------------------------------
(* Row locks.                                                              *)

Notice(s, d) == <<"notice", s, d>>
SubRow(s) == <<"subscription", s>>
SummaryRow(d) == <<"summary", d>>
EntityRow(e) == <<"entity", e>>

\* The row that t writes next, if its next step is such a statement.
Needs(t) ==
  CASE pc[t] = "insert" -> {Notice(Head(todo[t]), doc[t])}
    [] pc[t] = "touch" -> {SubRow(Head(todo[t]))}
    [] pc[t] = "summarize" -> {SummaryRow(doc[t])}
    [] pc[t] = "entity" -> {EntityRow(Head(todo[t]))}
    [] OTHER -> {}

WaitsFor(t) == {u \in Triggers \ {t} : Needs(t) \cap wrote[u] # {}}
Waiting(t) == WaitsFor(t) # {}

\* Two requests that wait for each other: PostgreSQL aborts one.
Deadlocked(t) == \E u \in WaitsFor(t) : t \in WaitsFor(u)

End(t) ==
  /\ pc' = [pc EXCEPT ![t] = "done"]
  /\ doc' = [doc EXCEPT ![t] = None] /\ todo' = [todo EXCEPT ![t] = <<>>]
  /\ seen' = [seen EXCEPT ![t] = {}] /\ wrote' = [wrote EXCEPT ![t] = {}]

Enriching(t) ==
  pc[t] \in {"summarize", "indexSummary", "extract", "entity", "tag", "insertTags", "indexTags", "enriched"}

\* An error of a statement loses the transaction.  Matching reports it; the
\* intelligence worker swallows it and the COMMIT that follows rolls back,
\* with the Elasticsearch document already changed.
Lose(t) ==
  /\ drifted' = IF Enriching(t) THEN drifted \cup {doc[t]} ELSE drifted
  /\ End(t)
  /\ UNCHANGED <<rows, entry, due>>

AbortDeadlock(t) == Deadlocked(t) /\ Lose(t) /\ UNCHANGED faults

Fault == faults < MaxFaults /\ faults' = faults + 1
Fails(t) == pc[t] \notin {"idle", "done"} /\ Fault /\ Lose(t)

-----------------------------------------------------------------------------
(* Matching a document against the subscriptions.                          *)

\* active_subscriptions_for_doc and the similarity threshold
Matching(d) == {s \in Subs : Live(s) /\ d \in subs[s]}

Continue(t, next, after) ==
  /\ todo' = [todo EXCEPT ![t] = Tail(@)]
  /\ pc' = [pc EXCEPT ![t] = IF Len(todo[t]) = 1 THEN after ELSE next]

StartMatch(t, d) ==
  /\ pc[t] = "idle"
  /\ \E order \in Bijection(1..Cardinality(Matching(d)), Matching(d)) :
       todo' = [todo EXCEPT ![t] = order]
  /\ pc' = [pc EXCEPT ![t] = IF Matching(d) = {} THEN "matched" ELSE "insert"]
  /\ doc' = [doc EXCEPT ![t] = d]
  /\ seen' = [seen EXCEPT ![t] = Matching(d)]
  /\ UNCHANGED <<rows, entry, wrote, due, drifted, faults>>

\* INSERT ... ON CONFLICT DO NOTHING, with s the next subscription.
CreateNotice(t, s) ==
  /\ IF notices[s][doc[t]] # None
     THEN Continue(t, "insert", "matched") /\ UNCHANGED wrote
     ELSE /\ wrote' = [wrote EXCEPT ![t] = @ \cup {Notice(s, doc[t])}]
          /\ pc' = [pc EXCEPT ![t] = "touch"]
          /\ UNCHANGED todo
  /\ UNCHANGED <<rows, entry, doc, seen, due, drifted, faults>>

\* A mutant: a notification that an open transaction has inserted is skipped
\* like a committed one.
CreateNotificationAtOnce(t) ==
  /\ pc[t] = "insert" /\ Live(Head(todo[t]))
  /\ IF Waiting(t)
     THEN Continue(t, "insert", "matched")
          /\ UNCHANGED <<rows, entry, doc, seen, wrote, due, drifted, faults>>
     ELSE CreateNotice(t, Head(todo[t]))

CreateNotification(t) ==
  /\ pc[t] = "insert" /\ ~Waiting(t) /\ Live(Head(todo[t]))
  /\ CreateNotice(t, Head(todo[t]))

\* The subscription was deleted after the SELECT: its foreign key is violated.
CreateNotificationFails(t) ==
  /\ pc[t] = "insert" /\ ~Waiting(t) /\ ~Live(Head(todo[t]))
  /\ Lose(t) /\ UNCHANGED faults

\* UPDATE alert_subscriptions SET last_notified
TouchSubscription(t) ==
  /\ pc[t] = "touch" /\ ~Waiting(t)
  /\ wrote' = [wrote EXCEPT ![t] = @ \cup {SubRow(Head(todo[t]))}]
  /\ Continue(t, "insert", "matched")
  /\ UNCHANGED <<rows, entry, doc, seen, due, drifted, faults>>

CommitMatch(t) ==
  /\ pc[t] = "matched"
  /\ notices' = [s \in Subs |-> [d \in Docs |->
                   IF Notice(s, d) \in wrote[t] THEN "unread" ELSE notices[s][d]]]
  /\ due' = due \cup {<<s, doc[t]>> : s \in {s \in seen[t] : Live(s)}}
  /\ End(t)
  /\ UNCHANGED <<subs, summary, tags, mentions, entry, drifted, faults>>

-----------------------------------------------------------------------------
(* The owner's requests: one statement that matters each, so one action.   *)

Locked(s) == \E t \in Triggers : SubRow(s) \in wrote[t]
\* An uncommitted notification holds a key share lock on its subscription.
Referenced(s) == Locked(s) \/ \E t \in Triggers, d \in Docs : Notice(s, d) \in wrote[t]

Edit == edits < MaxEdits /\ edits' = edits + 1

CreateSubscription(s) ==
  /\ Edit /\ subs[s] = None
  /\ \E similar \in SUBSET Docs : subs' = [subs EXCEPT ![s] = similar]
  /\ UNCHANGED <<notices, summary, tags, mentions, entry, request, due, drifted, faults>>

UpdateSubscription(s) ==
  /\ Edit /\ Live(s) /\ ~Locked(s)
  /\ \E similar \in SUBSET Docs : subs' = [subs EXCEPT ![s] = similar]
  /\ UNCHANGED <<notices, summary, tags, mentions, entry, request, due, drifted, faults>>

DeleteSubscription(s) ==
  /\ Edit /\ Live(s) /\ ~Referenced(s)
  /\ subs' = [subs EXCEPT ![s] = Deleted]
  /\ notices' = [notices EXCEPT ![s] = [d \in Docs |-> None]]
  /\ due' = {p \in due : p[1] # s}
  /\ UNCHANGED <<summary, tags, mentions, entry, request, drifted, faults>>

MarkRead(s, d) ==
  /\ Edit /\ notices[s][d] = "unread"
  /\ notices' = [notices EXCEPT ![s][d] = "read"]
  /\ UNCHANGED <<subs, summary, tags, mentions, entry, request, due, drifted, faults>>

-----------------------------------------------------------------------------
(* The intelligence tasks: summarize, extract_entities, auto_tag.          *)

StartEnrich(t, d) ==
  /\ pc[t] = "idle"
  /\ pc' = [pc EXCEPT ![t] = "summarize"]
  /\ doc' = [doc EXCEPT ![t] = d]
  /\ UNCHANGED <<rows, entry, todo, seen, wrote, due, drifted, faults>>

\* A mutant: the feature flag turns the first task off.
SummarizeDisabled(t) ==
  /\ pc[t] = "summarize"
  /\ pc' = [pc EXCEPT ![t] = "extract"]
  /\ UNCHANGED <<rows, entry, doc, todo, seen, wrote, due, drifted, faults>>

\* upsert_summary.  The row it locks keeps a second request for the document
\* from getting any further until this one has ended.
Summarize(t) ==
  /\ pc[t] = "summarize" /\ ~Waiting(t)
  /\ wrote' = [wrote EXCEPT ![t] = @ \cup {SummaryRow(doc[t])}]
  /\ pc' = [pc EXCEPT ![t] = "indexSummary"]
  /\ UNCHANGED <<rows, entry, doc, todo, seen, due, drifted, faults>>

\* update_document_field, whose errors are swallowed.
UpdateEntry(t, value) ==
  \/ entry' = [entry EXCEPT ![doc[t]] = value] /\ UNCHANGED <<drifted, faults>>
  \/ Fault /\ drifted' = drifted \cup {doc[t]} /\ UNCHANGED entry

IndexSummary(t) ==
  /\ pc[t] = "indexSummary"
  /\ UpdateEntry(t, [entry[doc[t]] EXCEPT !.summary = t])
  /\ pc' = [pc EXCEPT ![t] = "extract"]
  /\ UNCHANGED <<rows, doc, todo, seen, wrote, due>>

\* The model names some entities, in some order.
ExtractEntities(t) ==
  /\ pc[t] = "extract"
  /\ \E found \in SUBSET Entities :
       /\ \E order \in Bijection(1..Cardinality(found), found) :
            todo' = [todo EXCEPT ![t] = order]
       /\ pc' = [pc EXCEPT ![t] = IF found = {} THEN "tag" ELSE "entity"]
  /\ UNCHANGED <<rows, entry, doc, seen, wrote, due, drifted, faults>>

\* upsert_entity and link_document_entity
LinkEntity(t) ==
  /\ pc[t] = "entity" /\ ~Waiting(t)
  /\ wrote' = [wrote EXCEPT ![t] = @ \cup {EntityRow(Head(todo[t]))}]
  /\ Continue(t, "entity", "tag")
  /\ UNCHANGED <<rows, entry, doc, seen, due, drifted, faults>>

\* replace_tags: the DELETE sees the rows committed before it ...
DeleteTags(t) ==
  /\ pc[t] = "tag"
  /\ seen' = [seen EXCEPT ![t] = tags[doc[t]]]
  /\ pc' = [pc EXCEPT ![t] = "insertTags"]
  /\ UNCHANGED <<rows, entry, doc, todo, wrote, due, drifted, faults>>

InsertTags(t) ==
  /\ pc[t] = "insertTags"
  /\ wrote' = [wrote EXCEPT ![t] = @ \cup {<<"tags", doc[t]>>}]
  /\ pc' = [pc EXCEPT ![t] = "indexTags"]
  /\ UNCHANGED <<rows, entry, doc, todo, seen, due, drifted, faults>>

\* ... and the primary key is violated when the model names a tag twice.
InsertTagsFails(t) == pc[t] = "insertTags" /\ Lose(t) /\ UNCHANGED faults

IndexTags(t) ==
  /\ pc[t] = "indexTags"
  /\ UpdateEntry(t, [entry[doc[t]] EXCEPT !.tags = t])
  /\ pc' = [pc EXCEPT ![t] = "enriched"]
  /\ UNCHANGED <<rows, doc, todo, seen, wrote, due>>

\* A model that does not answer ends the tasks; what they have written stays.
ModelFails(t) ==
  /\ pc[t] \in {"summarize", "extract", "tag"} /\ Fault
  /\ pc' = [pc EXCEPT ![t] = "enriched"]
  /\ UNCHANGED <<rows, entry, doc, todo, seen, wrote, due, drifted>>

CommitEnrich(t) ==
  LET d == doc[t]
  IN /\ pc[t] = "enriched"
     /\ summary' = [summary EXCEPT ![d] = IF SummaryRow(d) \in wrote[t] THEN t ELSE @]
     /\ tags' = [tags EXCEPT ![d] = IF <<"tags", d>> \in wrote[t] THEN (@ \ seen[t]) \cup {t} ELSE @]
     /\ mentions' = [mentions EXCEPT ![d] =
                       [e \in Entities |-> IF EntityRow(e) \in wrote[t] THEN @[e] + 1 ELSE @[e]]]
     /\ End(t)
     /\ UNCHANGED <<subs, notices, entry, due, drifted, faults>>

\* PipelineWorker indexes the document again, with empty summary and tags.
Reindex(d) ==
  /\ entry' = [entry EXCEPT ![d] = NoEntry]
  /\ drifted' = drifted \cup {d}
  /\ UNCHANGED <<rows, request, due, faults>>

-----------------------------------------------------------------------------
MatchStep(t) ==
  \/ CreateNotification(t) \/ CreateNotificationFails(t) \/ TouchSubscription(t) \/ CommitMatch(t)
EnrichStep(t) ==
  \/ Summarize(t) \/ IndexSummary(t) \/ ExtractEntities(t) \/ LinkEntity(t)
  \/ DeleteTags(t) \/ InsertTags(t) \/ InsertTagsFails(t) \/ IndexTags(t)
  \/ ModelFails(t) \/ CommitEnrich(t)
OwnerStep(s) ==
  \/ CreateSubscription(s) \/ UpdateSubscription(s) \/ DeleteSubscription(s)
  \/ \E d \in Docs : MarkRead(s, d)

TriggerStep(t) ==
  \/ \E d \in Docs : StartMatch(t, d) \/ StartEnrich(t, d)
  \/ MatchStep(t) \/ EnrichStep(t) \/ AbortDeadlock(t) \/ Fails(t)

EnrichmentNext ==
  \/ \E t \in Triggers : TriggerStep(t) /\ UNCHANGED edits
  \/ \E s \in Subs : OwnerStep(s)
  \/ \E d \in Docs : Reindex(d) /\ UNCHANGED edits

EnrichmentSpec == EnrichmentInit /\ [][EnrichmentNext]_evars

-----------------------------------------------------------------------------
\* Every pair of a subscription and a document that a committed request found
\* to match has its notification, though two requests may have tried to create
\* it and the one that inserted it may have been lost.
MatchDelivers == \A p \in due : notices[p[1]][p[2]] # None

\* While no request works on a document, its Elasticsearch entry shows the
\* summary and the tags of the tables, and these tags are of one request, unless
\* an indexing or an error has come between.
EntryFollowsTables ==
  \A d \in Docs \ drifted :
    (\A t \in Triggers : doc[t] = d => ~Enriching(t)) =>
      /\ entry[d].summary = summary[d]
      /\ tags[d] = IF entry[d].tags = None THEN {} ELSE {entry[d].tags}
=============================================================================
