-------------------------- MODULE WorkspaceProofs --------------------------
(***************************************************************************)
(* What TLAPS proves of Collaboration and of Enrichment: edits of comments *)
(* and annotations compose, every match has its notification, and the      *)
(* Elasticsearch entry follows the tables.                                 *)
(***************************************************************************)
EXTENDS Collaboration, Enrichment, FiniteSetTheorems, TLAPS

-----------------------------------------------------------------------------
(* Comments and annotations.                                               *)

CommentCall == [kind : {"comment"}, by : People, id : Comments, delete : BOOLEAN]
NoteCall == [kind : {"annotation"}, by : People, id : Annotations, delete : BOOLEAN,
             fields : Fields, row : Note]
Name == [body : People \cup {Unset}, deleted : BOOLEAN \cup {Unset},
         text : People \cup {Unset}, private : BOOLEAN \cup {Unset}]

CommentsType ==
  /\ comments \in [Comments -> Comment \cup {Unset}]
  /\ annotations \in [Annotations -> Note \cup {Unset, Gone}]
  /\ calls \in [Requests -> CommentCall \cup NoteCall \cup {Unset}]
  /\ named \in [Comments \cup Annotations -> Name]

\* A request that edits a comment has found it, and no comment row goes away.
CallsFindRows ==
  \A r \in Requests :
    calls[r] # Unset /\ calls[r].kind = "comment" => comments[calls[r].id] # Unset

\* Every field of a row that is there is what the last request to name it said.
CommentsAsNamed ==
  \A c \in Comments : comments[c] # Unset =>
    comments[c].body = named[c].body /\ comments[c].deleted = named[c].deleted
NotesAsNamed ==
  \A n \in Annotations : HasNote(n) =>
    annotations[n].text = named[n].text /\ annotations[n].private = named[n].private

EditInv == CommentsType /\ CallsFindRows /\ CommentsAsNamed /\ NotesAsNamed

LEMMA EditInvInitially == CollaborationInit => EditInv
<1> SUFFICES ASSUME CollaborationInit PROVE EditInv
  OBVIOUS
<1>1. Unnamed \in Name
  BY DEF Unnamed, Name
<1>2. CommentsType
  BY <1>1 DEF CollaborationInit, CommentsType
<1>3. CallsFindRows
  BY DEF CollaborationInit, CallsFindRows
<1> QED BY <1>2, <1>3 DEF CollaborationInit, EditInv, CommentsAsNamed, NotesAsNamed, HasNote

LEMMA CreateCommentKeeps ==
  ASSUME EditInv, NEW p \in People, NEW c \in Comments, CreateComment(p, c)
  PROVE  EditInv'
<1> DEFINE new == [author |-> p, body |-> p, deleted |-> FALSE]
           name == [named[c] EXCEPT !.body = p, !.deleted = FALSE]
<1> USE DEF EditInv
<1>1. /\ comments' = [comments EXCEPT ![c] = new]
      /\ named' = [named EXCEPT ![c] = name]
      /\ annotations' = annotations /\ calls' = calls
  <2>1. named' = [named EXCEPT ![c].body = p, ![c].deleted = FALSE]
    BY DEF CreateComment
  <2>2. [named EXCEPT ![c].body = p, ![c].deleted = FALSE] = [named EXCEPT ![c] = name]
    BY DEF CommentsType
  <2> QED BY <2>1, <2>2 DEF CreateComment
<1>2. new \in Comment /\ new # Unset
  <2>1. new \in Comment
    BY DEF Comment
  <2> QED BY <2>1, NoRowAssumption
<1>0. named[c] \in Name
  BY DEF CommentsType
<1>3. /\ name \in Name
      /\ new.body = name.body /\ new.deleted = name.deleted
      /\ name.text = named[c].text /\ name.private = named[c].private
  BY <1>0 DEF Name
<1> HIDE DEF new, name
<1>4. CommentsType'
  BY <1>1, <1>2, <1>3 DEF CommentsType
<1>5. CallsFindRows'
  BY <1>1, <1>2 DEF CallsFindRows, CommentsType, CommentCall
<1>6. CommentsAsNamed'
  BY <1>1, <1>3 DEF CommentsAsNamed, CommentsType
<1>7. NotesAsNamed'
  BY <1>1, <1>3 DEF NotesAsNamed, HasNote, CommentsType
<1> QED BY <1>4, <1>5, <1>6, <1>7

LEMMA CheckCommentKeeps ==
  ASSUME EditInv, NEW r \in Requests, NEW p \in People, NEW c \in Comments,
         NEW delete \in BOOLEAN, CheckComment(r, p, c, delete)
  PROVE  EditInv'
<1> DEFINE call == [kind |-> "comment", by |-> p, id |-> c, delete |-> delete]
<1>1. call \in CommentCall /\ call.id = c
  BY DEF CommentCall
<1> HIDE DEF call
<1>2. calls' = [calls EXCEPT ![r] = call] /\ comments[c] # Unset
      /\ UNCHANGED <<comments, annotations, named>>
  BY DEF CheckComment, call
<1>3. CommentsType' /\ CallsFindRows'
  BY <1>1, <1>2 DEF EditInv, CommentsType, CallsFindRows
<1>4. CommentsAsNamed' /\ NotesAsNamed'
  BY <1>2 DEF EditInv, CommentsAsNamed, NotesAsNamed, HasNote
<1> QED BY <1>3, <1>4 DEF EditInv

\* What a checked request carries.
LEMMA CommentCallType ==
  ASSUME CommentsType, NEW r \in Requests, calls[r] # Unset, calls[r].kind = "comment"
  PROVE  calls[r] \in CommentCall
BY DEF CommentsType, NoteCall

LEMMA NoteCallType ==
  ASSUME CommentsType, NEW r \in Requests, calls[r] # Unset, calls[r].kind = "annotation"
  PROVE  calls[r] \in NoteCall
BY DEF CommentsType, CommentCall

LEMMA EditCommentKeeps ==
  ASSUME EditInv, NEW r \in Requests, UpdateComment(r) \/ SoftDelete(r)
  PROVE  EditInv'
<1> DEFINE call == calls[r]
           c == call.id
<1>1. call # Unset /\ call.kind = "comment"
  BY DEF UpdateComment, SoftDelete
<1>2. call \in CommentCall /\ comments[c] # Unset
  BY <1>1, CommentCallType DEF EditInv, CallsFindRows
<1>3. c \in Comments /\ call.by \in People
  BY <1>2 DEF CommentCall
<1> DEFINE new == IF call.delete THEN [comments[c] EXCEPT !.deleted = TRUE]
                                 ELSE [comments[c] EXCEPT !.body = call.by]
           name == IF call.delete THEN [named[c] EXCEPT !.deleted = TRUE]
                                  ELSE [named[c] EXCEPT !.body = call.by]
<1>4. comments[c] \in Comment /\ named[c] \in Name
  BY <1>2, <1>3 DEF EditInv, CommentsType
<1>5. comments[c].body = named[c].body /\ comments[c].deleted = named[c].deleted
  BY <1>2, <1>3 DEF EditInv, CommentsAsNamed
<1>6. /\ new \in Comment /\ name \in Name
      /\ new.body = name.body /\ new.deleted = name.deleted
      /\ name.text = named[c].text /\ name.private = named[c].private
  BY <1>3, <1>4, <1>5 DEF Comment, Name
<1>7. /\ comments' = [comments EXCEPT ![c] = new]
      /\ named' = [named EXCEPT ![c] = name]
      /\ calls' = [calls EXCEPT ![r] = Unset]
      /\ annotations' = annotations
  BY <1>3 DEF UpdateComment, SoftDelete, EditInv, CommentsType
<1>8. new # Unset
  BY <1>6, NoRowAssumption
<1> HIDE DEF new, name, call
<1>9. CommentsType'
  BY <1>3, <1>6, <1>7 DEF EditInv, CommentsType
<1>10. CallsFindRows'
  <2> SUFFICES ASSUME NEW q \in Requests, calls'[q] # Unset, calls'[q].kind = "comment"
               PROVE  comments'[calls'[q].id] # Unset
    BY DEF CallsFindRows
  <2>1. calls'[q] = calls[q]
    BY <1>7 DEF EditInv, CommentsType
  <2>2. calls[q] \in CommentCall /\ comments[calls[q].id] # Unset
    BY <2>1, CommentCallType DEF EditInv, CallsFindRows
  <2>3. calls[q].id \in Comments
    BY <2>2 DEF CommentCall
  <2> QED BY <1>7, <1>8, <2>1, <2>2, <2>3 DEF EditInv, CommentsType
<1>11. CommentsAsNamed' /\ NotesAsNamed'
  BY <1>3, <1>6, <1>7 DEF EditInv, CommentsType, CommentsAsNamed, NotesAsNamed, HasNote
<1> QED BY <1>9, <1>10, <1>11 DEF EditInv

LEMMA CreateAnnotationKeeps ==
  ASSUME EditInv, NEW p \in People, NEW n \in Annotations, NEW private \in BOOLEAN,
         CreateAnnotation(p, n, private)
  PROVE  EditInv'
<1> DEFINE new == [owner |-> p, text |-> p, private |-> private]
           name == [named[n] EXCEPT !.text = p, !.private = private]
<1>1. /\ annotations' = [annotations EXCEPT ![n] = new]
      /\ named' = [named EXCEPT ![n] = name]
      /\ comments' = comments /\ calls' = calls
  <2>1. named' = [named EXCEPT ![n].text = p, ![n].private = private]
    BY DEF CreateAnnotation
  <2>2. [named EXCEPT ![n].text = p, ![n].private = private] = [named EXCEPT ![n] = name]
    BY DEF EditInv, CommentsType
  <2> QED BY <2>1, <2>2 DEF CreateAnnotation
<1>2. named[n] \in Name
  BY DEF EditInv, CommentsType
<1>3. /\ name \in Name /\ new \in Note
      /\ new.text = name.text /\ new.private = name.private
      /\ name.body = named[n].body /\ name.deleted = named[n].deleted
  BY <1>2 DEF Name, Note
<1> HIDE DEF new, name
<1>4. CommentsType' /\ CallsFindRows'
  BY <1>1, <1>3 DEF EditInv, CommentsType, CallsFindRows
<1>5. CommentsAsNamed' /\ NotesAsNamed'
  BY <1>1, <1>3 DEF EditInv, CommentsType, CommentsAsNamed, NotesAsNamed, HasNote
<1> QED BY <1>4, <1>5 DEF EditInv

LEMMA CheckAnnotationKeeps ==
  ASSUME EditInv, NEW r \in Requests, NEW p \in People, NEW n \in Annotations,
         NEW delete \in BOOLEAN, NEW f \in Fields, CheckAnnotation(r, p, n, delete, f)
  PROVE  EditInv'
<1> DEFINE call == [kind |-> "annotation", by |-> p, id |-> n, delete |-> delete,
                    fields |-> f, row |-> annotations[n]]
<1>1. annotations[n] \in Note
  BY DEF CheckAnnotation, HasNote, EditInv, CommentsType
<1>2. call \in NoteCall /\ call.kind = "annotation"
  BY <1>1 DEF NoteCall
<1> HIDE DEF call
<1>3. calls' = [calls EXCEPT ![r] = call] /\ UNCHANGED <<comments, annotations, named>>
  BY DEF CheckAnnotation, call
<1>4. CommentsType' /\ CallsFindRows'
  BY <1>2, <1>3 DEF EditInv, CommentsType, CallsFindRows
<1>5. CommentsAsNamed' /\ NotesAsNamed'
  BY <1>3 DEF EditInv, CommentsAsNamed, NotesAsNamed, HasNote
<1> QED BY <1>4, <1>5 DEF EditInv

\* The UPDATE of an annotation, whatever it was when the request checked it.
LEMMA UpdateAnnotationKeeps ==
  ASSUME EditInv, NEW r \in Requests, UpdateAnnotation(r)
  PROVE  EditInv'
<1> DEFINE call == calls[r]
           n == call.id
<1>1. call \in NoteCall
  BY NoteCallType DEF UpdateAnnotation, EditInv
<1>2. n \in Annotations /\ call.fields \in Fields
  BY <1>1 DEF NoteCall
<1>3. CASE ~HasNote(n)
  <2>1. calls' = [calls EXCEPT ![r] = Unset] /\ UNCHANGED <<comments, annotations, named>>
    BY <1>3 DEF UpdateAnnotation
  <2> QED BY <2>1 DEF EditInv, CommentsType, CallsFindRows, CommentsAsNamed, NotesAsNamed, HasNote
<1>4. CASE HasNote(n)
  <2> DEFINE new == Merged(annotations[n], call)
             name == [named[n] EXCEPT !.text = Given(call.fields.text, @),
                                      !.private = Given(call.fields.private, @)]
  <2>1. annotations[n] \in Note /\ named[n] \in Name
    BY <1>2, <1>4 DEF HasNote, EditInv, CommentsType
  <2>2. annotations[n].text = named[n].text /\ annotations[n].private = named[n].private
    BY <1>2, <1>4 DEF EditInv, NotesAsNamed
  <2>3. /\ call.fields.text \in {Unset} \cup People
        /\ call.fields.private \in {Unset} \cup BOOLEAN
    BY <1>2 DEF Fields
  <2>4. /\ Given(call.fields.text, annotations[n].text) \in People
        /\ Given(call.fields.private, annotations[n].private) \in BOOLEAN
    BY <2>1, <2>3 DEF Given, Note
  <2>5. /\ new \in Note /\ name \in Name
        /\ new.text = name.text /\ new.private = name.private
        /\ name.body = named[n].body /\ name.deleted = named[n].deleted
    <3>1. /\ new = [annotations[n] EXCEPT
                      !.text = Given(call.fields.text, annotations[n].text),
                      !.private = Given(call.fields.private, annotations[n].private)]
          /\ name = [named[n] EXCEPT
                      !.text = Given(call.fields.text, annotations[n].text),
                      !.private = Given(call.fields.private, annotations[n].private)]
      BY <2>1, <2>2 DEF Merged, Note, Name
    <3> QED BY <2>1, <2>4, <3>1 DEF Note, Name
  <2>6. /\ annotations' = [annotations EXCEPT ![n] = new]
        /\ named' = [named EXCEPT ![n] = name]
        /\ calls' = [calls EXCEPT ![r] = Unset] /\ comments' = comments
    <3>1. /\ named' = [named EXCEPT ![n].text = Given(call.fields.text, @),
                                    ![n].private = Given(call.fields.private, @)]
          /\ annotations' = [annotations EXCEPT ![n] = Merged(@, call)]
          /\ calls' = [calls EXCEPT ![r] = Unset] /\ comments' = comments
      BY <1>4 DEF UpdateAnnotation
    <3> QED BY <1>2, <3>1 DEF EditInv, CommentsType
  <2> HIDE DEF new, name
  <2>7. CommentsType' /\ CallsFindRows'
    BY <1>2, <2>5, <2>6 DEF EditInv, CommentsType, CallsFindRows
  <2>8. CommentsAsNamed' /\ NotesAsNamed'
    BY <1>2, <2>5, <2>6 DEF EditInv, CommentsType, CommentsAsNamed, NotesAsNamed, HasNote
  <2> QED BY <2>7, <2>8 DEF EditInv
<1> QED BY <1>3, <1>4

LEMMA DeleteAnnotationKeeps ==
  ASSUME EditInv, NEW r \in Requests, DeleteAnnotation(r)
  PROVE  EditInv'
<1>1. calls[r] \in NoteCall
  BY NoteCallType DEF DeleteAnnotation, EditInv
<1>2. calls[r].id \in Annotations
  BY <1>1 DEF NoteCall
<1>3. /\ annotations' = [annotations EXCEPT ![calls[r].id] = Gone]
      /\ calls' = [calls EXCEPT ![r] = Unset]
      /\ UNCHANGED <<comments, named>>
  BY DEF DeleteAnnotation
<1>4. CommentsType' /\ CallsFindRows'
  BY <1>2, <1>3 DEF EditInv, CommentsType, CallsFindRows
<1>5. CommentsAsNamed' /\ NotesAsNamed'
  BY <1>2, <1>3 DEF EditInv, CommentsType, CommentsAsNamed, NotesAsNamed, HasNote
<1> QED BY <1>4, <1>5 DEF EditInv

LEMMA EditStep == EditInv /\ [CollaborationNext]_cvars => EditInv'
<1> SUFFICES ASSUME EditInv, [CollaborationNext]_cvars PROVE EditInv'
  OBVIOUS
<1>1. CASE UNCHANGED cvars
  BY <1>1 DEF cvars, EditInv, CommentsType, CallsFindRows, CommentsAsNamed, NotesAsNamed, HasNote
<1>2. CASE CollaborationNext
  BY <1>2, CreateCommentKeeps, CheckCommentKeeps, EditCommentKeeps, CreateAnnotationKeeps,
     CheckAnnotationKeeps, UpdateAnnotationKeeps, DeleteAnnotationKeeps DEF CollaborationNext
<1> QED BY <1>1, <1>2

\* For any people, comments, annotations and requests: every field of a row that
\* is there holds what the last request that named it asked for, so overlapping
\* edits compose and a private annotation stays hidden from the others.
THEOREM EditsComposeHolds == CollaborationSpec => []EditsCompose
<1>1. EditInv => EditsCompose
  BY DEF EditInv, CommentsType, CommentsAsNamed, NotesAsNamed, EditsCompose, ListedComments,
         ListedAnnotations
<1> QED BY <1>1, EditInvInitially, EditStep, PTL DEF CollaborationSpec

-----------------------------------------------------------------------------
(* Enrichment: the types of what the proofs look at.                       *)

Matchings == {"insert", "touch", "matched"}
Enrichings == {"summarize", "indexSummary", "extract", "entity", "tag", "insertTags",
               "indexTags", "enriched"}

EnrichmentType ==
  /\ subs \in [Subs -> {None, Deleted} \cup SUBSET Docs]
  /\ notices \in [Subs -> [Docs -> {None, "unread", "read"}]]
  /\ summary \in [Docs -> Triggers \cup {None}]
  /\ tags \in [Docs -> SUBSET Triggers]
  /\ entry \in [Docs -> [summary : Triggers \cup {None}, tags : Triggers \cup {None}]]
  /\ pc \in [Triggers -> {"idle", "done"} \cup Matchings \cup Enrichings]
  /\ doc \in [Triggers -> Docs \cup {None}]
  /\ todo = [t \in Triggers |-> todo[t]]
  /\ seen = [t \in Triggers |-> seen[t]]
  /\ wrote = [t \in Triggers |-> wrote[t]]

-----------------------------------------------------------------------------
(* Every match has its notification.                                       *)

Ahead(t, s) == \E i \in 1..Len(todo[t]) : todo[t][i] = s

\* A matching request has, for each live subscription that its SELECT found, a
\* notification that is committed, one it has inserted itself, or the
\* subscription still on its list.
MatchLocal(t) ==
  pc[t] \in Matchings =>
    /\ doc[t] \in Docs
    /\ todo[t] \in Seq(Subs)
    /\ seen[t] \subseteq Subs
    /\ pc[t] = "matched" <=> todo[t] = <<>>
    /\ pc[t] = "touch" => Notice(Head(todo[t]), doc[t]) \in wrote[t]
    /\ \A s \in seen[t] :
         /\ subs[s] # None
         /\ Live(s) => \/ Ahead(t, s)
                       \/ notices[s][doc[t]] # None
                       \/ Notice(s, doc[t]) \in wrote[t]

MatchInv ==
  /\ EnrichmentType
  /\ \A t \in Triggers : MatchLocal(t)
  /\ due \subseteq Subs \X Docs
  /\ MatchDelivers

-----------------------------------------------------------------------------
(* The entry follows the tables.                                           *)

Holds(t, d) == Enriching(t) /\ doc[t] = d /\ SummaryRow(d) \in wrote[t]
TagsRow(d) == <<"tags", d>>

\* What a request has written at each step.  One whose first model failed has
\* written nothing; any other that is past "summarize" holds its summary row.
EnrichLocal(t) ==
  /\ pc[t] \in {"idle", "summarize"} => wrote[t] = {}
  /\ Enriching(t) =>
       /\ doc[t] \in Docs
       /\ pc[t] = "summarize" \/ Holds(t, doc[t]) \/ (pc[t] = "enriched" /\ wrote[t] = {})
       /\ pc[t] = "indexTags" => TagsRow(doc[t]) \in wrote[t]
       /\ TagsRow(doc[t]) \in wrote[t] => pc[t] \in {"indexTags", "enriched"}
       /\ pc[t] = "insertTags" \/ TagsRow(doc[t]) \in wrote[t] => seen[t] = tags[doc[t]]

OneHolder ==
  \A d \in Docs, t, u \in Triggers : Holds(t, d) /\ Holds(u, d) => t = u

\* The request whose summary, or whose tags, the entry shows already.
ShowsSummary(t, d) == Holds(t, d) /\ pc[t] # "indexSummary"
ShowsTags(t, d) == Holds(t, d) /\ pc[t] = "enriched" /\ TagsRow(d) \in wrote[t]

EntryState(d) ==
  d \notin drifted =>
    /\ \A t \in Triggers : ShowsSummary(t, d) => entry[d].summary = t
    /\ \A t \in Triggers : ShowsTags(t, d) => entry[d].tags = t
    /\ (\A t \in Triggers : ~ShowsSummary(t, d)) => entry[d].summary = summary[d]
    /\ (\A t \in Triggers : ~ShowsTags(t, d)) =>
         tags[d] = IF entry[d].tags = None THEN {} ELSE {entry[d].tags}

EntryInv ==
  /\ EnrichmentType
  /\ \A t \in Triggers : EnrichLocal(t)
  /\ OneHolder
  /\ \A d \in Docs : EntryState(d)

-----------------------------------------------------------------------------
(* Every step keeps the types.                                             *)

LEMMA TypesOfUnchanged ==
  ASSUME EnrichmentType, UNCHANGED <<rows, entry, request>>
  PROVE  EnrichmentType'
BY DEF EnrichmentType, rows, request

LEMMA EndKeepsTypes ==
  ASSUME EnrichmentType, NEW t \in Triggers, End(t),
         subs' = subs, notices' \in [Subs -> [Docs -> {None, "unread", "read"}]],
         summary' \in [Docs -> Triggers \cup {None}], tags' \in [Docs -> SUBSET Triggers],
         entry' = entry
  PROVE  EnrichmentType'
BY DEF EnrichmentType, End

LEMMA TriggerTypes ==
  ASSUME EnrichmentType, NEW t \in Triggers, TriggerStep(t)
  PROVE  EnrichmentType'
<1>1. ASSUME NEW d \in Docs, StartMatch(t, d) \/ StartEnrich(t, d) PROVE EnrichmentType'
  <2>1. CASE StartMatch(t, d)
    <3>1. todo' = [u \in Triggers |-> todo'[u]]
      BY <2>1 DEF StartMatch, EnrichmentType
    <3>2. /\ pc' = [pc EXCEPT ![t] = IF Matching(d) = {} THEN "matched" ELSE "insert"]
          /\ doc' = [doc EXCEPT ![t] = d] /\ seen' = [seen EXCEPT ![t] = Matching(d)]
          /\ UNCHANGED <<subs, notices, summary, tags, entry, wrote>>
      BY <2>1 DEF StartMatch, rows
    <3> QED BY <3>1, <3>2 DEF EnrichmentType, Matchings, Enrichings
  <2>2. CASE StartEnrich(t, d)
    BY <2>2 DEF StartEnrich, EnrichmentType, rows, Matchings, Enrichings
  <2> QED BY <1>1, <2>1, <2>2
<1>2. ASSUME Lose(t) PROVE EnrichmentType'
  <2>1. End(t) /\ UNCHANGED <<rows, entry>>
    BY <1>2 DEF Lose
  <2>2. /\ subs' = subs /\ notices' = notices /\ summary' = summary /\ tags' = tags
        /\ entry' = entry
    BY <2>1 DEF rows
  <2> QED BY <2>1, <2>2, EndKeepsTypes DEF EnrichmentType
<1>3. CASE CreateNotification(t)
  BY <1>3 DEF CreateNotification, CreateNotice, Continue, EnrichmentType, rows, Matchings, Enrichings
<1>4. CASE TouchSubscription(t)
  BY <1>4 DEF TouchSubscription, Continue, EnrichmentType, rows, Matchings, Enrichings
<1>5. CASE CommitMatch(t)
  <2>1. notices' \in [Subs -> [Docs -> {None, "unread", "read"}]]
    BY <1>5 DEF CommitMatch, EnrichmentType
  <2> QED BY <1>5, <2>1, EndKeepsTypes DEF CommitMatch, EnrichmentType
<1>6. CASE Summarize(t) \/ ExtractEntities(t) \/ DeleteTags(t) \/ InsertTags(t) \/ ModelFails(t)
  BY <1>6 DEF Summarize, ExtractEntities, DeleteTags, InsertTags, ModelFails, EnrichmentType,
              rows, Matchings, Enrichings
<1>7. CASE LinkEntity(t)
  BY <1>7 DEF LinkEntity, Continue, EnrichmentType, rows, Matchings, Enrichings
<1>8. CASE IndexSummary(t) \/ IndexTags(t)
  <2>1. /\ pc' \in [Triggers -> {"idle", "done"} \cup Matchings \cup Enrichings]
        /\ UNCHANGED <<subs, notices, summary, tags, doc, todo, seen, wrote>>
    BY <1>8 DEF IndexSummary, IndexTags, EnrichmentType, rows, Matchings, Enrichings
  <2>2. entry' \in [Docs -> [summary : Triggers \cup {None}, tags : Triggers \cup {None}]]
    <3> DEFINE Entry == [summary : Triggers \cup {None}, tags : Triggers \cup {None}]
    <3>1. CASE doc[t] \in Docs
      <4>1. entry[doc[t]] \in Entry
        BY <3>1 DEF EnrichmentType
      <4>2. /\ [entry[doc[t]] EXCEPT !.summary = t] \in Entry
            /\ [entry[doc[t]] EXCEPT !.tags = t] \in Entry
        BY <4>1
      <4> HIDE DEF Entry
      <4>3. entry \in [Docs -> Entry]
        BY DEF EnrichmentType, Entry
      <4>4. entry' \in [Docs -> Entry]
        BY <1>8, <4>2, <4>3 DEF IndexSummary, IndexTags, UpdateEntry
      <4> QED BY <4>4 DEF Entry
    <3>2. CASE doc[t] \notin Docs
      <4>1. entry' = entry
        BY <1>8, <3>2 DEF IndexSummary, IndexTags, UpdateEntry, EnrichmentType
      <4> QED BY <4>1 DEF EnrichmentType
    <3> QED BY <3>1, <3>2
  <2> QED BY <2>1, <2>2 DEF EnrichmentType
<1>9. CASE CommitEnrich(t)
  <2>1. /\ summary' \in [Docs -> Triggers \cup {None}] /\ tags' \in [Docs -> SUBSET Triggers]
    BY <1>9 DEF CommitEnrich, EnrichmentType
  <2> QED BY <1>9, <2>1, EndKeepsTypes DEF CommitEnrich, EnrichmentType
<1> QED
  BY <1>1, <1>2, <1>3, <1>4, <1>5, <1>6, <1>7, <1>8, <1>9
     DEF TriggerStep, MatchStep, EnrichStep, CreateNotificationFails, InsertTagsFails,
         AbortDeadlock, Fails

LEMMA OwnerTypes ==
  ASSUME EnrichmentType, NEW s \in Subs, OwnerStep(s)
  PROVE  EnrichmentType'
<1>1. UNCHANGED <<summary, tags, entry, pc, doc, todo, seen, wrote>>
  BY DEF OwnerStep, CreateSubscription, UpdateSubscription, DeleteSubscription, MarkRead, request
<1>2. subs' \in [Subs -> {None, Deleted} \cup SUBSET Docs]
  BY DEF OwnerStep, CreateSubscription, UpdateSubscription, DeleteSubscription, MarkRead,
         EnrichmentType
<1>3. notices' \in [Subs -> [Docs -> {None, "unread", "read"}]]
  <2>1. CASE notices' = notices
    BY <2>1 DEF EnrichmentType
  <2>2. CASE DeleteSubscription(s)
    BY <2>2 DEF DeleteSubscription, EnrichmentType
  <2>3. ASSUME NEW d \in Docs, MarkRead(s, d)
        PROVE  notices' \in [Subs -> [Docs -> {None, "unread", "read"}]]
    BY <2>3 DEF MarkRead, EnrichmentType
  <2> QED BY <2>1, <2>2, <2>3 DEF OwnerStep, CreateSubscription, UpdateSubscription
<1> QED BY <1>1, <1>2, <1>3 DEF EnrichmentType

LEMMA ReindexTypes ==
  ASSUME EnrichmentType, NEW d \in Docs, Reindex(d)
  PROVE  EnrichmentType'
BY DEF EnrichmentType, Reindex, rows, request, NoEntry

LEMMA TypesStep == EnrichmentType /\ [EnrichmentNext]_evars => EnrichmentType'
<1>1. ASSUME EnrichmentType, UNCHANGED evars PROVE EnrichmentType'
  BY <1>1, TypesOfUnchanged DEF evars
<1> QED BY <1>1, TriggerTypes, OwnerTypes, ReindexTypes DEF EnrichmentNext

-----------------------------------------------------------------------------
(* The steps of a matching request.                                        *)

\* A step leaves a request's own state alone, brings no subscription back and
\* takes no notification of a live one away.
LEMMA MatchFrame ==
  ASSUME NEW t, MatchLocal(t),
         /\ pc'[t] = pc[t] /\ doc'[t] = doc[t] /\ todo'[t] = todo[t]
         /\ seen'[t] = seen[t] /\ wrote'[t] = wrote[t],
         \A s \in Subs : subs[s] # None => subs'[s] # None /\ (Live(s)' => Live(s)),
         \A s \in Subs, d \in Docs :
           Live(s)' /\ notices[s][d] # None => notices'[s][d] # None
  PROVE  MatchLocal(t)'
<1> SUFFICES ASSUME pc'[t] \in Matchings PROVE MatchLocal(t)'
  BY DEF MatchLocal
<1>1. /\ doc[t] \in Docs /\ todo[t] \in Seq(Subs) /\ seen[t] \subseteq Subs
      /\ pc[t] = "matched" <=> todo[t] = <<>>
      /\ pc[t] = "touch" => Notice(Head(todo[t]), doc[t]) \in wrote[t]
  BY DEF MatchLocal
<1>2. ASSUME NEW s \in seen'[t]
      PROVE  /\ subs'[s] # None
             /\ Live(s)' => \/ Ahead(t, s)'
                            \/ notices'[s][doc'[t]] # None
                            \/ Notice(s, doc'[t]) \in wrote'[t]
  <2>1. s \in Subs /\ subs[s] # None
    BY <1>1, <1>2 DEF MatchLocal
  <2>2. Ahead(t, s)' <=> Ahead(t, s)
    BY DEF Ahead
  <2>3. Live(s) => Ahead(t, s) \/ notices[s][doc[t]] # None \/ Notice(s, doc[t]) \in wrote[t]
    BY <1>2 DEF MatchLocal
  <2> QED BY <1>1, <2>1, <2>2, <2>3
<1>3. ASSUME pc'[t] = "touch" PROVE Notice(Head(todo'[t]), doc'[t]) \in wrote'[t]
  BY <1>1, <1>3
<1> QED BY <1>1, <1>2, <1>3 DEF MatchLocal, Notice

\* What a step of one request leaves alone: the other requests.
Kept(u) ==
  /\ pc'[u] = pc[u] /\ doc'[u] = doc[u] /\ todo'[u] = todo[u]
  /\ seen'[u] = seen[u] /\ wrote'[u] = wrote[u]

LEMMA OthersKept ==
  ASSUME EnrichmentType, NEW t \in Triggers, TriggerStep(t), NEW u \in Triggers, u # t
  PROVE  Kept(u)
<1> USE DEF Kept, EnrichmentType
<1>1. ASSUME NEW d \in Docs, StartMatch(t, d) PROVE Kept(u)
  <2>1. todo'[u] = todo[u]
    BY <1>1 DEF StartMatch
  <2> QED BY <1>1, <2>1 DEF StartMatch
<1>2. ASSUME NEW d \in Docs, StartEnrich(t, d) PROVE Kept(u)
  BY <1>2 DEF StartEnrich
<1>3. ASSUME End(t) PROVE Kept(u)
  BY <1>3 DEF End
<1>4. CASE ExtractEntities(t)
  <2>1. todo'[u] = todo[u]
    BY <1>4 DEF ExtractEntities
  <2> QED BY <1>4, <2>1 DEF ExtractEntities
<1>5. CASE CreateNotification(t) \/ TouchSubscription(t) \/ LinkEntity(t)
  BY <1>5 DEF CreateNotification, CreateNotice, TouchSubscription, LinkEntity, Continue
<1>6. CASE Summarize(t) \/ IndexSummary(t) \/ DeleteTags(t) \/ InsertTags(t) \/ IndexTags(t) \/ ModelFails(t)
  BY <1>6 DEF Summarize, IndexSummary, DeleteTags, InsertTags, IndexTags, ModelFails
<1> QED
  BY <1>1, <1>2, <1>3, <1>4, <1>5, <1>6
     DEF TriggerStep, MatchStep, EnrichStep, CreateNotificationFails, InsertTagsFails,
         AbortDeadlock, Fails, CommitMatch, CommitEnrich, Lose

LEMMA LengthOfEmpty ==
  ASSUME NEW S, NEW q \in Seq(S)
  PROVE  q = <<>> <=> Len(q) = 0
OBVIOUS

\* The list that a SELECT returns, in any order, holds every row once.
LEMMA OrderListsAll ==
  ASSUME NEW S, IsFiniteSet(S), NEW order \in Bijection(1..Cardinality(S), S)
  PROVE  /\ order \in Seq(S)
         /\ Len(order) = Cardinality(S)
         /\ order = <<>> <=> S = {}
         /\ \A s \in S : \E i \in 1..Len(order) : order[i] = s
<1>1. Cardinality(S) \in Nat /\ (Cardinality(S) = 0 <=> S = {})
  BY FS_CardinalityType, FS_EmptySet
<1>2. order \in [1..Cardinality(S) -> S] /\ \A s \in S : \E i \in 1..Cardinality(S) : order[i] = s
  BY DEF Bijection, Surjection
<1>3. order \in Seq(S) /\ Len(order) = Cardinality(S)
  BY <1>1, <1>2
<1>4. order = <<>> <=> Len(order) = 0
  BY <1>3
<1> QED BY <1>1, <1>2, <1>3, <1>4

LEMMA StartMatchKeeps ==
  ASSUME MatchInv, NEW t \in Triggers, NEW d \in Docs, StartMatch(t, d)
  PROVE  MatchLocal(t)'
<1> DEFINE M == Matching(d)
<1>1. IsFiniteSet(M) /\ M \subseteq Subs
  BY SubsAssumption, FS_Subset DEF Matching
<1>2. PICK order \in Bijection(1..Cardinality(M), M) : todo' = [todo EXCEPT ![t] = order]
  BY DEF StartMatch
<1>3. /\ order \in Seq(M) /\ (order = <<>> <=> M = {})
      /\ \A s \in M : \E i \in 1..Len(order) : order[i] = s
  BY <1>1, OrderListsAll
<1>4. order \in Seq(Subs)
  BY <1>1, <1>3
<1>5. /\ todo'[t] = order /\ doc'[t] = d /\ seen'[t] = M /\ subs' = subs
      /\ pc'[t] = IF M = {} THEN "matched" ELSE "insert"
  BY <1>2 DEF StartMatch, rows, MatchInv, EnrichmentType
<1>6. \A s \in M : subs[s] # None
  BY DEF Matching, Live
<1>7. \A s \in M : Ahead(t, s)'
  BY <1>3, <1>5 DEF Ahead
<1> QED BY <1>1, <1>3, <1>4, <1>5, <1>6, <1>7 DEF MatchLocal

\* The subscription at the head of the list has its notification: go on.
LEMMA ContinueKeeps ==
  ASSUME EnrichmentType, NEW t \in Triggers, MatchLocal(t), pc[t] \in {"insert", "touch"},
         Continue(t, "insert", "matched"),
         doc' = doc, seen' = seen, subs' = subs, notices' = notices, wrote[t] \subseteq wrote'[t],
         \/ notices[Head(todo[t])][doc[t]] # None
         \/ Notice(Head(todo[t]), doc[t]) \in wrote[t]
  PROVE  MatchLocal(t)'
<1>1. /\ todo[t] \in Seq(Subs) /\ todo[t] # <<>> /\ doc[t] \in Docs /\ seen[t] \subseteq Subs
  BY DEF MatchLocal, Matchings
<1>2. /\ todo'[t] = Tail(todo[t])
      /\ pc'[t] = IF Len(todo[t]) = 1 THEN "matched" ELSE "insert"
  BY DEF Continue, EnrichmentType
<1>3. /\ Tail(todo[t]) \in Seq(Subs) /\ Len(Tail(todo[t])) = Len(todo[t]) - 1
      /\ Len(todo[t]) \in Nat \ {0}
      /\ Tail(todo[t]) = <<>> <=> Len(todo[t]) = 1
  <2>1. Len(todo[t]) \in Nat \ {0}
    BY <1>1
  <2>2. Tail(todo[t]) \in Seq(Subs) /\ Len(Tail(todo[t])) = Len(todo[t]) - 1
    BY <1>1
  <2>3. Tail(todo[t]) = <<>> <=> Len(Tail(todo[t])) = 0
    BY <2>2, LengthOfEmpty
  <2> QED BY <2>1, <2>2, <2>3
<1>4. ASSUME NEW s \in seen[t], Live(s)
      PROVE  Ahead(t, s)' \/ notices[s][doc[t]] # None \/ Notice(s, doc[t]) \in wrote[t]
  <2>1. CASE Ahead(t, s)
    <3>1. PICK i \in 1..Len(todo[t]) : todo[t][i] = s
      BY <2>1 DEF Ahead
    <3>2. CASE i = 1
      BY <1>1, <3>1, <3>2
    <3>3. CASE i # 1
      <4>1. i - 1 \in 1..Len(Tail(todo[t])) /\ Tail(todo[t])[i - 1] = s
        BY <1>1, <1>3, <3>1, <3>3
      <4> QED BY <1>2, <4>1 DEF Ahead
    <3> QED BY <3>2, <3>3
  <2>2. CASE ~Ahead(t, s)
    BY <1>4, <2>2 DEF MatchLocal, Matchings
  <2> QED BY <2>1, <2>2
<1>5. \A s \in seen[t] : subs[s] # None
  BY DEF MatchLocal, Matchings
<1>6. \A s : Live(s)' <=> Live(s)
  BY DEF Live
<1> QED BY <1>1, <1>2, <1>3, <1>4, <1>5, <1>6 DEF MatchLocal

LEMMA MatchingKeepsItself ==
  ASSUME MatchInv, NEW t \in Triggers, TriggerStep(t)
  PROVE  MatchLocal(t)'
<1>1. ASSUME pc'[t] \notin Matchings PROVE MatchLocal(t)'
  BY <1>1 DEF MatchLocal
<1>2. ASSUME End(t) PROVE MatchLocal(t)'
  <2>1. pc'[t] = "done"
    BY <1>2 DEF End, MatchInv, EnrichmentType
  <2> QED BY <1>1, <2>1 DEF Matchings
<1>3. CASE EnrichStep(t) \/ \E d \in Docs : StartEnrich(t, d)
  <2>1. End(t) \/ pc'[t] \in Enrichings
    BY <1>3 DEF EnrichStep, Summarize, IndexSummary, ExtractEntities, LinkEntity, Continue,
                DeleteTags, InsertTags, InsertTagsFails, Lose, IndexTags, ModelFails,
                CommitEnrich, StartEnrich, MatchInv, EnrichmentType, Enrichings
  <2> QED BY <1>1, <1>2, <2>1 DEF Matchings, Enrichings
<1>4. CASE CreateNotification(t)
  <2>1. /\ MatchLocal(t) /\ pc[t] = "insert" /\ CreateNotice(t, Head(todo[t]))
        /\ doc' = doc /\ seen' = seen /\ subs' = subs /\ notices' = notices
    BY <1>4 DEF CreateNotification, CreateNotice, MatchInv, rows
  <2>2. CASE notices[Head(todo[t])][doc[t]] # None
    <3>1. Continue(t, "insert", "matched") /\ wrote' = wrote
      BY <2>1, <2>2 DEF CreateNotice
    <3> QED BY <2>1, <2>2, <3>1, ContinueKeeps DEF MatchInv
  <2>3. CASE notices[Head(todo[t])][doc[t]] = None
    <3>1. /\ wrote'[t] = wrote[t] \cup {Notice(Head(todo[t]), doc[t])}
          /\ pc'[t] = "touch" /\ todo' = todo
      BY <2>1, <2>3 DEF CreateNotice, MatchInv, EnrichmentType
    <3>2. todo[t] \in Seq(Subs) /\ todo[t] # <<>> /\ doc[t] \in Docs /\ seen[t] \subseteq Subs
      BY <2>1 DEF MatchLocal, Matchings
    <3>3. ASSUME NEW s \in seen[t]
          PROVE  /\ subs'[s] # None
                 /\ Live(s)' => Ahead(t, s)' \/ notices'[s][doc'[t]] # None \/ Notice(s, doc'[t]) \in wrote'[t]
      BY <2>1, <3>1, <3>3 DEF MatchLocal, Matchings, Live, Ahead
    <3>4. Notice(Head(todo'[t]), doc'[t]) \in wrote'[t]
      BY <2>1, <3>1
    <3> QED BY <2>1, <3>1, <3>2, <3>3, <3>4 DEF MatchLocal
  <2> QED BY <2>2, <2>3
<1>5. CASE TouchSubscription(t)
  <2>1. /\ MatchLocal(t) /\ pc[t] = "touch" /\ Continue(t, "insert", "matched")
        /\ doc' = doc /\ seen' = seen /\ subs' = subs /\ notices' = notices
        /\ wrote[t] \subseteq wrote'[t]
    BY <1>5 DEF TouchSubscription, MatchInv, EnrichmentType, rows
  <2>2. Notice(Head(todo[t]), doc[t]) \in wrote[t]
    BY <2>1 DEF MatchLocal, Matchings
  <2> QED BY <2>1, <2>2, ContinueKeeps DEF MatchInv
<1> QED
  BY <1>2, <1>3, <1>4, <1>5, StartMatchKeeps
     DEF TriggerStep, MatchStep, CreateNotificationFails, CommitMatch, AbortDeadlock, Fails, Lose

LEMMA TriggerKeepsMatches ==
  ASSUME MatchInv, NEW t \in Triggers, TriggerStep(t)
  PROVE  MatchInv'
<1>1. subs' = subs /\ \A s \in Subs, d \in Docs : notices[s][d] # None => notices'[s][d] # None
  <2>1. CASE CommitMatch(t)
    <3>1. "unread" # None
      BY NoneAssumption
    <3> QED BY <2>1, <3>1 DEF CommitMatch
  <2>2. CASE ~CommitMatch(t)
    <3>1. UNCHANGED <<subs, notices>>
      BY <2>2 DEF TriggerStep, MatchStep, EnrichStep, StartMatch, StartEnrich, CreateNotification,
           CreateNotice, CreateNotificationFails, TouchSubscription, Lose, Summarize,
           IndexSummary, ExtractEntities, LinkEntity, DeleteTags, InsertTags, InsertTagsFails,
           IndexTags, ModelFails, CommitEnrich, AbortDeadlock, Fails, rows
    <3> QED BY <3>1
  <2> QED BY <2>1, <2>2
<1>2. ASSUME NEW u \in Triggers PROVE MatchLocal(u)'
  <2>1. CASE u = t
    BY <2>1, MatchingKeepsItself
  <2>2. CASE u # t
    <3>1. Kept(u) /\ MatchLocal(u)
      BY <2>2, OthersKept DEF MatchInv
    <3> QED BY <1>1, <3>1, MatchFrame DEF Kept, Live
  <2> QED BY <2>1, <2>2
<1>3. due' \subseteq Subs \X Docs /\ MatchDelivers'
  <2>1. CASE CommitMatch(t)
    <3>1. /\ doc[t] \in Docs /\ seen[t] \subseteq Subs /\ todo[t] = <<>>
      BY <2>1 DEF CommitMatch, MatchInv, MatchLocal, Matchings
    <3>2. due' = due \cup {<<s, doc[t]>> : s \in {s \in seen[t] : Live(s)}}
      BY <2>1 DEF CommitMatch
    <3>3. ASSUME NEW s \in seen[t], Live(s) PROVE notices'[s][doc[t]] # None
      <4>1. notices[s][doc[t]] # None \/ Notice(s, doc[t]) \in wrote[t]
        BY <2>1, <3>1, <3>3 DEF CommitMatch, MatchInv, MatchLocal, Matchings, Ahead
      <4>2. notices'[s][doc[t]] =
              IF Notice(s, doc[t]) \in wrote[t] THEN "unread" ELSE notices[s][doc[t]]
        BY <2>1, <3>1, <3>3 DEF CommitMatch
      <4> QED BY <4>1, <4>2, NoneAssumption
    <3>4. ASSUME NEW p \in due' PROVE p \in Subs \X Docs /\ notices'[p[1]][p[2]] # None
      <4>1. CASE p \in due
        BY <1>1, <4>1 DEF MatchInv, MatchDelivers
      <4>2. CASE p \notin due
        <5>1. PICK s \in seen[t] : Live(s) /\ p = <<s, doc[t]>>
          BY <3>2, <3>4, <4>2
        <5> QED BY <3>1, <3>3, <5>1
      <4> QED BY <4>1, <4>2
    <3> QED BY <3>4 DEF MatchDelivers
  <2>2. CASE ~CommitMatch(t)
    <3>1. due' = due
      BY <2>2 DEF TriggerStep, MatchStep, EnrichStep, StartMatch, StartEnrich, CreateNotification,
           CreateNotice, CreateNotificationFails, TouchSubscription, Lose, Summarize,
           IndexSummary, ExtractEntities, LinkEntity, DeleteTags, InsertTags, InsertTagsFails,
           IndexTags, ModelFails, CommitEnrich, AbortDeadlock, Fails, rows
    <3>2. ASSUME NEW p \in due PROVE notices'[p[1]][p[2]] # None
      BY <1>1, <3>2 DEF MatchInv, MatchDelivers
    <3> QED BY <3>1, <3>2 DEF MatchInv, MatchDelivers
  <2> QED BY <2>1, <2>2
<1> QED BY <1>2, <1>3, TriggerTypes DEF MatchInv

LEMMA OwnerKeepsMatches ==
  ASSUME MatchInv, NEW s \in Subs, OwnerStep(s)
  PROVE  MatchInv'
<1>1. EnrichmentType /\ EnrichmentType'
  BY OwnerTypes DEF MatchInv
<1>2. ASSUME NEW u \in Triggers PROVE Kept(u)
  BY DEF OwnerStep, CreateSubscription, UpdateSubscription, DeleteSubscription, MarkRead,
         request, Kept
<1>3. \A q \in Subs : subs[q] # None => subs'[q] # None /\ (Live(q)' => Live(q))
  <2>1. CASE CreateSubscription(s) \/ \E d \in Docs : MarkRead(s, d)
    BY <1>1, <2>1 DEF CreateSubscription, MarkRead, Live, EnrichmentType
  <2>2. CASE UpdateSubscription(s)
    <3>1. PICK similar \in SUBSET Docs : subs' = [subs EXCEPT ![s] = similar] /\ Live(s)
      BY <2>2 DEF UpdateSubscription
    <3>2. similar # None
      BY NoneAssumption
    <3> QED BY <1>1, <3>1, <3>2 DEF Live, EnrichmentType
  <2>3. CASE DeleteSubscription(s)
    <3>1. subs' = [subs EXCEPT ![s] = Deleted] /\ Deleted # None
      BY <2>3, NoneAssumption DEF DeleteSubscription
    <3> QED BY <1>1, <3>1 DEF Live, EnrichmentType
  <2> QED BY <2>1, <2>2, <2>3 DEF OwnerStep
<1>4. \A q \in Subs, d \in Docs : Live(q)' /\ notices[q][d] # None => notices'[q][d] # None
  <2>1. CASE notices' = notices
    BY <2>1
  <2>2. CASE DeleteSubscription(s)
    <3>1. ~Live(s)' /\ notices' = [notices EXCEPT ![s] = [d \in Docs |-> None]]
      BY <1>1, <2>2 DEF DeleteSubscription, EnrichmentType, Live
    <3> QED BY <1>1, <3>1 DEF EnrichmentType
  <2>3. ASSUME NEW e \in Docs, MarkRead(s, e)
        PROVE  \A q \in Subs, d \in Docs : notices[q][d] # None => notices'[q][d] # None
    BY <1>1, <2>3, NoneAssumption DEF MarkRead, EnrichmentType
  <2> QED BY <2>1, <2>2, <2>3 DEF OwnerStep, CreateSubscription, UpdateSubscription
<1>5. \A u \in Triggers : MatchLocal(u)'
  BY <1>2, <1>3, <1>4, MatchFrame DEF MatchInv, Kept
<1>6. due' \subseteq Subs \X Docs /\ MatchDelivers'
  <2>1. CASE DeleteSubscription(s)
    <3>1. due' = {p \in due : p[1] # s} /\ notices' = [notices EXCEPT ![s] = [d \in Docs |-> None]]
      BY <2>1 DEF DeleteSubscription
    <3> QED BY <1>1, <3>1 DEF MatchInv, MatchDelivers, EnrichmentType
  <2>2. ASSUME NEW e \in Docs, MarkRead(s, e) PROVE due' \subseteq Subs \X Docs /\ MatchDelivers'
    <3>1. due' = due /\ \A q \in Subs, d \in Docs : notices[q][d] # None => notices'[q][d] # None
      BY <1>1, <2>2, NoneAssumption DEF MarkRead, EnrichmentType
    <3> QED BY <3>1 DEF MatchInv, MatchDelivers
  <2>3. CASE CreateSubscription(s) \/ UpdateSubscription(s)
    BY <2>3 DEF CreateSubscription, UpdateSubscription, MatchInv, MatchDelivers
  <2> QED BY <2>1, <2>2, <2>3 DEF OwnerStep
<1> QED BY <1>1, <1>5, <1>6 DEF MatchInv

LEMMA QuietKeepsMatches ==
  ASSUME MatchInv, UNCHANGED <<rows, request, due>>, EnrichmentType'
  PROVE  MatchInv'
<1>1. /\ subs' = subs /\ notices' = notices /\ due' = due
      /\ \A u \in Triggers : Kept(u)
  BY DEF rows, request, Kept
<1>2. \A u \in Triggers : MatchLocal(u)'
  BY <1>1, MatchFrame DEF MatchInv, Kept, Live
<1> QED BY <1>1, <1>2 DEF MatchInv, MatchDelivers

LEMMA EnrichmentTypeInitially == EnrichmentInit => EnrichmentType
BY DEF EnrichmentInit, EnrichmentType, NoEntry

\* For any subscriptions, documents and requests: every pair that a committed
\* request found to match has its notification, also when the request that
\* inserted it first was lost.
THEOREM MatchDeliversHolds == EnrichmentSpec => []MatchDelivers
<1>1. EnrichmentInit => MatchInv
  BY EnrichmentTypeInitially
     DEF EnrichmentInit, MatchInv, MatchLocal, MatchDelivers, Matchings
<1>2. MatchInv /\ [EnrichmentNext]_evars => MatchInv'
  <2> SUFFICES ASSUME MatchInv, [EnrichmentNext]_evars PROVE MatchInv'
    OBVIOUS
  <2>1. EnrichmentType'
    BY TypesStep DEF MatchInv
  <2>2. CASE UNCHANGED evars \/ \E d \in Docs : Reindex(d)
    BY <2>1, <2>2, QuietKeepsMatches DEF evars, Reindex
  <2> QED BY <2>2, TriggerKeepsMatches, OwnerKeepsMatches DEF EnrichmentNext
<1>3. MatchInv => MatchDelivers
  BY DEF MatchInv
<1> QED BY <1>1, <1>2, <1>3, PTL DEF EnrichmentSpec

-----------------------------------------------------------------------------
(* The steps of an enriching request.                                      *)

LEMMA RowsDiffer ==
  ASSUME NEW d, NEW e
  PROVE  SummaryRow(d) # TagsRow(e) /\ EntityRow(d) # TagsRow(e)
BY DEF SummaryRow, TagsRow, EntityRow

\* A request that is left alone holds and shows what it did.
LEMMA KeptShows ==
  ASSUME NEW u, Kept(u), NEW d
  PROVE  /\ Holds(u, d)' <=> Holds(u, d)
         /\ ShowsSummary(u, d)' <=> ShowsSummary(u, d)
         /\ ShowsTags(u, d)' <=> ShowsTags(u, d)
BY DEF Kept, Holds, Enriching, ShowsSummary, ShowsTags, SummaryRow, TagsRow

LEMMA EntryFrame ==
  ASSUME NEW d \in Docs, EntryState(d), drifted \subseteq drifted',
         entry'[d] = entry[d], summary'[d] = summary[d], tags'[d] = tags[d],
         \A u \in Triggers : /\ ShowsSummary(u, d)' <=> ShowsSummary(u, d)
                             /\ ShowsTags(u, d)' <=> ShowsTags(u, d)
  PROVE  EntryState(d)'
BY DEF EntryState

\* A request that is left alone stays consistent while nobody changes the tags
\* of the document it holds.
LEMMA EnrichFrame ==
  ASSUME NEW u, EnrichLocal(u), Kept(u),
         Holds(u, doc[u]) => tags'[doc[u]] = tags[doc[u]]
  PROVE  EnrichLocal(u)'
<1>1. Holds(u, doc[u])' <=> Holds(u, doc[u])
  BY DEF Kept, Holds, Enriching, SummaryRow
<1>2. ASSUME ~Enriching(u) PROVE EnrichLocal(u)'
  BY <1>2 DEF EnrichLocal, Kept, Enriching
<1>3. ASSUME Enriching(u) PROVE EnrichLocal(u)'
  <2> DEFINE tagged == TagsRow(doc[u]) \in wrote[u]
  <2>1. /\ doc[u] \in Docs
        /\ pc[u] = "summarize" \/ Holds(u, doc[u]) \/ (pc[u] = "enriched" /\ wrote[u] = {})
        /\ pc[u] \in {"idle", "summarize"} => wrote[u] = {}
        /\ pc[u] = "indexTags" => tagged
        /\ tagged => pc[u] \in {"indexTags", "enriched"}
        /\ pc[u] = "insertTags" \/ tagged => seen[u] = tags[doc[u]]
    BY <1>3 DEF EnrichLocal
  <2>2. tagged' <=> tagged
    BY DEF Kept, TagsRow
  <2>3. ASSUME pc[u] = "insertTags" \/ tagged PROVE seen[u] = tags'[doc[u]]
    <3>1. Holds(u, doc[u])
      BY <2>1, <2>3
    <3> QED BY <2>1, <2>3, <3>1
  <2> QED BY <1>1, <2>1, <2>2, <2>3 DEF EnrichLocal, Kept
<1> QED BY <1>2, <1>3

LEMMA TriggerEntry ==
  ASSUME EntryInv, NEW t \in Triggers, TriggerStep(t), EnrichLocal(t)', OneHolder',
         \A d \in Docs : EntryState(d)',
         \A u \in Triggers \ {t} : Holds(u, doc[u]) => tags'[doc[u]] = tags[doc[u]]
  PROVE  EntryInv'
<1>1. ASSUME NEW u \in Triggers PROVE EnrichLocal(u)'
  <2>1. CASE u # t
    BY <2>1, OthersKept, EnrichFrame DEF EntryInv
  <2> QED BY <2>1
<1> QED BY <1>1, TriggerTypes DEF EntryInv

\* A step that changes no table and no entry, and after which t holds and shows
\* no more and no less than before, except on documents that have drifted.
LEMMA QuietEntry ==
  ASSUME EntryInv, NEW t \in Triggers, TriggerStep(t), EnrichLocal(t)',
         UNCHANGED <<summary, tags, entry>>, drifted \subseteq drifted',
         \A d \in Docs : Holds(t, d)' => Holds(t, d),
         \A d \in Docs \ drifted' : /\ ShowsSummary(t, d)' <=> ShowsSummary(t, d)
                                    /\ ShowsTags(t, d)' <=> ShowsTags(t, d)
  PROVE  EntryInv'
<1>1. \A u \in Triggers \ {t}, d \in Docs :
        /\ Holds(u, d)' <=> Holds(u, d)
        /\ ShowsSummary(u, d)' <=> ShowsSummary(u, d)
        /\ ShowsTags(u, d)' <=> ShowsTags(u, d)
  BY OthersKept, KeptShows DEF EntryInv
<1>2. OneHolder'
  <2>1. \A u \in Triggers, d \in Docs : Holds(u, d)' => Holds(u, d)
    BY <1>1
  <2> QED BY <2>1 DEF OneHolder, EntryInv
<1>3. ASSUME NEW d \in Docs PROVE EntryState(d)'
  <2>1. CASE d \in drifted'
    BY <2>1 DEF EntryState
  <2>2. CASE d \notin drifted'
    <3>1. \A u \in Triggers : /\ ShowsSummary(u, d)' <=> ShowsSummary(u, d)
                              /\ ShowsTags(u, d)' <=> ShowsTags(u, d)
      BY <1>1, <2>2
    <3> QED BY <3>1, EntryFrame DEF EntryInv
  <2> QED BY <2>1, <2>2
<1> QED BY <1>2, <1>3, TriggerEntry

\* A request that is not enriching, and one that ends.
LEMMA NotEnrichingEntry ==
  ASSUME EntryInv, NEW t \in Triggers, TriggerStep(t), UNCHANGED <<summary, tags, entry>>,
         drifted \subseteq drifted', pc'[t] \notin Enrichings \cup {"idle"},
         Enriching(t) => doc[t] \in drifted'
  PROVE  EntryInv'
<1>1. ~Enriching(t)'
  BY DEF Enriching, Enrichings
<1>2. EnrichLocal(t)'
  BY <1>1 DEF EnrichLocal, Enrichings
<1>3. \A d \in Docs : ~Holds(t, d)' /\ ~ShowsSummary(t, d)' /\ ~ShowsTags(t, d)'
  BY <1>1 DEF Holds, ShowsSummary, ShowsTags
<1>4. \A d \in Docs \ drifted' : ~Holds(t, d)
  BY DEF Holds
<1> QED BY <1>2, <1>3, <1>4, QuietEntry DEF ShowsSummary, ShowsTags

LEMMA EndEntry ==
  ASSUME EntryInv, NEW t \in Triggers, TriggerStep(t), Lose(t)
  PROVE  EntryInv'
<1>1. pc'[t] = "done"
  BY DEF Lose, End, EntryInv, EnrichmentType
<1> QED BY <1>1, NotEnrichingEntry DEF Lose, Enrichings, rows

LEMMA MatchEntry ==
  ASSUME EntryInv, NEW t \in Triggers, TriggerStep(t),
         MatchStep(t) \/ \E d \in Docs : StartMatch(t, d)
  PROVE  EntryInv'
<1>1. CASE CreateNotificationFails(t)
  BY <1>1, EndEntry DEF CreateNotificationFails
<1>2. CASE ~CreateNotificationFails(t)
  <2>1. /\ UNCHANGED <<summary, tags, entry, drifted>>
        /\ pc[t] \notin Enrichings
    BY <1>2 DEF MatchStep, CreateNotification, CreateNotice, TouchSubscription, CommitMatch,
                StartMatch, Enrichings, rows
  <2>2. pc'[t] \notin Enrichings \cup {"idle"}
    BY <1>2 DEF MatchStep, CreateNotification, CreateNotice, TouchSubscription, CommitMatch,
                StartMatch, Enrichings, Continue, End, EntryInv, EnrichmentType
  <2> QED BY <2>1, <2>2, NotEnrichingEntry DEF Enriching, Enrichings
<1> QED BY <1>1, <1>2

LEMMA StartEnrichEntry ==
  ASSUME EntryInv, NEW t \in Triggers, TriggerStep(t), NEW d \in Docs, StartEnrich(t, d)
  PROVE  EntryInv'
<1>1. /\ pc[t] = "idle" /\ wrote[t] = {}
      /\ pc'[t] = "summarize" /\ doc'[t] = d /\ wrote'[t] = {}
      /\ UNCHANGED <<summary, tags, entry, drifted>>
  BY DEF StartEnrich, EntryInv, EnrichmentType, EnrichLocal, rows
<1>2. EnrichLocal(t)'
  BY <1>1 DEF EnrichLocal
<1>3. \A e \in Docs : ~Holds(t, e) /\ ~Holds(t, e)'
  BY <1>1 DEF Holds
<1> QED BY <1>1, <1>2, <1>3, QuietEntry DEF ShowsSummary, ShowsTags

\* The summary row's lock: no other request holds the document.
LEMMA SummarizeEntry ==
  ASSUME EntryInv, NEW t \in Triggers, TriggerStep(t), Summarize(t)
  PROVE  EntryInv'
<1> DEFINE d == doc[t]
<1>1. /\ pc[t] = "summarize" /\ wrote[t] = {} /\ d \in Docs
  BY DEF Summarize, EntryInv, EnrichLocal, Enriching
<1>2. /\ pc'[t] = "indexSummary" /\ doc'[t] = d /\ wrote'[t] = {SummaryRow(d)}
      /\ UNCHANGED <<summary, tags, entry, drifted>>
  BY <1>1 DEF Summarize, EntryInv, EnrichmentType, rows
<1>3. ASSUME NEW u \in Triggers \ {t} PROVE ~Holds(u, d)
  <2>1. Needs(t) = {SummaryRow(d)}
    BY <1>1 DEF Needs
  <2>2. SummaryRow(d) \notin wrote[u]
    BY <2>1 DEF Summarize, Waiting, WaitsFor
  <2> QED BY <2>2 DEF Holds
<1>4. EnrichLocal(t)'
  <2>1. Holds(t, d)'
    BY <1>2 DEF Holds, Enriching, SummaryRow
  <2>2. TagsRow(d) \notin wrote'[t]
    BY <1>2, RowsDiffer
  <2>3. TagsRow(d)' = TagsRow(d)
    BY <1>2 DEF TagsRow
  <2> QED BY <1>1, <1>2, <2>1, <2>2, <2>3 DEF EnrichLocal, Holds, TagsRow
<1>5. \A u \in Triggers \ {t}, e \in Docs : Holds(u, e)' <=> Holds(u, e)
  BY OthersKept, KeptShows DEF EntryInv
<1>6. \A e \in Docs : Holds(t, e)' => e = d
  BY <1>2 DEF Holds
<1>7. OneHolder'
  BY <1>3, <1>5, <1>6 DEF OneHolder, EntryInv
<1>8. ASSUME NEW e \in Docs PROVE EntryState(e)'
  <2>1. ASSUME NEW u \in Triggers
        PROVE  /\ ShowsSummary(u, e)' <=> ShowsSummary(u, e)
               /\ ShowsTags(u, e)' <=> ShowsTags(u, e)
    <3>1. CASE u = t
      BY <1>1, <1>2, <3>1 DEF ShowsSummary, ShowsTags, Holds
    <3>2. CASE u # t
      BY <3>2, OthersKept, KeptShows DEF EntryInv
    <3> QED BY <3>1, <3>2
  <2> QED BY <1>2, <2>1, EntryFrame DEF EntryInv
<1> QED BY <1>2, <1>4, <1>7, <1>8, TriggerEntry

\* The steps between the two writes to Elasticsearch.
LEMMA BetweenEntry ==
  ASSUME EntryInv, NEW t \in Triggers, TriggerStep(t),
         ExtractEntities(t) \/ LinkEntity(t) \/ DeleteTags(t) \/ InsertTags(t)
  PROVE  EntryInv'
<1> DEFINE d == doc[t]
<1>1. /\ pc[t] \in {"extract", "entity", "tag", "insertTags"} /\ d \in Docs
      /\ Holds(t, d) /\ TagsRow(d) \notin wrote[t]
      /\ pc[t] = "insertTags" => seen[t] = tags[d]
  BY DEF ExtractEntities, LinkEntity, DeleteTags, InsertTags, EntryInv, EnrichLocal, Enriching
<1>2. /\ doc'[t] = d /\ wrote[t] \subseteq wrote'[t]
      /\ UNCHANGED <<summary, tags, entry, drifted>>
  BY DEF ExtractEntities, LinkEntity, DeleteTags, InsertTags, EntryInv, EnrichmentType, rows
<1>3. /\ pc'[t] \in {"entity", "tag", "insertTags", "indexTags"}
      /\ pc'[t] = "indexTags" <=> TagsRow(d) \in wrote'[t]
      /\ pc'[t] \in {"insertTags", "indexTags"} => seen'[t] = tags[d]
  <2>1. CASE ExtractEntities(t)
    BY <1>1, <2>1 DEF ExtractEntities, EntryInv, EnrichmentType
  <2>2. CASE LinkEntity(t)
    <3>1. wrote'[t] = wrote[t] \cup {EntityRow(Head(todo[t]))} /\ pc'[t] \in {"entity", "tag"}
      BY <2>2 DEF LinkEntity, Continue, EntryInv, EnrichmentType
    <3> QED BY <1>1, <3>1, RowsDiffer
  <2>3. CASE DeleteTags(t)
    BY <1>1, <2>3 DEF DeleteTags, EntryInv, EnrichmentType
  <2>4. CASE InsertTags(t)
    BY <1>1, <2>4 DEF InsertTags, EntryInv, EnrichmentType, TagsRow
  <2> QED BY <2>1, <2>2, <2>3, <2>4
<1>4. \A e : Holds(t, e)' <=> e = d
  BY <1>1, <1>2, <1>3 DEF Holds, Enriching, SummaryRow
<1>5. \A e : Holds(t, e) <=> e = d
  BY <1>1 DEF Holds
<1>6. EnrichLocal(t)'
  BY <1>1, <1>2, <1>3, <1>4 DEF EnrichLocal, Enriching, TagsRow
<1>7. \A e : /\ ShowsSummary(t, e)' <=> ShowsSummary(t, e)
             /\ ShowsTags(t, e)' <=> ShowsTags(t, e)
  BY <1>1, <1>3, <1>4, <1>5 DEF ShowsSummary, ShowsTags
<1> QED BY <1>2, <1>4, <1>5, <1>6, <1>7, QuietEntry

LEMMA ModelFailsEntry ==
  ASSUME EntryInv, NEW t \in Triggers, TriggerStep(t), ModelFails(t)
  PROVE  EntryInv'
<1> DEFINE d == doc[t]
<1>1. /\ pc[t] \in {"summarize", "extract", "tag"} /\ d \in Docs
      /\ IF pc[t] = "summarize" THEN wrote[t] = {} ELSE Holds(t, d)
      /\ TagsRow(d) \notin wrote[t]
  BY DEF ModelFails, EntryInv, EnrichLocal, Enriching, Holds
<1>2. /\ pc'[t] = "enriched" /\ doc'[t] = d /\ wrote'[t] = wrote[t]
      /\ UNCHANGED <<summary, tags, entry, drifted>>
  BY DEF ModelFails, EntryInv, EnrichmentType, rows
<1>3. \A e : Holds(t, e)' <=> Holds(t, e)
  BY <1>1, <1>2 DEF Holds, Enriching, SummaryRow
<1>4. EnrichLocal(t)'
  BY <1>1, <1>2, <1>3 DEF EnrichLocal, Enriching, TagsRow
<1>5. \A e : /\ ShowsSummary(t, e)' <=> ShowsSummary(t, e)
             /\ ShowsTags(t, e)' <=> ShowsTags(t, e)
  BY <1>1, <1>2, <1>3 DEF ShowsSummary, ShowsTags, Holds, TagsRow
<1> QED BY <1>2, <1>3, <1>4, <1>5, QuietEntry

LEMMA IndexEntry ==
  ASSUME EntryInv, NEW t \in Triggers, TriggerStep(t), IndexSummary(t) \/ IndexTags(t)
  PROVE  EntryInv'
<1>0. PICK d \in Docs : d = doc[t]
  BY DEF IndexSummary, IndexTags, EntryInv, EnrichLocal, Enriching
<1> DEFINE value == IF pc[t] = "indexSummary" THEN [entry[d] EXCEPT !.summary = t]
                                              ELSE [entry[d] EXCEPT !.tags = t]
<1>1. /\ pc[t] \in {"indexSummary", "indexTags"} /\ d \in Docs /\ Holds(t, d)
      /\ pc[t] = "indexTags" <=> TagsRow(d) \in wrote[t]
      /\ pc[t] = "indexTags" => seen[t] = tags[d]
  BY <1>0 DEF IndexSummary, IndexTags, EntryInv, EnrichLocal, Enriching
<1>2. /\ doc'[t] = d /\ wrote'[t] = wrote[t] /\ seen'[t] = seen[t]
      /\ UNCHANGED <<summary, tags>>
      /\ pc'[t] = IF pc[t] = "indexSummary" THEN "extract" ELSE "enriched"
  BY <1>0 DEF IndexSummary, IndexTags, EntryInv, EnrichmentType, rows
<1>3. \/ entry' = [entry EXCEPT ![d] = value] /\ drifted' = drifted
      \/ entry' = entry /\ drifted' = drifted \cup {d}
  BY <1>0 DEF IndexSummary, IndexTags, UpdateEntry
<1>4. \A e : Holds(t, e)' <=> Holds(t, e)
  BY <1>1, <1>2 DEF Holds, Enriching, SummaryRow
<1>5. EnrichLocal(t)'
  BY <1>1, <1>2, <1>4 DEF EnrichLocal, Enriching, TagsRow
<1>6. \A u \in Triggers \ {t}, e \in Docs :
        /\ Holds(u, e)' <=> Holds(u, e)
        /\ ShowsSummary(u, e)' <=> ShowsSummary(u, e)
        /\ ShowsTags(u, e)' <=> ShowsTags(u, e)
  BY OthersKept, KeptShows DEF EntryInv
<1>7. OneHolder'
  BY <1>4, <1>6 DEF OneHolder, EntryInv
<1>8. ASSUME NEW e \in Docs PROVE EntryState(e)'
  <2>1. CASE e # d
    <3>1. entry'[e] = entry[e] /\ drifted \subseteq drifted'
      BY <1>3, <2>1 DEF EntryInv, EnrichmentType
    <3>2. ~Holds(t, e) /\ ~Holds(t, e)'
      BY <1>0, <1>4, <2>1 DEF Holds
    <3>3. \A u \in Triggers : /\ ShowsSummary(u, e)' <=> ShowsSummary(u, e)
                              /\ ShowsTags(u, e)' <=> ShowsTags(u, e)
      BY <1>6, <3>2 DEF ShowsSummary, ShowsTags
    <3> QED BY <1>2, <3>1, <3>3, EntryFrame DEF EntryInv
  <2>2. CASE e = d /\ d \in drifted'
    BY <2>2 DEF EntryState
  <2>3. CASE e = d /\ d \notin drifted'
    <3>1. entry'[d] = value /\ d \notin drifted
      BY <1>1, <1>3, <2>3 DEF EntryInv, EnrichmentType
    <3>2. entry[d] \in [summary : Triggers \cup {None}, tags : Triggers \cup {None}]
      BY <1>1 DEF EntryInv, EnrichmentType
    <3>3. \A u \in Triggers \ {t} : ~Holds(u, d) /\ ~Holds(u, d)'
      BY <1>1, <1>6 DEF OneHolder, EntryInv
    <3>4. \A u \in Triggers \ {t} : /\ ~ShowsSummary(u, d)' /\ ~ShowsTags(u, d)'
                                    /\ ~ShowsSummary(u, d) /\ ~ShowsTags(u, d)
      BY <3>3 DEF ShowsSummary, ShowsTags
    <3>5. ShowsSummary(t, d)'
      BY <1>1, <1>2, <1>4 DEF ShowsSummary
    <3>6. ASSUME pc[t] = "indexSummary" PROVE EntryState(d)'
      <4>1. ~ShowsTags(t, d) /\ ~ShowsTags(t, d)'
        BY <1>1, <1>2, <3>6 DEF ShowsTags
      <4>2. tags[d] = IF entry[d].tags = None THEN {} ELSE {entry[d].tags}
        BY <1>1, <3>1, <3>4, <4>1 DEF EntryInv, EntryState
      <4>3. value.summary = t /\ value.tags = entry[d].tags
        BY <3>2, <3>6
      <4> HIDE DEF value
      <4> QED BY <1>2, <3>1, <3>4, <3>5, <4>1, <4>2, <4>3 DEF EntryState
    <3>7. ASSUME pc[t] = "indexTags" PROVE EntryState(d)'
      <4>1. ShowsTags(t, d)' /\ ShowsSummary(t, d)
        BY <1>1, <1>2, <1>4, <3>7 DEF ShowsTags, ShowsSummary, TagsRow
      <4>2. entry[d].summary = t
        BY <1>1, <3>1, <4>1 DEF EntryInv, EntryState
      <4>3. value.tags = t /\ value.summary = entry[d].summary
        BY <3>2, <3>7
      <4> HIDE DEF value
      <4> QED BY <1>2, <3>1, <3>4, <3>5, <4>1, <4>2, <4>3 DEF EntryState
    <3> QED BY <1>1, <2>3, <3>6, <3>7
  <2> QED BY <2>1, <2>2, <2>3
<1> QED BY <1>2, <1>5, <1>7, <1>8, TriggerEntry

\* The COMMIT: the tables catch up with the entry.
LEMMA CommitEntry ==
  ASSUME EntryInv, NEW t \in Triggers, TriggerStep(t), CommitEnrich(t)
  PROVE  EntryInv'
<1>0. PICK d \in Docs : d = doc[t]
  BY DEF CommitEnrich, EntryInv, EnrichLocal, Enriching
<1>1. /\ pc[t] = "enriched" /\ d \in Docs
      /\ Holds(t, d) \/ wrote[t] = {}
      /\ TagsRow(d) \in wrote[t] => seen[t] = tags[d]
  BY <1>0 DEF CommitEnrich, EntryInv, EnrichLocal, Enriching
<1>2. /\ summary' = [summary EXCEPT ![d] = IF SummaryRow(d) \in wrote[t] THEN t ELSE @]
      /\ tags' = [tags EXCEPT ![d] = IF TagsRow(d) \in wrote[t] THEN (@ \ seen[t]) \cup {t} ELSE @]
      /\ UNCHANGED <<entry, drifted>>
  BY <1>0 DEF CommitEnrich, TagsRow
<1>3. pc'[t] = "done"
  BY DEF CommitEnrich, End, EntryInv, EnrichmentType
<1>4. EnrichLocal(t)' /\ \A e : ~Holds(t, e)' /\ ~ShowsSummary(t, e)' /\ ~ShowsTags(t, e)'
  BY <1>3 DEF EnrichLocal, Enriching, Holds, ShowsSummary, ShowsTags
<1>5. \A u \in Triggers \ {t}, e \in Docs :
        /\ Holds(u, e)' <=> Holds(u, e)
        /\ ShowsSummary(u, e)' <=> ShowsSummary(u, e)
        /\ ShowsTags(u, e)' <=> ShowsTags(u, e)
  BY OthersKept, KeptShows DEF EntryInv
<1>6. OneHolder'
  BY <1>4, <1>5 DEF OneHolder, EntryInv
<1>7. \A e \in Docs : e # d => summary'[e] = summary[e] /\ tags'[e] = tags[e]
  BY <1>2 DEF EntryInv, EnrichmentType
<1>8. ASSUME wrote[t] = {} PROVE summary' = summary /\ tags' = tags
  BY <1>2, <1>8 DEF EntryInv, EnrichmentType
<1>9. ASSUME NEW u \in Triggers \ {t}, Holds(u, doc[u]) PROVE tags'[doc[u]] = tags[doc[u]]
  <2>1. doc[u] \in Docs
    BY <1>9 DEF Holds, EntryInv, EnrichLocal
  <2>2. CASE doc[u] # d
    BY <1>7, <2>1, <2>2
  <2>3. CASE doc[u] = d
    BY <1>1, <1>8, <1>9, <2>3 DEF EntryInv, OneHolder
  <2> QED BY <2>2, <2>3
<1>10. ASSUME NEW e \in Docs PROVE EntryState(e)'
  <2>1. CASE ~Holds(t, e)
    <3>1. summary'[e] = summary[e] /\ tags'[e] = tags[e]
      BY <1>1, <1>7, <1>8, <2>1
    <3>2. \A u \in Triggers : /\ ShowsSummary(u, e)' <=> ShowsSummary(u, e)
                              /\ ShowsTags(u, e)' <=> ShowsTags(u, e)
      BY <1>4, <1>5, <2>1 DEF ShowsSummary, ShowsTags
    <3> QED BY <1>2, <3>1, <3>2, EntryFrame DEF EntryInv
  <2>2. CASE Holds(t, e) /\ e \in drifted
    BY <1>2, <2>2 DEF EntryState
  <2>3. CASE Holds(t, e) /\ e \notin drifted
    <3>1. e = d /\ SummaryRow(d) \in wrote[t]
      BY <1>0, <2>3 DEF Holds
    <3>2. ShowsSummary(t, d)
      BY <1>1, <2>3, <3>1 DEF ShowsSummary
    <3>3. entry[d].summary = t /\ summary'[d] = t
      BY <1>1, <1>2, <2>3, <3>1, <3>2 DEF EntryInv, EntryState, EnrichmentType
    <3>4. \A u \in Triggers : /\ ~ShowsSummary(u, d)' /\ ~ShowsTags(u, d)'
                              /\ u # t => ~ShowsTags(u, d)
      BY <1>1, <1>4, <1>5, <2>3, <3>1 DEF EntryInv, OneHolder, ShowsSummary, ShowsTags
    <3>5. tags'[d] = IF entry[d].tags = None THEN {} ELSE {entry[d].tags}
      <4>1. CASE TagsRow(d) \in wrote[t]
        <5>1. ShowsTags(t, d)
          BY <1>1, <2>3, <3>1, <4>1 DEF ShowsTags
        <5>2. entry[d].tags = t /\ t # None
          BY <1>1, <2>3, <3>1, <5>1, NoneAssumption DEF EntryInv, EntryState
        <5>3. tags'[d] = {t}
          BY <1>1, <1>2, <4>1 DEF EntryInv, EnrichmentType
        <5> QED BY <5>2, <5>3
      <4>2. CASE TagsRow(d) \notin wrote[t]
        <5>1. ~ShowsTags(t, d) /\ tags'[d] = tags[d]
          BY <1>1, <1>2, <4>2 DEF ShowsTags, EntryInv, EnrichmentType
        <5> QED BY <1>1, <2>3, <3>1, <3>4, <5>1 DEF EntryInv, EntryState
      <4> QED BY <4>1, <4>2
    <3> QED BY <1>2, <3>1, <3>3, <3>4, <3>5 DEF EntryState
  <2> QED BY <2>1, <2>2, <2>3
<1> QED BY <1>4, <1>6, <1>9, <1>10, TriggerEntry

LEMMA TriggerKeepsEntries ==
  ASSUME EntryInv, NEW t \in Triggers, TriggerStep(t)
  PROVE  EntryInv'
BY EndEntry, MatchEntry, StartEnrichEntry, SummarizeEntry, BetweenEntry, ModelFailsEntry,
   IndexEntry, CommitEntry
   DEF TriggerStep, EnrichStep, InsertTagsFails, AbortDeadlock, Fails

\* A step of an owner, or an indexing, leaves every request alone.
LEMMA OutsideEntry ==
  ASSUME EntryInv, EnrichmentType', UNCHANGED <<summary, tags, request>>, drifted \subseteq drifted',
         \A d \in Docs \ drifted' : entry'[d] = entry[d]
  PROVE  EntryInv'
<1>1. \A u \in Triggers : Kept(u)
  BY DEF request, Kept
<1>2. \A u \in Triggers, d \in Docs :
        /\ Holds(u, d)' <=> Holds(u, d)
        /\ ShowsSummary(u, d)' <=> ShowsSummary(u, d)
        /\ ShowsTags(u, d)' <=> ShowsTags(u, d)
  BY <1>1, KeptShows
<1>3. \A u \in Triggers : EnrichLocal(u)'
  BY <1>1, EnrichFrame DEF EntryInv
<1>4. OneHolder'
  BY <1>2 DEF OneHolder, EntryInv
<1>5. ASSUME NEW d \in Docs PROVE EntryState(d)'
  <2>1. CASE d \in drifted'
    BY <2>1 DEF EntryState
  <2>2. CASE d \notin drifted'
    BY <1>2, <2>2, EntryFrame DEF EntryInv
  <2> QED BY <2>1, <2>2
<1> QED BY <1>3, <1>4, <1>5 DEF EntryInv

LEMMA EntryStep ==
  ASSUME EntryInv, [EnrichmentNext]_evars
  PROVE  EntryInv'
<1>1. EnrichmentType'
  BY TypesStep DEF EntryInv
<1>2. CASE UNCHANGED evars
  <2>1. UNCHANGED <<summary, tags, request, drifted, entry>>
    BY <1>2 DEF evars, rows
  <2> QED BY <1>1, <2>1, OutsideEntry
<1>3. ASSUME NEW s \in Subs, OwnerStep(s) PROVE EntryInv'
  <2>1. UNCHANGED <<summary, tags, request, drifted, entry>>
    BY <1>3 DEF OwnerStep, CreateSubscription, UpdateSubscription, DeleteSubscription, MarkRead
  <2> QED BY <1>1, <2>1, OutsideEntry
<1>4. ASSUME NEW d \in Docs, Reindex(d) PROVE EntryInv'
  <2>1. /\ UNCHANGED <<summary, tags, request>> /\ drifted' = drifted \cup {d}
        /\ entry' = [entry EXCEPT ![d] = NoEntry]
    BY <1>4 DEF Reindex, rows
  <2>2. \A e \in Docs \ drifted' : entry'[e] = entry[e]
    BY <2>1 DEF EntryInv, EnrichmentType
  <2> QED BY <1>1, <2>1, <2>2, OutsideEntry
<1> QED BY <1>2, <1>3, <1>4, TriggerKeepsEntries DEF EnrichmentNext

\* For any documents and requests: while no request works on a document that has
\* not drifted, its entry shows the summary of the table and the one tag set of
\* the table.  The lock on the summary row is what makes it so: only one request
\* at a time can be between its first write and its COMMIT.
THEOREM EntryFollowsTablesHolds == EnrichmentSpec => []EntryFollowsTables
<1>1. EnrichmentInit => EntryInv
  <2> SUFFICES ASSUME EnrichmentInit PROVE EntryInv
    OBVIOUS
  <2>1. \A t \in Triggers : ~Enriching(t) /\ wrote[t] = {}
    BY DEF EnrichmentInit, Enriching
  <2>2. \A t \in Triggers, d \in Docs : ~Holds(t, d)
    BY <2>1 DEF Holds
  <2>3. \A d \in Docs : EntryState(d)
    BY <2>2 DEF EnrichmentInit, EntryState, ShowsSummary, ShowsTags, NoEntry
  <2> QED BY <2>1, <2>2, <2>3, EnrichmentTypeInitially DEF EntryInv, EnrichLocal, OneHolder
<1>2. EntryInv => EntryFollowsTables
  <2> SUFFICES ASSUME EntryInv, NEW d \in Docs \ drifted,
                      \A t \in Triggers : doc[t] = d => ~Enriching(t)
               PROVE  /\ entry[d].summary = summary[d]
                      /\ tags[d] = IF entry[d].tags = None THEN {} ELSE {entry[d].tags}
    BY DEF EntryFollowsTables
  <2>1. \A t \in Triggers : ~ShowsSummary(t, d) /\ ~ShowsTags(t, d)
    BY DEF ShowsSummary, ShowsTags, Holds
  <2> QED BY <2>1 DEF EntryInv, EntryState
<1> QED BY <1>1, <1>2, EntryStep, PTL DEF EnrichmentSpec
=============================================================================
