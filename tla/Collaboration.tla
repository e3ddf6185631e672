--------------------------- MODULE Collaboration ---------------------------
(***************************************************************************)
(* Comments and annotations on a document.  Each request is one READ       *)
(* COMMITTED transaction; one that changes or deletes a row reads it first *)
(* (existence, permission) and writes it with a later statement, which     *)
(* names the row by its id alone.                                          *)
(***************************************************************************)
EXTENDS Integers

CONSTANTS
  People,        \* users who may read the document
  Moderators,    \* those whose token says is_admin
  Comments, Annotations,
  Requests,      \* requests that may run at once
  MaxRequests,   \* bound on requests
  Gone, Unset

ASSUME PeopleAssumption == Moderators \subseteq People /\ Unset \notin People
ASSUME RequestsAssumption == MaxRequests \in Nat

VARIABLES
  comments,     \* per comment, Unset or its row
  annotations,  \* per annotation, Unset, its row, or Gone
  calls,        \* per request, what it has checked and will write, or Unset
  named,        \* per row, the last committed value requested of each field
  requests

cvars == <<comments, annotations, calls, named, requests>>

Comment == [author : People, body : People, deleted : BOOLEAN]
Note == [owner : People, text : People, private : BOOLEAN]
\* No row looks like the absence of one.
ASSUME NoRowAssumption == Unset \notin Comment /\ {Unset, Gone} \cap Note = {}
Unnamed == [body |-> Unset, deleted |-> Unset, text |-> Unset, private |-> Unset]

CollaborationInit ==
  /\ comments = [c \in Comments |-> Unset]
  /\ annotations = [n \in Annotations |-> Unset]
  /\ calls = [r \in Requests |-> Unset]
  /\ named = [x \in Comments \cup Annotations |-> Unnamed]
  /\ requests = 0

Request == requests < MaxRequests /\ requests' = requests + 1

HasNote(n) == annotations[n] \notin {Unset, Gone}

-----------------------------------------------------------------------------
\* A text is told by the person who wrote it.
CreateComment(p, c) ==
  /\ Request /\ comments[c] = Unset
  /\ comments' = [comments EXCEPT ![c] = [author |-> p, body |-> p, deleted |-> FALSE]]
  /\ named' = [named EXCEPT ![c].body = p, ![c].deleted = FALSE]
  /\ UNCHANGED <<annotations, calls>>

\* get_by_id and can_edit, or can_delete
CheckComment(r, p, c, delete) ==
  /\ Request /\ calls[r] = Unset
  /\ comments[c] # Unset /\ ~comments[c].deleted
  /\ comments[c].author = p \/ p \in Moderators
  /\ calls' = [calls EXCEPT ![r] = [kind |-> "comment", by |-> p, id |-> c, delete |-> delete]]
  /\ UNCHANGED <<comments, annotations, named>>

UpdateComment(r) ==
  LET call == calls[r]
  IN /\ call # Unset /\ call.kind = "comment" /\ ~call.delete
     /\ comments' = [comments EXCEPT ![call.id].body = call.by]
     /\ named' = [named EXCEPT ![call.id].body = call.by]
     /\ calls' = [calls EXCEPT ![r] = Unset]
     /\ UNCHANGED <<annotations, requests>>

SoftDelete(r) ==
  LET call == calls[r]
  IN /\ call # Unset /\ call.kind = "comment" /\ call.delete
     /\ comments' = [comments EXCEPT ![call.id].deleted = TRUE]
     /\ named' = [named EXCEPT ![call.id].deleted = TRUE]
     /\ calls' = [calls EXCEPT ![r] = Unset]
     /\ UNCHANGED <<annotations, requests>>

-----------------------------------------------------------------------------
CreateAnnotation(p, n, private) ==
  /\ Request /\ annotations[n] = Unset
  /\ annotations' = [annotations EXCEPT ![n] = [owner |-> p, text |-> p, private |-> private]]
  /\ named' = [named EXCEPT ![n].text = p, ![n].private = private]
  /\ UNCHANGED <<comments, calls>>

\* get_by_id and can_modify.  The body names a field or leaves it out.
CheckAnnotation(r, p, n, delete, fields) ==
  /\ Request /\ calls[r] = Unset
  /\ HasNote(n) /\ (annotations[n].owner = p \/ p \in Moderators)
  /\ calls' = [calls EXCEPT ![r] = [kind |-> "annotation", by |-> p, id |-> n,
                                    delete |-> delete, fields |-> fields, row |-> annotations[n]]]
  /\ UNCHANGED <<comments, annotations, named>>

Fields == [text : {Unset} \cup People, private : {Unset} \cup BOOLEAN]
Given(value, otherwise) == IF value = Unset THEN otherwise ELSE value

\* A mutant: the fields left out are written back as the check read them.
MergedAsRead(row, call) ==
  [row EXCEPT !.text = Given(call.fields.text, call.row.text),
              !.private = Given(call.fields.private, call.row.private)]

\* The UPDATE names the given fields only.
Merged(row, call) ==
  [row EXCEPT !.text = Given(call.fields.text, @), !.private = Given(call.fields.private, @)]

UpdateAnnotation(r) ==
  LET call == calls[r]
  IN /\ call # Unset /\ call.kind = "annotation" /\ ~call.delete
     /\ IF HasNote(call.id)
        THEN /\ annotations' = [annotations EXCEPT ![call.id] = Merged(@, call)]
             /\ named' = [named EXCEPT ![call.id].text = Given(call.fields.text, @),
                                       ![call.id].private = Given(call.fields.private, @)]
        ELSE UNCHANGED <<annotations, named>>
     /\ calls' = [calls EXCEPT ![r] = Unset]
     /\ UNCHANGED <<comments, requests>>

DeleteAnnotation(r) ==
  LET call == calls[r]
  IN /\ call # Unset /\ call.kind = "annotation" /\ call.delete
     /\ annotations' = [annotations EXCEPT ![call.id] = Gone]
     /\ calls' = [calls EXCEPT ![r] = Unset]
     /\ UNCHANGED <<comments, named, requests>>

-----------------------------------------------------------------------------
CollaborationNext ==
  \/ \E p \in People :
       \/ \E c \in Comments : CreateComment(p, c)
       \/ \E n \in Annotations, private \in BOOLEAN : CreateAnnotation(p, n, private)
       \/ \E r \in Requests, c \in Comments, delete \in BOOLEAN : CheckComment(r, p, c, delete)
       \/ \E r \in Requests, n \in Annotations, delete \in BOOLEAN, f \in Fields :
            (delete => f = [text |-> Unset, private |-> Unset]) /\ f.text \in {Unset, p}
              /\ CheckAnnotation(r, p, n, delete, f)
  \/ \E r \in Requests :
       UpdateComment(r) \/ SoftDelete(r) \/ UpdateAnnotation(r) \/ DeleteAnnotation(r)

CollaborationSpec == CollaborationInit /\ [][CollaborationNext]_cvars

-----------------------------------------------------------------------------
\* list_comments and list_annotations
ListedComments == {c \in Comments : comments[c] # Unset /\ ~comments[c].deleted}
ListedAnnotations(p) ==
  {n \in Annotations : HasNote(n) /\
     (p \in Moderators \/ ~annotations[n].private \/ annotations[n].owner = p)}

\* Of two requests that overlap neither undoes the other: each field of a row
\* has the value of the last request that named it.  So an annotation stays
\* private until a request says otherwise, whatever else is edited, and a
\* deleted comment is not listed again by an edit that was checked before.
EditsCompose ==
  /\ \A c \in Comments : comments[c] # Unset =>
       /\ comments[c].body = named[c].body
       /\ c \in ListedComments <=> ~named[c].deleted
  /\ \A n \in Annotations : HasNote(n) =>
       /\ annotations[n].text = named[n].text
       /\ \A p \in People \ (Moderators \cup {annotations[n].owner}) :
            n \in ListedAnnotations(p) <=> ~named[n].private
=============================================================================
