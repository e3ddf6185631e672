--------------------------- MODULE AccessControl ---------------------------
(***************************************************************************)
(* Users, nested groups, grants of one source, the tokens that carry a     *)
(* user's groups, and the copy of the source's groups in the search        *)
(* indexes.  Groups are never deleted, and ensure_group returns one id for *)
(* a name whoever creates it, so Groups is the set of all of them.         *)
(*                                                                         *)
(* A request is a READ COMMITTED transaction.  Those of one statement that *)
(* matters are one action.  Several take: adding a child group (check,     *)
(* insert), and replacing a user's groups (the snapshot of the DELETE, its *)
(* row locks, the inserts with the commit), which administrators do and    *)
(* every login of a known user of the directory.  What a DELETE has seen   *)
(* are rows, not groups: a row that another request deletes and inserts    *)
(* again is a new one, which the DELETE leaves alone.                      *)
(***************************************************************************)
EXTENDS Integers, FiniteSets

CONSTANTS
  Requests,     \* requests of several statements that may run at once
  Indexers,     \* pipeline workers indexing the document
  Users,        \* users by e-mail
  Bootstrap,    \* admin@local.com
  Groups,
  AdminsGroup,  \* the group named "admins"
  Depth,        \* bound of the recursive queries, 10 in the code
  MaxChanges,   \* bound on committed changes
  None

ASSUME UserAssumption == Bootstrap \in Users /\ None \notin Users
ASSUME GroupAssumption == AdminsGroup \in Groups /\ IsFiniteSet(Groups)
ASSUME DepthAssumption == Depth \in Nat \ {0} /\ MaxChanges \in Nat
ASSUME NoneAssumption ==
  None # TRUE /\ None # FALSE /\ \A gs \in SUBSET Groups : gs # None

VARIABLES
  users,     \* per e-mail, None or is_admin
  member,    \* user_groups: per user, the groups it is a direct member of
  edges,     \* group_memberships: pairs of a parent and a child
  granted,   \* source_permissions of the source
  tokens,    \* per user, the token it holds, or None
  indexed,   \* allowed_group_ids of the document in the indexes, or None
  pc, arg,   \* per request, the statement it runs next and what it is about
  snap,      \* per request, the rows its query has seen and that are still there
  read,      \* per indexer, the groups it has read for the document, or None
  \* What has happened, for the properties:
  wanted,    \* per user, its groups if every change took effect as requested
  added,     \* per request, the rows single additions have given its user since
  others,    \* ... and the groups other replacements have
  mixed,     \* per user, those the last replacement ran beside
  overlapped,\* whether a child was added beside a check that did not see it
  since,     \* per indexer, the groups granted or revoked since it read
  stale,     \* the groups granted or revoked since the indexed copy was read
  changes

tables == <<users, member, edges, granted>>
request == <<pc, arg, snap>>
index == <<indexed, read, since, stale>>
history == <<wanted, added, others, mixed, overlapped>>
vars == <<tables, tokens, request, index, history, changes>>

Token == [groups : SUBSET Groups, admin : BOOLEAN]

ATypeOK ==
  /\ users \in [Users -> BOOLEAN \cup {None}]
  /\ member \in [Users -> SUBSET Groups] /\ wanted \in [Users -> SUBSET Groups]
  /\ edges \subseteq Groups \X Groups
  /\ granted \subseteq Groups /\ stale \subseteq Groups
  /\ tokens \in [Users -> Token \cup {None}]
  /\ indexed \in (SUBSET Groups) \cup {None}
  /\ pc \in [Requests -> {"idle", "child", "delete", "insert"}]
  /\ read \in [Indexers -> (SUBSET Groups) \cup {None}]
  /\ since \in [Indexers -> SUBSET Groups]
  /\ added \in [Requests -> SUBSET Groups] /\ others \in [Requests -> SUBSET Groups]
  /\ mixed \in [Users -> SUBSET Groups]
  /\ overlapped \in BOOLEAN
  /\ \A u \in Users : users[u] = None => member[u] = {}

\* The bootstrap admin alone, and a new source, which is granted to "admins".
Init ==
  /\ users = [u \in Users |-> IF u = Bootstrap THEN TRUE ELSE None]
  /\ member = [u \in Users |-> IF u = Bootstrap THEN {AdminsGroup} ELSE {}]
  /\ edges = {} /\ granted = {AdminsGroup}
  /\ tokens = [u \in Users |-> None]
  /\ indexed = None
  /\ pc = [a \in Requests |-> "idle"] /\ arg = [a \in Requests |-> None]
  /\ snap = [a \in Requests |-> {}]
  /\ read = [i \in Indexers |-> None]
  /\ wanted = member /\ overlapped = FALSE
  /\ added = [a \in Requests |-> {}] /\ others = added /\ mixed = [u \in Users |-> {}]
  /\ since = [i \in Indexers |-> {}] /\ stale = {} /\ changes = 0

-----------------------------------------------------------------------------
(* The recursive queries: Below(gs)[n] and Above(gs)[n] are the groups n    *)
(* steps down or up from gs.                                               *)

Below(gs) ==
  LET step[n \in 0..Depth] ==
        IF n = 0 THEN gs
        ELSE {g \in Groups : \E p \in step[n - 1] : <<p, g>> \in edges}
  IN step
Above(gs) ==
  LET step[n \in 0..Depth] ==
        IF n = 0 THEN gs
        ELSE {g \in Groups : \E c \in step[n - 1] : <<g, c>> \in edges}
  IN step

Descendants(gs) == UNION {Below(gs)[n] : n \in 1..Depth}
Ancestors(gs) == UNION {Above(gs)[n] : n \in 1..Depth}

\* A mutant: the check looks for the child below the parent.
CycleCheckReversed(parent, child) == parent = child \/ child \in Descendants({parent})

\* _group_would_create_cycle
WouldCreateCycle(parent, child) == parent = child \/ parent \in Descendants({child})

\* The groups of a token with all their ancestors.
Effective(gs) == gs \cup Ancestors(gs)

-----------------------------------------------------------------------------
(* Replacing the groups of a user (set_user_groups), by an administrator's  *)
(* request or by a login.                                                  *)

Change == changes < MaxChanges /\ changes' = changes + 1

\* The requests that replace the groups of u, and the rows they have deleted
\* and not committed.
Replacing(u) == {b \in Requests : pc[b] \in {"delete", "insert"} /\ arg[b].user = u /\ ~arg[b].gone}
LockedRows(a, u) == UNION {snap[b] : b \in {b \in Replacing(u) \ {a} : pc[b] = "insert"}}

\* What those requests note when rows of u are deleted and when some are inserted.
Without(rows, u, notes) == [b \in Requests |-> IF b \in Replacing(u) THEN notes[b] \ rows ELSE notes[b]]
With(rows, u, notes) == [b \in Requests |-> IF b \in Replacing(u) THEN notes[b] \cup rows ELSE notes[b]]

\* A login writes the row of its user before the groups.
LoggingIn(u) == \E b \in Replacing(u) : arg[b].login

\* AuthService recreates the bootstrap admin before it authenticates; a login
\* that fails rolls that back too, and another waits for that.
WithBootstrap(missing, table, value) ==
  IF missing THEN [table EXCEPT ![Bootstrap] = value] ELSE table
BootstrapMissing == users[Bootstrap] = None
BootstrapSettled == BootstrapMissing => \A u \in Users : \A b \in Replacing(u) : ~arg[b].boot

\* The token carries the groups and the flag of this moment.
TokenOf(u) == [groups |-> member'[u], admin |-> users'[u]]

\* The DELETE takes its snapshot ...
StartReplacing(a, u, gs, login) ==
  /\ Change /\ pc[a] = "idle" /\ users[u] # None
  /\ pc' = [pc EXCEPT ![a] = "delete"]
  /\ arg' = [arg EXCEPT ![a] = [user |-> u, groups |-> gs, gone |-> FALSE,
                                login |-> login, boot |-> login /\ BootstrapMissing]]
  /\ snap' = [snap EXCEPT ![a] = member[u]]
  /\ UNCHANGED <<tables, tokens, index, history>>

\* ... waits for the rows another request is deleting, and deletes those of
\* its snapshot that are left ...
SetGroupsDelete(a) ==
  /\ pc[a] = "delete"
  /\ LockedRows(a, arg[a].user) \cap snap[a] = {}
  /\ pc' = [pc EXCEPT ![a] = "insert"]
  /\ UNCHANGED <<tables, tokens, arg, snap, index, history, changes>>

\* A mutant: the old rows are kept.
KeptRows(a) == member[arg[a].user]

\* The rows that stay beside the inserted ones: those the DELETE did not see.
RowsLeft(a) == member[arg[a].user] \ snap[a]

\* ... and the new groups are inserted, when nobody is deleting such a row.
SetGroupsCommit(a) ==
  LET u == arg[a].user
      gs == arg[a].groups
      boot == arg[a].boot
  IN /\ pc[a] = "insert" /\ ~arg[a].gone
     /\ LockedRows(a, u) \cap gs = {} /\ RowsLeft(a) \cap gs = {}
     /\ users' = WithBootstrap(boot, users, TRUE)
     /\ member' = WithBootstrap(boot, [member EXCEPT ![u] = RowsLeft(a) \cup gs], {AdminsGroup})
     /\ wanted' = WithBootstrap(boot, [wanted EXCEPT ![u] = gs \cup added[a]], {AdminsGroup})
     /\ mixed' = [mixed EXCEPT ![u] = others[a]]
     /\ tokens' = IF arg[a].login THEN [tokens EXCEPT ![u] = TokenOf(u)] ELSE tokens
     /\ pc' = [pc EXCEPT ![a] = "idle"] /\ arg' = [arg EXCEPT ![a] = None]
     /\ snap' = [Without(snap[a], u, snap) EXCEPT ![a] = {}]
     /\ added' = [Without(snap[a], u, added) EXCEPT ![a] = {}]
     /\ others' = [With(gs, u, others) EXCEPT ![a] = {}]
     /\ UNCHANGED <<edges, granted, index, overlapped, changes>>

Finish(a) ==
  /\ pc' = [pc EXCEPT ![a] = "idle"]
  /\ arg' = [arg EXCEPT ![a] = None]
  /\ snap' = [snap EXCEPT ![a] = {}]
  /\ added' = [added EXCEPT ![a] = {}] /\ others' = [others EXCEPT ![a] = {}]

\* A row that is there already, or a user that is not any more, is an error
\* that undoes the request.
SetGroupsFails(a) ==
  /\ pc[a] = "insert"
  /\ arg[a].gone \/ RowsLeft(a) \cap arg[a].groups # {}
  /\ Finish(a)
  /\ UNCHANGED <<tables, tokens, index, wanted, mixed, overlapped, changes>>

-----------------------------------------------------------------------------
(* Logging in.                                                             *)

LocalLogin(u) ==
  /\ users[u] # None \/ u = Bootstrap
  /\ BootstrapSettled
  /\ users' = WithBootstrap(BootstrapMissing, users, TRUE)
  /\ member' = WithBootstrap(BootstrapMissing, member, {AdminsGroup})
  /\ wanted' = WithBootstrap(BootstrapMissing, wanted, {AdminsGroup})
  /\ tokens' = [tokens EXCEPT ![u] = TokenOf(u)]
  /\ UNCHANGED <<edges, granted, request, index, added, others, mixed, overlapped, changes>>

\* upsert_ldap_user of a user the table has: the directory's groups replace its
\* groups.  Another login of the user waits for its row.
LdapLogin(a, u, gs) ==
  /\ u # Bootstrap /\ ~LoggingIn(u) /\ BootstrapSettled
  /\ StartReplacing(a, u, gs, TRUE)

\* upsert_ldap_user of a new user, whose rows nobody sees before the commit.
LdapFirstLogin(u, gs) ==
  /\ Change /\ users[u] = None
  /\ u # Bootstrap /\ BootstrapSettled
  /\ users' = WithBootstrap(BootstrapMissing, [users EXCEPT ![u] = FALSE], TRUE)
  /\ member' = WithBootstrap(BootstrapMissing, [member EXCEPT ![u] = gs], {AdminsGroup})
  /\ wanted' = WithBootstrap(BootstrapMissing, [wanted EXCEPT ![u] = gs], {AdminsGroup})
  /\ tokens' = [tokens EXCEPT ![u] = TokenOf(u)]
  /\ UNCHANGED <<edges, granted, request, index, added, others, mixed, overlapped>>

Register(u) ==
  /\ Change /\ users[u] = None
  /\ u # Bootstrap /\ BootstrapSettled
  /\ users' = WithBootstrap(BootstrapMissing, [users EXCEPT ![u] = FALSE], TRUE)
  /\ member' = WithBootstrap(BootstrapMissing, member, {AdminsGroup})
  /\ wanted' = WithBootstrap(BootstrapMissing, wanted, {AdminsGroup})
  /\ tokens' = [tokens EXCEPT ![u] = TokenOf(u)]
  /\ UNCHANGED <<edges, granted, request, index, added, others, mixed, overlapped>>

\* Eight hours after the login.
TokenExpires(u) ==
  /\ tokens[u] # None
  /\ tokens' = [tokens EXCEPT ![u] = None]
  /\ UNCHANGED <<tables, request, index, history, changes>>

-----------------------------------------------------------------------------
(* Admin requests.  require_admin reads the caller's token.                *)

HasAdminToken(u) == tokens[u] # None /\ tokens[u].admin
SomeAdmin == \E u \in Users : HasAdminToken(u)

\* The e-mail is unique: it waits for a login that creates the bootstrap admin.
CreateUser(u, admin, gs) ==
  /\ Change /\ SomeAdmin /\ users[u] = None
  /\ u = Bootstrap => BootstrapSettled
  /\ users' = [users EXCEPT ![u] = admin]
  /\ member' = [member EXCEPT ![u] = gs]
  /\ wanted' = [wanted EXCEPT ![u] = gs]
  /\ UNCHANGED <<edges, granted, tokens, request, index, added, others, mixed, overlapped>>

\* The same e-mail created again is another user.
ForgetUser(u) ==
  /\ arg' = [a \in Requests |-> IF a \in Replacing(u) THEN [arg[a] EXCEPT !.gone = TRUE] ELSE arg[a]]
  /\ snap' = Without(member[u], u, snap)
  /\ UNCHANGED pc

\* A mutant: the memberships survive the user.
DeleteUserOnly(u) ==
  /\ Change /\ users[u] # None
  /\ \E caller \in Users \ {u} : HasAdminToken(caller)
  /\ ~LoggingIn(u) /\ LockedRows(None, u) \cap member[u] = {}
  /\ users' = [users EXCEPT ![u] = None]
  /\ ForgetUser(u)
  /\ UNCHANGED <<member, edges, granted, tokens, index, history>>

\* Nobody deletes the user of its own token; user_groups goes by cascade.
DeleteUser(u) ==
  /\ Change /\ users[u] # None
  /\ \E caller \in Users \ {u} : HasAdminToken(caller)
  /\ ~LoggingIn(u) /\ LockedRows(None, u) \cap member[u] = {}
  /\ users' = [users EXCEPT ![u] = None]
  /\ member' = [member EXCEPT ![u] = {}]
  /\ wanted' = [wanted EXCEPT ![u] = {}]
  /\ mixed' = [mixed EXCEPT ![u] = {}]
  /\ ForgetUser(u)
  /\ UNCHANGED <<edges, granted, tokens, index, added, others, overlapped>>

AddUserToGroup(u, g) ==
  /\ Change /\ SomeAdmin /\ users[u] # None
  /\ g \notin LockedRows(None, u)
  /\ member' = [member EXCEPT ![u] = @ \cup {g}]
  /\ wanted' = [wanted EXCEPT ![u] = @ \cup {g}]
  /\ added' = With({g} \ member[u], u, added)
  /\ UNCHANGED <<users, edges, granted, tokens, request, index, others, mixed, overlapped>>

\* One that waits for a row that is then deleted does nothing, as one before it.
RemoveUserFromGroup(u, g) ==
  /\ Change /\ SomeAdmin
  /\ g \notin LockedRows(None, u)
  /\ member' = [member EXCEPT ![u] = @ \ {g}]
  /\ wanted' = [wanted EXCEPT ![u] = @ \ {g}]
  /\ snap' = Without({g}, u, snap) /\ added' = Without({g}, u, added)
  /\ UNCHANGED <<users, edges, granted, tokens, pc, arg, index, others, mixed, overlapped>>

\* PUT /admin/users/{id}/groups
SetGroupsStart(a, u, gs) == SomeAdmin /\ StartReplacing(a, u, gs, FALSE)

\* POST /admin/groups/{parent}/children: the check (409 on a cycle) ...
AddChildCheck(a, parent, child) ==
  /\ Change /\ SomeAdmin /\ pc[a] = "idle"
  /\ ~WouldCreateCycle(parent, child)
  /\ pc' = [pc EXCEPT ![a] = "child"]
  /\ arg' = [arg EXCEPT ![a] = <<parent, child>>]
  /\ snap' = [snap EXCEPT ![a] = edges]
  /\ UNCHANGED <<tables, tokens, index, history>>

\* ... and the insert, which ignores a duplicate.
AddChildInsert(a) ==
  /\ pc[a] = "child"
  /\ edges' = edges \cup {arg[a]}
  /\ overlapped' = (overlapped \/ ~(edges \subseteq snap[a]))
  /\ Finish(a)
  /\ UNCHANGED <<users, member, granted, tokens, index, wanted, mixed, changes>>

RemoveChild(parent, child) ==
  /\ Change /\ SomeAdmin /\ <<parent, child>> \in edges
  /\ edges' = edges \ {<<parent, child>>}
  /\ UNCHANGED <<users, member, granted, tokens, request, index, history>>

Touch(g) ==
  /\ since' = [i \in Indexers |-> IF read[i] = None THEN {} ELSE since[i] \cup {g}]
  /\ stale' = IF indexed = None THEN {} ELSE stale \cup {g}
  /\ UNCHANGED <<indexed, read>>

Grant(g) ==
  /\ Change /\ SomeAdmin /\ g \notin granted
  /\ granted' = granted \cup {g}
  /\ Touch(g)
  /\ UNCHANGED <<users, member, edges, tokens, request, history>>

Revoke(g) ==
  /\ Change /\ SomeAdmin /\ g \in granted
  /\ granted' = granted \ {g}
  /\ Touch(g)
  /\ UNCHANGED <<users, member, edges, tokens, request, history>>

-----------------------------------------------------------------------------
(* Indexing: the groups are read at the start, the indexes written later.  *)

ReadGroups(i) ==
  /\ read[i] = None
  /\ read' = [read EXCEPT ![i] = granted]
  /\ UNCHANGED <<tables, tokens, request, indexed, since, stale, history, changes>>

WriteIndex(i) ==
  /\ read[i] # None
  /\ indexed' = read[i]
  /\ stale' = since[i]
  /\ read' = [read EXCEPT ![i] = None] /\ since' = [since EXCEPT ![i] = {}]
  /\ UNCHANGED <<tables, tokens, request, history, changes>>

-----------------------------------------------------------------------------
UserStep(u) ==
  \/ LocalLogin(u) \/ Register(u) \/ TokenExpires(u) \/ DeleteUser(u)
  \/ \E gs \in SUBSET Groups :
       LdapFirstLogin(u, gs) \/ \E admin \in BOOLEAN : CreateUser(u, admin, gs)
  \/ \E g \in Groups : AddUserToGroup(u, g) \/ RemoveUserFromGroup(u, g)
RequestStep(a) ==
  \/ \E u \in Users, gs \in SUBSET Groups : SetGroupsStart(a, u, gs) \/ LdapLogin(a, u, gs)
  \/ SetGroupsDelete(a) \/ SetGroupsCommit(a) \/ SetGroupsFails(a)
  \/ \E parent, child \in Groups : AddChildCheck(a, parent, child)
  \/ AddChildInsert(a)
GroupStep ==
  \/ \E g \in Groups : Grant(g) \/ Revoke(g)
  \/ \E parent, child \in Groups : RemoveChild(parent, child)
IndexStep(i) == ReadGroups(i) \/ WriteIndex(i)

Next ==
  \/ \E u \in Users : UserStep(u)
  \/ \E a \in Requests : RequestStep(a)
  \/ GroupStep
  \/ \E i \in Indexers : IndexStep(i)
Spec == Init /\ [][Next]_vars

-----------------------------------------------------------------------------
(* What a token may read: the enforcer, and the filter of a search.        *)

IsAdminsMember(u) == u = Bootstrap \/ AdminsGroup \in tokens[u].groups
CanAccess(u) ==
  \/ tokens[u].admin \/ IsAdminsMember(u)
  \/ tokens[u].groups # {} /\ granted \cap Effective(tokens[u].groups) # {}

\* A mutant: the search takes the token's own groups only.
SearchGroupsDirect(u) ==
  IF AdminsGroup \in tokens[u].groups \/ tokens[u].admin THEN {} ELSE tokens[u].groups

\* No groups: nothing is searched.  An administrator's filter is empty, and
\* neither Elasticsearch nor Qdrant is told that it is one.
SearchGroups(u) ==
  IF tokens[u].groups = {} \/ AdminsGroup \in tokens[u].groups \/ tokens[u].admin
  THEN {} ELSE Effective(tokens[u].groups)
Found(u) == indexed # None /\ indexed \cap SearchGroups(u) # {}

\* Changes to the group graph that do not overlap leave no cycle the bounded
\* check can see: a group is never its own ancestor within Depth + 1 steps.
NoVisibleCycle ==
  overlapped \/ \A g \in Groups : ~\E p \in Groups : <<p, g>> \in edges /\ p \in Descendants({g})

\* A user has every group that the last replacement of its groups asked for, and
\* those added one by one since that replacement began, unless removed again.
\* Beside them it has only groups of other replacements that overlapped with that
\* one: no membership from before a replacement survives it.
GroupsAsRequested ==
  \A u \in Users : wanted[u] \subseteq member[u] /\ member[u] \subseteq wanted[u] \cup mixed[u]

\* set_user_groups says it replaces a user's groups: two replacements that overlap
\* leave both lists.
ReplacedEntirely == \A u \in Users : member[u] = wanted[u]

\* Search and preview agree on an indexed document for every token that is not
\* an administrator's, up to the groups granted or revoked since the groups
\* were read: what a search finds can be opened, and what can be opened is found.
SearchMatchesAccess ==
  \A u \in Users :
    (tokens[u] # None /\ indexed # None) =>
      \/ tokens[u].admin \/ IsAdminsMember(u)
      \/ Found(u) = CanAccess(u)
      \/ stale \cap Effective(tokens[u].groups) # {}
=============================================================================
