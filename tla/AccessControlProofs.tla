------------------------ MODULE AccessControlProofs ------------------------
(***************************************************************************)
(* What TLAPS proves of AccessControl: the types (with it that memberships *)
(* go with their user), that every user has the groups last requested and  *)
(* beside them only those of overlapping requests, that search and preview *)
(* agree up to the groups changed since indexing, and that the recursive   *)
(* query keeps cycles of any depth it can see out.                         *)
(***************************************************************************)
EXTENDS AccessControl, WellFoundedInduction, TLAPS

-----------------------------------------------------------------------------
(* Requests under way.                                                     *)

Replacement == [user : Users, groups : SUBSET Groups, gone : BOOLEAN, login : BOOLEAN, boot : BOOLEAN]
Replaces(a) == pc[a] \in {"delete", "insert"}

\* The request will recreate the bootstrap admin.
Boots(a) == Replaces(a) /\ arg[a].boot

\* What a request is about.  The user whose groups it replaces is there until
\* the request has been told that it is gone, which no login is.
RequestLocal(a) ==
  /\ pc[a] = "child" => arg[a] \in Groups \X Groups
  /\ Replaces(a) => /\ arg[a] \in Replacement
                    /\ arg[a].login => ~arg[a].gone
                    /\ arg[a].boot => arg[a].login /\ users[Bootstrap] = None
                    /\ ~arg[a].gone => users[arg[a].user] # None

AccessInv ==
  /\ ATypeOK
  /\ arg = [a \in Requests |-> arg[a]]
  /\ snap = [a \in Requests |-> snap[a]]
  /\ \A a \in Requests : RequestLocal(a)
  /\ \A a, b \in Requests : Boots(a) /\ Boots(b) => a = b

-----------------------------------------------------------------------------
(* Tables by user, whatever they hold.                                     *)

Flag == BOOLEAN \cup {None}

LEMMA Flags ==
  /\ TRUE \in Flag /\ FALSE \in Flag /\ None \in Flag
  /\ \A x \in BOOLEAN : x \in Flag /\ x # None
  /\ \A x \in Flag : x # None => x \in BOOLEAN
BY NoneAssumption DEF Flag

LEMMA TableOfTwo ==
  ASSUME NEW T, NEW x \in T, NEW y \in T
  PROVE  [u \in Users |-> IF u = Bootstrap THEN x ELSE y] \in [Users -> T]
OBVIOUS

\* One row written.
LEMMA PutType ==
  ASSUME NEW T, NEW table \in [Users -> T], NEW u \in Users, NEW x \in T
  PROVE  /\ [table EXCEPT ![u] = x] \in [Users -> T]
         /\ [table EXCEPT ![u] = x][u] = x
         /\ \A v \in Users : v # u => [table EXCEPT ![u] = x][v] = table[v]
OBVIOUS

LEMMA WithBootstrapType ==
  ASSUME NEW T, NEW table \in [Users -> T], NEW x \in T, NEW boot \in BOOLEAN,
         NEW new, new = IF boot THEN [table EXCEPT ![Bootstrap] = x] ELSE table
  PROVE  /\ new \in [Users -> T]
         /\ \A v \in Users : new[v] = IF v = Bootstrap /\ boot THEN x ELSE table[v]
BY UserAssumption

\* What requests note when rows of a user are deleted and inserted.
LEMMA NotesType ==
  ASSUME NEW notes \in [Requests -> SUBSET Groups], NEW u, NEW rows
  PROVE  /\ Without(rows, u, notes) \in [Requests -> SUBSET Groups]
         /\ rows \subseteq Groups => With(rows, u, notes) \in [Requests -> SUBSET Groups]
BY DEF Without, With

-----------------------------------------------------------------------------
(* Users and logins.                                                       *)

LEMMA AccessInitially == Init => AccessInv
<1> SUFFICES ASSUME Init PROVE AccessInv
  OBVIOUS
<1>1. users \in [Users -> BOOLEAN \cup {None}]
  BY Flags, TableOfTwo DEF Init, Flag
<1>2. member \in [Users -> SUBSET Groups]
  BY GroupAssumption DEF Init
<1>3. \A u \in Users : users[u] = None => member[u] = {}
  <2>1. \A u \in Users : u = Bootstrap => users[u] = TRUE
    BY DEF Init
  <2> QED BY <2>1, NoneAssumption DEF Init
<1>4. ATypeOK
  <2>1. overlapped \in BOOLEAN
    BY DEF Init
  <2>2. /\ edges = {} /\ granted = {AdminsGroup} /\ stale = {} /\ indexed = None
        /\ wanted = member /\ tokens = [u \in Users |-> None]
        /\ pc = [a \in Requests |-> "idle"] /\ read = [i \in Indexers |-> None]
        /\ since = [i \in Indexers |-> {}] /\ mixed = [u \in Users |-> {}]
        /\ added = [a \in Requests |-> {}] /\ others = [a \in Requests |-> {}]
    BY DEF Init
  <2>3. /\ edges \subseteq Groups \X Groups /\ granted \subseteq Groups /\ stale \subseteq Groups
        /\ wanted \in [Users -> SUBSET Groups]
        /\ tokens \in [Users -> Token \cup {None}] /\ indexed \in (SUBSET Groups) \cup {None}
    BY <1>2, <2>2, GroupAssumption
  <2>4. /\ pc \in [Requests -> {"idle", "child", "delete", "insert"}]
        /\ read \in [Indexers -> (SUBSET Groups) \cup {None}]
        /\ since \in [Indexers -> SUBSET Groups] /\ mixed \in [Users -> SUBSET Groups]
        /\ added \in [Requests -> SUBSET Groups] /\ others \in [Requests -> SUBSET Groups]
    BY <2>2
  <2> QED BY <1>1, <1>2, <1>3, <2>1, <2>3, <2>4 DEF ATypeOK
<1> QED BY <1>4 DEF Init, AccessInv, RequestLocal, Boots, Replaces

\* Users and memberships change and no user is deleted; requests do not change.
LEMMA UsersStep ==
  ASSUME AccessInv, UNCHANGED <<edges, granted, pc, arg, index, overlapped, others, mixed>>,
         users' \in [Users -> BOOLEAN \cup {None}], member' \in [Users -> SUBSET Groups],
         wanted' \in [Users -> SUBSET Groups], tokens' \in [Users -> Token \cup {None}],
         added' \in [Requests -> SUBSET Groups], snap' = [a \in Requests |-> snap'[a]],
         \A u \in Users : users[u] # None => users'[u] # None,
         \A u \in Users : users'[u] = None => member'[u] = {},
         users'[Bootstrap] = users[Bootstrap] \/ \A a \in Requests : ~Boots(a)
  PROVE  AccessInv'
<1>1. ATypeOK'
  BY DEF AccessInv, ATypeOK, index
<1>2. \A a \in Requests : RequestLocal(a)'
  BY DEF AccessInv, RequestLocal, Boots, Replaces, Replacement
<1>3. \A a \in Requests : Boots(a)' = Boots(a)
  BY DEF Boots, Replaces
<1> QED BY <1>1, <1>2, <1>3 DEF AccessInv

\* BootstrapSettled says that no request recreates the bootstrap admin.
LEMMA Settled ==
  ASSUME AccessInv, BootstrapSettled, users[Bootstrap] = None
  PROVE  \A a \in Requests : ~Boots(a)
<1> SUFFICES ASSUME NEW a \in Requests, Boots(a) PROVE FALSE
  OBVIOUS
<1>1. /\ pc[a] \in {"delete", "insert"} /\ arg[a].boot /\ ~arg[a].gone
      /\ arg[a] \in Replacement
  BY DEF AccessInv, RequestLocal, Boots, Replaces
<1>2. arg[a].user \in Users
  BY <1>1 DEF Replacement
<1>3. a \in Replacing(arg[a].user)
  BY <1>1 DEF Replacing
<1> QED BY <1>1, <1>2, <1>3 DEF BootstrapSettled, BootstrapMissing

\* The rows of the user that logs in are written, then its token.  A user that
\* is recreated has no rows.
LEMMA LoginStep ==
  ASSUME AccessInv, NEW u \in Users, BootstrapSettled,
         UNCHANGED <<edges, granted, request, index, overlapped, added, others, mixed>>,
         NEW some \in [Users -> Flag], NEW groups \in [Users -> SUBSET Groups],
         NEW requested \in [Users -> SUBSET Groups],
         users' = WithBootstrap(BootstrapMissing, some, TRUE),
         member' = WithBootstrap(BootstrapMissing, groups, {AdminsGroup}),
         wanted' = WithBootstrap(BootstrapMissing, requested, {AdminsGroup}),
         tokens' = [tokens EXCEPT ![u] = TokenOf(u)],
         some[Bootstrap] = users[Bootstrap],
         some[u] # None \/ u = Bootstrap,
         \A v \in Users : users[v] # None => some[v] # None,
         \A v \in Users : some[v] = None => groups[v] = {}
  PROVE  AccessInv'
<1>1. TRUE \in Flag /\ TRUE # None /\ {AdminsGroup} \in SUBSET Groups
  BY Flags, NoneAssumption, GroupAssumption
<1>2. PICK boot \in BOOLEAN : boot = BootstrapMissing
  BY DEF BootstrapMissing
<1>3. /\ users' \in [Users -> Flag]
      /\ \A v \in Users : users'[v] = IF v = Bootstrap /\ boot THEN TRUE ELSE some[v]
  BY <1>1, <1>2, WithBootstrapType DEF WithBootstrap
<1>4. /\ member' \in [Users -> SUBSET Groups]
      /\ \A v \in Users : member'[v] = IF v = Bootstrap /\ boot THEN {AdminsGroup} ELSE groups[v]
  BY <1>1, <1>2, WithBootstrapType DEF WithBootstrap
<1>5. wanted' \in [Users -> SUBSET Groups]
  BY <1>1, <1>2, WithBootstrapType DEF WithBootstrap
<1>6. users'[u] # None
  BY <1>1, <1>2, <1>3 DEF BootstrapMissing
<1>7. TokenOf(u) \in Token
  BY <1>3, <1>4, <1>6, Flags DEF TokenOf, Token
<1>8. tokens' \in [Users -> Token \cup {None}]
  BY <1>7 DEF AccessInv, ATypeOK
<1>9. /\ \A v \in Users : users[v] # None => users'[v] # None
      /\ \A v \in Users : users'[v] = None => member'[v] = {}
  BY <1>1, <1>3, <1>4
<1>10. users'[Bootstrap] = users[Bootstrap] \/ \A a \in Requests : ~Boots(a)
  BY <1>2, <1>3, Settled, UserAssumption DEF BootstrapMissing
<1>11. /\ added' \in [Requests -> SUBSET Groups] /\ snap' = [a \in Requests |-> snap'[a]]
       /\ UNCHANGED <<pc, arg>>
  BY DEF AccessInv, ATypeOK, request
<1> QED BY <1>3, <1>4, <1>5, <1>8, <1>9, <1>10, <1>11, UsersStep DEF Flag

LEMMA LoginKeepsType ==
  ASSUME AccessInv, NEW u \in Users,
         LocalLogin(u) \/ Register(u) \/ \E gs \in SUBSET Groups : LdapFirstLogin(u, gs)
  PROVE  AccessInv'
<1>1. /\ UNCHANGED <<edges, granted, request, index, overlapped, added, others, mixed>>
      /\ tokens' = [tokens EXCEPT ![u] = TokenOf(u)] /\ BootstrapSettled
  BY DEF LocalLogin, Register, LdapFirstLogin
<1>2. /\ users \in [Users -> Flag] /\ member \in [Users -> SUBSET Groups]
      /\ wanted \in [Users -> SUBSET Groups]
      /\ \A v \in Users : users[v] = None => member[v] = {}
  BY DEF AccessInv, ATypeOK, Flag
<1>3. CASE LocalLogin(u)
  <2>1. /\ users' = WithBootstrap(BootstrapMissing, users, TRUE)
        /\ member' = WithBootstrap(BootstrapMissing, member, {AdminsGroup})
        /\ wanted' = WithBootstrap(BootstrapMissing, wanted, {AdminsGroup})
        /\ users[u] # None \/ u = Bootstrap
    BY <1>3 DEF LocalLogin
  <2> QED BY <1>1, <1>2, <2>1, LoginStep
<1>4. PICK some : some = [users EXCEPT ![u] = FALSE]
  OBVIOUS
<1>5. /\ some \in [Users -> Flag] /\ some[u] # None
      /\ \A v \in Users : v # u => some[v] = users[v]
  BY <1>2, <1>4, PutType, Flags
<1>6. CASE Register(u)
  <2>1. /\ users' = WithBootstrap(BootstrapMissing, some, TRUE)
        /\ member' = WithBootstrap(BootstrapMissing, member, {AdminsGroup})
        /\ wanted' = WithBootstrap(BootstrapMissing, wanted, {AdminsGroup})
        /\ u # Bootstrap
    BY <1>4, <1>6 DEF Register
  <2>2. /\ some[Bootstrap] = users[Bootstrap]
        /\ \A v \in Users : users[v] # None => some[v] # None
        /\ \A v \in Users : some[v] = None => member[v] = {}
    BY <1>2, <1>5, <2>1, UserAssumption
  <2> QED BY <1>1, <1>2, <1>5, <2>1, <2>2, LoginStep
<1>7. ASSUME NEW gs \in SUBSET Groups, LdapFirstLogin(u, gs) PROVE AccessInv'
  <2>1. PICK groups, requested :
          groups = [member EXCEPT ![u] = gs] /\ requested = [wanted EXCEPT ![u] = gs]
    OBVIOUS
  <2>2. /\ groups \in [Users -> SUBSET Groups] /\ requested \in [Users -> SUBSET Groups]
        /\ \A v \in Users : v # u => groups[v] = member[v]
    BY <1>2, <2>1, PutType
  <2>3. /\ users' = WithBootstrap(BootstrapMissing, some, TRUE)
        /\ member' = WithBootstrap(BootstrapMissing, groups, {AdminsGroup})
        /\ wanted' = WithBootstrap(BootstrapMissing, requested, {AdminsGroup})
        /\ u # Bootstrap
    BY <1>4, <1>7, <2>1 DEF LdapFirstLogin
  <2>4. /\ some[Bootstrap] = users[Bootstrap]
        /\ \A v \in Users : users[v] # None => some[v] # None
        /\ \A v \in Users : some[v] = None => groups[v] = {}
    BY <1>2, <1>5, <2>2, <2>3, UserAssumption
  <2> QED BY <1>1, <1>5, <2>2, <2>3, <2>4, LoginStep
<1> QED BY <1>3, <1>6, <1>7

LEMMA CreateUserKeepsType ==
  ASSUME AccessInv, NEW u \in Users, NEW admin \in BOOLEAN, NEW gs \in SUBSET Groups,
         CreateUser(u, admin, gs)
  PROVE  AccessInv'
<1>1. /\ users \in [Users -> Flag] /\ member \in [Users -> SUBSET Groups]
      /\ wanted \in [Users -> SUBSET Groups] /\ tokens \in [Users -> Token \cup {None}]
      /\ added \in [Requests -> SUBSET Groups] /\ snap = [a \in Requests |-> snap[a]]
      /\ \A v \in Users : users[v] = None => member[v] = {}
  BY DEF AccessInv, ATypeOK, Flag
<1>2. admin \in Flag /\ admin # None
  BY Flags
<1>3. /\ users' = [users EXCEPT ![u] = admin] /\ member' = [member EXCEPT ![u] = gs]
      /\ wanted' = [wanted EXCEPT ![u] = gs] /\ users[u] = None
      /\ u = Bootstrap => BootstrapSettled
      /\ UNCHANGED <<edges, granted, tokens, pc, arg, snap, index, added, others, mixed, overlapped>>
  BY DEF CreateUser, request
<1>4. /\ users' \in [Users -> Flag] /\ users'[u] # None
      /\ \A v \in Users : v # u => users'[v] = users[v]
  BY <1>1, <1>2, <1>3, PutType
<1>5. /\ member' \in [Users -> SUBSET Groups] /\ wanted' \in [Users -> SUBSET Groups]
      /\ \A v \in Users : v # u => member'[v] = member[v]
  BY <1>1, <1>3, PutType
<1>6. /\ \A v \in Users : users[v] # None => users'[v] # None
      /\ \A v \in Users : users'[v] = None => member'[v] = {}
  BY <1>1, <1>4, <1>5
<1>7. tokens' \in [Users -> Token \cup {None}] /\ added' \in [Requests -> SUBSET Groups]
      /\ snap' = [a \in Requests |-> snap'[a]]
  BY <1>1, <1>3
<1>8. users'[Bootstrap] = users[Bootstrap] \/ \A a \in Requests : ~Boots(a)
  BY <1>3, <1>4, Settled, UserAssumption
<1> QED BY <1>3, <1>4, <1>5, <1>6, <1>7, <1>8, UsersStep DEF Flag

LEMMA EditUserKeepsType ==
  ASSUME AccessInv, NEW u \in Users,
         TokenExpires(u) \/ \E g \in Groups : AddUserToGroup(u, g) \/ RemoveUserFromGroup(u, g)
  PROVE  AccessInv'
<1>1. UNCHANGED <<users, edges, granted, pc, arg, index, overlapped, others, mixed>>
  BY DEF TokenExpires, AddUserToGroup, RemoveUserFromGroup, tables, request, history
<1>2. /\ users' \in [Users -> BOOLEAN \cup {None}]
      /\ \A v \in Users : users[v] # None => users'[v] # None
      /\ users'[Bootstrap] = users[Bootstrap]
  BY <1>1 DEF AccessInv, ATypeOK
<1>3. /\ member \in [Users -> SUBSET Groups] /\ wanted \in [Users -> SUBSET Groups]
      /\ tokens \in [Users -> Token \cup {None}] /\ added \in [Requests -> SUBSET Groups]
      /\ snap = [a \in Requests |-> snap[a]]
      /\ \A v \in Users : users[v] = None => member[v] = {}
  BY DEF AccessInv, ATypeOK
<1>4. CASE TokenExpires(u)
  <2>1. /\ member' = member /\ wanted' = wanted /\ added' = added /\ snap' = snap
        /\ tokens' \in [Users -> Token \cup {None}]
    BY <1>3, <1>4 DEF TokenExpires, tables, history, request
  <2> QED BY <1>1, <1>2, <1>3, <2>1, UsersStep
<1>5. ASSUME NEW g \in Groups, AddUserToGroup(u, g) \/ RemoveUserFromGroup(u, g)
      PROVE  AccessInv'
  <2>1. /\ member' \in [Users -> SUBSET Groups] /\ wanted' \in [Users -> SUBSET Groups]
        /\ tokens' = tokens
    BY <1>3, <1>5 DEF AddUserToGroup, RemoveUserFromGroup
  <2>2. \A v \in Users : users[v] = None => member'[v] = {}
    BY <1>3, <1>5 DEF AddUserToGroup, RemoveUserFromGroup
  <2>3. added' \in [Requests -> SUBSET Groups]
    BY <1>3, <1>5, NotesType DEF AddUserToGroup, RemoveUserFromGroup
  <2>4. snap' = [a \in Requests |-> snap'[a]]
    BY <1>3, <1>5 DEF AddUserToGroup, RemoveUserFromGroup, Without, request
  <2> QED BY <1>1, <1>2, <1>3, <2>1, <2>2, <2>3, <2>4, UsersStep
<1> QED BY <1>4, <1>5

\* A deleted user's memberships go with it, and every request that replaces
\* them learns of it.
LEMMA DeleteUserKeepsType ==
  ASSUME AccessInv, NEW u \in Users, DeleteUser(u)
  PROVE  AccessInv'
<1>1. /\ users \in [Users -> Flag] /\ member \in [Users -> SUBSET Groups]
      /\ wanted \in [Users -> SUBSET Groups] /\ mixed \in [Users -> SUBSET Groups]
      /\ \A v \in Users : users[v] = None => member[v] = {}
  BY DEF AccessInv, ATypeOK, Flag
<1>2. /\ users' = [users EXCEPT ![u] = None] /\ member' = [member EXCEPT ![u] = {}]
      /\ wanted' = [wanted EXCEPT ![u] = {}] /\ mixed' = [mixed EXCEPT ![u] = {}]
      /\ UNCHANGED <<edges, granted, tokens, index, added, others, overlapped, pc>>
      /\ snap' = Without(member[u], u, snap) /\ ~LoggingIn(u)
      /\ arg' = [a \in Requests |-> IF a \in Replacing(u) THEN [arg[a] EXCEPT !.gone = TRUE] ELSE arg[a]]
  BY DEF DeleteUser, ForgetUser
<1>3. /\ users' \in [Users -> Flag] /\ users'[u] = None
      /\ \A v \in Users : v # u => users'[v] = users[v]
  BY <1>1, <1>2, PutType, Flags
<1>4. /\ member' \in [Users -> SUBSET Groups] /\ wanted' \in [Users -> SUBSET Groups]
      /\ mixed' \in [Users -> SUBSET Groups]
      /\ \A v \in Users : users'[v] = None => member'[v] = {}
  BY <1>1, <1>2, <1>3
<1>5. ATypeOK'
  BY <1>2, <1>3, <1>4 DEF AccessInv, ATypeOK, index, Flag
<1>6. ASSUME NEW a \in Requests PROVE RequestLocal(a)' /\ (Boots(a)' => Boots(a))
  <2>1. RequestLocal(a) /\ pc'[a] = pc[a]
    BY <1>2 DEF AccessInv
  <2>2. users[Bootstrap] = None => users'[Bootstrap] = None
    BY <1>3, UserAssumption
  <2>3. CASE ~Replaces(a)
    <3>1. arg'[a] = arg[a]
      BY <1>2, <2>3 DEF Replaces, Replacing
    <3> QED BY <2>1, <2>3, <3>1 DEF RequestLocal, Boots, Replaces
  <2>4. CASE Replaces(a)
    <3>1. /\ arg[a] \in Replacement /\ (arg[a].login => ~arg[a].gone)
          /\ arg[a].boot => arg[a].login /\ users[Bootstrap] = None
          /\ ~arg[a].gone => users[arg[a].user] # None
      BY <2>1, <2>4 DEF RequestLocal
    <3>2. pc[a] \in {"delete", "insert"} /\ pc[a] # "child"
      BY <2>4 DEF Replaces
    <3>3. CASE a \in Replacing(u)
      <4>1. arg'[a] = [arg[a] EXCEPT !.gone = TRUE] /\ ~arg[a].login
        BY <1>2, <3>3 DEF LoggingIn
      <4>2. arg'[a] \in Replacement /\ arg'[a].gone /\ ~arg'[a].login /\ ~arg'[a].boot
        BY <3>1, <4>1 DEF Replacement
      <4> QED BY <2>1, <3>2, <4>2 DEF RequestLocal, Boots, Replaces
    <3>4. CASE a \notin Replacing(u)
      <4>1. arg'[a] = arg[a] /\ (arg[a].gone \/ arg[a].user # u)
        BY <1>2, <3>2, <3>4 DEF Replacing
      <4>2. arg[a].user \in Users
        BY <3>1 DEF Replacement
      <4> QED BY <1>3, <2>1, <2>2, <3>1, <3>2, <4>1, <4>2 DEF RequestLocal, Boots, Replaces
    <3> QED BY <3>3, <3>4
  <2> QED BY <2>3, <2>4
<1>7. /\ arg' = [a \in Requests |-> arg'[a]] /\ snap' = [a \in Requests |-> snap'[a]]
  BY <1>2 DEF Without
<1> QED BY <1>5, <1>6, <1>7 DEF AccessInv

-----------------------------------------------------------------------------
(* Requests of several statements.                                         *)

\* A step of one request, whose own state keeps its meaning.
LEMMA RequestKeeps ==
  ASSUME AccessInv, NEW a \in Requests, ATypeOK',
         \A v \in Users : users[v] # None => users'[v] # None,
         users'[Bootstrap] = users[Bootstrap] \/ \A b \in Requests : Boots(b) => b = a,
         NEW p, NEW x,
         pc' = [pc EXCEPT ![a] = p], arg' = [arg EXCEPT ![a] = x],
         snap' = [b \in Requests |-> snap'[b]],
         p = "child" => x \in Groups \X Groups,
         p \in {"delete", "insert"} =>
           /\ x \in Replacement /\ (x.login => ~x.gone)
           /\ ~x.gone => users'[x.user] # None
           /\ x.boot => /\ x.login /\ users'[Bootstrap] = None
                        /\ \A b \in Requests : Boots(b) => b = a
  PROVE  AccessInv'
<1>1. /\ pc \in [Requests -> {"idle", "child", "delete", "insert"}]
      /\ arg = [b \in Requests |-> arg[b]]
      /\ \A b \in Requests : RequestLocal(b)
      /\ \A b, c \in Requests : Boots(b) /\ Boots(c) => b = c
  BY DEF AccessInv, ATypeOK
<1>2. /\ pc'[a] = p /\ arg'[a] = x
      /\ \A b \in Requests : b # a => pc'[b] = pc[b] /\ arg'[b] = arg[b]
      /\ arg' = [b \in Requests |-> arg'[b]]
  BY <1>1
<1>3. ASSUME NEW b \in Requests PROVE RequestLocal(b)'
  <2>1. CASE b = a
    BY <1>2, <2>1 DEF RequestLocal, Replaces
  <2>2. CASE b # a
    <3>1. Boots(b) => users'[Bootstrap] = users[Bootstrap]
      BY <2>2
    <3> QED BY <1>1, <1>2, <2>2, <3>1 DEF RequestLocal, Boots, Replaces, Replacement
  <2> QED BY <2>1, <2>2
<1>4. ASSUME NEW b \in Requests, NEW c \in Requests, Boots(b)', Boots(c)' PROVE b = c
  <2>1. \A d \in Requests : d # a => Boots(d)' = Boots(d)
    BY <1>2 DEF Boots, Replaces
  <2>2. Boots(a)' => \A d \in Requests : Boots(d) => d = a
    BY <1>2 DEF Boots, Replaces
  <2> QED BY <1>1, <1>4, <2>1, <2>2
<1> QED BY <1>2, <1>3, <1>4 DEF AccessInv

LEMMA StartReplacingKeepsType ==
  ASSUME AccessInv, NEW a \in Requests, NEW u \in Users, NEW gs \in SUBSET Groups,
         NEW login \in BOOLEAN, StartReplacing(a, u, gs, login),
         login => BootstrapSettled
  PROVE  AccessInv'
<1>1. PICK boot \in BOOLEAN : boot = (login /\ BootstrapMissing)
  OBVIOUS
<1> DEFINE x == [user |-> u, groups |-> gs, gone |-> FALSE, login |-> login, boot |-> boot]
<1>2. x \in Replacement /\ x.user = u /\ ~x.gone /\ x.login = login /\ x.boot = boot
  BY DEF Replacement
<1>3. arg' = [arg EXCEPT ![a] = x]
  BY <1>1 DEF StartReplacing
<1> HIDE DEF x
<1>4. /\ pc' = [pc EXCEPT ![a] = "delete"]
      /\ snap' = [snap EXCEPT ![a] = member[u]] /\ users[u] # None
      /\ UNCHANGED <<tables, tokens, index, history>>
  BY DEF StartReplacing
<1>5. ATypeOK' /\ users' = users /\ snap' = [b \in Requests |-> snap'[b]]
  BY <1>4 DEF AccessInv, ATypeOK, tables, index, history
<1>6. boot => login /\ users[Bootstrap] = None /\ \A b \in Requests : ~Boots(b)
  BY <1>1, Settled DEF BootstrapMissing
<1> QED BY <1>2, <1>3, <1>4, <1>5, <1>6, RequestKeeps

LEMMA SetGroupsCommitKeepsType ==
  ASSUME AccessInv, NEW a \in Requests, SetGroupsCommit(a)
  PROVE  AccessInv'
<1>1. /\ users \in [Users -> Flag] /\ tokens \in [Users -> Token \cup {None}]
      /\ member \in [Users -> SUBSET Groups] /\ wanted \in [Users -> SUBSET Groups]
      /\ mixed \in [Users -> SUBSET Groups] /\ added \in [Requests -> SUBSET Groups]
      /\ others \in [Requests -> SUBSET Groups] /\ snap = [b \in Requests |-> snap[b]]
      /\ \A v \in Users : users[v] = None => member[v] = {}
  BY DEF AccessInv, ATypeOK, Flag
<1>2. /\ arg[a] \in Replacement /\ ~arg[a].gone
      /\ arg[a].boot => users[Bootstrap] = None
      /\ users[arg[a].user] # None /\ Replaces(a)
  BY DEF SetGroupsCommit, AccessInv, RequestLocal, Replaces
<1>3. PICK u \in Users, gs \in SUBSET Groups, boot \in BOOLEAN :
        u = arg[a].user /\ gs = arg[a].groups /\ boot = arg[a].boot
  BY <1>2 DEF Replacement
<1>4. PICK groups, requested : /\ groups = [member EXCEPT ![u] = RowsLeft(a) \cup gs]
                               /\ requested = [wanted EXCEPT ![u] = gs \cup added[a]]
  OBVIOUS
<1>5. /\ groups \in [Users -> SUBSET Groups] /\ requested \in [Users -> SUBSET Groups]
      /\ \A v \in Users : v # u => groups[v] = member[v]
  <2>1. RowsLeft(a) \cup gs \in SUBSET Groups /\ gs \cup added[a] \in SUBSET Groups
    BY <1>1, <1>3 DEF RowsLeft
  <2> QED BY <1>1, <1>4, <2>1, PutType
<1>6. /\ users' = WithBootstrap(boot, users, TRUE)
      /\ member' = WithBootstrap(boot, groups, {AdminsGroup})
      /\ wanted' = WithBootstrap(boot, requested, {AdminsGroup})
      /\ mixed' = [mixed EXCEPT ![u] = others[a]]
      /\ tokens' = IF arg[a].login THEN [tokens EXCEPT ![u] = TokenOf(u)] ELSE tokens
      /\ pc' = [pc EXCEPT ![a] = "idle"] /\ arg' = [arg EXCEPT ![a] = None]
      /\ snap' = [Without(snap[a], u, snap) EXCEPT ![a] = {}]
      /\ added' = [Without(snap[a], u, added) EXCEPT ![a] = {}]
      /\ others' = [With(gs, u, others) EXCEPT ![a] = {}]
      /\ UNCHANGED <<edges, granted, index, overlapped>>
  BY <1>3, <1>4 DEF SetGroupsCommit
<1>7. TRUE \in Flag /\ TRUE # None /\ {AdminsGroup} \in SUBSET Groups
  BY Flags, NoneAssumption, GroupAssumption
<1>8. /\ users' \in [Users -> Flag]
      /\ \A v \in Users : users'[v] = IF v = Bootstrap /\ boot THEN TRUE ELSE users[v]
  BY <1>1, <1>6, <1>7, WithBootstrapType DEF WithBootstrap
<1>9. /\ member' \in [Users -> SUBSET Groups]
      /\ \A v \in Users : member'[v] = IF v = Bootstrap /\ boot THEN {AdminsGroup} ELSE groups[v]
  BY <1>5, <1>6, <1>7, WithBootstrapType DEF WithBootstrap
<1>10. wanted' \in [Users -> SUBSET Groups]
  BY <1>5, <1>6, <1>7, WithBootstrapType DEF WithBootstrap
<1>11. /\ \A v \in Users : users[v] # None => users'[v] # None
       /\ \A v \in Users : users'[v] = None => member'[v] = {}
  BY <1>1, <1>2, <1>3, <1>5, <1>7, <1>8, <1>9
<1>12. tokens' \in [Users -> Token \cup {None}]
  <2>1. users'[u] \in BOOLEAN
    BY <1>2, <1>3, <1>8, <1>11, Flags
  <2>2. TokenOf(u) \in Token
    BY <1>9, <2>1 DEF TokenOf, Token
  <2> QED BY <1>1, <1>6, <2>2
<1>13. /\ mixed' \in [Users -> SUBSET Groups] /\ added' \in [Requests -> SUBSET Groups]
       /\ others' \in [Requests -> SUBSET Groups]
  <2>1. /\ Without(snap[a], u, added) \in [Requests -> SUBSET Groups]
        /\ With(gs, u, others) \in [Requests -> SUBSET Groups]
    BY <1>1, NotesType
  <2> QED BY <1>1, <1>6, <2>1
<1>14. ATypeOK'
  BY <1>6, <1>8, <1>9, <1>10, <1>11, <1>12, <1>13 DEF AccessInv, ATypeOK, index, Flag
<1>15. snap' = [b \in Requests |-> snap'[b]]
  BY <1>6 DEF Without
<1>16. users'[Bootstrap] = users[Bootstrap] \/ \A b \in Requests : Boots(b) => b = a
  <2>1. boot => Boots(a)
    BY <1>2, <1>3 DEF Boots
  <2> QED BY <1>8, <2>1, UserAssumption DEF AccessInv
<1> QED BY <1>6, <1>11, <1>14, <1>15, <1>16, RequestKeeps

LEMMA SetGroupsKeepsType ==
  ASSUME AccessInv, NEW a \in Requests,
         \/ \E u \in Users, gs \in SUBSET Groups : SetGroupsStart(a, u, gs) \/ LdapLogin(a, u, gs)
         \/ SetGroupsDelete(a) \/ SetGroupsCommit(a) \/ SetGroupsFails(a)
  PROVE  AccessInv'
<1>1. /\ pc \in [Requests -> {"idle", "child", "delete", "insert"}]
      /\ arg = [b \in Requests |-> arg[b]] /\ snap = [b \in Requests |-> snap[b]]
  BY DEF AccessInv, ATypeOK
<1>2. ASSUME NEW u \in Users, NEW gs \in SUBSET Groups,
             SetGroupsStart(a, u, gs) \/ LdapLogin(a, u, gs)
      PROVE  AccessInv'
  BY <1>2, StartReplacingKeepsType DEF SetGroupsStart, LdapLogin
<1>3. CASE SetGroupsDelete(a)
  <2>1. /\ pc' = [pc EXCEPT ![a] = "insert"] /\ arg' = [arg EXCEPT ![a] = arg[a]]
        /\ snap' = snap /\ UNCHANGED <<tables, tokens, index, history>> /\ Replaces(a)
    BY <1>1, <1>3 DEF SetGroupsDelete, Replaces
  <2>2. ATypeOK' /\ users' = users
    BY <1>1, <2>1 DEF AccessInv, ATypeOK, tables, index, history
  <2>3. /\ arg[a] \in Replacement /\ (arg[a].login => ~arg[a].gone)
        /\ ~arg[a].gone => users'[arg[a].user] # None
        /\ arg[a].boot => arg[a].login /\ users'[Bootstrap] = None
    BY <2>1, <2>2 DEF AccessInv, RequestLocal
  <2>4. arg[a].boot => \A b \in Requests : Boots(b) => b = a
    BY <2>1 DEF AccessInv, Boots
  <2> QED BY <1>1, <2>1, <2>2, <2>3, <2>4, RequestKeeps
<1>4. CASE SetGroupsFails(a)
  <2>1. /\ pc' = [pc EXCEPT ![a] = "idle"] /\ arg' = [arg EXCEPT ![a] = None]
        /\ snap' = [snap EXCEPT ![a] = {}]
        /\ added' = [added EXCEPT ![a] = {}] /\ others' = [others EXCEPT ![a] = {}]
        /\ UNCHANGED <<tables, tokens, index, wanted, mixed, overlapped>>
    BY <1>4 DEF SetGroupsFails, Finish
  <2>2. ATypeOK' /\ users' = users /\ snap' = [b \in Requests |-> snap'[b]]
    BY <1>1, <2>1 DEF AccessInv, ATypeOK, tables, index
  <2> QED BY <2>1, <2>2, RequestKeeps
<1> QED BY <1>2, <1>3, <1>4, SetGroupsCommitKeepsType

LEMMA AddChildKeepsType ==
  ASSUME AccessInv, NEW a \in Requests,
         \/ \E parent, child \in Groups : AddChildCheck(a, parent, child)
         \/ AddChildInsert(a)
  PROVE  AccessInv'
<1>1. /\ pc \in [Requests -> {"idle", "child", "delete", "insert"}]
      /\ edges \subseteq Groups \X Groups
  BY DEF AccessInv, ATypeOK
<1>2. ASSUME NEW parent \in Groups, NEW child \in Groups, AddChildCheck(a, parent, child)
      PROVE  AccessInv'
  <2>1. /\ pc' = [pc EXCEPT ![a] = "child"] /\ arg' = [arg EXCEPT ![a] = <<parent, child>>]
        /\ snap' = [snap EXCEPT ![a] = edges]
        /\ UNCHANGED <<tables, tokens, index, history>>
    BY <1>2 DEF AddChildCheck
  <2>2. ATypeOK' /\ users' = users /\ snap' = [b \in Requests |-> snap'[b]]
    BY <1>1, <2>1 DEF AccessInv, ATypeOK, tables, index, history
  <2> QED BY <2>1, <2>2, RequestKeeps
<1>3. CASE AddChildInsert(a)
  <2>1. arg[a] \in Groups \X Groups
    BY <1>3 DEF AddChildInsert, AccessInv, RequestLocal
  <2>2. /\ pc' = [pc EXCEPT ![a] = "idle"] /\ arg' = [arg EXCEPT ![a] = None]
        /\ snap' = [snap EXCEPT ![a] = {}]
        /\ edges' = edges \cup {arg[a]}
        /\ added' = [added EXCEPT ![a] = {}] /\ others' = [others EXCEPT ![a] = {}]
        /\ UNCHANGED <<users, member, granted, tokens, index, wanted, mixed>>
    BY <1>3 DEF AddChildInsert, Finish
  <2>3. overlapped' \in BOOLEAN
    BY <1>3 DEF AddChildInsert
  <2>4. ATypeOK' /\ snap' = [b \in Requests |-> snap'[b]]
    BY <1>1, <2>1, <2>2, <2>3 DEF AccessInv, ATypeOK, index
  <2> QED BY <2>2, <2>4, RequestKeeps
<1> QED BY <1>2, <1>3

-----------------------------------------------------------------------------
(* Groups, grants and the indexes.                                         *)

LEMMA GroupKeepsType ==
  ASSUME AccessInv, GroupStep \/ \E i \in Indexers : IndexStep(i)
  PROVE  AccessInv'
<1>1. /\ UNCHANGED <<users, member, tokens, request, history>>
      /\ edges' \subseteq Groups \X Groups
  BY DEF GroupStep, IndexStep, Grant, Revoke, RemoveChild, ReadGroups, WriteIndex, tables,
         AccessInv, ATypeOK
<1> DEFINE IndexType == /\ granted \subseteq Groups /\ stale \subseteq Groups
                        /\ indexed \in (SUBSET Groups) \cup {None}
                        /\ read \in [Indexers -> (SUBSET Groups) \cup {None}]
                        /\ since \in [Indexers -> SUBSET Groups]
<1>2. IndexType'
  <2>1. IndexType
    BY DEF AccessInv, ATypeOK
  <2>2. ASSUME NEW g \in Groups, Grant(g) \/ Revoke(g) PROVE IndexType'
    BY <2>1, <2>2 DEF Grant, Revoke, Touch
  <2>3. ASSUME NEW i \in Indexers, IndexStep(i) PROVE IndexType'
    BY <2>1, <2>3 DEF IndexStep, ReadGroups, WriteIndex, tables
  <2>4. ASSUME NEW parent \in Groups, NEW child \in Groups, RemoveChild(parent, child)
        PROVE  IndexType'
    BY <2>1, <2>4 DEF RemoveChild, index
  <2> QED BY <2>2, <2>3, <2>4 DEF GroupStep
<1>3. ATypeOK'
  BY <1>1, <1>2 DEF AccessInv, ATypeOK, history, request
<1> QED BY <1>1, <1>3 DEF AccessInv, RequestLocal, Boots, Replaces, request

LEMMA AccessStep == AccessInv /\ [Next]_vars => AccessInv'
<1> SUFFICES ASSUME AccessInv, [Next]_vars PROVE AccessInv'
  OBVIOUS
<1>1. CASE UNCHANGED vars
  BY <1>1 DEF vars, tables, request, index, history, AccessInv, ATypeOK, RequestLocal, Boots, Replaces
<1>2. ASSUME NEW u \in Users, UserStep(u) PROVE AccessInv'
  BY <1>2, LoginKeepsType, CreateUserKeepsType, EditUserKeepsType, DeleteUserKeepsType DEF UserStep
<1>3. ASSUME NEW a \in Requests, RequestStep(a) PROVE AccessInv'
  BY <1>3, SetGroupsKeepsType, AddChildKeepsType DEF RequestStep
<1> QED BY <1>1, <1>2, <1>3, GroupKeepsType DEF Next

\* For any users, groups, requests and indexers: the tables, tokens and
\* requests have their types, and memberships go with their user, although a
\* request that replaces them may have started before the user was deleted.
THEOREM AccessTypeCorrect == Spec => []ATypeOK
<1>1. AccessInv => ATypeOK
  BY DEF AccessInv
<1> QED BY <1>1, AccessInitially, AccessStep, PTL DEF Spec

-----------------------------------------------------------------------------
(* Groups as requested.                                                    *)

\* What a request knows of the rows of its user: those it has seen that are left,
\* those added one by one since, and the others, which are of other replacements.
Tells(rows, seen, more, foreign) ==
  /\ seen \subseteq rows /\ more \subseteq rows \ seen
  /\ rows \subseteq seen \cup more \cup foreign

Notes(a) ==
  /\ ~Replaces(a) => added[a] = {} /\ others[a] = {}
  /\ Replaces(a) /\ ~arg[a].gone => Tells(member[arg[a].user], snap[a], added[a], others[a])

RequestedInv ==
  /\ AccessInv
  /\ GroupsAsRequested
  /\ \A a \in Requests : Notes(a)

\* A user has what it had, or exactly what is wanted, and what it had if its
\* groups are being replaced.
LEMMA RequestedKept ==
  ASSUME RequestedInv, UNCHANGED <<mixed, request, added, others>>,
         \A v \in Users : \/ member'[v] = member[v] /\ wanted'[v] = wanted[v]
                          \/ member'[v] = wanted'[v] /\ users[v] = None
  PROVE  GroupsAsRequested' /\ \A a \in Requests : Notes(a)'
<1>1. GroupsAsRequested'
  BY DEF RequestedInv, GroupsAsRequested
<1>2. ASSUME NEW a \in Requests PROVE Notes(a)'
  <2>1. CASE Replaces(a) /\ ~arg[a].gone
    <3>1. arg[a].user \in Users /\ users[arg[a].user] # None
      BY <2>1 DEF RequestedInv, AccessInv, RequestLocal, Replacement
    <3>2. member'[arg[a].user] = member[arg[a].user]
      BY <3>1
    <3> QED BY <2>1, <3>2 DEF RequestedInv, Notes, Replaces, request
  <2>2. CASE ~(Replaces(a) /\ ~arg[a].gone)
    BY <2>2 DEF RequestedInv, Notes, Replaces, request
  <2> QED BY <2>1, <2>2
<1> QED BY <1>1, <1>2

LEMMA LoginRequested ==
  ASSUME RequestedInv, NEW u \in Users,
         \/ LocalLogin(u) \/ Register(u) \/ TokenExpires(u)
         \/ \E gs \in SUBSET Groups :
              LdapFirstLogin(u, gs) \/ \E admin \in BOOLEAN : CreateUser(u, admin, gs)
  PROVE  GroupsAsRequested' /\ \A a \in Requests : Notes(a)'
<1>1. /\ member \in [Users -> SUBSET Groups] /\ wanted \in [Users -> SUBSET Groups]
  BY DEF RequestedInv, AccessInv, ATypeOK
<1>2. UNCHANGED <<mixed, request, added, others>>
  BY DEF LocalLogin, Register, TokenExpires, LdapFirstLogin, CreateUser, history
<1>3. CASE TokenExpires(u)
  BY <1>2, <1>3, RequestedKept DEF TokenExpires, tables, history
<1>4. CASE LocalLogin(u) \/ Register(u)
  <2>1. /\ member' = IF users[Bootstrap] = None THEN [member EXCEPT ![Bootstrap] = {AdminsGroup}] ELSE member
        /\ wanted' = IF users[Bootstrap] = None THEN [wanted EXCEPT ![Bootstrap] = {AdminsGroup}] ELSE wanted
    BY <1>4 DEF LocalLogin, Register, WithBootstrap, BootstrapMissing
  <2> QED BY <1>1, <1>2, <2>1, RequestedKept
<1>5. ASSUME NEW gs \in SUBSET Groups, LdapFirstLogin(u, gs)
      PROVE  GroupsAsRequested' /\ \A a \in Requests : Notes(a)'
  <2>1. PICK groups, requested :
          groups = [member EXCEPT ![u] = gs] /\ requested = [wanted EXCEPT ![u] = gs]
    OBVIOUS
  <2>2. /\ member' = IF users[Bootstrap] = None THEN [groups EXCEPT ![Bootstrap] = {AdminsGroup}] ELSE groups
        /\ wanted' = IF users[Bootstrap] = None
                     THEN [requested EXCEPT ![Bootstrap] = {AdminsGroup}] ELSE requested
        /\ users[u] = None
    BY <1>5, <2>1 DEF LdapFirstLogin, WithBootstrap, BootstrapMissing
  <2>3. /\ groups \in [Users -> SUBSET Groups] /\ requested \in [Users -> SUBSET Groups]
        /\ groups[u] = requested[u]
        /\ \A v \in Users : v # u => groups[v] = member[v] /\ requested[v] = wanted[v]
    BY <1>1, <2>1
  <2>4. \A v \in Users : \/ member'[v] = member[v] /\ wanted'[v] = wanted[v]
                         \/ member'[v] = wanted'[v] /\ users[v] = None
    BY <2>2, <2>3
  <2> QED BY <1>2, <2>4, RequestedKept
<1>6. ASSUME NEW gs \in SUBSET Groups, NEW admin \in BOOLEAN, CreateUser(u, admin, gs)
      PROVE  GroupsAsRequested' /\ \A a \in Requests : Notes(a)'
  BY <1>1, <1>2, <1>6, RequestedKept DEF CreateUser
<1> QED BY <1>3, <1>4, <1>5, <1>6

\* Rows of one user are deleted and inserted beside the requests that replace its
\* groups, which take note of them.
LEMMA NotesStep ==
  ASSUME RequestedInv, NEW u \in Users, UNCHANGED pc,
         NEW a \in Requests, NEW lost, NEW single, NEW foreign,
         arg'[a] = arg[a],
         \A v \in Users : v # u => member'[v] = member[v],
         member'[u] = (member[u] \ lost) \cup single \cup foreign,
         a \in Replacing(u) => /\ snap'[a] = snap[a] \ lost
                               /\ added'[a] = (added[a] \ lost) \cup (single \ member[u])
                               /\ others'[a] = others[a] \cup foreign,
         a \notin Replacing(u) => UNCHANGED <<snap[a], added[a], others[a]>>,
         single = {} \/ lost = {}
  PROVE  Notes(a)'
<1>1. Notes(a) /\ RequestLocal(a) /\ pc'[a] = pc[a]
  BY DEF RequestedInv, AccessInv
<1>2. CASE a \notin Replacing(u)
  <2>1. Replaces(a) /\ ~arg[a].gone => arg[a].user \in Users /\ arg[a].user # u
    BY <1>1, <1>2 DEF Replacing, Replaces, RequestLocal, Replacement
  <2> QED BY <1>1, <1>2, <2>1 DEF Notes, Replaces
<1>3. CASE a \in Replacing(u)
  <2>1. Replaces(a) /\ ~arg[a].gone /\ arg[a].user = u
    BY <1>3 DEF Replacing, Replaces
  <2>2. Tells(member[u], snap[a], added[a], others[a])
    BY <1>1, <2>1 DEF Notes
  <2>3. Tells(member'[u], snap'[a], added'[a], others'[a])
    BY <1>3, <2>2 DEF Tells
  <2> QED BY <1>1, <2>1, <2>3 DEF Notes, Replaces
<1> QED BY <1>2, <1>3

LEMMA EditRequested ==
  ASSUME RequestedInv, NEW u \in Users, NEW g \in Groups,
         AddUserToGroup(u, g) \/ RemoveUserFromGroup(u, g)
  PROVE  GroupsAsRequested' /\ \A a \in Requests : Notes(a)'
<1>1. /\ member \in [Users -> SUBSET Groups] /\ wanted \in [Users -> SUBSET Groups]
      /\ \A a \in Requests : a \in Replacing(u) => a \in Requests
      /\ snap = [a \in Requests |-> snap[a]] /\ added \in [Requests -> SUBSET Groups]
      /\ \A v \in Users : wanted[v] \subseteq member[v] /\ member[v] \subseteq wanted[v] \cup mixed[v]
  BY DEF RequestedInv, AccessInv, ATypeOK, GroupsAsRequested
<1>2. CASE AddUserToGroup(u, g)
  <2>1. /\ member' = [member EXCEPT ![u] = @ \cup {g}] /\ wanted' = [wanted EXCEPT ![u] = @ \cup {g}]
        /\ added' = With({g} \ member[u], u, added)
        /\ UNCHANGED <<pc, arg, snap, others, mixed>>
    BY <1>2 DEF AddUserToGroup, request
  <2>2. GroupsAsRequested'
    BY <1>1, <2>1 DEF GroupsAsRequested
  <2>3. ASSUME NEW a \in Requests PROVE Notes(a)'
    <3>1. a \in Replacing(u) => added'[a] = (added[a] \ {}) \cup ({g} \ member[u])
      BY <2>1 DEF With
    <3>2. a \notin Replacing(u) => added'[a] = added[a]
      BY <2>1 DEF With
    <3>3. /\ member'[u] = (member[u] \ {}) \cup {g} \cup {}
          /\ \A v \in Users : v # u => member'[v] = member[v]
      BY <1>1, <2>1
    <3>4. /\ snap'[a] = snap[a] \ {} /\ others'[a] = others[a] \cup {}
          /\ snap'[a] = snap[a] /\ others'[a] = others[a]
      BY <2>1
    <3> QED BY <2>1, <3>1, <3>2, <3>3, <3>4, NotesStep
  <2> QED BY <2>2, <2>3
<1>3. CASE RemoveUserFromGroup(u, g)
  <2>1. /\ member' = [member EXCEPT ![u] = @ \ {g}] /\ wanted' = [wanted EXCEPT ![u] = @ \ {g}]
        /\ snap' = Without({g}, u, snap) /\ added' = Without({g}, u, added)
        /\ UNCHANGED <<pc, arg, others, mixed>>
    BY <1>3 DEF RemoveUserFromGroup
  <2>2. GroupsAsRequested'
    BY <1>1, <2>1 DEF GroupsAsRequested
  <2>3. ASSUME NEW a \in Requests PROVE Notes(a)'
    <3>1. a \in Replacing(u) => /\ snap'[a] = snap[a] \ {g}
                                /\ added'[a] = (added[a] \ {g}) \cup ({} \ member[u])
      BY <2>1 DEF Without
    <3>2. a \notin Replacing(u) => snap'[a] = snap[a] /\ added'[a] = added[a]
      BY <2>1 DEF Without
    <3>3. /\ member'[u] = (member[u] \ {g}) \cup {} \cup {}
          /\ \A v \in Users : v # u => member'[v] = member[v]
      BY <1>1, <2>1
    <3>4. others'[a] = others[a] \cup {} /\ others'[a] = others[a]
      BY <2>1
    <3> QED BY <2>1, <3>1, <3>2, <3>3, <3>4, NotesStep
  <2> QED BY <2>2, <2>3
<1> QED BY <1>2, <1>3

LEMMA DeleteUserRequested ==
  ASSUME RequestedInv, NEW u \in Users, DeleteUser(u)
  PROVE  GroupsAsRequested' /\ \A a \in Requests : Notes(a)'
<1>1. /\ member \in [Users -> SUBSET Groups] /\ wanted \in [Users -> SUBSET Groups]
      /\ mixed \in [Users -> SUBSET Groups]
  BY DEF RequestedInv, AccessInv, ATypeOK
<1>2. /\ member' = [member EXCEPT ![u] = {}] /\ wanted' = [wanted EXCEPT ![u] = {}]
      /\ mixed' = [mixed EXCEPT ![u] = {}]
      /\ UNCHANGED <<added, others, pc>> /\ snap' = Without(member[u], u, snap)
      /\ arg' = [a \in Requests |-> IF a \in Replacing(u) THEN [arg[a] EXCEPT !.gone = TRUE] ELSE arg[a]]
  BY DEF DeleteUser, ForgetUser
<1>3. GroupsAsRequested'
  BY <1>1, <1>2 DEF RequestedInv, GroupsAsRequested
<1>4. ASSUME NEW a \in Requests PROVE Notes(a)'
  <2>1. Notes(a) /\ RequestLocal(a) /\ pc'[a] = pc[a]
    BY <1>2 DEF RequestedInv, AccessInv
  <2>2. CASE a \in Replacing(u)
    <3>1. Replaces(a) /\ arg[a] \in Replacement
      BY <2>1, <2>2 DEF Replacing, Replaces, RequestLocal
    <3>2. arg'[a].gone
      BY <1>2, <2>2, <3>1 DEF Replacement
    <3> QED BY <2>1, <3>1, <3>2 DEF Notes, Replaces
  <2>3. CASE a \notin Replacing(u)
    <3>1. arg'[a] = arg[a] /\ snap'[a] = snap[a] /\ added'[a] = added[a] /\ others'[a] = others[a]
      BY <1>2, <2>3 DEF Without
    <3>2. Replaces(a) /\ ~arg[a].gone => arg[a].user \in Users /\ arg[a].user # u
      BY <2>1, <2>3 DEF Replacing, Replaces, RequestLocal, Replacement
    <3>3. \A v \in Users : v # u => member'[v] = member[v]
      BY <1>1, <1>2
    <3> QED BY <2>1, <3>1, <3>2, <3>3 DEF Notes, Replaces
  <2> QED BY <2>2, <2>3
<1> QED BY <1>3, <1>4

\* The rows that a replacement leaves are those added one by one since it began
\* and those of others; the requests beside it lose the rows it deletes and note
\* the rows it inserts.
LEMMA CommitRequested ==
  ASSUME RequestedInv, NEW a \in Requests, SetGroupsCommit(a)
  PROVE  GroupsAsRequested' /\ \A b \in Requests : Notes(b)'
<1>1. /\ member \in [Users -> SUBSET Groups] /\ wanted \in [Users -> SUBSET Groups]
      /\ mixed \in [Users -> SUBSET Groups] /\ pc \in [Requests -> {"idle", "child", "delete", "insert"}]
      /\ arg = [b \in Requests |-> arg[b]]
      /\ \A v \in Users : wanted[v] \subseteq member[v] /\ member[v] \subseteq wanted[v] \cup mixed[v]
      /\ \A v \in Users : users[v] = None => member[v] = {}
  BY DEF RequestedInv, AccessInv, ATypeOK, GroupsAsRequested
<1>2. /\ arg[a] \in Replacement /\ ~arg[a].gone
      /\ arg[a].boot => users[Bootstrap] = None
      /\ users[arg[a].user] # None /\ Replaces(a) /\ Notes(a)
  BY DEF SetGroupsCommit, RequestedInv, AccessInv, RequestLocal, Replaces
<1>3. PICK u \in Users, gs \in SUBSET Groups, boot \in BOOLEAN :
        u = arg[a].user /\ gs = arg[a].groups /\ boot = arg[a].boot
  BY <1>2 DEF Replacement
<1>4. boot => u # Bootstrap /\ users[Bootstrap] = None
  BY <1>2, <1>3
<1>5. PICK groups, requested : /\ groups = [member EXCEPT ![u] = RowsLeft(a) \cup gs]
                               /\ requested = [wanted EXCEPT ![u] = gs \cup added[a]]
  OBVIOUS
<1>6. /\ member' = IF boot THEN [groups EXCEPT ![Bootstrap] = {AdminsGroup}] ELSE groups
      /\ wanted' = IF boot THEN [requested EXCEPT ![Bootstrap] = {AdminsGroup}] ELSE requested
      /\ mixed' = [mixed EXCEPT ![u] = others[a]]
      /\ pc' = [pc EXCEPT ![a] = "idle"] /\ arg' = [arg EXCEPT ![a] = None]
      /\ snap' = [Without(snap[a], u, snap) EXCEPT ![a] = {}]
      /\ added' = [Without(snap[a], u, added) EXCEPT ![a] = {}]
      /\ others' = [With(gs, u, others) EXCEPT ![a] = {}]
  BY <1>3, <1>5 DEF SetGroupsCommit, WithBootstrap
<1>7. /\ DOMAIN groups = Users /\ DOMAIN requested = Users
      /\ groups[u] = (member[u] \ snap[a]) \cup gs /\ requested[u] = gs \cup added[a]
      /\ \A v \in Users : v # u => groups[v] = member[v] /\ requested[v] = wanted[v]
  BY <1>1, <1>3, <1>5 DEF RowsLeft
<1>8. /\ member'[u] = (member[u] \ snap[a]) \cup gs /\ wanted'[u] = gs \cup added[a]
      /\ mixed'[u] = others[a]
      /\ \A v \in Users : v # u => mixed'[v] = mixed[v]
      /\ \A v \in Users : v # u => \/ member'[v] = member[v] /\ wanted'[v] = wanted[v]
                                   \/ v = Bootstrap /\ boot /\ member'[v] = wanted'[v]
  BY <1>1, <1>4, <1>6, <1>7
<1>9. Tells(member[u], snap[a], added[a], others[a])
  BY <1>2, <1>3 DEF Notes
<1>10. GroupsAsRequested'
  <2>1. ASSUME NEW v \in Users
        PROVE  wanted'[v] \subseteq member'[v] /\ member'[v] \subseteq wanted'[v] \cup mixed'[v]
    <3>1. CASE v = u
      BY <1>8, <1>9, <3>1 DEF Tells
    <3>2. CASE v # u
      BY <1>1, <1>8, <3>2
    <3> QED BY <3>1, <3>2
  <2> QED BY <2>1 DEF GroupsAsRequested
<1>11. ASSUME NEW b \in Requests PROVE Notes(b)'
  <2>1. CASE b = a
    <3>1. pc'[b] = "idle" /\ added'[b] = {} /\ others'[b] = {}
      BY <1>1, <1>6, <2>1 DEF With, Without
    <3> QED BY <3>1 DEF Notes, Replaces
  <2>2. CASE b # a
    <3>1. /\ pc'[b] = pc[b] /\ arg'[b] = arg[b] /\ Notes(b) /\ RequestLocal(b)
          /\ snap'[b] = Without(snap[a], u, snap)[b]
          /\ added'[b] = Without(snap[a], u, added)[b]
          /\ others'[b] = With(gs, u, others)[b]
      BY <1>1, <1>6, <2>2 DEF With, Without, RequestedInv, AccessInv
    <3>2. CASE b \in Replacing(u)
      <4>1. /\ snap'[b] = snap[b] \ snap[a] /\ added'[b] = added[b] \ snap[a]
            /\ others'[b] = others[b] \cup gs
        BY <3>1, <3>2 DEF With, Without
      <4>2. Replaces(b) /\ ~arg[b].gone /\ arg[b].user = u
        BY <3>2 DEF Replacing, Replaces
      <4>3. Tells(member[u], snap[b], added[b], others[b])
        BY <3>1, <4>2 DEF Notes
      <4>4. Tells(member'[u], snap'[b], added'[b], others'[b])
        BY <1>8, <4>1, <4>3 DEF Tells
      <4> QED BY <3>1, <4>2, <4>4 DEF Notes, Replaces
    <3>3. CASE b \notin Replacing(u)
      <4>1. snap'[b] = snap[b] /\ added'[b] = added[b] /\ others'[b] = others[b]
        BY <3>1, <3>3 DEF With, Without
      <4>2. Replaces(b) /\ ~arg[b].gone =>
              arg[b].user \in Users /\ arg[b].user # u /\ users[arg[b].user] # None
        BY <3>1, <3>3 DEF Replacing, Replaces, RequestLocal, Replacement
      <4>3. Replaces(b) /\ ~arg[b].gone => member'[arg[b].user] = member[arg[b].user]
        BY <1>4, <1>8, <4>2
      <4> QED BY <3>1, <4>1, <4>3 DEF Notes, Replaces
    <3> QED BY <3>2, <3>3
  <2> QED BY <2>1, <2>2
<1> QED BY <1>10, <1>11

\* The other steps of a request, which change no membership.
LEMMA RequestRequested ==
  ASSUME RequestedInv, NEW a \in Requests, RequestStep(a), ~SetGroupsCommit(a)
  PROVE  GroupsAsRequested' /\ \A b \in Requests : Notes(b)'
<1>1. /\ UNCHANGED <<member, wanted, mixed>>
      /\ \A b \in Requests : b # a =>
           UNCHANGED <<pc[b], arg[b], snap[b], added[b], others[b]>>
  BY DEF RequestStep, SetGroupsStart, LdapLogin, StartReplacing, SetGroupsDelete, SetGroupsFails,
         AddChildCheck, AddChildInsert, Finish, tables, history, RequestedInv, AccessInv, ATypeOK
<1>2. GroupsAsRequested'
  BY <1>1 DEF RequestedInv, GroupsAsRequested
<1>3. \A b \in Requests : b # a => Notes(b)'
  BY <1>1 DEF RequestedInv, Notes, Replaces
<1>4. /\ pc \in [Requests -> {"idle", "child", "delete", "insert"}]
      /\ arg = [b \in Requests |-> arg[b]] /\ snap = [b \in Requests |-> snap[b]]
      /\ added \in [Requests -> SUBSET Groups] /\ others \in [Requests -> SUBSET Groups]
      /\ Notes(a)
  BY DEF RequestedInv, AccessInv, ATypeOK
<1>5. ASSUME NEW u \in Users, NEW gs \in SUBSET Groups,
             SetGroupsStart(a, u, gs) \/ LdapLogin(a, u, gs)
      PROVE  Notes(a)'
  <2>1. PICK login : StartReplacing(a, u, gs, login)
    BY <1>5 DEF SetGroupsStart, LdapLogin
  <2>2. /\ pc[a] = "idle" /\ arg'[a].user = u /\ snap'[a] = member[u] /\ pc'[a] = "delete"
        /\ UNCHANGED <<added, others>>
    BY <1>4, <2>1 DEF StartReplacing, history
  <2>3. added[a] = {} /\ others[a] = {}
    BY <1>4, <2>2 DEF Notes, Replaces
  <2> QED BY <1>1, <2>2, <2>3 DEF Notes, Replaces, Tells
<1>6. ASSUME SetGroupsDelete(a) PROVE Notes(a)'
  <2>1. Replaces(a) /\ pc'[a] = "insert" /\ UNCHANGED <<arg, snap, added, others>>
    BY <1>4, <1>6 DEF SetGroupsDelete, Replaces, history
  <2> QED BY <1>1, <1>4, <2>1 DEF Notes, Replaces
<1>7. ASSUME SetGroupsFails(a) \/ AddChildInsert(a) PROVE Notes(a)'
  <2>1. pc'[a] = "idle" /\ added'[a] = {} /\ others'[a] = {}
    BY <1>4, <1>7 DEF SetGroupsFails, AddChildInsert, Finish
  <2> QED BY <2>1 DEF Notes, Replaces
<1>8. ASSUME NEW parent \in Groups, NEW child \in Groups, AddChildCheck(a, parent, child)
      PROVE  Notes(a)'
  <2>1. pc[a] = "idle" /\ pc'[a] = "child" /\ UNCHANGED <<added, others>>
    BY <1>4, <1>8 DEF AddChildCheck, history
  <2> QED BY <1>4, <2>1 DEF Notes, Replaces
<1> QED BY <1>2, <1>3, <1>5, <1>6, <1>7, <1>8 DEF RequestStep

LEMMA RequestedStep ==
  ASSUME RequestedInv, [Next]_vars
  PROVE  RequestedInv'
<1>1. AccessInv'
  BY AccessStep DEF RequestedInv
<1>2. CASE GroupStep \/ (\E i \in Indexers : IndexStep(i)) \/ UNCHANGED vars
  <2>1. UNCHANGED <<member, wanted, mixed, request, added, others>>
    BY <1>2 DEF GroupStep, Grant, Revoke, RemoveChild, IndexStep, ReadGroups, WriteIndex,
                tables, history, vars
  <2> QED BY <1>1, <2>1, RequestedKept DEF RequestedInv
<1>3. ASSUME NEW u \in Users, UserStep(u) PROVE RequestedInv'
  BY <1>1, <1>3, LoginRequested, EditRequested, DeleteUserRequested DEF UserStep, RequestedInv
<1>4. ASSUME NEW a \in Requests, RequestStep(a) PROVE RequestedInv'
  BY <1>1, <1>4, CommitRequested, RequestRequested DEF RequestedInv
<1> QED BY <1>2, <1>3, <1>4 DEF Next

\* For any users, groups and requests, in any order of their statements: a user
\* has every group its last replacement asked for and those added one by one
\* since, and beside them only groups of replacements that overlapped with that
\* one (set_user_groups, upsert_ldap_user, add_user_to_group).
THEOREM GroupsAsRequestedHolds == Spec => []GroupsAsRequested
<1>1. Init => RequestedInv
  <2> SUFFICES ASSUME Init PROVE RequestedInv
    OBVIOUS
  <2>1. GroupsAsRequested
    BY DEF Init, GroupsAsRequested
  <2>2. \A a \in Requests : Notes(a)
    BY DEF Init, Notes, Replaces
  <2> QED BY <2>1, <2>2, AccessInitially DEF RequestedInv
<1>2. RequestedInv => GroupsAsRequested
  BY DEF RequestedInv
<1> QED BY <1>1, <1>2, RequestedStep, PTL DEF Spec

-----------------------------------------------------------------------------
(* Search matches access.                                                  *)

\* A copy of the source's groups differs from them by groups that have been
\* granted or revoked since it was read.
CopyInv ==
  /\ AccessInv
  /\ \A i \in Indexers : read[i] # None => read[i] \ since[i] = granted \ since[i]
  /\ indexed # None => indexed \ stale = granted \ stale

LEMMA CopyStep ==
  ASSUME CopyInv, [Next]_vars
  PROVE  CopyInv'
<1>1. /\ read \in [Indexers -> (SUBSET Groups) \cup {None}] /\ since \in [Indexers -> SUBSET Groups]
      /\ granted \subseteq Groups /\ stale \subseteq Groups
      /\ indexed \in (SUBSET Groups) \cup {None}
  BY DEF CopyInv, AccessInv, ATypeOK
<1>2. AccessInv'
  BY AccessStep DEF CopyInv
<1>3. CASE UNCHANGED <<granted, index>>
  BY <1>2, <1>3 DEF CopyInv, index
<1>4. ASSUME NEW g \in Groups, Grant(g) \/ Revoke(g) PROVE CopyInv'
  <2>1. /\ granted' = granted \cup {g} \/ granted' = granted \ {g}
        /\ since' = [i \in Indexers |-> IF read[i] = None THEN {} ELSE since[i] \cup {g}]
        /\ stale' = IF indexed = None THEN {} ELSE stale \cup {g}
        /\ indexed' = indexed /\ read' = read
    BY <1>4 DEF Grant, Revoke, Touch
  <2>2. ASSUME NEW i \in Indexers, read'[i] # None
        PROVE  read'[i] \ since'[i] = granted' \ since'[i]
    <3>1. since'[i] = since[i] \cup {g} /\ read[i] \ since[i] = granted \ since[i]
      BY <2>1, <2>2 DEF CopyInv
    <3> QED BY <2>1, <3>1
  <2>3. ASSUME indexed' # None PROVE indexed' \ stale' = granted' \ stale'
    <3>1. stale' = stale \cup {g} /\ indexed \ stale = granted \ stale
      BY <2>1, <2>3 DEF CopyInv
    <3> QED BY <2>1, <3>1
  <2> QED BY <1>2, <2>2, <2>3 DEF CopyInv
<1>5. ASSUME NEW i \in Indexers, ReadGroups(i) PROVE CopyInv'
  BY <1>1, <1>2, <1>5 DEF ReadGroups, CopyInv, tables
<1>6. ASSUME NEW i \in Indexers, WriteIndex(i) PROVE CopyInv'
  <2>1. /\ read[i] # None /\ indexed' = read[i] /\ stale' = since[i] /\ granted' = granted
        /\ read' = [read EXCEPT ![i] = None] /\ since' = [since EXCEPT ![i] = {}]
    BY <1>6 DEF WriteIndex, tables
  <2>2. indexed' \ stale' = granted' \ stale'
    BY <2>1 DEF CopyInv
  <2>3. ASSUME NEW j \in Indexers, read'[j] # None PROVE read'[j] \ since'[j] = granted' \ since'[j]
    BY <1>1, <2>1, <2>3 DEF CopyInv
  <2> QED BY <1>2, <2>2, <2>3 DEF CopyInv
<1>7. ASSUME NEW u \in Users, UserStep(u) PROVE UNCHANGED <<granted, index>>
  BY <1>7 DEF UserStep, LocalLogin, Register, LdapFirstLogin, CreateUser, TokenExpires, DeleteUser,
              AddUserToGroup, RemoveUserFromGroup, tables
<1>8. ASSUME NEW a \in Requests, RequestStep(a) PROVE UNCHANGED <<granted, index>>
  BY <1>8 DEF RequestStep, SetGroupsStart, LdapLogin, StartReplacing, SetGroupsDelete,
              SetGroupsCommit, SetGroupsFails, AddChildCheck, AddChildInsert, tables
<1>9. ASSUME NEW parent \in Groups, NEW child \in Groups, RemoveChild(parent, child)
      PROVE  UNCHANGED <<granted, index>>
  BY <1>9 DEF RemoveChild
<1>10. CASE UNCHANGED vars
  BY <1>3, <1>10 DEF vars, tables
<1> QED BY <1>3, <1>4, <1>5, <1>6, <1>7, <1>8, <1>9, <1>10 DEF Next, GroupStep, IndexStep

\* For any groups, grants and indexers, and whatever the graph of groups is:
\* search finds an indexed document for a token exactly when preview opens it,
\* up to groups granted or revoked since the copy was read.
THEOREM SearchMatchesAccessHolds == Spec => []SearchMatchesAccess
<1>1. Init => CopyInv
  BY AccessInitially DEF Init, CopyInv
<1>2. CopyInv => SearchMatchesAccess
  <2> SUFFICES ASSUME CopyInv, NEW u \in Users, tokens[u] # None, indexed # None,
                      ~tokens[u].admin, ~IsAdminsMember(u),
                      stale \cap Effective(tokens[u].groups) = {}
               PROVE  Found(u) = CanAccess(u)
    BY DEF SearchMatchesAccess
  <2>1. indexed \ stale = granted \ stale
    BY DEF CopyInv
  <2>2. indexed \cap Effective(tokens[u].groups) = granted \cap Effective(tokens[u].groups)
    BY <2>1
  <2>3. CASE tokens[u].groups = {}
    BY <2>3 DEF Found, SearchGroups, CanAccess
  <2>4. CASE tokens[u].groups # {}
    BY <2>2, <2>4 DEF Found, SearchGroups, CanAccess, IsAdminsMember
  <2> QED BY <2>3, <2>4
<1> QED BY <1>1, <1>2, CopyStep, PTL DEF Spec

-----------------------------------------------------------------------------
(* The recursive query.  Below(gs) is defined by recursion over the steps; *)
(* as functions on 0..n that satisfy the recursion exist for every n, it   *)
(* has the values its definition says, and Below({x})[n] is what walks of  *)
(* n steps from x reach.                                                   *)

LEMMA Least ==
  ASSUME NEW S, S \subseteq Nat, S # {}
  PROVE  \E n \in S : \A m \in S : n <= m
<1> DEFINE R == OpToRel(<, Nat)
<1>1. IsWellFoundedOn(R, Nat)
  BY NatLessThanWellFounded
<1>2. PICK n \in S : \A m \in S : ~ (<<m, n>> \in R)
  <2> HIDE DEF R
  <2> QED BY <1>1, WFMin
<1>3. \A m \in S : ~ (m < n)
  BY <1>2 DEF OpToRel
<1> QED BY <1>3

Children(gs) == {g \in Groups : \E p \in gs : <<p, g>> \in edges}

Unfolds(f, gs, n) ==
  /\ f \in [0..n -> SUBSET Groups]
  /\ f[0] = gs
  /\ \A i \in 0..n : i < n => f[i + 1] = Children(f[i])

LEMMA UnfoldsExists ==
  ASSUME NEW gs \in SUBSET Groups, NEW n \in Nat
  PROVE  \E f : Unfolds(f, gs, n)
<1> DEFINE Bad == {m \in Nat : ~ \E f : Unfolds(f, gs, m)}
<1>1. SUFFICES ASSUME Bad # {} PROVE FALSE
  OBVIOUS
<1>2. PICK m \in Bad : \A k \in Bad : m <= k
  <2>1. Bad \subseteq Nat
    OBVIOUS
  <2> HIDE DEF Bad
  <2> QED BY <1>1, <2>1, Least
<1>3. m # 0
  <2>1. Unfolds([i \in 0..0 |-> gs], gs, 0)
    BY DEF Unfolds
  <2> QED BY <2>1
<1>4. m - 1 \in Nat /\ m - 1 \notin Bad
  BY <1>2, <1>3
<1>5. PICK f : Unfolds(f, gs, m - 1)
  BY <1>4
<1> DEFINE h == [i \in 0..m |-> IF i < m THEN f[i] ELSE Children(f[m - 1])]
<1>6. Unfolds(h, gs, m)
  <2>1. Children(f[m - 1]) \in SUBSET Groups
    BY DEF Children
  <2>2. \A i \in 0..m : i < m => i \in 0..(m - 1) /\ f[i] \in SUBSET Groups
    BY <1>4, <1>5 DEF Unfolds
  <2>3. h \in [0..m -> SUBSET Groups]
    BY <2>1, <2>2
  <2>4. h[0] = gs
    BY <1>3, <1>4, <1>5 DEF Unfolds
  <2>5. ASSUME NEW i \in 0..m, i < m PROVE h[i + 1] = Children(h[i])
    <3>1. CASE i + 1 < m
      <4>1. i \in 0..(m - 1) /\ i < m - 1 /\ i + 1 \in 0..m
        BY <1>4, <2>5, <3>1
      <4>2. f[i + 1] = Children(f[i])
        BY <1>5, <4>1 DEF Unfolds
      <4>3. h[i + 1] = f[i + 1] /\ h[i] = f[i]
        BY <2>5, <3>1, <4>1
      <4> QED BY <4>2, <4>3
    <3>2. CASE ~(i + 1 < m)
      <4>1. i = m - 1 /\ i + 1 = m /\ m \in 0..m /\ m \in Nat
        BY <1>4, <2>5, <3>2
      <4>2. h[m] = Children(f[m - 1]) /\ h[i] = f[m - 1]
        BY <2>5, <4>1
      <4> QED BY <4>1, <4>2
    <3> QED BY <3>1, <3>2
  <2> HIDE DEF h
  <2> QED BY <2>3, <2>4, <2>5 DEF Unfolds
<1> QED BY <1>2, <1>6

LEMMA BelowUnfolds ==
  ASSUME NEW gs \in SUBSET Groups
  PROVE  Unfolds(Below(gs), gs, Depth)
<1> DEFINE F(f) == [n \in 0..Depth |->
                      IF n = 0 THEN gs ELSE {g \in Groups : \E p \in f[n - 1] : <<p, g>> \in edges}]
<1>1. Depth \in Nat
  BY DepthAssumption
<1>2. PICK f : Unfolds(f, gs, Depth)
  BY <1>1, UnfoldsExists
<1>3. f = F(f)
  <2>1. ASSUME NEW n \in 0..Depth PROVE f[n] = F(f)[n]
    <3>1. CASE n = 0
      BY <1>2, <3>1 DEF Unfolds
    <3>2. CASE n # 0
      <4>1. n - 1 \in 0..Depth /\ n - 1 < Depth /\ (n - 1) + 1 = n
        BY <1>1, <3>2
      <4>2. f[(n - 1) + 1] = Children(f[n - 1])
        BY <1>2, <4>1 DEF Unfolds
      <4> QED BY <3>2, <4>1, <4>2 DEF Children
    <3> QED BY <3>1, <3>2
  <2>2. f = [n \in 0..Depth |-> f[n]]
    BY <1>2 DEF Unfolds
  <2> QED BY <2>1, <2>2
<1>4. Below(gs) = F(Below(gs))
  BY <1>3 DEF Below
<1> DEFINE b == Below(gs)
<1>5. b[0] = gs
  BY <1>1, <1>4
<1>6. \A i \in 0..Depth : i < Depth => b[i + 1] = Children(b[i])
  <2> SUFFICES ASSUME NEW i \in 0..Depth, i < Depth PROVE b[i + 1] = Children(b[i])
    OBVIOUS
  <2>1. i + 1 \in 0..Depth /\ i + 1 # 0 /\ (i + 1) - 1 = i
    BY <1>1
  <2> QED BY <1>4, <2>1 DEF Children
<1>7. b \in [0..Depth -> SUBSET Groups]
  <2>1. \A n \in 0..Depth : F(b)[n] \in SUBSET Groups
    OBVIOUS
  <2>2. b = [n \in 0..Depth |-> F(b)[n]]
    BY <1>4
  <2> HIDE DEF b, F
  <2> QED BY <2>1, <2>2
<1> QED BY <1>5, <1>6, <1>7 DEF Unfolds

IsWalk(w, n, x, y, E) ==
  /\ w \in [0..n -> Groups]
  /\ w[0] = x /\ w[n] = y
  /\ \A i \in 0..n : i < n => <<w[i], w[i + 1]>> \in E
Walk(n, x, y, E) == \E w : IsWalk(w, n, x, y, E)

\* What the query finds after n steps is joined to x by a walk.
LEMMA BelowWalks ==
  ASSUME NEW x \in Groups, NEW n \in 0..Depth, NEW y \in Groups
  PROVE  y \in Below({x})[n] <=> Walk(n, x, y, edges)
<1> DEFINE b == Below({x})
           Bad == {m \in 0..Depth : ~ \A z \in Groups : z \in b[m] <=> Walk(m, x, z, edges)}
<1>1. Depth \in Nat /\ Unfolds(b, {x}, Depth)
  BY DepthAssumption, BelowUnfolds
<1>2. SUFFICES ASSUME Bad # {} PROVE FALSE
  OBVIOUS
<1>3. PICK m \in Bad : \A k \in Bad : m <= k
  <2>1. Bad \subseteq Nat
    OBVIOUS
  <2> HIDE DEF Bad
  <2> QED BY <1>2, <2>1, Least
<1>4. m # 0
  <2>1. ASSUME NEW z \in Groups PROVE z \in b[0] <=> Walk(0, x, z, edges)
    <3>1. z \in b[0] <=> z = x
      BY <1>1 DEF Unfolds
    <3>2. IsWalk([i \in 0..0 |-> x], 0, x, x, edges)
      BY DEF IsWalk
    <3>3. Walk(0, x, z, edges) => z = x
      BY DEF Walk, IsWalk
    <3> QED BY <3>1, <3>2, <3>3 DEF Walk
  <2> HIDE DEF b
  <2> QED BY <2>1
<1> DEFINE k == m - 1
<1>5. k \in 0..Depth /\ k < Depth /\ k + 1 = m /\ k \in Nat /\ m \in Nat
  BY <1>1, <1>4
<1>6. \A z \in Groups : z \in b[k] <=> Walk(k, x, z, edges)
  <2>1. k \notin Bad
    BY <1>3, <1>5
  <2> HIDE DEF b, k
  <2> QED BY <1>5, <2>1
<1>7. b[m] = Children(b[k]) /\ b[k] \subseteq Groups
  <2> HIDE DEF b, k
  <2> QED BY <1>1, <1>5 DEF Unfolds
<1>8. ASSUME NEW z \in Groups PROVE z \in b[m] <=> Walk(m, x, z, edges)
  <2> HIDE DEF b, k, Bad
  <2>1. ASSUME z \in b[m] PROVE Walk(m, x, z, edges)
    <3>1. PICK p \in b[k] : <<p, z>> \in edges
      BY <1>7, <2>1 DEF Children
    <3>2. PICK w : IsWalk(w, k, x, p, edges)
      BY <1>6, <1>7, <3>1 DEF Walk
    <3> DEFINE v == [i \in 0..m |-> IF i < m THEN w[i] ELSE z]
    <3>3. v \in [0..m -> Groups] /\ v[0] = x /\ v[m] = z /\ v[k] = p
      BY <1>5, <3>2 DEF IsWalk
    <3>4. ASSUME NEW i \in 0..m, i < m PROVE <<v[i], v[i + 1]>> \in edges
      <4>1. CASE i = k
        BY <1>5, <3>1, <3>3, <4>1
      <4>2. CASE i # k
        <5>1. i \in 0..k /\ i < k /\ i + 1 \in 0..m /\ i + 1 < m
          BY <1>5, <3>4, <4>2
        <5>2. v[i] = w[i] /\ v[i + 1] = w[i + 1]
          BY <3>4, <5>1
        <5> QED BY <3>2, <5>1, <5>2 DEF IsWalk
      <4> QED BY <4>1, <4>2
    <3> HIDE DEF v
    <3> QED BY <3>3, <3>4 DEF IsWalk, Walk
  <2>2. ASSUME Walk(m, x, z, edges) PROVE z \in b[m]
    <3>1. PICK w : IsWalk(w, m, x, z, edges)
      BY <2>2 DEF Walk
    <3>2. w[k] \in Groups /\ <<w[k], z>> \in edges
      <4>1. k \in 0..m /\ k < m /\ m = k + 1
        BY <1>5
      <4> QED BY <3>1, <4>1 DEF IsWalk
    <3> DEFINE v == [i \in 0..k |-> w[i]]
    <3>3. IsWalk(v, k, x, w[k], edges)
      <4>1. \A i \in 0..k : i \in 0..m /\ (i < k => i < m /\ i + 1 \in 0..k)
        BY <1>5
      <4> QED BY <1>5, <3>1, <4>1 DEF IsWalk
    <3>4. w[k] \in b[k]
      BY <1>6, <3>2, <3>3 DEF Walk
    <3> QED BY <1>7, <3>2, <3>4 DEF Children
  <2> QED BY <2>1, <2>2
<1> QED BY <1>3, <1>8

LEMMA DescendantsWalk ==
  ASSUME NEW x \in Groups, NEW y \in Groups
  PROVE  y \in Descendants({x}) <=> \E n \in 1..Depth : Walk(n, x, y, edges)
<1>1. \A n \in 1..Depth : n \in 0..Depth
  BY DepthAssumption
<1> QED BY <1>1, BelowWalks DEF Descendants

\* A closed walk that a new edge makes contains a walk from its child to its
\* parent without it, and one step shorter at least: from behind its last use
\* to its first.
LEMMA NewCycle ==
  ASSUME NEW n \in Nat, NEW g \in Groups, NEW p, NEW c, NEW E,
         Walk(n, g, g, E \cup {<<p, c>>})
  PROVE  \/ Walk(n, g, g, E)
         \/ \E k \in 0..n : k < n /\ Walk(k, c, p, E)
<1>1. PICK w : IsWalk(w, n, g, g, E \cup {<<p, c>>})
  BY DEF Walk
<1> DEFINE Uses == {i \in 0..n : i < n /\ <<w[i], w[i + 1]>> \notin E}
<1>2. \A i \in Uses : i \in Nat /\ i < n /\ w[i] = p /\ w[i + 1] = c
  BY <1>1 DEF IsWalk
<1>3. \A i \in 0..n : i < n /\ i \notin Uses => <<w[i], w[i + 1]>> \in E
  OBVIOUS
<1>4. \A i \in 0..n : w[i] \in Groups
  BY <1>1 DEF IsWalk
<1>5. w[0] = g /\ w[n] = g
  BY <1>1 DEF IsWalk
<1>6. CASE Uses = {}
  BY <1>1, <1>3, <1>6 DEF Walk, IsWalk
<1>7. CASE Uses # {}
  <2> HIDE DEF Uses
  <2>1. PICK f \in Uses : \A i \in Uses : f <= i
    BY <1>2, <1>7, Least
  <2> DEFINE Back == {n - i : i \in Uses}
  <2>2. Back \subseteq Nat /\ Back # {}
    BY <1>2, <1>7
  <2>3. PICK d \in Back : \A e \in Back : d <= e
    <3> HIDE DEF Back
    <3> QED BY <2>2, Least
  <2>4. PICK l \in Uses : d = n - l
    BY <2>3
  <2>5. \A i \in Uses : i <= l
    BY <1>2, <2>3, <2>4
  <2>6. l \in Nat /\ f \in Nat /\ f <= l /\ l < n
    BY <1>2, <2>1, <2>4
  <2> DEFINE r == n - (l + 1)
             v == [i \in 0..(r + f) |-> IF i < r THEN w[l + 1 + i] ELSE w[i - r]]
  <2>7. r \in Nat /\ r + f \in 0..n /\ r + f < n
    BY <2>6
  <2>8. v \in [0..(r + f) -> Groups]
    <3>1. \A i \in 0..(r + f) : (i < r => l + 1 + i \in 0..n) /\ (~(i < r) => i - r \in 0..n)
      BY <2>6, <2>7
    <3> QED BY <1>4, <3>1
  <2>9. \A i \in 0..(r + f) : i <= r => v[i] = w[l + 1 + i]
    <3>1. l + 1 + r = n /\ r - r = 0
      BY <2>6
    <3> QED BY <1>5, <2>6, <2>7, <3>1
  <2>10. v[0] = c /\ v[r + f] = p
    <3>1. v[0] = w[l + 1]
      BY <2>6, <2>7, <2>9
    <3>2. v[r + f] = w[f]
      <4>1. r + f \in 0..(r + f) /\ ~(r + f < r) /\ (r + f) - r = f
        BY <2>6, <2>7
      <4>2. v[r + f] = w[(r + f) - r]
        BY <4>1
      <4> QED BY <4>1, <4>2
    <3> HIDE DEF v
    <3> QED BY <1>2, <3>1, <3>2
  <2>11. ASSUME NEW i \in 0..(r + f), i < r + f PROVE <<v[i], v[i + 1]>> \in E
    <3>1. CASE i < r
      <4>1. l + 1 + i \in 0..n /\ l + 1 + i < n /\ l + 1 + i > l /\ i + 1 <= r /\ i + 1 \in 0..(r + f)
            /\ l + 1 + (i + 1) = (l + 1 + i) + 1
        BY <2>6, <2>7, <3>1
      <4>2. l + 1 + i \notin Uses
        BY <2>5, <2>6, <4>1
      <4>3. v[i] = w[l + 1 + i] /\ v[i + 1] = w[(l + 1 + i) + 1]
        BY <2>9, <3>1, <4>1
      <4> QED BY <1>3, <4>1, <4>2, <4>3
    <3>2. CASE ~(i < r)
      <4>1. i - r \in 0..n /\ i - r < n /\ i - r < f /\ i + 1 \in 0..(r + f) /\ ~(i + 1 < r)
            /\ (i + 1) - r = (i - r) + 1
        BY <2>6, <2>7, <2>11, <3>2
      <4>2. i - r \notin Uses
        BY <2>1, <2>6, <4>1
      <4>3. v[i] = w[i - r] /\ v[i + 1] = w[(i - r) + 1]
        BY <3>2, <4>1
      <4> QED BY <1>3, <4>1, <4>2, <4>3
    <3> QED BY <3>1, <3>2
  <2>12. IsWalk(v, r + f, c, p, E)
    <3> HIDE DEF v, r
    <3> QED BY <2>8, <2>10, <2>11 DEF IsWalk
  <2> QED BY <2>7, <2>12 DEF Walk
<1> QED BY <1>6, <1>7

-----------------------------------------------------------------------------
(* Cycles.                                                                 *)

\* Between check and insert: no walk the check could see led from the child to
\* the parent when it looked.
Checked(a) ==
  pc[a] = "child" =>
    LET p == arg[a][1]
        c == arg[a][2]
    IN p # c /\ \A n \in 1..Depth : ~Walk(n, c, p, snap[a])

NoClosedWalk == \A n \in 1..(Depth + 1), g \in Groups : ~Walk(n, g, g, edges)

CycleInv ==
  /\ AccessInv
  /\ \A a \in Requests : Checked(a)
  /\ overlapped \/ NoClosedWalk

LEMMA FewerEdges ==
  ASSUME NEW n \in Nat, NEW x, NEW y, NEW E, NEW F, E \subseteq F, Walk(n, x, y, E)
  PROVE  Walk(n, x, y, F)
BY DEF Walk, IsWalk

LEMMA EmptyWalk ==
  ASSUME NEW x, NEW y, NEW E, Walk(0, x, y, E)
  PROVE  x = y
BY DEF Walk, IsWalk

\* What other steps leave of a request that adds a child.
LEMMA CheckedKept ==
  ASSUME \A a \in Requests : Checked(a),
         \A a \in Requests : pc'[a] = "child" =>
           pc[a] = "child" /\ arg'[a] = arg[a] /\ snap'[a] = snap[a]
  PROVE  \A a \in Requests : Checked(a)'
BY DEF Checked

LEMMA CycleStep ==
  ASSUME CycleInv, [Next]_vars
  PROVE  CycleInv'
<1>1. AccessInv'
  BY AccessStep DEF CycleInv
<1>2. /\ pc \in [Requests -> {"idle", "child", "delete", "insert"}]
      /\ arg = [b \in Requests |-> arg[b]] /\ snap = [b \in Requests |-> snap[b]]
      /\ edges \subseteq Groups \X Groups
      /\ \A a \in Requests : Checked(a)
      /\ overlapped \/ NoClosedWalk
  BY DEF CycleInv, AccessInv, ATypeOK
<1>3. Depth \in Nat
  BY DepthAssumption
<1>4. ASSUME UNCHANGED <<edges, overlapped>>,
             \A a \in Requests : pc'[a] = "child" =>
               pc[a] = "child" /\ arg'[a] = arg[a] /\ snap'[a] = snap[a]
      PROVE  CycleInv'
  <2>1. \A a \in Requests : Checked(a)'
    BY <1>2, <1>4, CheckedKept
  <2> QED BY <1>1, <1>2, <1>4, <2>1 DEF CycleInv, NoClosedWalk
<1>5. ASSUME NEW u \in Users, UserStep(u) PROVE CycleInv'
  <2>1. UNCHANGED <<edges, overlapped, pc>>
    BY <1>5 DEF UserStep, LocalLogin, Register, LdapFirstLogin, CreateUser, TokenExpires, DeleteUser,
                ForgetUser, AddUserToGroup, RemoveUserFromGroup, tables, request, history
  <2>2. ASSUME NEW a \in Requests, pc[a] = "child"
        PROVE  arg'[a] = arg[a] /\ snap'[a] = snap[a]
    <3>1. a \notin Replacing(u)
      BY <2>2 DEF Replacing
    <3>2. CASE DeleteUser(u) \/ \E g \in Groups : RemoveUserFromGroup(u, g)
      BY <2>2, <3>1, <3>2 DEF DeleteUser, ForgetUser, RemoveUserFromGroup, Without
    <3>3. CASE ~(DeleteUser(u) \/ \E g \in Groups : RemoveUserFromGroup(u, g))
      BY <1>5, <3>3 DEF UserStep, LocalLogin, Register, LdapFirstLogin, CreateUser, TokenExpires,
                        AddUserToGroup, request
    <3> QED BY <3>2, <3>3
  <2> QED BY <1>4, <2>1, <2>2
<1>6. ASSUME NEW a \in Requests, NEW u \in Users, NEW gs \in SUBSET Groups,
             SetGroupsStart(a, u, gs) \/ LdapLogin(a, u, gs)
      PROVE  CycleInv'
  BY <1>2, <1>4, <1>6 DEF SetGroupsStart, LdapLogin, StartReplacing, tables, history
<1>7. ASSUME NEW a \in Requests, SetGroupsDelete(a) \/ SetGroupsCommit(a) \/ SetGroupsFails(a)
      PROVE  CycleInv'
  <2>1. CASE SetGroupsDelete(a) \/ SetGroupsFails(a)
    BY <1>2, <1>4, <2>1 DEF SetGroupsDelete, SetGroupsFails, Finish, tables, history
  <2>2. CASE SetGroupsCommit(a)
    <3>1. /\ UNCHANGED <<edges, overlapped>> /\ pc' = [pc EXCEPT ![a] = "idle"]
          /\ arg' = [arg EXCEPT ![a] = None]
          /\ snap' = [Without(snap[a], arg[a].user, snap) EXCEPT ![a] = {}]
      BY <2>2 DEF SetGroupsCommit
    <3>2. \A b \in Requests : pc[b] = "child" => b \notin Replacing(arg[a].user)
      BY DEF Replacing
    <3> QED BY <1>2, <1>4, <3>1, <3>2 DEF Without
  <2> QED BY <1>7, <2>1, <2>2
<1>8. ASSUME NEW a \in Requests, NEW parent \in Groups, NEW child \in Groups,
             AddChildCheck(a, parent, child)
      PROVE  CycleInv'
  <2>1. /\ parent # child /\ parent \notin Descendants({child})
        /\ pc' = [pc EXCEPT ![a] = "child"] /\ arg' = [arg EXCEPT ![a] = <<parent, child>>]
        /\ snap' = [snap EXCEPT ![a] = edges] /\ UNCHANGED <<edges, overlapped>>
    BY <1>8 DEF AddChildCheck, WouldCreateCycle, tables, history
  <2>2. ASSUME NEW b \in Requests PROVE Checked(b)'
    <3>1. CASE b = a
      <4>1. arg'[b] = <<parent, child>> /\ snap'[b] = edges
        BY <1>2, <2>1, <3>1
      <4>2. \A n \in 1..Depth : ~Walk(n, child, parent, edges)
        BY <2>1, DescendantsWalk
      <4> QED BY <2>1, <4>1, <4>2 DEF Checked
    <3>2. CASE b # a
      BY <1>2, <2>1, <3>2 DEF Checked
    <3> QED BY <3>1, <3>2
  <2> QED BY <1>1, <1>2, <2>1, <2>2 DEF CycleInv, NoClosedWalk
<1>9. ASSUME NEW a \in Requests, AddChildInsert(a) PROVE CycleInv'
  <2>1. /\ pc[a] = "child" /\ arg[a] \in Groups \X Groups
        /\ edges' = edges \cup {arg[a]} /\ pc' = [pc EXCEPT ![a] = "idle"]
        /\ arg' = [arg EXCEPT ![a] = None] /\ snap' = [snap EXCEPT ![a] = {}]
        /\ overlapped' = (overlapped \/ ~(edges \subseteq snap[a]))
    BY <1>9 DEF AddChildInsert, Finish, CycleInv, AccessInv, RequestLocal
  <2>2. \A b \in Requests : Checked(b)'
    BY <1>2, <2>1, CheckedKept
  <2>3. ASSUME ~overlapped' PROVE NoClosedWalk'
    <3> DEFINE p == arg[a][1]
               c == arg[a][2]
    <3>1. edges \subseteq snap[a] /\ NoClosedWalk /\ arg[a] = <<p, c>>
      <4>1. ~overlapped /\ edges \subseteq snap[a]
        BY <2>1, <2>3, Zenon
      <4>2. arg[a] = <<p, c>>
        BY <2>1
      <4> QED BY <1>2, <4>1, <4>2, Zenon
    <3>2. p # c /\ \A n \in 1..Depth : ~Walk(n, c, p, edges)
      <4>1. p # c /\ \A n \in 1..Depth : ~Walk(n, c, p, snap[a])
        BY <1>2, <2>1 DEF Checked
      <4> QED BY <1>3, <3>1, <4>1, FewerEdges
    <3> HIDE DEF p, c
    <3>3. ASSUME NEW n \in 1..(Depth + 1), NEW g \in Groups,
                 Walk(n, g, g, edges \cup {<<p, c>>})
          PROVE  FALSE
      <4>1. n \in Nat /\ ~Walk(n, g, g, edges)
        BY <1>3, <3>1 DEF NoClosedWalk
      <4>2. PICK k \in 0..n : k < n /\ Walk(k, c, p, edges)
        BY <3>3, <4>1, NewCycle
      <4>3. k = 0 \/ k \in 1..Depth
        BY <1>3, <4>2
      <4> QED BY <3>2, <4>2, <4>3, EmptyWalk
    <3> QED BY <2>1, <3>1, <3>3 DEF NoClosedWalk
  <2> QED BY <1>1, <2>2, <2>3 DEF CycleInv
<1>10. ASSUME NEW parent \in Groups, NEW child \in Groups, RemoveChild(parent, child)
       PROVE  CycleInv'
  <2>1. edges' \subseteq edges /\ UNCHANGED <<pc, arg, snap, overlapped>>
    BY <1>10 DEF RemoveChild, request, history
  <2>2. NoClosedWalk => NoClosedWalk'
    <3>1. \A n \in 1..(Depth + 1) : n \in Nat
      BY <1>3
    <3> QED BY <2>1, <3>1, FewerEdges DEF NoClosedWalk
  <2> QED BY <1>1, <1>2, <2>1, <2>2, CheckedKept DEF CycleInv
<1>11. ASSUME \/ \E g \in Groups : Grant(g) \/ Revoke(g)
              \/ \E i \in Indexers : IndexStep(i)
              \/ UNCHANGED vars
       PROVE  CycleInv'
  <2>1. UNCHANGED <<edges, overlapped, pc, arg, snap>>
    BY <1>11 DEF Grant, Revoke, IndexStep, ReadGroups, WriteIndex, tables, request, history, vars
  <2> QED BY <1>4, <2>1
<1> QED BY <1>5, <1>6, <1>7, <1>8, <1>9, <1>10, <1>11 DEF Next, RequestStep, GroupStep

\* For any graph of groups, any depth of the recursive query and any number of
\* requests: unless a child was added beside a check that did not see it,
\* no group is its own ancestor within Depth + 1 steps (_group_would_create_cycle
\* and add_child_group).
THEOREM NoVisibleCycleHolds == Spec => []NoVisibleCycle
<1>1. Init => CycleInv
  <2> SUFFICES ASSUME Init PROVE CycleInv
    OBVIOUS
  <2>1. \A a \in Requests : Checked(a)
    BY DEF Init, Checked
  <2>2. NoClosedWalk
    <3> SUFFICES ASSUME NEW n \in 1..(Depth + 1), NEW g \in Groups, NEW w, IsWalk(w, n, g, g, edges)
                 PROVE  FALSE
      BY DEF NoClosedWalk, Walk
    <3>1. 0 \in 0..n /\ 0 < n
      BY DepthAssumption
    <3> QED BY <3>1 DEF IsWalk, Init
  <2> QED BY <2>1, <2>2, AccessInitially DEF CycleInv
<1>2. CycleInv => NoVisibleCycle
  <2> SUFFICES ASSUME CycleInv, ~overlapped, NEW g \in Groups, NEW p \in Groups,
                      <<p, g>> \in edges, p \in Descendants({g})
               PROVE  FALSE
    BY DEF NoVisibleCycle
  <2>1. PICK n \in 1..Depth : Walk(n, g, p, edges)
    BY DescendantsWalk
  <2>2. PICK w : IsWalk(w, n, g, p, edges)
    BY <2>1 DEF Walk
  <2> DEFINE v == [i \in 0..(n + 1) |-> IF i <= n THEN w[i] ELSE g]
  <2>3. n \in Nat /\ n + 1 \in 1..(Depth + 1)
    BY DepthAssumption
  <2>4. IsWalk(v, n + 1, g, g, edges)
    <3>1. v \in [0..(n + 1) -> Groups] /\ v[0] = g /\ v[n + 1] = g /\ v[n] = p
      BY <2>2, <2>3 DEF IsWalk
    <3>2. ASSUME NEW i \in 0..(n + 1), i < n + 1 PROVE <<v[i], v[i + 1]>> \in edges
      <4>1. CASE i = n
        BY <3>1, <4>1
      <4>2. CASE i # n
        <5>1. i \in 0..n /\ i < n /\ i + 1 \in 0..(n + 1) /\ i + 1 <= n
          BY <2>3, <3>2, <4>2
        <5>2. v[i] = w[i] /\ v[i + 1] = w[i + 1]
          BY <3>2, <5>1
        <5> QED BY <2>2, <5>1, <5>2 DEF IsWalk
      <4> QED BY <4>1, <4>2
    <3> HIDE DEF v
    <3> QED BY <3>1, <3>2 DEF IsWalk
  <2> HIDE DEF v
  <2> QED BY <2>3, <2>4 DEF CycleInv, NoClosedWalk, Walk
<1>3. CycleInv /\ [Next]_vars => CycleInv'
  BY CycleStep
<1> QED BY <1>1, <1>2, <1>3, PTL DEF Spec
=============================================================================
