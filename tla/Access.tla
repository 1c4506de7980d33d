------------------------------- MODULE Access --------------------------------
(***************************************************************************)
(* Who may call what: logins, access and refresh tokens, and the role that *)
(* every endpoint asks for, as AuthService, PasetoService and require_role *)
(* decide it.                                                              *)
(*                                                                         *)
(* A token is checked when a request arrives (decode_token), its user is   *)
(* looked up in a transaction of its own, and the handler runs later on    *)
(* what the lookup saw; meanwhile an operator may change or disable the    *)
(* user. Tokens are stored nowhere: a client keeps all it was ever given,  *)
(* and nothing consults the blocklist of RedisClient.                      *)
(*                                                                         *)
(* Every token is sealed under the one configured key. A refused request   *)
(* that has changed nothing is not a step.                                 *)
(***************************************************************************)
EXTENDS Naturals

CONSTANTS
  Users,       \* rows of api_users
  Roles,       \* what the column api_users.role holds: any string
  Endpoints,   \* the endpoints called
  Reqs,        \* slots for HTTP requests in progress
  AccessTtl,   \* access_token_ttl_minutes
  RefreshTtl,  \* refresh_token_ttl_days
  MaxTime,     \* bound: the last instant of a behaviour
  None         \* "nothing in progress", "no role in the token"

ASSUME TtlAssumption  == AccessTtl \in Nat /\ RefreshTtl \in Nat
ASSUME TimeAssumption == MaxTime \in Nat

-----------------------------------------------------------------------------
(* Roles *)

Level == [VIEWER |-> 0, AUDITOR |-> 1, ARCHIVIST |-> 2, ADMIN |-> 3, SUPER_ADMIN |-> 4]

UserRole == DOMAIN Level

MinLevel(allowed) ==
  CHOOSE n \in {Level[a] : a \in allowed} : \A a \in allowed : n <= Level[a]

\* requires_role: the least of the allowed roles, or more; unknown roles are refused.
RequiresRole(role, allowed) == role \in UserRole /\ Level[role] >= MinLevel(allowed)

\* is_at_least, which no endpoint calls: what being admitted by one role means.
IsAtLeast(role, required) == role \in UserRole /\ Level[role] >= Level[required]

\* What each endpoint hands to require_role: {} where any authenticated user will do.
DocumentEndpoints ==
  [upload           |-> {"ARCHIVIST"},
   list             |-> {},
   get              |-> {},
   download         |-> {},
   delete           |-> {"ARCHIVIST"},
   restore          |-> {"ARCHIVIST"},
   versions         |-> {},
   update           |-> {"ARCHIVIST"},
   integrity_report |-> {"AUDITOR"}]

HoldEndpoints == [place |-> {"ADMIN"}, list_holds |-> {}, release |-> {"ADMIN"}]

RetentionEndpoints ==
  [create_policy |-> {"ADMIN"}, list_policies |-> {}, get_policy |-> {}, apply |-> {"ADMIN"}]

ShareEndpoints == [share |-> {"ARCHIVIST"}, revoke |-> {"ARCHIVIST"}]

AuditEndpoints == [timeline |-> {"AUDITOR"}, search |-> {"AUDITOR"}]

SignatureEndpoints == [verify_signature |-> {"AUDITOR"}]

Tables ==
  {DocumentEndpoints, HoldEndpoints, RetentionEndpoints, ShareEndpoints, AuditEndpoints,
   SignatureEndpoints}

Allowed(e) == UNION {table[e] : table \in {t \in Tables : e \in DOMAIN t}}

\* require_role on the way to endpoint e.
Permits(e, role) == Allowed(e) # {} => RequiresRole(role, Allowed(e))

-----------------------------------------------------------------------------
(* State *)

VARIABLES
  users,   \* table api_users
  tokens,  \* every token ever given out
  now,     \* the time
  pc,      \* what each request does next
  call,    \* what each request carries
  caller,  \* the role the lookup of each request saw
  seen,    \* history: roles in which the user was active since the request began
  issued   \* history: when the user was last given tokens

vars == <<users, tokens, now, pc, call, caller, seen, issued>>

UserRow == [active : BOOLEAN, role : Roles]

\* An access token names the role its user had; a refresh token does not.
Token == [user : Users, kind : {"access", "refresh"}, role : Roles \cup {None}, exp : Nat]

\* began: when the token was checked.
Call == [op : {"login", "refresh", "call"}, user : Users, token : Token \cup {None},
         endpoint : Endpoints \cup {None}, began : Nat]

ASSUME NoneAssumption == None \notin Roles \cup Endpoints \cup Token \cup Call

\* Every variable keeps its type, and a request in progress knows its caller where
\* it is about to act for him.
TypeOK ==
  /\ users \in [Users -> UserRow]
  /\ tokens \subseteq Token
  /\ now \in Nat
  /\ pc \in [Reqs -> {"idle", "lookup", "issue", "perform"}]
  /\ call \in [Reqs -> Call \cup {None}]
  /\ caller \in [Reqs -> Roles \cup {None}]
  /\ seen \in [Reqs -> SUBSET Roles]
  /\ issued \in [Users -> Nat]
  /\ \A r \in Reqs :
       /\ pc[r] # "idle" => call[r] # None /\ call[r].began <= now
       /\ pc[r] \in {"issue", "perform"} => caller[r] # None

-----------------------------------------------------------------------------
(* Tokens *)

Valid(t) == now <= t.exp

\* Mutant: the type of a token is not looked at.
IsAny(t, kind) == TRUE

IsOf(t, kind) == t.kind = kind

AccessToken(u, role) == [user |-> u, kind |-> "access", role |-> role, exp |-> now + AccessTtl]

RefreshToken(u) == [user |-> u, kind |-> "refresh", role |-> None, exp |-> now + RefreshTtl]

-----------------------------------------------------------------------------
(* Requests *)

Init ==
  /\ users \in [Users -> UserRow]
  /\ tokens = {}
  /\ now = 0
  /\ pc = [r \in Reqs |-> "idle"]
  /\ call = [r \in Reqs |-> None]
  /\ caller = [r \in Reqs |-> None]
  /\ seen = [r \in Reqs |-> {}]
  /\ issued = [u \in Users |-> 0]

\* Roles in which user u is active: one, or none.
ActiveRoles(row) == {role \in {row.role} : row.active}

\* Request r begins, for user u, and goes on with step at.
Begin(r, op, u, t, e, role, at) ==
  /\ pc[r] = "idle"
  /\ pc' = [pc EXCEPT ![r] = at]
  /\ call' = [call EXCEPT ![r] =
       [op |-> op, user |-> u, token |-> t, endpoint |-> e, began |-> now]]
  /\ caller' = [caller EXCEPT ![r] = role]
  /\ seen' = [seen EXCEPT ![r] = ActiveRoles(users[u])]
  /\ UNCHANGED <<users, tokens, now, issued>>

\* The request ends; its local variables go with it.
Finish(r) ==
  /\ pc' = [pc EXCEPT ![r] = "idle"]
  /\ call' = [call EXCEPT ![r] = None]
  /\ caller' = [caller EXCEPT ![r] = None]
  /\ seen' = [seen EXCEPT ![r] = {}]

\* login: the row is read and the password matches; the account is enabled in the
\* row read. Tokens are made once the session has been closed.
StartLogin(r, u) ==
  /\ users[u].active
  /\ Begin(r, "login", u, None, None, users[u].role, "issue")

\* refresh_tokens: any refresh token, used before or not.
StartRefresh(r, t) ==
  /\ Valid(t)
  /\ IsOf(t, "refresh")
  /\ Begin(r, "refresh", t.user, t, None, None, "lookup")

\* get_current_user, up to its transaction, on the way to endpoint e.
StartCall(r, t, e) ==
  /\ Valid(t)
  /\ IsOf(t, "access")
  /\ Begin(r, "call", t.user, t, e, None, "lookup")

\* Mutants: disabled users are found too; the token is believed about the role.
FoundAny(u) == TRUE
RoleInToken(r) == call[r].token.role

\* ApiUserModel.is_active == True
Found(u) == users[u].active

\* The role of the row, not the one in the token.
RoleFound(r) == users[call[r].user].role

Lookup(r) ==
  /\ pc[r] = "lookup"
  /\ Found(call[r].user)
  /\ \/ call[r].op = "refresh" /\ pc' = [pc EXCEPT ![r] = "issue"]
     \/ /\ call[r].op = "call"
        /\ Permits(call[r].endpoint, RoleFound(r))
        /\ pc' = [pc EXCEPT ![r] = "perform"]
  /\ caller' = [caller EXCEPT ![r] = RoleFound(r)]
  /\ UNCHANGED <<users, tokens, now, call, seen, issued>>

\* 401: no such active user; 403: not in that role.
Refuse(r) ==
  /\ pc[r] = "lookup"
  /\ \/ ~Found(call[r].user)
     \/ call[r].op = "call" /\ ~Permits(call[r].endpoint, RoleFound(r))
  /\ Finish(r)
  /\ UNCHANGED <<users, tokens, now, issued>>

\* create_access_token and create_refresh_token.
Issue(r) ==
  LET u == call[r].user
  IN  /\ pc[r] = "issue"
      /\ tokens' = tokens \cup {AccessToken(u, caller[r]), RefreshToken(u)}
      /\ issued' = [issued EXCEPT ![u] = now]
      /\ Finish(r)
      /\ UNCHANGED <<users, now>>

\* The handler runs to its end; its transactions are those of the other modules.
Perform(r) ==
  /\ pc[r] = "perform"
  /\ Finish(r)
  /\ UNCHANGED <<users, tokens, now, issued>>

\* A request dies: the database fails, the client goes away, the process is killed.
Fail(r) ==
  /\ pc[r] \in {"lookup", "issue"}
  /\ Finish(r)
  /\ UNCHANGED <<users, tokens, now, issued>>

-----------------------------------------------------------------------------
(* Operators and time *)

\* Somebody with access to the database changes a user; no endpoint does.
SetUser(u, row) ==
  /\ row # users[u]
  /\ users' = [users EXCEPT ![u] = row]
  /\ seen' = [r \in Reqs |->
       IF pc[r] # "idle" /\ call[r].user = u THEN seen[r] \cup ActiveRoles(row) ELSE seen[r]]
  /\ UNCHANGED <<tokens, now, pc, call, caller, issued>>

Tick ==
  /\ now < MaxTime
  /\ now' = now + 1
  /\ UNCHANGED <<users, tokens, pc, call, caller, seen, issued>>

-----------------------------------------------------------------------------
(* Specification *)

Next ==
  \/ \E r \in Reqs :
       \/ \E u \in Users : StartLogin(r, u)
       \/ \E t \in tokens : StartRefresh(r, t)
       \/ \E t \in tokens, e \in Endpoints : StartCall(r, t, e)
       \/ Lookup(r)
       \/ Refuse(r)
       \/ Issue(r)
       \/ Perform(r)
       \/ Fail(r)
  \/ \E u \in Users, row \in UserRow : SetUser(u, row)
  \/ Tick

Spec == Init /\ [][Next]_vars

-----------------------------------------------------------------------------
(* Safety *)

\* Whoever acts, does so in a role in which he was active at some instant since his
\* request began, and which the endpoint admits: neither a token of better days nor
\* one of a disabled account is enough. Tokens are not given on other terms either.
ActsOnCurrentRights ==
  \A r \in Reqs :
    /\ pc[r] \in {"issue", "perform"} => caller[r] \in seen[r]
    /\ pc[r] = "perform" =>
         \E role \in seen[r] : Allowed(call[r].endpoint) # {} =>
           \E a \in Allowed(call[r].endpoint) : IsAtLeast(role, a)

\* An idle session ends: nothing is called later than an access token's lifetime
\* after the user was last given tokens, and nothing is refreshed later than a refresh
\* token's, however tokens are kept and used again. The last instant counts.
IdleSessionsEnd ==
  \A r \in Reqs : pc[r] # "idle" =>
    LET last == issued[call[r].user]
    IN  /\ call[r].op = "call" => call[r].began <= last + AccessTtl
        /\ call[r].op = "refresh" => call[r].began <= last + RefreshTtl
=============================================================================
