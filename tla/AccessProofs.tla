---------------------------- MODULE AccessProofs -----------------------------
(***************************************************************************)
(* Theorems about Access, for any users, roles, endpoints, requests and    *)
(* lifetimes: the rule of roles, the rights requests act on, and the end   *)
(* of idle sessions.                                                       *)
(***************************************************************************)
EXTENDS Access, TLAPS

-----------------------------------------------------------------------------
(* The rule of roles *)

(* A set of levels has a least one. *)
LEMMA LeastLevel ==
  ASSUME NEW S \in SUBSET (0 .. 4), S # {}
  PROVE  \E n \in S : \A m \in S : n <= m
<1>1. CASE 0 \in S
  BY <1>1
<1>2. CASE 0 \notin S /\ 1 \in S
  BY <1>2
<1>3. CASE 0 \notin S /\ 1 \notin S /\ 2 \in S
  BY <1>3
<1>4. CASE 0 \notin S /\ 1 \notin S /\ 2 \notin S /\ 3 \in S
  BY <1>4
<1>5. CASE 0 \notin S /\ 1 \notin S /\ 2 \notin S /\ 3 \notin S
  <2>1. \A m \in S : m = 4
    BY <1>5
  <2>2. 4 \in S
    BY <2>1
  <2>. QED
    BY <2>1, <2>2
<1>. QED
  BY <1>1, <1>2, <1>3, <1>4, <1>5

LEMMA LevelTyped == \A role \in UserRole : Level[role] \in 0 .. 4
  BY DEF UserRole, Level

LEMMA MinLevelIsLeast ==
  ASSUME NEW allowed \in SUBSET UserRole, allowed # {}
  PROVE  /\ \E a \in allowed : MinLevel(allowed) = Level[a]
         /\ \A a \in allowed : MinLevel(allowed) <= Level[a]
<1>. DEFINE S == {Level[a] : a \in allowed}
<1>1. S \in SUBSET (0 .. 4) /\ S # {}
  BY LevelTyped
<1>2. \E n \in S : \A a \in allowed : n <= Level[a]
  BY <1>1, LeastLevel
<1>. QED
  BY <1>2 DEF MinLevel

(* requires_role with several roles admits whoever is at least one of them. *)
LEMMA LeastRoleAdmits ==
  ASSUME NEW allowed \in SUBSET UserRole, allowed # {}, NEW role
  PROVE  RequiresRole(role, allowed) <=> \E a \in allowed : IsAtLeast(role, a)
<1>1. CASE role \in UserRole
  <2>1. PICK a \in allowed : MinLevel(allowed) = Level[a]
    BY MinLevelIsLeast
  <2>2. \A b \in allowed : MinLevel(allowed) <= Level[b]
    BY MinLevelIsLeast
  <2>3. Level[role] \in Nat /\ \A b \in allowed : Level[b] \in Nat
    BY <1>1, LevelTyped
  <2>. QED
    BY <1>1, <2>1, <2>2, <2>3 DEF RequiresRole, IsAtLeast
<1>. QED
  BY <1>1 DEF RequiresRole, IsAtLeast

(* Endpoints ask for roles that exist. *)
LEMMA AllowedAreRoles ==
  ASSUME NEW e
  PROVE  Allowed(e) \in SUBSET UserRole
<1>1. UserRole = {"VIEWER", "AUDITOR", "ARCHIVIST", "ADMIN", "SUPER_ADMIN"}
  BY DEF UserRole, Level
<1>2. \A t \in Tables : \A f \in DOMAIN t : t[f] \in SUBSET UserRole
  <2>1. \A f \in DOMAIN DocumentEndpoints : DocumentEndpoints[f] \in SUBSET UserRole
    BY <1>1 DEF DocumentEndpoints
  <2>2. \A f \in DOMAIN HoldEndpoints : HoldEndpoints[f] \in SUBSET UserRole
    BY <1>1 DEF HoldEndpoints
  <2>3. \A f \in DOMAIN RetentionEndpoints : RetentionEndpoints[f] \in SUBSET UserRole
    BY <1>1 DEF RetentionEndpoints
  <2>4. \A f \in DOMAIN ShareEndpoints : ShareEndpoints[f] \in SUBSET UserRole
    BY <1>1 DEF ShareEndpoints
  <2>5. \A f \in DOMAIN AuditEndpoints : AuditEndpoints[f] \in SUBSET UserRole
    BY <1>1 DEF AuditEndpoints
  <2>6. \A f \in DOMAIN SignatureEndpoints : SignatureEndpoints[f] \in SUBSET UserRole
    BY <1>1 DEF SignatureEndpoints
  <2>. QED
    BY <2>1, <2>2, <2>3, <2>4, <2>5, <2>6 DEF Tables
<1>. QED
  BY <1>2 DEF Allowed

-----------------------------------------------------------------------------
(* The invariant *)

\* No token outlives its lifetime, counted from when its user last got tokens.
TokensTimely ==
  /\ \A u \in Users : issued[u] <= now
  /\ \A t \in tokens :
       /\ t.kind = "access" => t.exp <= issued[t.user] + AccessTtl
       /\ t.kind = "refresh" => t.exp <= issued[t.user] + RefreshTtl

\* While a request runs, every role in which its user is active is seen; it acts in
\* one that was seen, and performs what that role permits.
Justified(r) ==
  pc[r] # "idle" =>
    /\ users[call[r].user].active => users[call[r].user].role \in seen[r]
    /\ pc[r] \in {"issue", "perform"} => caller[r] \in seen[r]
    /\ pc[r] = "perform" => Permits(call[r].endpoint, caller[r])

\* A request began within the lifetime of what its user last got.
InTime(r) ==
  pc[r] # "idle" =>
    LET last == issued[call[r].user]
    IN  /\ call[r].op = "call" => call[r].began <= last + AccessTtl
        /\ call[r].op = "refresh" => call[r].began <= last + RefreshTtl

AccessInv ==
  /\ TypeOK
  /\ TokensTimely
  /\ \A r \in Reqs : Justified(r) /\ InTime(r)

LEMMA AccessInvInit == Init => AccessInv
  BY TtlAssumption DEF Init, AccessInv, TypeOK, TokensTimely, Justified, InTime

(* What a request in progress carries. *)
LEMMA Carried ==
  ASSUME AccessInv, NEW r \in Reqs, pc[r] # "idle"
  PROVE  /\ call[r] \in Call /\ call[r].user \in Users
         /\ call[r].began \in Nat
         /\ users[call[r].user] \in UserRow
  BY DEF AccessInv, TypeOK, Call

(* A request that rests keeps its facts, if its user stays and gets tokens later. *)
LEMMA OthersKept ==
  ASSUME AccessInv, NEW q \in Reqs, users' = users,
         pc'[q] = pc[q], call'[q] = call[q], caller'[q] = caller[q], seen'[q] = seen[q],
         \A u \in Users : issued'[u] \in Nat /\ issued[u] <= issued'[u]
  PROVE  Justified(q)' /\ InTime(q)'
<1>1. Justified(q)'
  BY DEF AccessInv, Justified
<1>2. CASE pc[q] # "idle"
  <2>. DEFINE u == call[q].user
  <2>1. u \in Users /\ call[q].began \in Nat
    BY <1>2, Carried
  <2>2. issued[u] \in Nat /\ issued'[u] \in Nat /\ issued[u] <= issued'[u]
    BY <2>1 DEF AccessInv, TypeOK
  <2>. QED
    BY <1>1, <1>2, <2>1, <2>2, TtlAssumption DEF AccessInv, InTime
<1>. QED
  BY <1>1, <1>2 DEF InTime

(* A request that ends forgets everything. *)
LEMMA FinishKept ==
  ASSUME AccessInv, NEW r \in Reqs, Finish(r), users' = users, now' = now,
         issued' \in [Users -> Nat],
         \A u \in Users : issued[u] <= issued'[u],
         tokens' \subseteq Token, TokensTimely'
  PROVE  AccessInv'
<1>1. TypeOK'
  BY DEF Finish, AccessInv, TypeOK
<1>2. Justified(r)' /\ InTime(r)'
  BY DEF Finish, Justified, InTime, AccessInv, TypeOK
<1>3. ASSUME NEW q \in Reqs \ {r} PROVE Justified(q)' /\ InTime(q)'
  <2>1. pc'[q] = pc[q] /\ call'[q] = call[q] /\ caller'[q] = caller[q] /\ seen'[q] = seen[q]
    BY DEF Finish, AccessInv, TypeOK
  <2>. QED
    BY <2>1, OthersKept
<1>. QED
  BY <1>1, <1>2, <1>3 DEF AccessInv

-----------------------------------------------------------------------------
(* The steps *)

(* A request begins with a role its user is active in, or with none. *)
LEMMA BeginKept ==
  ASSUME AccessInv, NEW r \in Reqs, NEW op \in {"login", "refresh", "call"},
         NEW u \in Users, NEW t \in Token \cup {None}, NEW e \in Endpoints \cup {None},
         NEW role, NEW at, Begin(r, op, u, t, e, role, at),
         \/ at = "lookup" /\ role = None
         \/ at = "issue" /\ users[u].active /\ role = users[u].role,
         op = "call" => now <= issued[u] + AccessTtl,
         op = "refresh" => now <= issued[u] + RefreshTtl
  PROVE  AccessInv'
<1>. DEFINE c == [op |-> op, user |-> u, token |-> t, endpoint |-> e, began |-> now]
<1>1. c \in Call
  BY DEF AccessInv, TypeOK, Call
<1>2. c # None /\ c.user = u /\ c.op = op /\ c.began = now
  BY <1>1, NoneAssumption
<1>3. pc' = [pc EXCEPT ![r] = at] /\ call' = [call EXCEPT ![r] = c]
      /\ caller' = [caller EXCEPT ![r] = role]
      /\ seen' = [seen EXCEPT ![r] = ActiveRoles(users[u])]
      /\ UNCHANGED <<users, tokens, now, issued>>
  BY DEF Begin
<1>. HIDE DEF c
<1>4. users[u] \in UserRow /\ role \in Roles \cup {None}
      /\ ActiveRoles(users[u]) \in SUBSET Roles
  BY DEF AccessInv, TypeOK, UserRow, ActiveRoles
<1>5. at = "issue" => role # None
  BY NoneAssumption DEF AccessInv, TypeOK, UserRow
<1>6. now \in Nat /\ c.began <= now
  BY <1>2 DEF AccessInv, TypeOK
<1>7. TypeOK'
  BY <1>1, <1>2, <1>3, <1>4, <1>5, <1>6 DEF AccessInv, TypeOK
<1>8. TokensTimely'
  BY <1>3 DEF AccessInv, TokensTimely
<1>9. Justified(r)' /\ InTime(r)'
  BY <1>2, <1>3 DEF AccessInv, TypeOK, Justified, InTime, ActiveRoles
<1>10. ASSUME NEW q \in Reqs \ {r} PROVE Justified(q)' /\ InTime(q)'
  <2>1. pc'[q] = pc[q] /\ call'[q] = call[q] /\ caller'[q] = caller[q] /\ seen'[q] = seen[q]
    BY <1>3 DEF AccessInv, TypeOK
  <2>2. \A v \in Users : issued'[v] \in Nat /\ issued[v] <= issued'[v]
    BY <1>3 DEF AccessInv, TypeOK
  <2>. QED
    BY <1>3, <2>1, <2>2, OthersKept
<1>. QED
  BY <1>7, <1>8, <1>9, <1>10 DEF AccessInv

LEMMA StartKept ==
  ASSUME AccessInv, NEW r \in Reqs,
         \/ \E u \in Users : StartLogin(r, u)
         \/ \E t \in tokens : StartRefresh(r, t)
         \/ \E t \in tokens, e \in Endpoints : StartCall(r, t, e)
  PROVE  AccessInv'
<1>1. ASSUME NEW u \in Users, StartLogin(r, u) PROVE AccessInv'
  BY <1>1, BeginKept DEF StartLogin
<1>2. \A t \in tokens :
        /\ t \in Token /\ t.user \in Users
        /\ Valid(t) /\ IsOf(t, "access") => now <= issued[t.user] + AccessTtl
        /\ Valid(t) /\ IsOf(t, "refresh") => now <= issued[t.user] + RefreshTtl
  <2>. SUFFICES ASSUME NEW t \in tokens
                PROVE  /\ t \in Token /\ t.user \in Users
                       /\ Valid(t) /\ IsOf(t, "access") => now <= issued[t.user] + AccessTtl
                       /\ Valid(t) /\ IsOf(t, "refresh") => now <= issued[t.user] + RefreshTtl
    OBVIOUS
  <2>1. t \in Token /\ t.user \in Users /\ t.exp \in Nat
    BY DEF AccessInv, TypeOK, Token
  <2>2. now \in Nat /\ issued[t.user] \in Nat
    BY <2>1 DEF AccessInv, TypeOK
  <2>. QED
    BY <2>1, <2>2, TtlAssumption DEF AccessInv, TokensTimely, Valid, IsOf
<1>3. ASSUME NEW t \in tokens, StartRefresh(r, t) PROVE AccessInv'
  <2>1. Begin(r, "refresh", t.user, t, None, None, "lookup")
        /\ now <= issued[t.user] + RefreshTtl /\ t \in Token /\ t.user \in Users
    BY <1>2, <1>3 DEF StartRefresh
  <2>. QED
    BY <2>1, BeginKept
<1>4. ASSUME NEW t \in tokens, NEW e \in Endpoints, StartCall(r, t, e) PROVE AccessInv'
  <2>1. Begin(r, "call", t.user, t, e, None, "lookup")
        /\ now <= issued[t.user] + AccessTtl /\ t \in Token /\ t.user \in Users
    BY <1>2, <1>4 DEF StartCall
  <2>. QED
    BY <2>1, BeginKept
<1>. QED
  BY <1>1, <1>3, <1>4

(* The lookup finds a user who is active in that role now. *)
LEMMA LookupKept ==
  ASSUME AccessInv, NEW r \in Reqs, Lookup(r)
  PROVE  AccessInv'
<1>. DEFINE u == call[r].user
<1>1. pc[r] = "lookup" /\ users[u].active
      /\ caller' = [caller EXCEPT ![r] = users[u].role]
      /\ UNCHANGED <<users, tokens, now, call, seen, issued>>
  BY DEF Lookup, Found, RoleFound
<1>2. \/ pc' = [pc EXCEPT ![r] = "issue"]
      \/ pc' = [pc EXCEPT ![r] = "perform"] /\ Permits(call[r].endpoint, users[u].role)
  BY DEF Lookup, RoleFound
<1>3. users[u] \in UserRow /\ users[u].role \in Roles /\ users[u].role # None
  BY <1>1, Carried, NoneAssumption DEF UserRow
<1>4. TypeOK'
  BY <1>1, <1>2, <1>3 DEF AccessInv, TypeOK
<1>5. TokensTimely'
  BY <1>1 DEF AccessInv, TokensTimely
<1>6. users[u].role \in seen[r]
  BY <1>1 DEF AccessInv, Justified
<1>7. Justified(r)' /\ InTime(r)'
  BY <1>1, <1>2, <1>6 DEF AccessInv, TypeOK, Justified, InTime
<1>8. ASSUME NEW q \in Reqs \ {r} PROVE Justified(q)' /\ InTime(q)'
  <2>1. pc'[q] = pc[q] /\ call'[q] = call[q] /\ caller'[q] = caller[q] /\ seen'[q] = seen[q]
    BY <1>1, <1>2 DEF AccessInv, TypeOK
  <2>2. \A v \in Users : issued'[v] \in Nat /\ issued[v] <= issued'[v]
    BY <1>1 DEF AccessInv, TypeOK
  <2>. QED
    BY <1>1, <2>1, <2>2, OthersKept
<1>. QED
  BY <1>4, <1>5, <1>7, <1>8 DEF AccessInv

(* New tokens count from now, and so do those their user had before. *)
LEMMA IssueKept ==
  ASSUME AccessInv, NEW r \in Reqs, Issue(r)
  PROVE  AccessInv'
<1>. DEFINE u == call[r].user
<1>1. /\ pc[r] = "issue" /\ Finish(r) /\ UNCHANGED <<users, now>>
      /\ tokens' = tokens \cup {AccessToken(u, caller[r]), RefreshToken(u)}
      /\ issued' = [issued EXCEPT ![u] = now]
  BY DEF Issue
<1>2. u \in Users /\ caller[r] \in Roles /\ now \in Nat
  BY <1>1, Carried DEF AccessInv, TypeOK
<1>3. /\ AccessToken(u, caller[r]) \in Token /\ RefreshToken(u) \in Token
      /\ AccessToken(u, caller[r]).user = u /\ RefreshToken(u).user = u
      /\ AccessToken(u, caller[r]).kind = "access" /\ RefreshToken(u).kind = "refresh"
      /\ AccessToken(u, caller[r]).exp = now + AccessTtl
      /\ RefreshToken(u).exp = now + RefreshTtl
  BY <1>2, TtlAssumption DEF AccessToken, RefreshToken, Token
<1>4. /\ issued' \in [Users -> Nat] /\ issued'[u] = now
      /\ \A v \in Users : issued[v] <= issued'[v] /\ issued'[v] <= now'
  BY <1>1, <1>2 DEF AccessInv, TypeOK, TokensTimely
<1>5. ASSUME NEW t \in tokens'
      PROVE  /\ t.kind = "access" => t.exp <= issued'[t.user] + AccessTtl
             /\ t.kind = "refresh" => t.exp <= issued'[t.user] + RefreshTtl
  <2>1. CASE t \in tokens
    <3>1. t.user \in Users /\ t.exp \in Nat
      BY <2>1 DEF AccessInv, TypeOK, Token
    <3>2. issued[t.user] \in Nat /\ issued'[t.user] \in Nat /\ issued[t.user] <= issued'[t.user]
      BY <1>4, <3>1 DEF AccessInv, TypeOK
    <3>. QED
      BY <2>1, <3>1, <3>2, TtlAssumption DEF AccessInv, TokensTimely
  <2>2. CASE t \in {AccessToken(u, caller[r]), RefreshToken(u)}
    BY <1>2, <1>3, <1>4, <2>2, TtlAssumption
  <2>. QED
    BY <1>1, <2>1, <2>2
<1>6. TokensTimely' /\ tokens' \subseteq Token
  BY <1>1, <1>3, <1>4, <1>5 DEF TokensTimely, AccessInv, TypeOK
<1>. QED
  BY <1>1, <1>4, <1>6, FinishKept

LEMMA EndKept ==
  ASSUME AccessInv, NEW r \in Reqs, Refuse(r) \/ Perform(r) \/ Fail(r)
  PROVE  AccessInv'
<1>1. Finish(r) /\ UNCHANGED <<users, tokens, now, issued>>
  BY DEF Refuse, Perform, Fail
<1>2. TokensTimely' /\ tokens' \subseteq Token /\ issued' \in [Users -> Nat]
      /\ \A u \in Users : issued[u] <= issued'[u]
  BY <1>1 DEF AccessInv, TypeOK, TokensTimely
<1>. QED
  BY <1>1, <1>2, FinishKept

(* Whatever an operator makes of a user, running requests take note. *)
LEMMA SetUserKept ==
  ASSUME AccessInv, NEW u \in Users, NEW row \in UserRow, SetUser(u, row)
  PROVE  AccessInv'
<1>1. /\ users' = [users EXCEPT ![u] = row]
      /\ seen' = [r \in Reqs |->
           IF pc[r] # "idle" /\ call[r].user = u THEN seen[r] \cup ActiveRoles(row) ELSE seen[r]]
      /\ UNCHANGED <<tokens, now, pc, call, caller, issued>>
  BY DEF SetUser
<1>2. ActiveRoles(row) \in SUBSET Roles
  BY DEF ActiveRoles, UserRow
<1>3. TypeOK'
  BY <1>1, <1>2 DEF AccessInv, TypeOK
<1>4. TokensTimely'
  BY <1>1 DEF AccessInv, TokensTimely
<1>5. ASSUME NEW q \in Reqs PROVE Justified(q)' /\ InTime(q)'
  <2>1. InTime(q)'
    BY <1>1 DEF AccessInv, InTime
  <2>2. CASE pc[q] # "idle" /\ call[q].user = u
    <3>1. users'[u] = row /\ seen'[q] = seen[q] \cup ActiveRoles(row)
      BY <1>1, <2>2 DEF AccessInv, TypeOK
    <3>2. row.active => row.role \in seen'[q]
      BY <3>1 DEF ActiveRoles
    <3>. QED
      BY <1>1, <2>1, <2>2, <3>1, <3>2 DEF AccessInv, Justified
  <2>3. CASE pc[q] # "idle" /\ call[q].user # u
    <3>1. users'[call[q].user] = users[call[q].user] /\ seen'[q] = seen[q]
      BY <1>1, <2>3, Carried DEF AccessInv, TypeOK
    <3>. QED
      BY <1>1, <2>1, <3>1 DEF AccessInv, Justified
  <2>. QED
    BY <1>1, <2>1, <2>2, <2>3 DEF Justified
<1>. QED
  BY <1>3, <1>4, <1>5 DEF AccessInv

LEMMA TickKept ==
  ASSUME AccessInv, Tick
  PROVE  AccessInv'
<1>1. now \in Nat /\ now' = now + 1 /\ UNCHANGED <<users, tokens, pc, call, caller, seen, issued>>
  BY DEF AccessInv, TypeOK, Tick
<1>2. \A r \in Reqs : pc[r] # "idle" => call[r].began \in Nat /\ call[r].began <= now
  BY Carried DEF AccessInv, TypeOK
<1>3. TypeOK'
  BY <1>1, <1>2 DEF AccessInv, TypeOK
<1>4. TokensTimely'
  BY <1>1 DEF AccessInv, TypeOK, TokensTimely
<1>5. \A r \in Reqs : Justified(r)' /\ InTime(r)'
  BY <1>1 DEF AccessInv, Justified, InTime
<1>. QED
  BY <1>3, <1>4, <1>5 DEF AccessInv

LEMMA AccessInvStep == AccessInv /\ [Next]_vars => AccessInv'
<1>. SUFFICES ASSUME AccessInv, [Next]_vars PROVE AccessInv'
  OBVIOUS
<1>1. CASE UNCHANGED vars
  BY <1>1 DEF vars, AccessInv, TypeOK, TokensTimely, Justified, InTime
<1>2. ASSUME NEW r \in Reqs, Lookup(r) PROVE AccessInv'
  BY <1>2, LookupKept
<1>3. ASSUME NEW r \in Reqs, Issue(r) PROVE AccessInv'
  BY <1>3, IssueKept
<1>4. ASSUME NEW r \in Reqs, Refuse(r) \/ Perform(r) \/ Fail(r) PROVE AccessInv'
  BY <1>4, EndKept
<1>5. ASSUME NEW u \in Users, NEW row \in UserRow, SetUser(u, row) PROVE AccessInv'
  BY <1>5, SetUserKept
<1>6. CASE Tick
  BY <1>6, TickKept
<1>. QED
  BY <1>1, <1>2, <1>3, <1>4, <1>5, <1>6, StartKept DEF Next

-----------------------------------------------------------------------------
(* Theorems *)

THEOREM AccessInvariance == Spec => []AccessInv
  BY AccessInvInit, AccessInvStep, PTL DEF Spec

(* Every variable keeps its type, whatever tokens are used and whatever becomes of
   their users. *)
THEOREM AccessTypeCorrect == Spec => []TypeOK
<1>1. AccessInv => TypeOK
  BY DEF AccessInv
<1>. QED
  BY <1>1, AccessInvariance, PTL

(* Calls and new tokens rest on a role in which their user was active since the
   request began, and on one that the endpoint admits. *)
THEOREM RightsAreCurrent == Spec => []ActsOnCurrentRights
<1>1. ASSUME AccessInv, NEW r \in Reqs, pc[r] = "perform"
      PROVE  \E role \in seen[r] : Allowed(call[r].endpoint) # {} =>
               \E a \in Allowed(call[r].endpoint) : IsAtLeast(role, a)
  <2>1. caller[r] \in seen[r] /\ Permits(call[r].endpoint, caller[r])
    BY <1>1 DEF AccessInv, Justified
  <2>2. Allowed(call[r].endpoint) # {} =>
          \E a \in Allowed(call[r].endpoint) : IsAtLeast(caller[r], a)
    BY <2>1, AllowedAreRoles, LeastRoleAdmits DEF Permits
  <2>. QED
    BY <2>1, <2>2
<1>2. ASSUME AccessInv, NEW r \in Reqs, pc[r] \in {"issue", "perform"}
      PROVE  caller[r] \in seen[r]
  BY <1>2 DEF AccessInv, Justified
<1>3. AccessInv => ActsOnCurrentRights
  BY <1>1, <1>2 DEF ActsOnCurrentRights
<1>. QED
  BY <1>3, AccessInvariance, PTL

(* However tokens are kept and used again, nothing is called or refreshed later than
   their lifetime after the user was last given tokens. *)
THEOREM SessionsEnd == Spec => []IdleSessionsEnd
<1>1. AccessInv => IdleSessionsEnd
  BY DEF AccessInv, InTime, IdleSessionsEnd
<1>. QED
  BY <1>1, AccessInvariance, PTL
=============================================================================
