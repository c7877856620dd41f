-------------------------------- MODULE Auth --------------------------------
(***************************************************************************)
(* The auth module: accounts, JWT pairs, the token blacklist, OAuth login, *)
(* roles and API keys, with the middleware in front of the handlers.       *)
(*                                                                         *)
(* A request is one process.  It passes the middleware (token, blacklist,  *)
(* permission) and runs its handler; each access to a store is one step.   *)
(* The MySQL stores read and write in separate statements where the        *)
(* in-memory ones hold a mutex.  A person is whoever sends requests and    *)
(* owns what an answer hands out; the code knows ids only.                 *)
(***************************************************************************)
EXTENDS Integers, Sequences, FiniteSets, SequencesExt

CONSTANTS
  Persons, Admin,     \* who sends requests; the owner of the seeded admin row
  Names,              \* user names people register
  Passwords,
  Procs,              \* requests in flight
  Providers,          \* the configured OAuth providers
  SameEight,          \* TRUE: all OpenIDs agree in their first eight characters
  AccessExpire, RefreshExpire,
  Backends,           \* the combinations of stores that Module.Init may find
  Endpoints,          \* the groups of endpoints exercised together
  MaxUsers, MaxKeys, MaxClock, MaxRequests, MaxRestarts

AllProviders == {"wechat", "feishu", "qq", "apple", "huawei", "honor"}

ASSUME AuthAssumption ==
  /\ Backends \subseteq [tables : {"mysql", "memory"}, black : {"redis", "memory"}]
  /\ Admin \in Persons /\ Passwords # {}
  /\ {MaxUsers, MaxKeys, MaxClock, MaxRequests, MaxRestarts, RefreshExpire} \subseteq Nat
  /\ AccessExpire \in 1..RefreshExpire
  /\ Providers \subseteq AllProviders

VARIABLES
  backend,   \* where users, roles and keys, and where the blacklist are kept
  inUse,     \* the group of endpoints this behaviour exercises
  users,     \* users[id]: the row of the user table
  roles,     \* roles[id]: the rows of user_roles, oldest first
  keys,      \* keys[id]: the row of the api_keys table
  social,    \* the social accounts, oldest first
  tokens,    \* the tokens handed out
  blacklist, \* revoked tokens with the end of their entry
  clock, restarts, started,
  req,       \* req[p]: the request p runs
  revoked    \* history: tokens whose revocation succeeded

vars == <<backend, inUse, users, roles, keys, social, tokens, blacklist, clock,
          restarts, started, req, revoked>>
storeVars == <<users, roles, keys, social>>
bounds == <<backend, inUse, restarts, started>>

None == "none"
NoOpenID == "no openid"    \* the empty string: an answer without the field
Err == "err"
Ids == 1..MaxUsers
Idle == [pc |-> "idle"]

PublicOps == {"register", "login", "callback", "apikey"}
AdminOps == {"updateUser", "deleteUser", "assignRole", "getUser", "listUsers"}
OwnOps == {"me", "updateProfile", "changePassword", "logout", "bind", "unbind",
           "listAccounts", "listAPIKeys", "createAPIKey", "updateAPIKey", "deleteAPIKey"}
AllOps == PublicOps \cup AdminOps \cup OwnOps \cup {"refresh"}

-----------------------------------------------------------------------------
(* OAuth providers.  A remote call ends in a transport error, a body that  *)
(* is not JSON, an error code, or a field, which is empty when the body    *)
(* has another shape: no provider looks at the HTTP status.                *)

Answer(who) == {[kind |-> k, field |-> NoOpenID] : k \in {"neterr", "garbage", "error"}}
               \cup {[kind |-> "ok", field |-> f] : f \in {who, NoOpenID}}

Field(a) == IF a.kind = "ok" THEN a.field ELSE Err

\* Exchange, then GetUserInfo with whatever token came back.
TwoCalls(a) == IF Field(a[1]) = Err THEN Err ELSE Field(a[2])

WechatUser(a) == TwoCalls(a)

FeishuUser(a) == TwoCalls(a)

HuaweiUser(a) == TwoCalls(a)

HonorUser(a) == TwoCalls(a)

\* GetUserInfo asks for the OpenID first; the profile call must succeed too.
QQUser(a) == IF Err \in {Field(a[1]), Field(a[2]), Field(a[3])} THEN Err ELSE Field(a[2])

\* The id token is decoded locally: an empty one has no three parts.  Padding is
\* appended and then refused by the raw decoder, so only lengths 0 modulo 4 pass.
AppleUser(a, len) ==
  IF Field(a[1]) \in {Err, NoOpenID} \/ len % 4 # 0 THEN Err ELSE Field(a[1])

UserInfo(provider, a, len) ==
  CASE provider = "wechat" -> WechatUser(a) [] provider = "feishu" -> FeishuUser(a)
    [] provider = "huawei" -> HuaweiUser(a) [] provider = "honor" -> HonorUser(a)
    [] provider = "qq" -> QQUser(a) [] provider = "apple" -> AppleUser(a, len)

\* An error of the first call ends every login, and nobody becomes someone else.
ASSUME ProviderAssumption ==
  \A prov \in AllProviders, who \in Persons, len \in 4..7 : \A a \in [1..3 -> Answer(who)] :
    LET got == UserInfo(prov, a, len) IN
    got \in {who, NoOpenID, Err} /\ (Field(a[1]) = Err => got = Err)

\* What GetUserInfo can return to a person's login.
SocialUsers ==
  [provider \in Providers |-> [who \in Persons |->
     {UserInfo(provider, a, len) : a \in [1..3 -> Answer(who)], len \in 4..7}]]

-----------------------------------------------------------------------------
(* Stores *)

OnMySQL == backend.tables = "mysql"

NameTaken(n) == \E i \in DOMAIN users : users[i].name = n

Live(table, i) == i \in DOMAIN table /\ ~table[i].deleted

\* An UPDATE of a live row; a soft-deleted row matches no statement.
Patch(table, i, row) == IF Live(table, i) THEN [table EXCEPT ![i] = row] ELSE table

\* DeleteUser and ApiKeyStore.Delete stamp DeletedAt.
SoftDelete(table, i) == Patch(table, i, [table[i] EXCEPT !.deleted = TRUE])

NewUser(n, who, pw, oauth) ==
  [name |-> n, person |-> who, pw |-> pw, oauth |-> oauth, nick |-> FALSE, deleted |-> FALSE]

\* Every user is active: no endpoint writes the status column.
VerifyPassword(i, pw) == Live(users, i) /\ users[i].pw = pw

\* Where the accounts that match are in the slice.
FindByProvider(prov, open) ==
  {i \in DOMAIN social : social[i].provider = prov /\ social[i].open = open}

Bound(u, prov) == {i \in DOMAIN social : social[i].user = u /\ social[i].provider = prov}

\* A loop over the slice stops at the first that matches.
First(found) == {i \in found : \A j \in found : i <= j}

\* Bind refuses a second account of one provider for a user, not a second user
\* for one account.
Bind(u, prov, open) ==
  IF Bound(u, prov) # {} THEN social
  ELSE Append(social, [user |-> u, provider |-> prov, open |-> open])

DefaultPermissions ==
  [admin |-> {<<"*", "*">>},
   user |-> {"task"} \X {"read", "create", "update", "delete"}
            \cup {"user"} \X {"read", "update"}]

\* Without a row, or when the query fails, a user has the role user.
GetRoles(u) == IF roles[u] = <<>> THEN {"user"} ELSE ToSet(roles[u])

HasPermission(u, resource, action) ==
  \E role \in GetRoles(u) : \E p \in DefaultPermissions[role] :
     \/ p = <<"*", "*">>
     \/ p[1] = resource /\ p[2] \in {"*", action}

UpdateKey(k, column, value) == keys' = Patch(keys, k, [keys[k] EXCEPT ![column] = value])

\* FindByHash and the checks of ValidateKey.
Accepts(k) == Live(keys, k) /\ keys[k].status = "active" /\ clock < keys[k].exp

\* GenerateKey: an active key whose expiry, if any, is in the future.
NewKey(u, exp) == [user |-> u, status |-> "active", exp |-> exp, used |-> FALSE, deleted |-> FALSE]

Owns(u, k) == Live(keys, k) /\ keys[k].user = u

-----------------------------------------------------------------------------
Init ==
  /\ backend \in Backends
  /\ inUse \in Endpoints
  \* Nothing in the code makes a first admin: MySQL may hold one, memory cannot.
  /\ users = IF OnMySQL THEN <<NewUser(<<None, "root">>, Admin, CHOOSE w \in Passwords : TRUE, None)>> ELSE <<>>
  /\ roles = [u \in Ids |-> IF OnMySQL /\ u = 1 THEN <<"admin">> ELSE <<>>]
  /\ keys = <<>> /\ social = <<>> /\ tokens = {} /\ blacklist = {} /\ clock = 0
  /\ restarts = 0 /\ started = 0 /\ req = [p \in Procs |-> Idle]
  /\ revoked = {}

Goto(p, pc) == req' = [req EXCEPT ![p].pc = pc]

Finish(p) == req' = [req EXCEPT ![p] = Idle]

\* GenerateTokenPair: both tokens carry the time in nanoseconds in their id.
Pair(u, who, via) ==
  {[type |-> ty, user |-> u, at |-> clock, person |-> who, via |-> via,
    exp |-> clock + (IF ty = "access" THEN AccessExpire ELSE RefreshExpire)]
     : ty \in {"access", "refresh"}}

GenerateTokenPair(u, who, via) ==
  /\ clock < MaxClock
  /\ clock' = clock + 1
  /\ tokens' = tokens \cup Pair(u, who, via)

\* parseToken: signature, expiry and type.
Valid(t, type) == t.type = type /\ clock < t.exp

Begin(p, r) ==
  /\ req[p] = Idle /\ started < MaxRequests /\ r.op \in inUse
  /\ started' = started + 1
  /\ req' = [req EXCEPT ![p] = r]
  /\ UNCHANGED <<backend, inUse, restarts>>

-----------------------------------------------------------------------------
(* Public endpoints *)

Register(p, who, n, pw) ==
  /\ Begin(p, [op |-> "register", pc |-> "create", person |-> who, name |-> <<None, n>>, pw |-> pw,
               provider |-> None, open |-> None])
  /\ UNCHANGED <<storeVars, tokens, blacklist, clock, revoked>>

\* VerifyPassword is one read; what follows is local.
Login(p, i, pw) ==
  /\ "login" \in inUse /\ req[p] = Idle /\ started < MaxRequests
  /\ VerifyPassword(i, pw)
  /\ started' = started + 1
  /\ GenerateTokenPair(i, users[i].person, None)
  /\ UNCHANGED <<backend, inUse, restarts, storeVars, blacklist, req, revoked>>

\* RefreshAccessToken looks at the refresh token and nothing else.
Refresh(p, t) ==
  /\ "refresh" \in inUse /\ req[p] = Idle /\ started < MaxRequests
  /\ Valid(t, "refresh")
  /\ started' = started + 1
  /\ GenerateTokenPair(t.user, t.person, t.via)
  /\ UNCHANGED <<backend, inUse, restarts, storeVars, blacklist, req, revoked>>

\* Exchange and GetUserInfo, then the lookup; errors end the request.
Callback(p, who, prov, open) ==
  /\ open \in SocialUsers[prov][who] \ {Err}
  /\ Begin(p, [op |-> "callback", pc |-> "find", person |-> who, provider |-> prov, open |-> open])
  /\ UNCHANGED <<storeVars, tokens, blacklist, clock, revoked>>

FindAccount(p) ==
  /\ req[p].pc = "find"
  /\ LET r == req[p]
         found == FindByProvider(r.provider, r.open)
     IN \/ /\ \E i \in First(found) : GenerateTokenPair(social[i].user, r.person, r.open)
           /\ Finish(p)
        \* userInfo.OpenID[:8] panics on a short OpenID; gin answers 500.
        \/ /\ found = {} /\ r.open = NoOpenID
           /\ Finish(p)
           /\ UNCHANGED <<tokens, clock>>
        \/ /\ found = {} /\ r.open # NoOpenID
           /\ req' = [req EXCEPT ![p] = [op |-> r.op, pc |-> "create", person |-> r.person,
                        name |-> <<r.provider, IF SameEight THEN "same" ELSE r.open>>,
                        pw |-> None, provider |-> r.provider, open |-> r.open]]
           /\ UNCHANGED <<tokens, clock>>
  /\ UNCHANGED <<bounds, storeVars, blacklist, revoked>>

\* Mutated CreateUser: a taken name is logged in as that user.
CreateUserReusesName(p) ==
  /\ req[p].pc = "create"
  /\ LET r == req[p] IN
     IF NameTaken(r.name)
     THEN /\ \E i \in DOMAIN users : users[i].name = r.name /\ GenerateTokenPair(i, r.person, r.open)
          /\ Finish(p)
          /\ UNCHANGED users
     ELSE /\ Len(users) < MaxUsers
          /\ users' = Append(users, NewUser(r.name, r.person, r.pw, r.provider))
          /\ req' = [req EXCEPT ![p] =
               [op |-> r.op, pc |-> IF r.provider = None THEN "role" ELSE "bind",
                person |-> r.person, provider |-> r.provider, open |-> r.open,
                target |-> Len(users) + 1, role |-> "user", user |-> Len(users) + 1]]
          /\ UNCHANGED <<tokens, clock>>
  /\ UNCHANGED <<bounds, roles, keys, social, blacklist, revoked>>

\* CreateUser: the name is unique, deleted rows included.
CreateUser(p) ==
  /\ req[p].pc = "create"
  /\ LET r == req[p] IN
     IF NameTaken(r.name) THEN Finish(p) /\ UNCHANGED users
     ELSE /\ Len(users) < MaxUsers
          /\ users' = Append(users, NewUser(r.name, r.person, r.pw, r.provider))
          /\ req' = [req EXCEPT ![p] =
               [op |-> r.op, pc |-> IF r.provider = None THEN "role" ELSE "bind",
                person |-> r.person, provider |-> r.provider, open |-> r.open,
                target |-> Len(users) + 1, role |-> "user", user |-> Len(users) + 1]]
  /\ UNCHANGED <<bounds, roles, keys, social, tokens, blacklist, clock, revoked>>

BindNew(p) ==
  /\ req[p].pc = "bind"
  /\ social' = Bind(req[p].user, req[p].provider, req[p].open)
  /\ Goto(p, "role")
  /\ UNCHANGED <<bounds, users, roles, keys, tokens, blacklist, clock, revoked>>

\* AssignRole ends the registration with a token pair, or the admin's request.
EndAssign(p) ==
  LET r == req[p] IN
  /\ Finish(p)
  /\ IF r.op = "assignRole" THEN UNCHANGED <<tokens, clock>>
     ELSE GenerateTokenPair(r.user, r.person, r.open)
  /\ UNCHANGED <<bounds, users, keys, social, blacklist, revoked>>

\* In memory an assignment; in MySQL the SELECT of the existing row.
AssignRole(p) ==
  /\ req[p].pc = "role"
  /\ LET u == req[p].target IN
     \/ /\ ~OnMySQL
        /\ roles' = [roles EXCEPT ![u] = <<req[p].role>>]
        /\ EndAssign(p)
     \/ /\ OnMySQL
        /\ req' = [req EXCEPT ![p].pc = IF roles[u] = <<>> THEN "insertRole" ELSE "updateRole"]
        /\ UNCHANGED <<bounds, storeVars, tokens, blacklist, clock, revoked>>

\* The UPDATE of the row that was found, or the INSERT of the first one.
WriteRole(p) ==
  /\ req[p].pc \in {"insertRole", "updateRole"}
  /\ LET u == req[p].target IN
     roles' = [roles EXCEPT ![u] = IF req[p].pc = "insertRole" THEN Append(@, req[p].role)
                                   ELSE [@ EXCEPT ![1] = req[p].role]]
  /\ EndAssign(p)

-----------------------------------------------------------------------------
(* Middleware *)

\* AuthRequiredWithBlacklist: first the token, then the blacklist.
Enter(p, op, t, arg) ==
  /\ Valid(t, "access")
  /\ Begin(p, [op |-> op, pc |-> "blacklist", person |-> t.person, user |-> t.user,
               tok |-> t, blind |-> FALSE, arg |-> arg])
  /\ UNCHANGED <<storeVars, tokens, blacklist, clock, revoked>>

\* Mutated Listed: an entry outlives nothing, it ends one tick early.
ListedTooShort(t) == \E b \in blacklist : b.tok = t /\ clock < b.exp - 1

\* An entry is found until the token's own expiry; a Redis entry has a TTL.
Listed(t) == \E b \in blacklist : b.tok = t /\ clock < b.exp

AfterBlacklist(op) == IF op \in AdminOps THEN "permission" ELSE "run"

\* A Redis error lets the request pass.
CheckBlacklist(p) ==
  /\ req[p].pc = "blacklist"
  /\ \/ /\ Listed(req[p].tok) /\ Finish(p)
     \/ /\ ~Listed(req[p].tok)
        /\ Goto(p, AfterBlacklist(req[p].op))
     \/ /\ backend.black = "redis"
        /\ req' = [req EXCEPT ![p].pc = AfterBlacklist(req[p].op), ![p].blind = TRUE]
  /\ UNCHANGED <<bounds, storeVars, tokens, blacklist, clock, revoked>>

RequirePermission(p) ==
  /\ req[p].pc = "permission"
  /\ IF HasPermission(req[p].user, "user", "admin")
     THEN IF req[p].op = "assignRole"
          THEN req' = [req EXCEPT ![p] = [op |-> "assignRole", pc |-> "role",
                         target |-> req[p].arg[1], role |-> req[p].arg[2]]]
          ELSE Goto(p, "run")
     ELSE Finish(p)
  /\ UNCHANGED <<bounds, storeVars, tokens, blacklist, clock, revoked>>

\* APIKeyAuth: ValidateKey reads the row, then stamps its last use.
APIKeyAuth(p, k) ==
  /\ Accepts(k)
  /\ Begin(p, [op |-> "apikey", pc |-> "touch", key |-> k, row |-> keys[k]])
  /\ UNCHANGED <<storeVars, tokens, blacklist, clock, revoked>>

\* Mutated TouchKey: the row read before is saved as a whole.
TouchKeySavesRow(p) ==
  /\ req[p].pc = "touch"
  /\ keys' = [keys EXCEPT ![req[p].key] = [req[p].row EXCEPT !.used = TRUE]]
  /\ Finish(p)
  /\ UNCHANGED <<bounds, users, roles, social, tokens, blacklist, clock, revoked>>

TouchKey(p) ==
  /\ req[p].pc = "touch"
  /\ UpdateKey(req[p].key, "used", TRUE)
  /\ Finish(p)
  /\ UNCHANGED <<bounds, users, roles, social, tokens, blacklist, clock, revoked>>

-----------------------------------------------------------------------------
(* Handlers behind the middleware *)

Runs(p, op) == req[p].pc = "run" /\ req[p].op = op

\* Revoke keeps the entry until the token expires, an hour if it just has.
\* Its error is dropped.
Logout(p) ==
  /\ Runs(p, "logout")
  /\ LET t == req[p].tok IN
     \/ /\ Valid(t, "access")
        /\ blacklist' = blacklist \cup {[tok |-> t, exp |-> t.exp]}
        /\ revoked' = revoked \cup {t}
     \/ /\ ~Valid(t, "access") \/ backend.black = "redis"
        /\ UNCHANGED <<blacklist, revoked>>
  /\ Finish(p)
  /\ UNCHANGED <<bounds, storeVars, tokens, clock>>

\* Reads change nothing: they end the request.
Reads(p, op) ==
  /\ Runs(p, op)
  /\ Finish(p)
  /\ UNCHANGED <<bounds, storeVars, tokens, blacklist, clock, revoked>>

Me(p) == Reads(p, "me")

GetUser(p) == Reads(p, "getUser")

ListUsers(p) == Reads(p, "listUsers")

ListAccounts(p) == Reads(p, "listAccounts")

\* All keys for an admin, the user's own otherwise.
ListAPIKeys(p) == Reads(p, "listAPIKeys")

\* The nickname stands for the optional fields of the request.
SetNickname(i) == users' = Patch(users, i, [users[i] EXCEPT !.nick = TRUE])

UpdateProfile(p) ==
  /\ Runs(p, "updateProfile")
  /\ SetNickname(req[p].user)
  /\ Finish(p)
  /\ UNCHANGED <<bounds, roles, keys, social, tokens, blacklist, clock, revoked>>

UpdateUser(p) ==
  /\ Runs(p, "updateUser")
  /\ SetNickname(req[p].arg)
  /\ Finish(p)
  /\ UNCHANGED <<bounds, roles, keys, social, tokens, blacklist, clock, revoked>>

\* In memory under the mutex; in MySQL the read and comparison come first.
ChangePassword(p) ==
  /\ Runs(p, "changePassword")
  /\ LET i == req[p].user IN
     IF ~Live(users, i) \/ users[i].pw # req[p].arg[1]
     THEN Finish(p) /\ UNCHANGED users
     ELSE IF OnMySQL THEN Goto(p, "password") /\ UNCHANGED users
     ELSE /\ users' = Patch(users, i, [users[i] EXCEPT !.pw = req[p].arg[2]])
          /\ Finish(p)
  /\ UNCHANGED <<bounds, roles, keys, social, tokens, blacklist, clock, revoked>>

WritePassword(p) ==
  /\ req[p].pc = "password"
  /\ users' = Patch(users, req[p].user, [users[req[p].user] EXCEPT !.pw = req[p].arg[2]])
  /\ Finish(p)
  /\ UNCHANGED <<bounds, roles, keys, social, tokens, blacklist, clock, revoked>>

DeleteUser(p) ==
  /\ Runs(p, "deleteUser")
  /\ users' = SoftDelete(users, req[p].arg)
  /\ Finish(p)
  /\ UNCHANGED <<bounds, roles, keys, social, tokens, blacklist, clock, revoked>>

BindAccount(p) ==
  /\ Runs(p, "bind")
  /\ \E open \in SocialUsers[req[p].arg][req[p].person] :
       social' = IF open = Err THEN social ELSE Bind(req[p].user, req[p].arg, open)
  /\ Finish(p)
  /\ UNCHANGED <<bounds, users, roles, keys, tokens, blacklist, clock, revoked>>

Unbind(p) ==
  /\ Runs(p, "unbind")
  /\ LET found == Bound(req[p].user, req[p].arg)
     IN \/ \E i \in First(found) : social' = RemoveAt(social, i)
        \/ found = {} /\ UNCHANGED social
  /\ Finish(p)
  /\ UNCHANGED <<bounds, users, roles, keys, tokens, blacklist, clock, revoked>>

CreateAPIKey(p) ==
  /\ Runs(p, "createAPIKey") /\ Len(keys) < MaxKeys
  /\ \E exp \in {clock + 1, MaxClock + 1} :
       keys' = Append(keys, NewKey(req[p].user, exp))
  /\ Finish(p)
  /\ UNCHANGED <<bounds, users, roles, social, tokens, blacklist, clock, revoked>>

\* The ownership check of updateAPIKey and deleteAPIKey; admins skip it.
MayChangeKey(p) ==
  IF HasPermission(req[p].user, "user", "admin") \/ Owns(req[p].user, req[p].arg)
  THEN Goto(p, req[p].op) ELSE Finish(p)

CheckKeyOwner(p) ==
  /\ Runs(p, "updateAPIKey") \/ Runs(p, "deleteAPIKey")
  /\ MayChangeKey(p)
  /\ UNCHANGED <<bounds, storeVars, tokens, blacklist, clock, revoked>>

UpdateAPIKey(p) ==
  /\ req[p].pc = "updateAPIKey"
  /\ \E st \in {"active", "disabled"} : UpdateKey(req[p].arg, "status", st)
  /\ Finish(p)
  /\ UNCHANGED <<bounds, users, roles, social, tokens, blacklist, clock, revoked>>

DeleteAPIKey(p) ==
  /\ req[p].pc = "deleteAPIKey"
  /\ keys' = SoftDelete(keys, req[p].arg)
  /\ Finish(p)
  /\ UNCHANGED <<bounds, users, roles, social, tokens, blacklist, clock, revoked>>

-----------------------------------------------------------------------------
Tick ==
  /\ clock < MaxClock
  /\ clock' = clock + 1
  /\ UNCHANGED <<bounds, storeVars, tokens, blacklist, req, revoked>>

\* The process ends and starts again; what it kept in memory is gone.
Restart ==
  /\ restarts < MaxRestarts
  /\ restarts' = restarts + 1
  /\ req' = [p \in Procs |-> Idle]
  /\ social' = <<>>
  /\ IF OnMySQL THEN UNCHANGED <<users, roles, keys>>
     ELSE /\ users' = <<>> /\ keys' = <<>>
          /\ roles' = [u \in Ids |-> <<>>]
  /\ IF backend.black = "redis" THEN UNCHANGED <<blacklist, revoked>>
     ELSE blacklist' = {} /\ revoked' = {}
  /\ UNCHANGED <<backend, inUse, started, tokens, clock>>

Target(op) ==
  CASE op \in {"updateUser", "deleteUser", "getUser"} -> Ids
    [] op = "assignRole" -> Ids \X {"admin", "user"}
    [] op = "changePassword" -> Passwords \X Passwords
    [] op \in {"bind", "unbind"} -> Providers
    [] op \in {"updateAPIKey", "deleteAPIKey"} -> 1..MaxKeys
    [] OTHER -> {None}

Next ==
  \/ \E p \in Procs :
       \/ \E who \in Persons, n \in Names, pw \in Passwords : Register(p, who, n, pw)
       \/ \E i \in DOMAIN users, pw \in Passwords : Login(p, i, pw)
       \/ \E t \in tokens : Refresh(p, t)
       \/ \E who \in Persons, prov \in Providers : \E open \in {who, NoOpenID} :
            Callback(p, who, prov, open)
       \/ FindAccount(p) \/ CreateUser(p) \/ BindNew(p)
       \/ AssignRole(p) \/ WriteRole(p)
       \/ \E t \in tokens, op \in inUse \cap (OwnOps \cup AdminOps) :
            \E arg \in Target(op) : Enter(p, op, t, arg)
       \/ CheckBlacklist(p) \/ RequirePermission(p)
       \/ \E k \in DOMAIN keys : APIKeyAuth(p, k)
       \/ TouchKey(p) \/ Logout(p)
       \/ Me(p) \/ GetUser(p) \/ ListUsers(p) \/ ListAccounts(p) \/ ListAPIKeys(p)
       \/ UpdateProfile(p) \/ UpdateUser(p)
       \/ ChangePassword(p) \/ WritePassword(p) \/ DeleteUser(p)
       \/ BindAccount(p) \/ Unbind(p)
       \/ CreateAPIKey(p) \/ CheckKeyOwner(p) \/ UpdateAPIKey(p) \/ DeleteAPIKey(p)
  \/ Tick
  \/ Restart

Spec == Init /\ [][Next]_vars

-----------------------------------------------------------------------------
(* Properties *)

Owner(u, who) == u \in DOMAIN users /\ users[u].person = who
IdsReused == ~OnMySQL /\ restarts > 0
Entered(u) == \E t \in tokens : t.user = u /\ t.via = NoOpenID

\* A token names the account of the person who holds it.  Two cases break this in
\* the code: ids of an in-memory user table start again after a restart while the
\* tokens stay valid, and an answer without an OpenID is bound like any other, so
\* that the next person with such an answer enters the account, and may bind an
\* OpenID of their own to it.
TokensNameTheirHolder ==
  \A t \in tokens : Owner(t.user, t.person) \/ IdsReused \/ Entered(t.user)

\* After a logout whose revocation was stored, no request passes the blacklist
\* with that token, unless Redis failed or the token expired between the two checks.
RevokedIsRefused ==
  [][\A p \in Procs :
       /\ req[p].pc = "blacklist" /\ req[p].tok \in revoked
       /\ req'[p].pc \notin {"idle", "blacklist"}
       => req'[p].blind \/ clock >= req[p].tok.exp]_vars

\* Deleted users and deleted API keys never change again, whatever a request
\* that read them earlier still writes.
DeletedIsFrozen ==
  [][restarts' = restarts =>
       /\ \A i \in DOMAIN users : users[i].deleted => users'[i] = users[i]
       /\ \A k \in DOMAIN keys : keys[k].deleted => keys'[k] = keys[k]]_vars
=============================================================================
