----------------------------- MODULE AuthProofs -----------------------------
(***************************************************************************)
(* Auth: who the tokens name, that a logout holds and that deleted rows    *)
(* stay as they are, for any number of people, requests and rows.  A token *)
(* is made from what a request carries since an earlier step and from the  *)
(* social accounts, so the invariant says of both that they belong to the  *)
(* person in question.                                                     *)
(***************************************************************************)
EXTENDS Auth, TLAPS, SequenceTheorems

TextOf == Names \cup Persons \cup {"root", "same"}

UserRow ==
  [name : (AllProviders \cup {None}) \X TextOf, person : Persons, pw : Passwords \cup {None},
   oauth : AllProviders \cup {None}, nick : BOOLEAN, deleted : BOOLEAN]

KeyRow == [user : Nat, status : {"active", "disabled"}, exp : Int, used : BOOLEAN, deleted : BOOLEAN]

SocialRow == [user : Nat, provider : Providers, open : Persons \cup {NoOpenID}]

TokenType ==
  [type : {"access", "refresh"}, user : Nat, at : Int, person : Persons,
   via : Persons \cup {NoOpenID, None}, exp : Int]

\* The requests, by what they carry.
FindReq ==
  [op : {"callback"}, pc : {"find"}, person : Persons, provider : Providers,
   open : Persons \cup {NoOpenID}]

CreateReq ==
  [op : {"register", "callback"}, pc : {"create"}, person : Persons,
   name : (AllProviders \cup {None}) \X TextOf, pw : Passwords \cup {None},
   provider : Providers \cup {None}, open : Persons \cup {None}]

RolePlaces == {"role", "insertRole", "updateRole"}

MadeReq ==
  [op : {"register", "callback"}, pc : RolePlaces \cup {"bind"}, person : Persons,
   provider : Providers \cup {None}, open : Persons \cup {None},
   target : Nat, role : {"user"}, user : Nat]

AssignReq == [op : {"assignRole"}, pc : RolePlaces, target : Nat, role : {"admin", "user"}]

UserReq ==
  [op : OwnOps \cup AdminOps,
   pc : {"blacklist", "permission", "run", "password", "updateAPIKey", "deleteAPIKey"},
   person : Persons, user : Nat, tok : TokenType, blind : BOOLEAN,
   arg : UNION {Target(op) : op \in OwnOps \cup AdminOps}]

KeyReq == [op : {"apikey"}, pc : {"touch"}, key : Nat, row : KeyRow]

ReqType == {Idle} \cup FindReq \cup CreateReq \cup MadeReq \cup AssignReq \cup UserReq \cup KeyReq

TypesOK ==
  /\ users \in Seq(UserRow)
  /\ keys \in Seq(KeyRow)
  /\ social \in Seq(SocialRow)
  /\ tokens \subseteq TokenType
  /\ clock \in Nat /\ restarts \in Nat
  /\ req \in [Procs -> ReqType]

\* Account u is the person's, as far as the code keeps accounts apart.
Mine(u, who) == Owner(u, who) \/ IdsReused \/ Entered(u)

\* What a request knows of its person.
ReqInOrder(r) ==
  /\ r \in FindReq => r.open \in {r.person, NoOpenID}
  /\ r \in CreateReq /\ r.provider # None => r.open = r.person
  /\ r \in MadeReq /\ r.pc = "bind" => r.open = r.person /\ r.provider # None
  /\ r \in MadeReq \cup UserReq => Mine(r.user, r.person)
  /\ r \in UserReq => r.arg \in Target(r.op) /\ (r.pc = "password" => r.op = "changePassword")

AccountInOrder(a) == a.open = NoOpenID \/ Mine(a.user, a.open)

AuthIInv ==
  /\ TypesOK
  /\ \A t \in tokens : Mine(t.user, t.person)
  /\ \A i \in DOMAIN social : AccountInOrder(social[i])
  /\ \A p \in Procs : ReqInOrder(req[p])
  /\ \A t \in revoked : \E b \in blacklist : b.tok = t /\ b.exp = t.exp

-----------------------------------------------------------------------------
\* The answers of the providers name the person or nobody.
LEMMA SocialUsersType ==
  ASSUME NEW prov \in Providers, NEW who \in Persons
  PROVE  SocialUsers[prov][who] \subseteq {who, NoOpenID, Err}
<1>. SUFFICES ASSUME NEW got \in SocialUsers[prov][who] PROVE got \in {who, NoOpenID, Err}
  OBVIOUS
<1>1. PICK a \in [1..3 -> Answer(who)], len \in 4..7 : got = UserInfo(prov, a, len)
  BY DEF SocialUsers
<1>. QED
  BY <1>1, AuthAssumption, ProviderAssumption

\* unbind's RemoveAt leaves rows that were there.
LEMMA RemoveAtRows ==
  ASSUME NEW S, NEW s \in Seq(S), NEW i \in DOMAIN s
  PROVE  /\ RemoveAt(s, i) \in Seq(S)
         /\ \A j \in DOMAIN RemoveAt(s, i) : \E k \in DOMAIN s : RemoveAt(s, i)[j] = s[k]
<1>. DEFINE T == {s[k] : k \in DOMAIN s}
<1>1. s \in Seq(T) /\ T \subseteq S
  OBVIOUS
<1>2. SubSeq(s, 1, i-1) \in Seq(T) /\ SubSeq(s, i+1, Len(s)) \in Seq(T)
  BY <1>1
<1>3. RemoveAt(s, i) \in Seq(T)
  BY <1>2, ConcatProperties DEF RemoveAt
<1>. QED
  BY <1>1, <1>3

LEMMA MineKept ==
  ASSUME NEW u, NEW who, Mine(u, who),
         \A i \in DOMAIN users : i \in DOMAIN users' /\ users'[i].person = users[i].person,
         tokens \subseteq tokens', backend' = backend, restarts' = restarts
  PROVE  Mine(u, who)'
BY DEF Mine, Owner, IdsReused, Entered, OnMySQL

\* The statement a request is at tells what it carries.
LEMMA ReqAt ==
  ASSUME TypesOK, NEW p \in Procs
  PROVE  /\ req[p].pc = "find" => req[p] \in FindReq
         /\ req[p].pc = "create" => req[p] \in CreateReq
         /\ req[p].pc = "bind" => req[p] \in MadeReq
         /\ req[p].pc \in RolePlaces => req[p] \in MadeReq \cup AssignReq
         /\ req[p].pc \in {"blacklist", "permission", "run", "password", "updateAPIKey", "deleteAPIKey"}
              => req[p] \in UserReq
         /\ req[p].pc = "touch" => req[p] \in KeyReq
<1>1. req[p] \in ReqType
  BY DEF TypesOK
<1>. QED
  BY <1>1 DEF ReqType, Idle, FindReq, CreateReq, MadeReq, AssignReq, UserReq, KeyReq, RolePlaces

LEMMA IdleInOrder == Idle \in ReqType /\ ReqInOrder(Idle) /\ ReqInOrder(Idle)'
<1>1. Idle \in ReqType
  BY DEF ReqType
<1>2. Idle \notin FindReq \cup CreateReq \cup MadeReq \cup UserReq
  BY DEF Idle, FindReq, CreateReq, MadeReq, UserReq, RolePlaces
<1>. QED
  BY <1>1, <1>2 DEF ReqInOrder

UsersKept ==
  /\ users' \in Seq(UserRow)
  /\ \A i \in DOMAIN users : i \in DOMAIN users' /\ users'[i].person = users[i].person

\* What every step but a restart keeps: rows stay with their persons, tokens and
\* accounts that come in are their person's, and so is what requests carry.
LEMMA AuthStep ==
  ASSUME AuthIInv, UsersKept, keys' \in Seq(KeyRow), social' \in Seq(SocialRow),
         tokens \subseteq tokens', tokens' \subseteq TokenType,
         \A t \in tokens' \ tokens : Mine(t.user, t.person)',
         \A i \in DOMAIN social' : \A a : a = social'[i] =>
           (\E j \in DOMAIN social : a = social[j]) \/ AccountInOrder(a)',
         req' \in [Procs -> ReqType],
         \A q \in Procs : \A r : r = req'[q] => r = req[q] \/ ReqInOrder(r)',
         clock' \in Nat, backend' = backend, restarts' = restarts,
         \A t \in revoked' : \E b \in blacklist' : b.tok = t /\ b.exp = t.exp
  PROVE  AuthIInv'
<1>1. TypesOK'
  BY DEF AuthIInv, TypesOK, UsersKept
<1>2. ASSUME NEW u, NEW who, Mine(u, who) PROVE Mine(u, who)'
  BY <1>2, MineKept DEF UsersKept
<1>3. \A t \in tokens' : Mine(t.user, t.person)'
  BY <1>2 DEF AuthIInv
<1>4. ASSUME NEW i \in DOMAIN social' PROVE AccountInOrder(social[i])'
  <2>1. PICK a : a = social'[i]
    OBVIOUS
  <2>2. AccountInOrder(a)'
    BY <1>2, <2>1 DEF AuthIInv, AccountInOrder
  <2>. QED
    BY <2>1, <2>2 DEF AccountInOrder
<1>5. ASSUME NEW q \in Procs PROVE ReqInOrder(req[q])'
  <2>1. PICK r : r = req'[q]
    OBVIOUS
  <2>2. ReqInOrder(r)'
    BY <1>2, <2>1 DEF AuthIInv, ReqInOrder
  <2>. QED
    BY <2>1, <2>2 DEF ReqInOrder
<1>. QED
  BY <1>1, <1>3, <1>4, <1>5 DEF AuthIInv

\* A step that gives out no token: the request, and perhaps a table, changes.
LEMMA ReqStep ==
  ASSUME AuthIInv, NEW p \in Procs, NEW r \in ReqType, ReqInOrder(r)', req' = [req EXCEPT ![p] = r],
         users' = users \/ UsersKept, keys' = keys \/ keys' \in Seq(KeyRow),
         social' = social \/ (social' \in Seq(SocialRow) /\ \A i \in DOMAIN social' : \A a : a = social'[i] =>
                                (\E j \in DOMAIN social : a = social[j]) \/ AccountInOrder(a)'),
         tokens' = tokens, clock' = clock, backend' = backend, restarts' = restarts,
         blacklist' = blacklist, revoked' = revoked
  PROVE  AuthIInv'
<1>1. /\ UsersKept /\ keys' \in Seq(KeyRow) /\ social' \in Seq(SocialRow)
      /\ tokens' \subseteq TokenType /\ clock' \in Nat /\ req \in [Procs -> ReqType]
  BY DEF AuthIInv, TypesOK, UsersKept
<1>2. \A i \in DOMAIN social' : \A a : a = social'[i] =>
        (\E j \in DOMAIN social : a = social[j]) \/ AccountInOrder(a)'
  OBVIOUS
<1>3. req' \in [Procs -> ReqType] /\ \A q \in Procs : \A x : x = req'[q] => x = req[q] \/ ReqInOrder(x)'
  BY <1>1
<1>4. \A t \in revoked' : \E b \in blacklist' : b.tok = t /\ b.exp = t.exp
  BY DEF AuthIInv
<1>. QED
  BY <1>1, <1>2, <1>3, <1>4, AuthStep

\* A step that gives out a pair of tokens.
LEMMA PairStep ==
  ASSUME AuthIInv, NEW u \in Nat, NEW who \in Persons, NEW via \in Persons \cup {NoOpenID, None},
         Mine(u, who) \/ via = NoOpenID, GenerateTokenPair(u, who, via),
         req' = req \/ \E p \in Procs : req' = [req EXCEPT ![p] = Idle],
         UNCHANGED <<backend, users, keys, social, restarts, blacklist, revoked>>
  PROVE  AuthIInv'
<1>1. /\ UsersKept /\ keys' \in Seq(KeyRow) /\ social' \in Seq(SocialRow) /\ req \in [Procs -> ReqType]
      /\ tokens \subseteq TokenType /\ clock \in Nat
  BY DEF AuthIInv, TypesOK, UsersKept
<1>2. Pair(u, who, via) \subseteq TokenType
  BY <1>1, AuthAssumption DEF Pair, TokenType
<1>3. tokens' = tokens \cup Pair(u, who, via) /\ clock' \in Nat
  BY <1>1 DEF GenerateTokenPair
<1>4. Pair(u, who, via) # {} /\ \A t \in Pair(u, who, via) : t.user = u /\ t.person = who /\ t.via = via
  <2>1. \E t : t \in Pair(u, who, via)
    BY DEF Pair
  <2>2. ASSUME NEW t \in Pair(u, who, via) PROVE t.user = u /\ t.person = who /\ t.via = via
    <3>1. PICK ty \in {"access", "refresh"} :
            t = [type |-> ty, user |-> u, at |-> clock, person |-> who, via |-> via,
                 exp |-> clock + (IF ty = "access" THEN AccessExpire ELSE RefreshExpire)]
      BY Zenon DEF Pair
    <3>. QED
      BY <3>1
  <2>. QED
    BY <2>1, <2>2
<1>5. Mine(u, who)'
  <2>1. CASE Mine(u, who)
    BY <1>1, <1>3, <2>1, MineKept DEF UsersKept
  <2>2. CASE via = NoOpenID
    BY <1>3, <1>4, <2>2 DEF Mine, Entered
  <2>. QED
    BY <2>1, <2>2
<1>6. \A t \in tokens' \ tokens : Mine(t.user, t.person)'
  BY <1>3, <1>4, <1>5
<1>7. req' \in [Procs -> ReqType] /\ \A q \in Procs : \A x : x = req'[q] => x = req[q] \/ ReqInOrder(x)'
  BY <1>1, IdleInOrder
<1>8. /\ \A i \in DOMAIN social' : \A a : a = social'[i] =>
           (\E j \in DOMAIN social : a = social[j]) \/ AccountInOrder(a)'
      /\ \A t \in revoked' : \E b \in blacklist' : b.tok = t /\ b.exp = t.exp
  BY DEF AuthIInv
<1>. QED
  BY <1>1, <1>2, <1>3, <1>6, <1>7, <1>8, AuthStep

-----------------------------------------------------------------------------
(* Public endpoints *)

LEMMA RegisterIInv ==
  ASSUME AuthIInv, NEW p \in Procs, NEW who \in Persons, NEW n \in Names, NEW pw \in Passwords,
         Register(p, who, n, pw)
  PROVE  AuthIInv'
<1>1. PICK r : r = [op |-> "register", pc |-> "create", person |-> who, name |-> <<None, n>>, pw |-> pw,
                    provider |-> None, open |-> None]
  OBVIOUS
<1>2. r \in CreateReq
  BY <1>1 DEF CreateReq, TextOf
<1>3. r \notin FindReq \cup MadeReq \cup UserReq
  BY <1>1 DEF FindReq, MadeReq, UserReq, RolePlaces
<1>4. r \in ReqType /\ ReqInOrder(r)'
  BY <1>1, <1>2, <1>3 DEF ReqType, ReqInOrder
<1>. QED
  BY <1>1, <1>4, ReqStep DEF Register, Begin, storeVars

LEMMA LoginIInv ==
  ASSUME AuthIInv, NEW p \in Procs, NEW i \in DOMAIN users, NEW pw \in Passwords, Login(p, i, pw)
  PROVE  AuthIInv'
<1>1. users \in Seq(UserRow)
  BY DEF AuthIInv, TypesOK
<1>2. users[i] \in UserRow /\ i \in Nat
  BY <1>1
<1>3. users[i].person \in Persons /\ Mine(i, users[i].person)
  BY <1>2 DEF UserRow, Mine, Owner
<1>. QED
  BY <1>2, <1>3, PairStep DEF Login, storeVars

LEMMA RefreshIInv ==
  ASSUME AuthIInv, NEW p \in Procs, NEW t \in tokens, Refresh(p, t)
  PROVE  AuthIInv'
<1>1. t \in TokenType /\ Mine(t.user, t.person)
  BY DEF AuthIInv, TypesOK
<1>. QED
  BY <1>1, PairStep DEF Refresh, storeVars, TokenType

LEMMA CallbackIInv ==
  ASSUME AuthIInv, NEW p \in Procs, NEW who \in Persons, NEW prov \in Providers,
         NEW open \in {who, NoOpenID}, Callback(p, who, prov, open)
  PROVE  AuthIInv'
<1>1. PICK r : r = [op |-> "callback", pc |-> "find", person |-> who, provider |-> prov, open |-> open]
  OBVIOUS
<1>2. r \in FindReq /\ r.open \in {r.person, NoOpenID}
  BY <1>1 DEF FindReq
<1>3. r \notin CreateReq \cup MadeReq \cup UserReq
  BY <1>1 DEF CreateReq, MadeReq, UserReq, RolePlaces
<1>4. r \in ReqType /\ ReqInOrder(r)'
  BY <1>1, <1>2, <1>3 DEF ReqType, ReqInOrder
<1>. QED
  BY <1>1, <1>4, ReqStep DEF Callback, Begin, storeVars

LEMMA FindAccountIInv ==
  ASSUME AuthIInv, NEW p \in Procs, FindAccount(p)
  PROVE  AuthIInv'
<1>1. PICK r : r = req[p]
  OBVIOUS
<1>2. r \in FindReq /\ r.open \in {r.person, NoOpenID}
  BY <1>1, ReqAt DEF AuthIInv, ReqInOrder, FindAccount
<1>3. ASSUME NEW i \in First(FindByProvider(r.provider, r.open)),
             GenerateTokenPair(social[i].user, r.person, r.open), Finish(p)
      PROVE  AuthIInv'
  <2>1. i \in DOMAIN social /\ social[i].open = r.open
    BY DEF First, FindByProvider
  <2>2. social \in Seq(SocialRow) /\ AccountInOrder(social[i])
    BY <2>1 DEF AuthIInv, TypesOK
  <2>3. PICK u : u = social[i].user
    OBVIOUS
  <2>4. social[i] \in SocialRow
    BY <2>1, <2>2
  <2>5. u \in Nat /\ (r.open = NoOpenID \/ Mine(u, r.open))
    BY <2>1, <2>2, <2>3, <2>4 DEF AccountInOrder, SocialRow
  <2>6. Mine(u, r.person) \/ r.open = NoOpenID
    BY <1>2, <2>5
  <2>. QED
    BY <1>1, <1>2, <1>3, <2>3, <2>5, <2>6, PairStep DEF FindAccount, FindReq, Finish, storeVars, bounds
<1>4. ASSUME Finish(p), UNCHANGED <<tokens, clock>> PROVE AuthIInv'
  BY <1>4, IdleInOrder, ReqStep DEF FindAccount, Finish, storeVars, bounds
<1>5. ASSUME NEW n, n = [op |-> r.op, pc |-> "create", person |-> r.person,
                         name |-> <<r.provider, IF SameEight THEN "same" ELSE r.open>>,
                         pw |-> None, provider |-> r.provider, open |-> r.open],
             req' = [req EXCEPT ![p] = n], r.open # NoOpenID, UNCHANGED <<tokens, clock>>
      PROVE  AuthIInv'
  <2>1. n \in CreateReq /\ n.open = n.person
    BY <1>2, <1>5, AuthAssumption DEF FindReq, CreateReq, TextOf
  <2>2. n \notin FindReq \cup MadeReq \cup UserReq
    BY <1>5 DEF FindReq, MadeReq, UserReq, RolePlaces
  <2>3. n \in ReqType /\ ReqInOrder(n)'
    BY <2>1, <2>2 DEF ReqType, ReqInOrder
  <2>. QED
    BY <1>5, <2>3, ReqStep DEF FindAccount, storeVars, bounds
<1>. QED
  BY <1>1, <1>3, <1>4, <1>5 DEF FindAccount

LEMMA CreateUserIInv ==
  ASSUME AuthIInv, NEW p \in Procs, CreateUser(p)
  PROVE  AuthIInv'
<1>1. PICK r : r = req[p]
  OBVIOUS
<1>2. r \in CreateReq /\ (r.provider # None => r.open = r.person)
  BY <1>1, ReqAt DEF AuthIInv, ReqInOrder, CreateUser
<1>3. users \in Seq(UserRow)
  BY DEF AuthIInv, TypesOK
<1>4. CASE NameTaken(r.name)
  BY <1>1, <1>4, IdleInOrder, ReqStep DEF CreateUser, Finish, bounds
<1>5. CASE ~NameTaken(r.name)
  <2>1. PICK row : row = NewUser(r.name, r.person, r.pw, r.provider)
    OBVIOUS
  <2>2. row \in UserRow /\ row.person = r.person
    BY <1>2, <2>1, AuthAssumption DEF NewUser, UserRow, CreateReq
  <2>3. users' = Append(users, row)
    BY <1>1, <1>5, <2>1 DEF CreateUser
  <2>4. UsersKept
    BY <1>3, <2>2, <2>3 DEF UsersKept
  <2>5. PICK n : n = [op |-> r.op, pc |-> IF r.provider = None THEN "role" ELSE "bind",
                      person |-> r.person, provider |-> r.provider, open |-> r.open,
                      target |-> Len(users) + 1, role |-> "user", user |-> Len(users) + 1]
    OBVIOUS
  <2>6. n \in MadeReq /\ (n.pc = "bind" => n.open = n.person /\ n.provider # None)
    BY <1>2, <1>3, <2>5 DEF MadeReq, RolePlaces, CreateReq
  <2>7. n \notin FindReq \cup CreateReq \cup UserReq
    BY <2>6 DEF MadeReq, FindReq, CreateReq, UserReq, RolePlaces
  <2>8. Mine(n.user, n.person)'
    <3>1. n.user = Len(users) + 1 /\ n.person = r.person
      BY <2>5
    <3>2. n.user \in DOMAIN users' /\ users'[n.user] = row
      BY <1>3, <2>2, <2>3, <3>1
    <3>. QED
      BY <2>2, <3>1, <3>2 DEF Mine, Owner
  <2>9. n \in ReqType /\ ReqInOrder(n)'
    BY <2>6, <2>7, <2>8 DEF ReqType, ReqInOrder
  <2>10. req' = [req EXCEPT ![p] = n]
    BY <1>1, <1>5, <2>5 DEF CreateUser
  <2>. QED
    BY <2>4, <2>9, <2>10, ReqStep DEF CreateUser, bounds
<1>. QED
  BY <1>4, <1>5

\* Bind, for an account of the person's own or an answer without an OpenID.
LEMMA BindRows ==
  ASSUME AuthIInv, NEW u \in Nat, NEW prov \in Providers, NEW open \in Persons \cup {NoOpenID},
         open = NoOpenID \/ Mine(u, open)', social' = Bind(u, prov, open)
  PROVE  social' \in Seq(SocialRow) /\ \A i \in DOMAIN social' : \A a : a = social'[i] =>
           (\E j \in DOMAIN social : a = social[j]) \/ AccountInOrder(a)'
<1>1. PICK row : row = [user |-> u, provider |-> prov, open |-> open]
  OBVIOUS
<1>2. row \in SocialRow /\ social \in Seq(SocialRow)
  BY <1>1 DEF SocialRow, AuthIInv, TypesOK
<1>3. AccountInOrder(row)'
  BY <1>1 DEF AccountInOrder
<1>4. social' = social \/ social' = Append(social, row)
  BY <1>1 DEF Bind
<1>. QED
  BY <1>2, <1>3, <1>4

LEMMA BindNewIInv ==
  ASSUME AuthIInv, NEW p \in Procs, BindNew(p)
  PROVE  AuthIInv'
<1>1. PICK r, n : r = req[p] /\ n = [r EXCEPT !.pc = "role"]
  OBVIOUS
<1>2. r \in MadeReq /\ r.open = r.person /\ r.provider # None /\ Mine(r.user, r.person) /\ r.pc = "bind"
  BY <1>1, ReqAt DEF AuthIInv, ReqInOrder, BindNew
<1>3. /\ users' = users /\ tokens' = tokens /\ backend' = backend /\ restarts' = restarts
      /\ social' = Bind(r.user, r.provider, r.open) /\ req' = [req EXCEPT ![p] = n]
  BY <1>1 DEF BindNew, bounds, Goto
<1>4. Mine(r.user, r.person)'
  BY <1>2, <1>3, MineKept
<1>5. social' \in Seq(SocialRow) /\ \A i \in DOMAIN social' : \A a : a = social'[i] =>
        (\E j \in DOMAIN social : a = social[j]) \/ AccountInOrder(a)'
  BY <1>2, <1>3, <1>4, BindRows DEF MadeReq
<1>6. n \in MadeReq /\ n.pc = "role" /\ n.user = r.user /\ n.person = r.person
  BY <1>1, <1>2 DEF MadeReq, RolePlaces
<1>7. n \notin FindReq \cup CreateReq \cup UserReq
  BY <1>6 DEF FindReq, CreateReq, UserReq
<1>8. n \in ReqType /\ ReqInOrder(n)'
  BY <1>4, <1>6, <1>7 DEF ReqType, ReqInOrder
<1>. QED
  BY <1>3, <1>5, <1>8, ReqStep DEF BindNew, bounds

\* A request that moves on and still carries what it carried.
LEMMA MoveIInv ==
  ASSUME AuthIInv, NEW p \in Procs, NEW n, n \in ReqType,
         req' = [req EXCEPT ![p] = n],
         \/ req[p] \in MadeReq /\ n \in MadeReq /\ n.pc # "bind" /\ n.user = req[p].user /\ n.person = req[p].person
         \/ n \in AssignReq
         \/ /\ req[p] \in UserReq /\ n \in UserReq /\ n.user = req[p].user /\ n.person = req[p].person
            /\ n.op = req[p].op /\ n.arg = req[p].arg /\ (n.pc = "password" => n.op = "changePassword"),
         UNCHANGED <<backend, restarts, users, keys, social, tokens, clock, blacklist, revoked>>
  PROVE  AuthIInv'
<1>1. n \notin FindReq \cup CreateReq
  BY DEF FindReq, CreateReq, MadeReq, AssignReq, UserReq, RolePlaces
<1>2. ASSUME NEW u, NEW who, Mine(u, who) PROVE Mine(u, who)'
  BY <1>2, MineKept
<1>3. ReqInOrder(req[p])
  BY DEF AuthIInv
<1>4. CASE n \in AssignReq
  <2>1. n \notin MadeReq \cup UserReq
    BY <1>4 DEF AssignReq, MadeReq, UserReq, RolePlaces
  <2>2. ReqInOrder(n)'
    BY <1>1, <2>1 DEF ReqInOrder
  <2>. QED
    BY <2>2, ReqStep
<1>5. CASE req[p] \in MadeReq /\ n \in MadeReq /\ n.pc # "bind" /\ n.user = req[p].user /\ n.person = req[p].person
  <2>1. n \notin UserReq /\ Mine(n.user, n.person)
    BY <1>3, <1>5 DEF UserReq, MadeReq, RolePlaces, ReqInOrder
  <2>2. ReqInOrder(n)'
    BY <1>1, <1>2, <1>5, <2>1 DEF ReqInOrder
  <2>. QED
    BY <2>2, ReqStep
<1>6. CASE /\ req[p] \in UserReq /\ n \in UserReq /\ n.user = req[p].user /\ n.person = req[p].person
           /\ n.op = req[p].op /\ n.arg = req[p].arg /\ (n.pc = "password" => n.op = "changePassword")
  <2>1. n \notin MadeReq /\ Mine(n.user, n.person) /\ n.arg \in Target(n.op)
    BY <1>3, <1>6 DEF UserReq, MadeReq, RolePlaces, ReqInOrder
  <2>2. ReqInOrder(n)'
    BY <1>1, <1>2, <1>6, <2>1 DEF ReqInOrder
  <2>. QED
    BY <2>2, ReqStep
<1>. QED
  BY <1>4, <1>5, <1>6

LEMMA EndAssignIInv ==
  ASSUME AuthIInv, NEW p \in Procs, req[p].pc \in RolePlaces, EndAssign(p)
  PROVE  AuthIInv'
<1>1. PICK r : r = req[p]
  OBVIOUS
<1>2. r \in MadeReq \cup AssignReq /\ ReqInOrder(r)
  BY <1>1, ReqAt DEF AuthIInv
<1>3. CASE r.op = "assignRole"
  BY <1>1, <1>3, IdleInOrder, ReqStep DEF EndAssign, Finish, bounds
<1>4. CASE r.op # "assignRole"
  <2>1. r \in MadeReq /\ Mine(r.user, r.person)
    BY <1>2, <1>4 DEF AssignReq, ReqInOrder
  <2>. QED
    BY <1>1, <1>4, <2>1, PairStep DEF EndAssign, Finish, bounds, MadeReq
<1>. QED
  BY <1>3, <1>4

LEMMA AssignRoleIInv ==
  ASSUME AuthIInv, NEW p \in Procs, AssignRole(p)
  PROVE  AuthIInv'
<1>1. req[p].pc \in RolePlaces
  BY DEF AssignRole, RolePlaces
<1>2. CASE EndAssign(p)
  BY <1>1, <1>2, EndAssignIInv
<1>3. ASSUME NEW pc \in RolePlaces, req' = [req EXCEPT ![p].pc = pc],
             UNCHANGED <<bounds, storeVars, tokens, blacklist, clock, revoked>>
      PROVE  AuthIInv'
  <2>1. PICK r, n : r = req[p] /\ n = [r EXCEPT !.pc = pc]
    OBVIOUS
  <2>2. r \in MadeReq \cup AssignReq
    BY <1>1, <2>1, ReqAt DEF AuthIInv
  <2>3. CASE r \in MadeReq
    <3>1. n \in MadeReq /\ n.pc # "bind" /\ n.user = r.user /\ n.person = r.person
      BY <1>3, <2>1, <2>3 DEF MadeReq, RolePlaces
    <3>. QED
      BY <1>3, <2>1, <2>3, <3>1, MoveIInv DEF ReqType, bounds, storeVars
  <2>4. CASE r \in AssignReq
    <3>1. n \in AssignReq
      BY <1>3, <2>1, <2>4 DEF AssignReq
    <3>. QED
      BY <1>3, <2>1, <3>1, MoveIInv DEF ReqType, bounds, storeVars
  <2>. QED
    BY <2>2, <2>3, <2>4
<1>. QED
  BY <1>2, <1>3 DEF AssignRole, RolePlaces

LEMMA WriteRoleIInv ==
  ASSUME AuthIInv, NEW p \in Procs, WriteRole(p)
  PROVE  AuthIInv'
BY EndAssignIInv DEF WriteRole, RolePlaces

-----------------------------------------------------------------------------
(* Middleware *)

LEMMA EnterIInv ==
  ASSUME AuthIInv, NEW p \in Procs, NEW t \in tokens, NEW op \in OwnOps \cup AdminOps,
         NEW arg \in Target(op), Enter(p, op, t, arg)
  PROVE  AuthIInv'
<1>1. PICK r : r = [op |-> op, pc |-> "blacklist", person |-> t.person, user |-> t.user,
                    tok |-> t, blind |-> FALSE, arg |-> arg]
  OBVIOUS
<1>2. t \in TokenType /\ Mine(t.user, t.person)
  BY DEF AuthIInv, TypesOK
<1>3. r \in UserReq
  BY <1>1, <1>2 DEF UserReq, TokenType
<1>4. r \notin FindReq \cup CreateReq \cup MadeReq
  BY <1>1 DEF FindReq, CreateReq, MadeReq, RolePlaces
<1>5. Mine(t.user, t.person)'
  BY <1>2, MineKept DEF Enter, Begin, storeVars
<1>6. r \in ReqType /\ ReqInOrder(r)'
  BY <1>1, <1>3, <1>4, <1>5 DEF ReqType, ReqInOrder
<1>. QED
  BY <1>1, <1>6, ReqStep DEF Enter, Begin, storeVars

UserPlaces == {"blacklist", "permission", "run", "password", "updateAPIKey", "deleteAPIKey"}

\* A request behind the token check that moves on.
LEMMA GotoIInv ==
  ASSUME AuthIInv, NEW p \in Procs, NEW pc \in UserPlaces, NEW blind \in BOOLEAN, req[p] \in UserReq,
         pc = "password" => req[p].op = "changePassword",
         req' = [req EXCEPT ![p].pc = pc] \/ req' = [req EXCEPT ![p].pc = pc, ![p].blind = blind],
         UNCHANGED <<backend, restarts, users, keys, social, tokens, clock, blacklist, revoked>>
  PROVE  AuthIInv'
<1>1. PICK r : r = req[p]
  OBVIOUS
<1>2. PICK n : /\ n = [r EXCEPT !.pc = pc] \/ n = [r EXCEPT !.pc = pc, !.blind = blind]
               /\ req' = [req EXCEPT ![p] = n]
  BY <1>1
<1>3. /\ n \in UserReq /\ n.user = r.user /\ n.person = r.person
      /\ n.op = r.op /\ n.arg = r.arg /\ n.pc = pc
  BY <1>1, <1>2 DEF UserReq, UserPlaces
<1>. QED
  BY <1>1, <1>2, <1>3, MoveIInv DEF ReqType

\* A request that ends and changes no table.
LEMMA FinishIInv ==
  ASSUME AuthIInv, NEW p \in Procs, Finish(p),
         UNCHANGED <<backend, restarts, users, keys, social, tokens, clock, blacklist, revoked>>
  PROVE  AuthIInv'
BY IdleInOrder, ReqStep DEF Finish

LEMMA CheckBlacklistIInv ==
  ASSUME AuthIInv, NEW p \in Procs, CheckBlacklist(p)
  PROVE  AuthIInv'
<1>1. req[p] \in UserReq /\ UNCHANGED <<backend, restarts, users, keys, social, tokens, clock, blacklist, revoked>>
  BY ReqAt DEF AuthIInv, CheckBlacklist, bounds, storeVars
<1>2. AfterBlacklist(req[p].op) \in {"permission", "run"}
  BY DEF AfterBlacklist
<1>. QED
  BY <1>1, <1>2, FinishIInv, GotoIInv DEF CheckBlacklist, Goto, UserPlaces

LEMMA RequirePermissionIInv ==
  ASSUME AuthIInv, NEW p \in Procs, RequirePermission(p)
  PROVE  AuthIInv'
<1>1. PICK r : r = req[p]
  OBVIOUS
<1>2. /\ r \in UserReq /\ r.arg \in Target(r.op)
      /\ UNCHANGED <<backend, restarts, users, keys, social, tokens, clock, blacklist, revoked>>
  BY <1>1, ReqAt DEF AuthIInv, ReqInOrder, RequirePermission, bounds, storeVars
<1>3. ASSUME NEW n, n = [op |-> "assignRole", pc |-> "role", target |-> r.arg[1], role |-> r.arg[2]],
             r.op = "assignRole", req' = [req EXCEPT ![p] = n]
      PROVE  AuthIInv'
  <2>1. r.arg \in Ids \X {"admin", "user"}
    BY <1>2, <1>3 DEF Target
  <2>2. n \in AssignReq
    BY <1>3, <2>1, AuthAssumption DEF AssignReq, RolePlaces, Ids
  <2>. QED
    BY <1>2, <1>3, <2>2, MoveIInv DEF ReqType
<1>. QED
  BY <1>1, <1>2, <1>3, FinishIInv, GotoIInv DEF RequirePermission, Goto, UserPlaces

LEMMA APIKeyAuthIInv ==
  ASSUME AuthIInv, NEW p \in Procs, NEW k \in DOMAIN keys, APIKeyAuth(p, k)
  PROVE  AuthIInv'
<1>1. PICK r : r = [op |-> "apikey", pc |-> "touch", key |-> k, row |-> keys[k]]
  OBVIOUS
<1>2. keys \in Seq(KeyRow)
  BY DEF AuthIInv, TypesOK
<1>3. k \in Nat /\ keys[k] \in KeyRow
  BY <1>2
<1>4. r \in KeyReq
  BY <1>1, <1>3 DEF KeyReq
<1>5. r \notin FindReq \cup CreateReq \cup MadeReq \cup UserReq
  BY <1>1 DEF FindReq, CreateReq, MadeReq, UserReq, RolePlaces
<1>6. r \in ReqType /\ ReqInOrder(r)'
  BY <1>4, <1>5 DEF ReqType, ReqInOrder
<1>. QED
  BY <1>1, <1>6, ReqStep DEF APIKeyAuth, Begin, storeVars

\* A statement on one row of the key table, whichever columns it writes.
LEMMA PatchKeys ==
  ASSUME AuthIInv, NEW k, NEW row, Live(keys, k) => row \in KeyRow
  PROVE  Patch(keys, k, row) \in Seq(KeyRow)
<1>1. keys \in Seq(KeyRow)
  BY DEF AuthIInv, TypesOK
<1>. QED
  BY <1>1 DEF Patch, Live

LEMMA UpdateKeyRows ==
  ASSUME AuthIInv, NEW k, NEW column, NEW value, UpdateKey(k, column, value),
         (column = "used" /\ value = TRUE) \/ (column = "status" /\ value \in {"active", "disabled"})
  PROVE  keys' \in Seq(KeyRow)
<1>1. keys \in Seq(KeyRow)
  BY DEF AuthIInv, TypesOK
<1>2. PICK row : row = [keys[k] EXCEPT ![column] = value]
  OBVIOUS
<1>3. Live(keys, k) => keys[k] \in KeyRow
  BY <1>1 DEF Live
<1>4. Live(keys, k) => row \in KeyRow
  BY <1>2, <1>3 DEF KeyRow
<1>. QED
  BY <1>2, <1>4, PatchKeys DEF UpdateKey

LEMMA TouchKeyIInv ==
  ASSUME AuthIInv, NEW p \in Procs, TouchKey(p)
  PROVE  AuthIInv'
<1>1. keys' \in Seq(KeyRow)
  BY UpdateKeyRows DEF TouchKey
<1>. QED
  BY <1>1, IdleInOrder, ReqStep DEF TouchKey, Finish, bounds

-----------------------------------------------------------------------------
(* Handlers behind the middleware *)

LEMMA LogoutIInv ==
  ASSUME AuthIInv, NEW p \in Procs, Logout(p)
  PROVE  AuthIInv'
<1>1. /\ UsersKept /\ keys' \in Seq(KeyRow) /\ social' \in Seq(SocialRow) /\ req \in [Procs -> ReqType]
      /\ tokens' = tokens /\ tokens' \subseteq TokenType /\ clock' \in Nat /\ backend' = backend /\ restarts' = restarts
  BY DEF AuthIInv, TypesOK, UsersKept, Logout, storeVars, bounds
<1>2. req' \in [Procs -> ReqType] /\ \A q \in Procs : \A x : x = req'[q] => x = req[q] \/ ReqInOrder(x)'
  BY <1>1, IdleInOrder DEF Logout, Finish
<1>3. \A i \in DOMAIN social' : \A a : a = social'[i] =>
        (\E j \in DOMAIN social : a = social[j]) \/ AccountInOrder(a)'
  BY DEF Logout, storeVars
<1>4. \A t \in revoked' : \E b \in blacklist' : b.tok = t /\ b.exp = t.exp
  <2>1. PICK t, b : t = req[p].tok /\ b = [tok |-> t, exp |-> t.exp]
    OBVIOUS
  <2>2. \/ blacklist' = blacklist \cup {b} /\ revoked' = revoked \cup {t}
        \/ UNCHANGED <<blacklist, revoked>>
    BY <2>1 DEF Logout
  <2>. QED
    BY <2>1, <2>2 DEF AuthIInv
<1>. QED
  BY <1>1, <1>2, <1>3, <1>4, AuthStep

LEMMA ReadsIInv ==
  ASSUME AuthIInv, NEW p \in Procs, NEW op, Reads(p, op)
  PROVE  AuthIInv'
BY FinishIInv DEF Reads, storeVars, bounds

\* A statement on one row of the user table that leaves its person.
LEMMA PatchUsers ==
  ASSUME AuthIInv, NEW i, NEW row, users' = Patch(users, i, row),
         Live(users, i) => row \in UserRow /\ row.person = users[i].person
  PROVE  UsersKept
<1>1. users \in Seq(UserRow)
  BY DEF AuthIInv, TypesOK
<1>2. users' \in Seq(UserRow) /\ DOMAIN users' = DOMAIN users
  BY <1>1 DEF Patch, Live
<1>3. \A j \in DOMAIN users : users'[j].person = users[j].person
  BY <1>1 DEF Patch, Live
<1>. QED
  BY <1>2, <1>3 DEF UsersKept

LEMMA LiveUser == ASSUME AuthIInv, NEW i, Live(users, i) PROVE users[i] \in UserRow
<1>1. users \in Seq(UserRow)
  BY DEF AuthIInv, TypesOK
<1>. QED
  BY <1>1 DEF Live

\* Handlers that write one user row and end the request.
LEMMA UserRowIInv ==
  ASSUME AuthIInv, NEW p \in Procs, NEW i, NEW row, users' = Patch(users, i, row), Finish(p),
         Live(users, i) => \/ row = [users[i] EXCEPT !.nick = TRUE]
                           \/ row = [users[i] EXCEPT !.deleted = TRUE]
                           \/ \E pw \in Passwords : row = [users[i] EXCEPT !.pw = pw],
         UNCHANGED <<bounds, roles, keys, social, tokens, blacklist, clock, revoked>>
  PROVE  AuthIInv'
<1>1. Live(users, i) => row \in UserRow /\ row.person = users[i].person
  <2>. SUFFICES ASSUME Live(users, i) PROVE row \in UserRow /\ row.person = users[i].person
    OBVIOUS
  <2>1. users[i] \in UserRow
    BY LiveUser
  <2>. QED
    BY <2>1 DEF UserRow
<1>2. UsersKept
  BY <1>1, PatchUsers
<1>. QED
  BY <1>2, IdleInOrder, ReqStep DEF Finish, bounds

LEMMA ProfileIInv ==
  ASSUME AuthIInv, NEW p \in Procs, UpdateProfile(p) \/ UpdateUser(p) \/ DeleteUser(p)
  PROVE  AuthIInv'
<1>1. PICK u, i : u = req[p].user /\ i = req[p].arg
  OBVIOUS
<1>2. CASE UpdateProfile(p)
  BY <1>1, <1>2, UserRowIInv DEF UpdateProfile, SetNickname
<1>3. CASE UpdateUser(p)
  BY <1>1, <1>3, UserRowIInv DEF UpdateUser, SetNickname
<1>4. CASE DeleteUser(p)
  BY <1>1, <1>4, UserRowIInv DEF DeleteUser, SoftDelete
<1>. QED
  BY <1>2, <1>3, <1>4

LEMMA PasswordIInv ==
  ASSUME AuthIInv, NEW p \in Procs, ChangePassword(p) \/ WritePassword(p)
  PROVE  AuthIInv'
<1>1. PICK r, i, pw : r = req[p] /\ i = r.user /\ pw = r.arg[2]
  OBVIOUS
<1>2. r \in UserReq /\ ReqInOrder(r)
  BY <1>1, ReqAt DEF AuthIInv, ChangePassword, WritePassword, Runs
<1>3. r.op = "changePassword"
  BY <1>1, <1>2 DEF ReqInOrder, ChangePassword, WritePassword, Runs
<1>4. r.arg \in Passwords \X Passwords
  BY <1>2, <1>3 DEF ReqInOrder, Target
<1>5. pw \in Passwords
  BY <1>1, <1>4
<1>6. ASSUME users' = Patch(users, i, [users[i] EXCEPT !.pw = pw]), Finish(p),
             UNCHANGED <<bounds, roles, keys, social, tokens, blacklist, clock, revoked>>
      PROVE  AuthIInv'
  BY <1>5, <1>6, UserRowIInv
<1>7. CASE WritePassword(p)
  BY <1>1, <1>6, <1>7 DEF WritePassword
<1>8. CASE ChangePassword(p)
  <2>1. CASE Finish(p) /\ UNCHANGED users
    BY <1>8, <2>1, FinishIInv DEF ChangePassword, bounds
  <2>2. CASE Goto(p, "password") /\ UNCHANGED users
    BY <1>1, <1>2, <1>3, <1>8, <2>2, GotoIInv DEF ChangePassword, Goto, bounds, UserPlaces
  <2>3. CASE users' = Patch(users, i, [users[i] EXCEPT !.pw = pw]) /\ Finish(p)
    BY <1>6, <1>8, <2>3 DEF ChangePassword
  <2>. QED
    BY <1>1, <1>8, <2>1, <2>2, <2>3 DEF ChangePassword
<1>. QED
  BY <1>7, <1>8

LEMMA BindAccountIInv ==
  ASSUME AuthIInv, NEW p \in Procs, BindAccount(p)
  PROVE  AuthIInv'
<1>1. PICK r : r = req[p]
  OBVIOUS
<1>2. r \in UserReq /\ ReqInOrder(r) /\ r.op = "bind"
  BY <1>1, ReqAt DEF AuthIInv, BindAccount, Runs
<1>3. r.arg \in Providers /\ r.person \in Persons /\ r.user \in Nat /\ Mine(r.user, r.person)
  BY <1>2 DEF ReqInOrder, Target, UserReq
<1>4. Mine(r.user, r.person)'
  BY <1>3, MineKept DEF BindAccount, bounds
<1>5. PICK open \in SocialUsers[r.arg][r.person] :
        social' = IF open = Err THEN social ELSE Bind(r.user, r.arg, open)
  BY <1>1 DEF BindAccount
<1>6. open \in {r.person, NoOpenID, Err}
  BY <1>3, SocialUsersType
<1>7. social' = social \/ (social' \in Seq(SocialRow) /\ \A i \in DOMAIN social' : \A a : a = social'[i] =>
                             (\E j \in DOMAIN social : a = social[j]) \/ AccountInOrder(a)')
  BY <1>3, <1>4, <1>5, <1>6, BindRows
<1>. QED
  BY <1>7, IdleInOrder, ReqStep DEF BindAccount, Finish, bounds

LEMMA UnbindIInv ==
  ASSUME AuthIInv, NEW p \in Procs, Unbind(p)
  PROVE  AuthIInv'
<1>1. social \in Seq(SocialRow)
  BY DEF AuthIInv, TypesOK
<1>2. social' = social \/ \E i \in DOMAIN social : social' = RemoveAt(social, i)
  BY DEF Unbind, First, Bound
<1>3. social' = social \/ (social' \in Seq(SocialRow) /\ \A i \in DOMAIN social' : \A a : a = social'[i] =>
                             (\E j \in DOMAIN social : a = social[j]) \/ AccountInOrder(a)')
  BY <1>1, <1>2, RemoveAtRows
<1>. QED
  BY <1>3, IdleInOrder, ReqStep DEF Unbind, Finish, bounds

LEMMA CreateAPIKeyIInv ==
  ASSUME AuthIInv, NEW p \in Procs, CreateAPIKey(p)
  PROVE  AuthIInv'
<1>1. req[p] \in UserReq /\ keys \in Seq(KeyRow) /\ clock \in Nat
  BY ReqAt DEF AuthIInv, TypesOK, CreateAPIKey, Runs
<1>2. PICK exp \in {clock + 1, MaxClock + 1} : keys' = Append(keys, NewKey(req[p].user, exp))
  BY DEF CreateAPIKey
<1>3. NewKey(req[p].user, exp) \in KeyRow
  BY <1>1, AuthAssumption DEF NewKey, KeyRow, UserReq
<1>4. keys' \in Seq(KeyRow)
  BY <1>1, <1>2, <1>3
<1>. QED
  BY <1>4, IdleInOrder, ReqStep DEF CreateAPIKey, Finish, bounds

LEMMA CheckKeyOwnerIInv ==
  ASSUME AuthIInv, NEW p \in Procs, CheckKeyOwner(p)
  PROVE  AuthIInv'
<1>1. /\ req[p] \in UserReq /\ req[p].op \in {"updateAPIKey", "deleteAPIKey"}
      /\ UNCHANGED <<backend, restarts, users, keys, social, tokens, clock, blacklist, revoked>>
  BY ReqAt DEF AuthIInv, CheckKeyOwner, Runs, storeVars, bounds
<1>. QED
  BY <1>1, FinishIInv, GotoIInv DEF CheckKeyOwner, MayChangeKey, Goto, UserPlaces

LEMMA ChangeAPIKeyIInv ==
  ASSUME AuthIInv, NEW p \in Procs, UpdateAPIKey(p) \/ DeleteAPIKey(p)
  PROVE  AuthIInv'
<1>1. CASE UpdateAPIKey(p)
  <2>1. keys' \in Seq(KeyRow)
    BY <1>1, UpdateKeyRows DEF UpdateAPIKey
  <2>. QED
    BY <1>1, <2>1, IdleInOrder, ReqStep DEF UpdateAPIKey, Finish, bounds
<1>2. CASE DeleteAPIKey(p)
  <2>1. PICK k, row : k = req[p].arg /\ row = [keys[k] EXCEPT !.deleted = TRUE]
    OBVIOUS
  <2>2. keys \in Seq(KeyRow)
    BY DEF AuthIInv, TypesOK
  <2>3. Live(keys, k) => keys[k] \in KeyRow
    BY <2>2 DEF Live
  <2>4. Live(keys, k) => row \in KeyRow
    BY <2>1, <2>3 DEF KeyRow
  <2>5. keys' \in Seq(KeyRow)
    BY <1>2, <2>1, <2>4, PatchKeys DEF DeleteAPIKey, SoftDelete
  <2>. QED
    BY <1>2, <2>5, IdleInOrder, ReqStep DEF DeleteAPIKey, Finish, bounds
<1>. QED
  BY <1>1, <1>2

-----------------------------------------------------------------------------
LEMMA TickIInv == ASSUME AuthIInv, Tick PROVE AuthIInv'
<1>1. /\ UsersKept /\ keys' \in Seq(KeyRow) /\ social' \in Seq(SocialRow) /\ req' \in [Procs -> ReqType]
      /\ tokens' = tokens /\ tokens' \subseteq TokenType /\ clock' \in Nat /\ backend' = backend /\ restarts' = restarts
  BY DEF AuthIInv, TypesOK, UsersKept, Tick, storeVars, bounds
<1>2. /\ social' = social /\ req' = req
      /\ \A t \in revoked' : \E b \in blacklist' : b.tok = t /\ b.exp = t.exp
  BY DEF AuthIInv, Tick, storeVars
<1>. QED
  BY <1>1, <1>2, AuthStep

\* After a restart without MySQL nothing is said of the tokens; with it, the rows
\* are as they were.
LEMMA RestartIInv == ASSUME AuthIInv, Restart PROVE AuthIInv'
<1>1. TypesOK'
  <2>1. <<>> \in Seq(UserRow) /\ <<>> \in Seq(KeyRow) /\ <<>> \in Seq(SocialRow)
    OBVIOUS
  <2>2. users' \in Seq(UserRow) /\ keys' \in Seq(KeyRow) /\ social' \in Seq(SocialRow)
    BY <2>1 DEF AuthIInv, TypesOK, Restart
  <2>3. tokens' \subseteq TokenType /\ clock' \in Nat /\ restarts' \in Nat
    BY DEF AuthIInv, TypesOK, Restart
  <2>4. req' \in [Procs -> ReqType]
    BY IdleInOrder DEF Restart
  <2>. QED
    BY <2>2, <2>3, <2>4 DEF TypesOK
<1>2. ASSUME NEW t \in tokens PROVE Mine(t.user, t.person)'
  <2>1. CASE OnMySQL
    BY <2>1 DEF AuthIInv, TypesOK, Restart, Mine, Owner, IdsReused, Entered, OnMySQL
  <2>2. CASE ~OnMySQL
    BY <2>2 DEF AuthIInv, TypesOK, Restart, Mine, IdsReused, OnMySQL
  <2>. QED
    BY <2>1, <2>2
<1>3. tokens' = tokens /\ social' = <<>> /\ \A p \in Procs : req'[p] = Idle
  BY DEF Restart
<1>4. \A t \in revoked' : \E b \in blacklist' : b.tok = t /\ b.exp = t.exp
  BY DEF AuthIInv, Restart
<1>5. \A p \in Procs : ReqInOrder(req[p])'
  BY <1>3, IdleInOrder DEF ReqInOrder
<1>. QED
  BY <1>1, <1>2, <1>3, <1>4, <1>5 DEF AuthIInv

LEMMA AuthNextIInv == AuthIInv /\ [Next]_vars => AuthIInv'
<1>. SUFFICES ASSUME AuthIInv, [Next]_vars PROVE AuthIInv'
  OBVIOUS
<1>1. ASSUME NEW p \in Procs,
             \/ \E who \in Persons, n \in Names, pw \in Passwords : Register(p, who, n, pw)
             \/ \E i \in DOMAIN users, pw \in Passwords : Login(p, i, pw)
             \/ \E t \in tokens : Refresh(p, t)
             \/ \E who \in Persons, prov \in Providers : \E open \in {who, NoOpenID} :
                  Callback(p, who, prov, open)
             \/ FindAccount(p) \/ CreateUser(p) \/ BindNew(p)
             \/ AssignRole(p) \/ WriteRole(p)
      PROVE  AuthIInv'
  BY <1>1, RegisterIInv, LoginIInv, RefreshIInv, CallbackIInv, FindAccountIInv, CreateUserIInv,
     BindNewIInv, AssignRoleIInv, WriteRoleIInv
<1>2. ASSUME NEW p \in Procs,
             \/ \E t \in tokens, op \in inUse \cap (OwnOps \cup AdminOps) :
                  \E arg \in Target(op) : Enter(p, op, t, arg)
             \/ CheckBlacklist(p) \/ RequirePermission(p)
             \/ \E k \in DOMAIN keys : APIKeyAuth(p, k)
             \/ TouchKey(p) \/ Logout(p)
      PROVE  AuthIInv'
  BY <1>2, EnterIInv, CheckBlacklistIInv, RequirePermissionIInv, APIKeyAuthIInv, TouchKeyIInv, LogoutIInv
<1>3. ASSUME NEW p \in Procs,
             Me(p) \/ GetUser(p) \/ ListUsers(p) \/ ListAccounts(p) \/ ListAPIKeys(p)
      PROVE  AuthIInv'
  BY <1>3, ReadsIInv DEF Me, GetUser, ListUsers, ListAccounts, ListAPIKeys
<1>4. ASSUME NEW p \in Procs,
             \/ UpdateProfile(p) \/ UpdateUser(p)
             \/ ChangePassword(p) \/ WritePassword(p) \/ DeleteUser(p)
             \/ BindAccount(p) \/ Unbind(p)
             \/ CreateAPIKey(p) \/ CheckKeyOwner(p) \/ UpdateAPIKey(p) \/ DeleteAPIKey(p)
      PROVE  AuthIInv'
  BY <1>4, ProfileIInv, PasswordIInv, BindAccountIInv, UnbindIInv, CreateAPIKeyIInv, CheckKeyOwnerIInv,
     ChangeAPIKeyIInv
<1>5. CASE UNCHANGED vars
  <2>1. /\ UsersKept /\ keys' \in Seq(KeyRow) /\ social' \in Seq(SocialRow) /\ req' \in [Procs -> ReqType]
        /\ tokens' = tokens /\ tokens' \subseteq TokenType /\ clock' \in Nat
        /\ backend' = backend /\ restarts' = restarts /\ social' = social /\ req' = req
        /\ \A t \in revoked' : \E b \in blacklist' : b.tok = t /\ b.exp = t.exp
    BY <1>5 DEF vars, AuthIInv, TypesOK, UsersKept
  <2>. QED
    BY <2>1, AuthStep
<1>. QED
  BY <1>1, <1>2, <1>3, <1>4, <1>5, TickIInv, RestartIInv DEF Next

LEMMA AuthInitIInv == Init => AuthIInv
<1>. SUFFICES ASSUME Init PROVE AuthIInv
  OBVIOUS
<1>1. PICK root : root = NewUser(<<None, "root">>, Admin, CHOOSE w \in Passwords : TRUE, None)
  OBVIOUS
<1>2. root \in UserRow
  BY <1>1, AuthAssumption DEF NewUser, UserRow, TextOf
<1>3. users \in Seq(UserRow)
  <2>1. <<root>> \in Seq(UserRow) /\ <<>> \in Seq(UserRow)
    BY <1>2
  <2>. QED
    BY <1>1, <2>1 DEF Init
<1>4. keys \in Seq(KeyRow) /\ social \in Seq(SocialRow) /\ social = <<>>
  BY DEF Init
<1>5. tokens = {} /\ revoked = {} /\ clock \in Nat /\ restarts \in Nat /\ \A p \in Procs : req[p] = Idle
  BY DEF Init
<1>6. req \in [Procs -> ReqType]
  BY IdleInOrder DEF Init
<1>. QED
  BY <1>3, <1>4, <1>5, <1>6, IdleInOrder DEF AuthIInv, TypesOK

\* Tokens name their holder, whatever requests interleave and for any stores.
THEOREM TokensNameTheirHolderTheorem == Spec => []TokensNameTheirHolder
<1>1. AuthIInv => TokensNameTheirHolder
  BY DEF AuthIInv, TokensNameTheirHolder, Mine
<1>. QED
  BY <1>1, AuthInitIInv, AuthNextIInv, PTL DEF Spec

-----------------------------------------------------------------------------
\* Only the blacklist check, or the end of its request, takes a request from there.
LEMMA OnlyTheCheck ==
  ASSUME AuthIInv, [Next]_vars, NEW p \in Procs, req[p].pc = "blacklist"
  PROVE  CheckBlacklist(p) \/ req'[p] \in {req[p], Idle}
<1>1. req \in [Procs -> ReqType] /\ Idle.pc # "blacklist"
  BY DEF AuthIInv, TypesOK, Idle
<1>2. ASSUME NEW q \in Procs, NEW r, Begin(q, r) PROVE req'[p] = req[p]
  BY <1>1, <1>2 DEF Begin
<1>3. ASSUME NEW q \in Procs, NEW r, req' = [req EXCEPT ![q] = r], q # p \/ r = Idle
      PROVE  req'[p] \in {req[p], Idle}
  BY <1>1, <1>3
<1>4. ASSUME NEW q \in Procs,
             \/ \E who \in Persons, n \in Names, pw \in Passwords : Register(q, who, n, pw)
             \/ \E i \in DOMAIN users, pw \in Passwords : Login(q, i, pw)
             \/ \E t \in tokens : Refresh(q, t)
             \/ \E who \in Persons, prov \in Providers : \E open \in {who, NoOpenID} :
                  Callback(q, who, prov, open)
             \/ \E t \in tokens, op \in inUse \cap (OwnOps \cup AdminOps) :
                  \E arg \in Target(op) : Enter(q, op, t, arg)
             \/ \E k \in DOMAIN keys : APIKeyAuth(q, k)
      PROVE  req'[p] = req[p]
  BY <1>2, <1>4 DEF Register, Login, Refresh, Callback, Enter, APIKeyAuth
<1>5. ASSUME NEW q \in Procs, q # p \/ ~CheckBlacklist(q),
             \/ FindAccount(q) \/ CreateUser(q) \/ BindNew(q)
             \/ AssignRole(q) \/ WriteRole(q) \/ CheckBlacklist(q) \/ RequirePermission(q)
             \/ ChangePassword(q) \/ CheckKeyOwner(q)
      PROVE  req'[p] \in {req[p], Idle}
  <2>1. \/ \E r : req' = [req EXCEPT ![q] = r]
        \/ \E r : req' = [req EXCEPT ![q].pc = r]
        \/ \E r : req' = [req EXCEPT ![q].pc = r, ![q].blind = TRUE]
    BY <1>5 DEF FindAccount, CreateUser, BindNew, AssignRole, WriteRole, CheckBlacklist, RequirePermission,
                ChangePassword, CheckKeyOwner, MayChangeKey, EndAssign, Finish, Goto
  <2>2. q # p
    BY <1>5 DEF FindAccount, CreateUser, BindNew, AssignRole, WriteRole, RequirePermission,
                ChangePassword, CheckKeyOwner, Runs
  <2>. QED
    BY <1>1, <2>1, <2>2
<1>6. ASSUME NEW q \in Procs,
             \/ TouchKey(q) \/ Logout(q)
             \/ Me(q) \/ GetUser(q) \/ ListUsers(q) \/ ListAccounts(q) \/ ListAPIKeys(q)
             \/ UpdateProfile(q) \/ UpdateUser(q) \/ WritePassword(q) \/ DeleteUser(q)
             \/ BindAccount(q) \/ Unbind(q)
             \/ CreateAPIKey(q) \/ UpdateAPIKey(q) \/ DeleteAPIKey(q)
      PROVE  req'[p] \in {req[p], Idle}
  <2>1. Finish(q)
    BY <1>6 DEF TouchKey, Logout, Me, GetUser, ListUsers, ListAccounts, ListAPIKeys, Reads,
                UpdateProfile, UpdateUser, WritePassword, DeleteUser, BindAccount, Unbind,
                CreateAPIKey, UpdateAPIKey, DeleteAPIKey
  <2>. QED
    BY <1>3, <2>1 DEF Finish
<1>7. ASSUME Tick \/ Restart \/ UNCHANGED vars PROVE req'[p] \in {req[p], Idle}
  BY <1>7 DEF Tick, Restart, vars
<1>. QED
  BY <1>4, <1>5, <1>6, <1>7 DEF Next

\* A logout holds: the entry of a revoked token lasts as long as the token.
THEOREM RevokedIsRefusedTheorem == Spec => RevokedIsRefused
<1>1. AuthIInv /\ [Next]_vars =>
        [\A p \in Procs :
           /\ req[p].pc = "blacklist" /\ req[p].tok \in revoked
           /\ req'[p].pc \notin {"idle", "blacklist"}
           => req'[p].blind \/ clock >= req[p].tok.exp]_vars
  <2>. SUFFICES ASSUME AuthIInv, [Next]_vars, NEW p \in Procs,
                       req[p].pc = "blacklist", req[p].tok \in revoked,
                       req'[p].pc \notin {"idle", "blacklist"}
                PROVE  req'[p].blind \/ clock >= req[p].tok.exp
    OBVIOUS
  <2>1. CheckBlacklist(p)
    BY OnlyTheCheck DEF Idle
  <2>2. req[p] \in UserReq /\ req \in [Procs -> ReqType] /\ clock \in Nat
    BY ReqAt DEF AuthIInv, TypesOK
  <2>3. PICK b \in blacklist : b.tok = req[p].tok /\ b.exp = req[p].tok.exp
    BY DEF AuthIInv
  <2>4. CASE Listed(req[p].tok) /\ Finish(p)
    BY <2>2, <2>4 DEF Finish, Idle
  <2>5. CASE ~Listed(req[p].tok)
    BY <2>2, <2>3, <2>5 DEF Listed, UserReq, TokenType
  <2>6. CASE req' = [req EXCEPT ![p].pc = AfterBlacklist(req[p].op), ![p].blind = TRUE]
    BY <2>2, <2>6 DEF UserReq
  <2>. QED
    BY <2>1, <2>4, <2>5, <2>6 DEF CheckBlacklist
<1>. QED
  BY <1>1, AuthInitIInv, AuthNextIInv, PTL DEF Spec, RevokedIsRefused

-----------------------------------------------------------------------------
Frozen(old, new) == \A i \in DOMAIN old : old[i].deleted => new[i] = old[i]

LEMMA PatchFreezes ==
  ASSUME NEW table, NEW i, NEW row, \A j \in DOMAIN table : table[j].deleted \in BOOLEAN
  PROVE  Frozen(table, Patch(table, i, row))
BY DEF Frozen, Patch, Live

\* What a request still writes after a deletion changes nothing that is deleted.
THEOREM DeletedIsFrozenTheorem == Spec => DeletedIsFrozen
<1>1. ASSUME AuthIInv, Next, restarts' = restarts PROVE Frozen(users, users') /\ Frozen(keys, keys')
  <2>1. users \in Seq(UserRow) /\ keys \in Seq(KeyRow) /\ restarts \in Nat
    BY <1>1 DEF AuthIInv, TypesOK
  <2>2. (\A j \in DOMAIN users : users[j] \in UserRow) /\ (\A j \in DOMAIN keys : keys[j] \in KeyRow)
    BY <2>1
  <2>3. (\A j \in DOMAIN users : users[j].deleted \in BOOLEAN) /\ (\A j \in DOMAIN keys : keys[j].deleted \in BOOLEAN)
    BY <2>2 DEF UserRow, KeyRow
  <2>4. ASSUME NEW row PROVE Frozen(users, Append(users, row)) /\ Frozen(keys, Append(keys, row))
    BY <2>1 DEF Frozen
  <2>5. Frozen(users, users) /\ Frozen(keys, keys)
    BY DEF Frozen
  <2>6. ASSUME NEW i, NEW row PROVE Frozen(users, Patch(users, i, row)) /\ Frozen(keys, Patch(keys, i, row))
    BY <2>3, PatchFreezes
  <2>7. CASE UNCHANGED <<users, keys>>
    BY <2>5, <2>7
  <2>8. ASSUME NEW p \in Procs, CreateUser(p) PROVE Frozen(users, users') /\ Frozen(keys, keys')
    BY <2>4, <2>5, <2>8 DEF CreateUser
  <2>9. ASSUME NEW p \in Procs, CreateAPIKey(p) PROVE Frozen(users, users') /\ Frozen(keys, keys')
    BY <2>4, <2>5, <2>9 DEF CreateAPIKey
  <2>10. ASSUME NEW p \in Procs,
                \/ UpdateProfile(p) \/ UpdateUser(p) \/ ChangePassword(p) \/ WritePassword(p) \/ DeleteUser(p)
         PROVE  Frozen(users, users') /\ Frozen(keys, keys')
    BY <2>5, <2>6, <2>10 DEF UpdateProfile, UpdateUser, SetNickname, ChangePassword, WritePassword, DeleteUser,
                             SoftDelete
  <2>11. ASSUME NEW p \in Procs, TouchKey(p) \/ UpdateAPIKey(p) \/ DeleteAPIKey(p)
         PROVE  Frozen(users, users') /\ Frozen(keys, keys')
    BY <2>5, <2>6, <2>11 DEF TouchKey, UpdateAPIKey, DeleteAPIKey, UpdateKey, SoftDelete
  <2>12. ASSUME NEW p \in Procs,
                \/ \E who \in Persons, n \in Names, pw \in Passwords : Register(p, who, n, pw)
                \/ \E i \in DOMAIN users, pw \in Passwords : Login(p, i, pw)
                \/ \E t \in tokens : Refresh(p, t)
                \/ \E who \in Persons, prov \in Providers : \E open \in {who, NoOpenID} :
                     Callback(p, who, prov, open)
                \/ \E t \in tokens, op \in inUse \cap (OwnOps \cup AdminOps) :
                     \E arg \in Target(op) : Enter(p, op, t, arg)
                \/ \E k \in DOMAIN keys : APIKeyAuth(p, k)
         PROVE  UNCHANGED <<users, keys>>
    BY <2>12 DEF Register, Login, Refresh, Callback, Enter, APIKeyAuth, storeVars
  <2>13. ASSUME NEW p \in Procs,
                \/ FindAccount(p) \/ BindNew(p) \/ AssignRole(p) \/ WriteRole(p)
                \/ CheckBlacklist(p) \/ RequirePermission(p) \/ Logout(p)
                \/ Me(p) \/ GetUser(p) \/ ListUsers(p) \/ ListAccounts(p) \/ ListAPIKeys(p)
                \/ BindAccount(p) \/ Unbind(p) \/ CheckKeyOwner(p)
         PROVE  UNCHANGED <<users, keys>>
    BY <2>13 DEF FindAccount, BindNew, AssignRole, WriteRole, EndAssign, CheckBlacklist, RequirePermission,
                 Logout, Me, GetUser, ListUsers, ListAccounts, ListAPIKeys, Reads, BindAccount, Unbind,
                 CheckKeyOwner, storeVars
  <2>14. Tick => UNCHANGED <<users, keys>>
    BY DEF Tick, storeVars
  <2>15. ~Restart
    BY <1>1, <2>1 DEF Restart
  <2>. QED
    BY <1>1, <2>7, <2>8, <2>9, <2>10, <2>11, <2>12, <2>13, <2>14, <2>15 DEF Next
<1>2. AuthIInv /\ [Next]_vars =>
        [restarts' = restarts =>
           /\ \A i \in DOMAIN users : users[i].deleted => users'[i] = users[i]
           /\ \A k \in DOMAIN keys : keys[k].deleted => keys'[k] = keys[k]]_vars
  BY <1>1 DEF Frozen
<1>. QED
  BY <1>2, AuthInitIInv, AuthNextIInv, PTL DEF Spec, DeletedIsFrozen
=============================================================================
