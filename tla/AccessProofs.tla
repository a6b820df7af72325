---------------------------- MODULE AccessProofs ----------------------------
(***************************************************************************)
(* Who gets in, and as what.  Accounts: no credential ever exceeds its     *)
(* account, for any servers, addresses, outsiders, keys and lifetimes,     *)
(* where an identity provider vouches for nobody under the address of an   *)
(* account.  JwksCache: no token is accepted with a key that was withdrawn *)
(* a time to live ago, and none refused for a key that was published all   *)
(* along, for any keys, time to live, number of retries and clock.         *)
(***************************************************************************)
EXTENDS Accounts, JwksCache, FiniteSetTheorems, TLAPS

-----------------------------------------------------------------------------
(* Accounts *)

\* Nobody's, or within what the row of its account grants.
Within(sub, roles) ==
  \/ sub \in Outsiders \cup {"nobody"}
  \/ \E u \in users : u.email = sub /\ roles \subseteq u.roles

Rows ==
  /\ \A u \in users : u.email \in Emails \cup {Boss}
  /\ \A u \in users : u.public => u.roles \subseteq PublicRoles
  /\ \A u, v \in users : u.email = v.email => u = v

\* A key that is asked for never has more roles than the request that asks.
Asks(s) ==
  /\ Within(working[s].who.sub, working[s].who.roles)
  /\ At(s, "limiting") => working[s].roles \subseteq working[s].who.roles

AccountsInv ==
  /\ Rows
  /\ \A t \in tokens : Within(t.sub, t.roles)
  /\ DOMAIN keys = Keys /\ \A k \in Keys : Within(keys[k].owner, keys[k].roles)
  /\ \A k \in Keys : DOMAIN keys[k] = DOMAIN NewKey
  /\ DOMAIN working = Servers /\ \A s \in Servers : Asks(s) /\ DOMAIN working[s] = DOMAIN Down

(* More roles never grant less.                                              *)
LEMMA MoreRoles ==
  ASSUME NEW r, NEW q, r \subseteq q
  PROVE  PermissionsOf(r) \subseteq PermissionsOf(q)
BY DEF PermissionsOf

(* The invariant is strong enough.                                           *)
LEMMA NoneExceeds ==
  ASSUME AccountsInv
  PROVE  NoEscalation
<1>1. ASSUME NEW sub, NEW roles, Within(sub, roles), NEW u \in users, sub = u.email
      PROVE  PermissionsOf(roles) \subseteq PermissionsOf(u.roles)
  <2>1. sub \notin Outsiders \cup {"nobody"}
    BY <1>1, AccountsAssumption DEF AccountsInv, Rows, Boss
  <2>2. roles \subseteq u.roles
    BY <1>1, <2>1 DEF Within, AccountsInv, Rows
  <2> QED
    BY <2>2, MoreRoles
<1>2. \A c \in Credentials : Within(c.sub, c.roles)
  <2>1. \A k \in Keys : Within(keys[k].owner, keys[k].roles)
    BY DEF AccountsInv
  <2>2. \A s \in Servers : Within(working[s].who.sub, working[s].who.roles)
    BY DEF AccountsInv, Asks
  <2> QED
    BY <2>1, <2>2 DEF Credentials, AccountsInv
<1>3. ASSUME NEW u \in users, u.public PROVE PermissionsOf(u.roles) \subseteq AnalystMay
  <2>1. u.roles \subseteq {"viewer", "analyst"}
    BY <1>3 DEF AccountsInv, Rows, PublicRoles
  <2>2. PermissionsOf({"viewer", "analyst"}) \subseteq AnalystMay
    BY DEF PermissionsOf, Roles, RoleMay, AnalystMay
  <2> QED
    BY <2>1, <2>2, MoreRoles
<1>4. \A u, v \in users : u.email = v.email => u = v
  BY DEF AccountsInv, Rows
<1> QED
  BY <1>1, <1>2, <1>3, <1>4 DEF NoEscalation

(* Rows stay, so that what was within them still is.                         *)
LEMMA RowsStay ==
  ASSUME users \subseteq users'
  PROVE  \A sub, roles : Within(sub, roles) => Within(sub, roles)'
BY DEF Within

(* A row is only inserted under an address that has none.                    *)
LEMMA InsertKeeps ==
  ASSUME Rows, NEW row, row.email \in Emails \cup {Boss},
         row.public => row.roles \subseteq PublicRoles, Insert(row)
  PROVE  Rows' /\ users \subseteq users'
BY DEF Rows, Insert, HasAccount

(* The invariant holds initially.                                            *)
LEMMA InitAccounts ==
  ASSUME AccountsInit
  PROVE  AccountsInv
BY DEF AccountsInit, AccountsInv, Rows, Within, Asks, At, NewKey, Down, Nobody

(* A step of one server: the others ask for what they asked for.             *)
LEMMA ServerKeeps ==
  ASSUME AccountsInv, Rows', users \subseteq users',
         tokens' = tokens, keys' = keys, NEW s \in Servers, NEW state, Goes(s, state),
         DOMAIN state = DOMAIN Down, Within(state.who.sub, state.who.roles),
         state.at = "limiting" => state.roles \subseteq state.who.roles
  PROVE  AccountsInv'
<1>1. \A sub, roles : Within(sub, roles) => Within(sub, roles)'
  BY RowsStay
<1>2. /\ DOMAIN working' = Servers /\ working'[s] = state
      /\ \A r \in Servers \ {s} : working'[r] = working[r]
  BY DEF Goes, AccountsInv
<1>3. ASSUME NEW r \in Servers PROVE Asks(r)' /\ DOMAIN working'[r] = DOMAIN Down
  <2>1. CASE r = s
    BY <1>1, <1>2, <2>1 DEF Asks, At
  <2>2. CASE r # s
    BY <1>1, <1>2, <2>2 DEF Asks, At, AccountsInv
  <2> QED
    BY <2>1, <2>2
<1>4. \A t \in tokens' : Within(t.sub, t.roles)'
  BY <1>1 DEF AccountsInv
<1>5. /\ DOMAIN keys' = Keys
      /\ \A k \in Keys : Within(keys[k].owner, keys[k].roles)' /\ DOMAIN keys'[k] = DOMAIN NewKey
  BY <1>1 DEF AccountsInv
<1> QED
  BY <1>2, <1>3, <1>4, <1>5 DEF AccountsInv

(* Changing keys within their accounts.                                      *)
LEMMA KeysKeep ==
  ASSUME AccountsInv, UNCHANGED <<users, tokens>>, DOMAIN keys' = Keys,
         \A k \in Keys : Within(keys'[k].owner, keys'[k].roles) /\ DOMAIN keys'[k] = DOMAIN NewKey,
         NEW s \in Servers, Goes(s, Ready)
  PROVE  AccountsInv'
<1>1. \A sub, roles : Within(sub, roles) => Within(sub, roles)'
  BY RowsStay
<1>2. /\ DOMAIN working' = Servers /\ working'[s] = Ready
      /\ \A r \in Servers \ {s} : working'[r] = working[r]
  BY DEF Goes, AccountsInv
<1>3. ASSUME NEW r \in Servers PROVE Asks(r)' /\ DOMAIN working'[r] = DOMAIN Down
  <2>1. CASE r = s
    BY <1>2, <2>1 DEF Asks, At, Ready, Down, Nobody, Within
  <2>2. CASE r # s
    BY <1>1, <1>2, <2>2 DEF Asks, At, AccountsInv
  <2> QED
    BY <2>1, <2>2
<1>4. Rows' /\ \A t \in tokens' : Within(t.sub, t.roles)'
  BY <1>1 DEF AccountsInv, Rows
<1>5. \A k \in Keys : Within(keys[k].owner, keys[k].roles)'
  BY <1>1
<1> QED
  BY <1>2, <1>3, <1>4, <1>5 DEF AccountsInv

(* A server that starts, stops, crashes or has answered asks for nothing.   *)
LEMMA ReadyKeeps ==
  ASSUME AccountsInv, Rows', users \subseteq users', tokens' = tokens, keys' = keys,
         NEW s \in Servers, NEW state \in {Down, Ready, [Down EXCEPT !.at = "booting"]},
         Goes(s, state)
  PROVE  AccountsInv'
<1>1. /\ DOMAIN state = DOMAIN Down /\ state.at # "limiting"
      /\ Within(state.who.sub, state.who.roles)
  BY DEF Ready, Down, Nobody, Within
<1> QED
  BY <1>1, ServerKeeps

(* Every step keeps the invariant.                                           *)
LEMMA AccountsStep ==
  ASSUME AccountsInv, [AccountsNext]_accountVars
  PROVE  AccountsInv'
<1>0. AccountsInv /\ Rows
  BY DEF AccountsInv
<1>1. CASE HourPasses \/ UNCHANGED accountVars
  <2>1. UNCHANGED <<users, tokens, keys, working>>
    BY <1>1 DEF HourPasses, accountVars
  <2> QED
    BY <1>0, <2>1 DEF AccountsInv, Rows, Within, Asks, At
<1>2. ASSUME NEW s \in Servers, Start(s) \/ Finish(s) \/ Crash(s) PROVE AccountsInv'
  <2>1. UNCHANGED <<users, tokens, keys>> /\ Rows'
    BY <1>0, <1>2 DEF Start, Finish, Crash, Rows
  <2>2. \E state \in {Down, Ready, [Down EXCEPT !.at = "booting"]} : Goes(s, state)
    BY <1>2 DEF Start, Finish, Crash
  <2> QED
    BY <1>0, <2>1, <2>2, ReadyKeeps
<1>3. ASSUME NEW s \in Servers, CreateBootstrapUser(s) PROVE AccountsInv'
  <2>1. Rows' /\ users \subseteq users'
    BY <1>0, <1>3, InsertKeeps DEF CreateBootstrapUser, BossRow
  <2> QED
    BY <1>0, <1>3, <2>1, ReadyKeeps DEF CreateBootstrapUser
<1>4. ASSUME NEW s \in Servers, NEW e \in Emails, Signup(s, e) PROVE AccountsInv'
  <2>1. UNCHANGED <<tokens, keys, working>>
    BY <1>4 DEF Signup
  <2>2. PICK granted \in SUBSET Claims :
          granted \subseteq PublicRoles /\ Insert([email |-> e, roles |-> granted, public |-> TRUE])
    BY <1>4 DEF Signup
  <2>3. Rows' /\ users \subseteq users'
    BY <1>0, <2>2, InsertKeeps
  <2>4. \A sub, roles : Within(sub, roles) => Within(sub, roles)'
    BY <2>3, RowsStay
  <2>5. \A t \in tokens' : Within(t.sub, t.roles)'
    BY <1>0, <2>1, <2>4 DEF AccountsInv
  <2>6. \A k \in Keys : Within(keys[k].owner, keys[k].roles)'
    BY <1>0, <2>1, <2>4 DEF AccountsInv
  <2>7. \A r \in Servers : Asks(r)'
    BY <1>0, <2>1, <2>4 DEF AccountsInv, Asks, At
  <2> QED
    BY <1>0, <2>1, <2>3, <2>5, <2>6, <2>7 DEF AccountsInv
<1>5. ASSUME NEW s \in Servers, NEW u \in users, SignIn(s, u) PROVE AccountsInv'
  <2>1. UNCHANGED <<users, keys, working>>
    BY <1>5 DEF SignIn
  <2>2. tokens' = tokens \cup {[sub |-> u.email, roles |-> u.roles, exp |-> hour + TokenLife]}
    BY <1>5 DEF SignIn
  <2>3. \A t \in tokens' : Within(t.sub, t.roles)'
    BY <1>0, <2>1, <2>2 DEF AccountsInv, Within
  <2> QED
    BY <1>0, <2>1, <2>3 DEF AccountsInv, Rows, Within, Asks, At
<1>6. ASSUME NEW s \in Servers, NEW who \in Bearers, UseBearer(s, who) PROVE AccountsInv'
  <2> DEFINE state == [Ready EXCEPT !.at = "serving", !.who = who]
  <2>1. Within(who.sub, who.roles)
    BY <1>0 DEF Bearers, AccountsInv, Within
  <2>2. DOMAIN state = DOMAIN Down /\ state.at = "serving" /\ state.who = who
    BY DEF Ready, Down
  <2>3. UNCHANGED <<users, tokens, keys>> /\ Rows' /\ Goes(s, state)
    BY <1>0, <1>6 DEF UseBearer, Rows
  <2> HIDE DEF state
  <2> QED
    BY <1>0, <2>1, <2>2, <2>3, ServerKeeps
<1>7. ASSUME NEW s \in Servers, NEW k \in Keys, FindKey(s, k) PROVE AccountsInv'
  <2> DEFINE state == [at |-> "found", roles |-> {}, key |-> k,
                       who |-> [method |-> "api_key",
                                sub |-> keys[k].owner, roles |-> keys[k].roles]]
  <2>1. Within(state.who.sub, state.who.roles)
    BY <1>0 DEF AccountsInv
  <2>2. DOMAIN state = DOMAIN Down /\ state.at = "found"
    BY DEF Down
  <2>3. UNCHANGED <<users, tokens, keys>> /\ Rows' /\ Goes(s, state)
    BY <1>0, <1>7 DEF FindKey, Rows
  <2> HIDE DEF state
  <2> QED
    BY <1>0, <2>1, <2>2, <2>3, ServerKeeps
<1>8. ASSUME NEW s \in Servers, UseKey(s) PROVE AccountsInv'
  <2> DEFINE state == [Ready EXCEPT !.at = "serving", !.who = working[s].who]
  <2>1. Within(working[s].who.sub, working[s].who.roles)
    BY <1>0 DEF AccountsInv, Asks
  <2>2. DOMAIN state = DOMAIN Down /\ state.at = "serving" /\ state.who = working[s].who
    BY DEF Ready, Down
  <2>3. UNCHANGED <<users, tokens, keys>> /\ Rows' /\ Goes(s, state)
    BY <1>0, <1>8 DEF UseKey, Rows
  <2> HIDE DEF state
  <2> QED
    BY <1>0, <2>1, <2>2, <2>3, ServerKeeps
<1>9. ASSUME NEW s \in Servers, AskForKey(s) PROVE AccountsInv'
  <2>0. PICK asked \in SUBSET Claims :
          \E roles \in KeyRoles(working[s].who, asked) :
             Goes(s, [working[s] EXCEPT !.at = "limiting", !.roles = roles])
    BY <1>9 DEF AskForKey
  <2>1. PICK roles \in KeyRoles(working[s].who, asked) :
          Goes(s, [working[s] EXCEPT !.at = "limiting", !.roles = roles])
    BY <2>0
  <2> DEFINE state == [working[s] EXCEPT !.at = "limiting", !.roles = roles]
  <2>2. roles \subseteq working[s].who.roles
    BY DEF KeyRoles
  <2>3. DOMAIN state = DOMAIN Down /\ state.who = working[s].who /\ state.roles = roles
    BY <1>0 DEF AccountsInv, Down
  <2>4. Within(working[s].who.sub, working[s].who.roles)
    BY <1>0 DEF AccountsInv, Asks
  <2>5. UNCHANGED <<users, tokens, keys>> /\ Rows' /\ Goes(s, state)
    BY <1>0, <1>9, <2>1 DEF AskForKey, Rows
  <2> HIDE DEF state
  <2> QED
    BY <1>0, <2>2, <2>3, <2>4, <2>5, ServerKeeps
<1>10. ASSUME NEW s \in Servers, NEW k \in Keys, CreateKey(s, k) PROVE AccountsInv'
  <2>1. Within(working[s].who.sub, working[s].roles)
    BY <1>0, <1>10 DEF CreateKey, AccountsInv, Asks, At, Within
  <2>2. DOMAIN keys' = Keys /\ \A x \in Keys \ {k} : keys'[x] = keys[x]
    BY <1>0, <1>10 DEF CreateKey, AccountsInv
  <2>3. keys'[k].owner = working[s].who.sub /\ keys'[k].roles = working[s].roles
        /\ DOMAIN keys'[k] = DOMAIN NewKey
    BY <1>0, <1>10 DEF CreateKey, AccountsInv, NewKey
  <2>4. \A x \in Keys : Within(keys'[x].owner, keys'[x].roles) /\ DOMAIN keys'[x] = DOMAIN NewKey
    BY <1>0, <2>1, <2>2, <2>3 DEF AccountsInv
  <2> QED
    BY <1>0, <1>10, <2>2, <2>4, KeysKeep DEF CreateKey
<1>11. ASSUME NEW s \in Servers, ExpireKey(s) \/ (\E k \in Keys : RevokeKey(s, k))
       PROVE  AccountsInv'
  <2>1. \E k : keys' = [keys EXCEPT ![k].state = "revoked"]
    BY <1>11 DEF ExpireKey, RevokeKey
  <2>2. /\ DOMAIN keys' = Keys
        /\ \A x \in Keys : /\ keys'[x].owner = keys[x].owner /\ keys'[x].roles = keys[x].roles
                           /\ DOMAIN keys'[x] = DOMAIN NewKey
    BY <1>0, <2>1 DEF AccountsInv, NewKey
  <2>3. \A x \in Keys : Within(keys'[x].owner, keys'[x].roles) /\ DOMAIN keys'[x] = DOMAIN NewKey
    BY <1>0, <2>2 DEF AccountsInv
  <2> QED
    BY <1>0, <1>11, <2>2, <2>3, KeysKeep DEF ExpireKey, RevokeKey
<1> QED
  BY <1>1, <1>2, <1>3, <1>4, <1>5, <1>6, <1>7, <1>8, <1>9, <1>10, <1>11 DEF AccountsNext

(* NobodyEscalates: through any chain of signups, logins, API keys and       *)
(* revocations, on any number of servers, no access token, API key or        *)
(* request grants more than the row of its account, if identity providers    *)
(* vouch for no subject that is the address of an account.                   *)
THEOREM NobodyEscalates == AccountsSpec => []NoEscalation
<1>1. AccountsInv => NoEscalation
  BY NoneExceeds
<1> QED
  BY <1>1, InitAccounts, AccountsStep, PTL DEF AccountsSpec

-----------------------------------------------------------------------------
(* Accounts: rows, tokens and requests of their kinds *)

Subjects == Emails \cup Outsiders \cup {Boss, "nobody"}

(* One server moves on, and nothing else happens.                            *)
LEMMA ServerTyped ==
  ASSUME AccountsTypeOK, UNCHANGED <<hour, users, tokens, keys>>,
         NEW s \in Servers, NEW state \in Working, Goes(s, state)
  PROVE  AccountsTypeOK'
<1>1. working' \in [Servers -> Working]
  BY DEF AccountsTypeOK, Goes
<1> QED
  BY <1>1 DEF AccountsTypeOK

(* What a server does when it waits, starts, answers or makes a key.         *)
LEMMA ReadyTyped == Down \in Working /\ Ready \in Working /\ [Down EXCEPT !.at = "booting"] \in Working
<1>1. Nobody \in Principal
  BY DEF Nobody, Principal
<1> QED
  BY <1>1 DEF Down, Ready, Working

LEMMA ServingTyped ==
  ASSUME NEW who \in Principal
  PROVE  [Ready EXCEPT !.at = "serving", !.who = who] \in Working
BY ReadyTyped DEF Working

(* A bearer token vouches for a principal.                                   *)
LEMMA BearersTyped ==
  ASSUME AccountsTypeOK, NEW who \in Bearers
  PROVE  who \in Principal
<1>1. Roles \subseteq Claims
  BY DEF Claims
<1>2. CASE who \in {[method |-> "jwt", sub |-> t.sub, roles |-> t.roles] :
                     t \in {x \in tokens : hour < x.exp}}
  <2>1. PICK t \in tokens : who = [method |-> "jwt", sub |-> t.sub, roles |-> t.roles]
    BY <1>2
  <2>2. t.sub \in Emails \cup {Boss} /\ t.roles \subseteq Roles
    BY DEF AccountsTypeOK
  <2> QED
    BY <1>1, <2>1, <2>2 DEF Principal
<1>3. CASE who \in [method : {"external"}, sub : Outsiders, roles : ProviderRoles]
  <2>1. ProviderRoles \subseteq SUBSET Claims
    BY DEF ProviderRoles, ProviderClaims, Claims, Roles
  <2> QED
    BY <1>3, <2>1 DEF Principal
<1> QED
  BY <1>2, <1>3 DEF Bearers

(* Every step keeps the types.                                               *)
LEMMA AccountsTyped ==
  ASSUME AccountsTypeOK, [AccountsNext]_accountVars
  PROVE  AccountsTypeOK'
<1>0. /\ hour \in 0 .. LastHour /\ keys \in [Keys -> KeyRow] /\ working \in [Servers -> Working]
      /\ users \subseteq [email : Emails \cup {Boss}, roles : SUBSET Roles, public : BOOLEAN]
      /\ tokens \subseteq [sub : Emails \cup {Boss}, roles : SUBSET Roles, exp : Nat]
  BY DEF AccountsTypeOK
<1>1. CASE HourPasses
  <2>1. hour' \in 0 .. LastHour
    BY <1>0, <1>1, AccountsAssumption DEF HourPasses
  <2> QED
    BY <1>1, <2>1 DEF HourPasses, AccountsTypeOK
<1>2. CASE UNCHANGED accountVars
  BY <1>2 DEF accountVars, AccountsTypeOK
<1>3. ASSUME NEW s \in Servers, Start(s) \/ Finish(s) \/ Crash(s) PROVE AccountsTypeOK'
  <2>1. \E state \in Working : Goes(s, state)
    BY <1>3, ReadyTyped DEF Start, Finish, Crash
  <2>2. UNCHANGED <<hour, users, tokens, keys>>
    BY <1>3 DEF Start, Finish, Crash
  <2> QED
    BY <2>1, <2>2, ServerTyped
<1>4. ASSUME NEW s \in Servers, CreateBootstrapUser(s) PROVE AccountsTypeOK'
  <2>1. BossRow \in [email : Emails \cup {Boss}, roles : SUBSET Roles, public : BOOLEAN]
    BY DEF BossRow, Roles
  <2>2. users' \subseteq users \cup {BossRow}
    BY <1>4 DEF CreateBootstrapUser, Insert
  <2>3. working' \in [Servers -> Working]
    BY <1>0, <1>4, ReadyTyped DEF CreateBootstrapUser, Goes
  <2> QED
    BY <1>0, <1>4, <2>1, <2>2, <2>3 DEF CreateBootstrapUser, AccountsTypeOK
<1>5. ASSUME NEW s \in Servers, NEW e \in Emails, Signup(s, e) PROVE AccountsTypeOK'
  <2>1. PICK granted \in SUBSET Roles : Insert([email |-> e, roles |-> granted, public |-> TRUE])
    BY <1>5 DEF Signup, Wellformed
  <2> DEFINE row == [email |-> e, roles |-> granted, public |-> TRUE]
  <2>2. row \in [email : Emails \cup {Boss}, roles : SUBSET Roles, public : BOOLEAN]
    OBVIOUS
  <2>3. users' \subseteq users \cup {row}
    BY <2>1 DEF Insert
  <2> HIDE DEF row
  <2> QED
    BY <1>0, <1>5, <2>2, <2>3 DEF Signup, AccountsTypeOK
<1>6. ASSUME NEW s \in Servers, NEW u \in users, SignIn(s, u) PROVE AccountsTypeOK'
  <2>1. hour + TokenLife \in Nat /\ u.email \in Emails \cup {Boss} /\ u.roles \in SUBSET Roles
    BY <1>0, AccountsAssumption
  <2>2. tokens' \subseteq [sub : Emails \cup {Boss}, roles : SUBSET Roles, exp : Nat]
    BY <1>0, <1>6, <2>1 DEF SignIn
  <2> QED
    BY <1>6, <2>2 DEF SignIn, AccountsTypeOK
<1>7. ASSUME NEW s \in Servers, NEW who \in Bearers, UseBearer(s, who) PROVE AccountsTypeOK'
  BY <1>7, BearersTyped, ServingTyped, ServerTyped DEF UseBearer
<1>8. ASSUME NEW s \in Servers, UseKey(s) PROVE AccountsTypeOK'
  <2>1. working[s].who \in Principal
    BY <1>0 DEF Working
  <2> QED
    BY <1>8, <2>1, ServingTyped, ServerTyped DEF UseKey
<1>9. ASSUME NEW s \in Servers, NEW k \in Keys, FindKey(s, k) PROVE AccountsTypeOK'
  <2> DEFINE who == [method |-> "api_key", sub |-> keys[k].owner, roles |-> keys[k].roles]
             state == [at |-> "found", roles |-> {}, key |-> k, who |-> who]
  <2>1. keys[k].owner \in Subjects /\ keys[k].roles \in SUBSET Claims
    BY <1>0 DEF KeyRow, Subjects, Claims
  <2>2. who \in Principal
    BY <2>1 DEF Principal, Subjects
  <2>3. Goes(s, state) /\ UNCHANGED <<hour, users, tokens, keys>>
    BY <1>9 DEF FindKey
  <2> HIDE DEF who
  <2>4. state \in Working
    BY <2>2 DEF Working
  <2> HIDE DEF state
  <2> QED
    BY <2>3, <2>4, ServerTyped
<1>10. ASSUME NEW s \in Servers, AskForKey(s) PROVE AccountsTypeOK'
  <2>1. PICK asked \in SUBSET Claims :
          \E roles \in KeyRoles(working[s].who, asked) :
             Goes(s, [working[s] EXCEPT !.at = "limiting", !.roles = roles])
    BY <1>10 DEF AskForKey
  <2>2. PICK roles \in KeyRoles(working[s].who, asked) :
          Goes(s, [working[s] EXCEPT !.at = "limiting", !.roles = roles])
    BY <2>1
  <2>3. roles \in SUBSET Roles
    BY DEF KeyRoles, Wellformed
  <2>4. [working[s] EXCEPT !.at = "limiting", !.roles = roles] \in Working
    BY <1>0, <2>3 DEF Working
  <2> QED
    BY <1>10, <2>2, <2>4, ServerTyped DEF AskForKey
<1>11. ASSUME NEW s \in Servers, NEW k \in Keys, CreateKey(s, k) PROVE AccountsTypeOK'
  <2> DEFINE row == [owner |-> working[s].who.sub, roles |-> working[s].roles,
                     expires |-> hour + KeyLife, state |-> "live"]
  <2>1. working[s].who \in Principal /\ working[s].roles \in SUBSET Roles
    BY <1>0 DEF Working
  <2>2. hour + KeyLife \in Nat
    BY <1>0, AccountsAssumption
  <2>3. row \in KeyRow
    BY <2>1, <2>2 DEF KeyRow, Principal
  <2>4. keys' = [keys EXCEPT ![k] = row]
    BY <1>11 DEF CreateKey
  <2> HIDE DEF row
  <2>5. keys' \in [Keys -> KeyRow]
    BY <1>0, <2>3, <2>4
  <2>6. working' \in [Servers -> Working]
    BY <1>0, <1>11, ReadyTyped DEF CreateKey, Goes
  <2> QED
    BY <1>11, <2>5, <2>6 DEF CreateKey, AccountsTypeOK
<1>12. ASSUME NEW s \in Servers, ExpireKey(s) \/ (\E k \in Keys : RevokeKey(s, k))
       PROVE  AccountsTypeOK'
  <2>1. PICK k : keys' = [keys EXCEPT ![k].state = "revoked"]
    BY <1>12 DEF ExpireKey, RevokeKey
  <2>2. \A row \in KeyRow : [row EXCEPT !.state = "revoked"] \in KeyRow
    BY DEF KeyRow
  <2>3. keys' \in [Keys -> KeyRow]
    BY <1>0, <2>1, <2>2
  <2>4. working' \in [Servers -> Working]
    BY <1>0, <1>12, ReadyTyped DEF ExpireKey, RevokeKey, Goes
  <2> QED
    BY <1>12, <2>3, <2>4 DEF ExpireKey, RevokeKey, AccountsTypeOK
<1> QED
  BY <1>1, <1>2, <1>3, <1>4, <1>5, <1>6, <1>7, <1>8, <1>9, <1>10, <1>11, <1>12 DEF AccountsNext

(* AccountsTypeCorrect: whatever roles are asked for or claimed elsewhere,   *)
(* every row, every token and every key names roles that exist, a key that   *)
(* is used is one that was made, and nobody unknown owns one.                *)
THEOREM AccountsTypeCorrect == AccountsSpec => []AccountsTypeOK
<1>1. AccountsInit => AccountsTypeOK
  <2>1. NewKey \in KeyRow
    BY DEF NewKey, KeyRow
  <2> QED
    BY <2>1, ReadyTyped, AccountsAssumption DEF AccountsInit, AccountsTypeOK
<1> QED
  BY <1>1, AccountsTyped, PTL DEF AccountsSpec

-----------------------------------------------------------------------------
(* The keys of the identity provider *)

\* The constants the proofs need: finitely many keys, none of them the absent one.
Sound == IsFiniteSet(Kids) /\ NoKid \notin Kids /\ TTL \in Nat /\ MaxRetries \in Nat

\* The clock moves on, and remembers when it saw each key last.
Watched ==
  /\ tick \in Int
  /\ published \subseteq Kids
  /\ seen \in [Kids -> Int]
  /\ \A k \in published : seen[k] = tick

\* What is cached was published when it was asked for, or later.
CacheKnown ==
  /\ cached \subseteq Kids
  /\ cachedAt \in Int /\ cachedAt <= tick
  /\ \A k \in cached : seen[k] >= cachedAt

\* What a refresh was told was published since, and what it was not told was not.
CheckKnown ==
  /\ check \in Check
  /\ check.asked <= tick
  /\ check.at # "done" =>
       /\ check.verdict = "none"
       /\ published \subseteq check.present /\ Kids \ published \subseteq check.absent
  /\ check.at = "reading" =>
       /\ check.reply \subseteq check.present /\ Kids \ check.reply \subseteq check.absent
       /\ \A k \in check.reply : seen[k] >= check.asked

JwksInv == Watched /\ CacheKnown /\ CheckKnown /\ KnownKeyServed

(* A key set of one key has its key.                                         *)
LEMMA OneKey ==
  ASSUME IsFiniteSet(Kids), NEW kids \in SUBSET Kids, Cardinality(kids) = 1
  PROVE  (CHOOSE k \in kids : TRUE) \in kids
<1>1. IsFiniteSet(kids)
  BY FS_Subset
<1>2. kids # {}
  BY <1>1, FS_EmptySet
<1> QED
  BY <1>2

(* What looking a key up in a set of keys comes to.                          *)
LEMMA LookupCases ==
  ASSUME Sound, NEW c \in Check, NEW kids \in SUBSET Kids
  PROVE  \/ \E k \in kids : Lookup(c, kids) = End(c, "accepted", k)
         \/ Lookup(c, kids) = Fetch(c, TRUE)
         \/ /\ Lookup(c, kids) = End(c, "unknown", NoKid)
            /\ c.kid \in Kids => c.kid \notin kids /\ c.force
<1>0. c.kid \in Kids \cup {NoKid}
  BY DEF Check
<1>1. CASE c.kid = NoKid /\ Cardinality(kids) = 1
  BY <1>1, OneKey DEF Lookup, Sound
<1>2. CASE c.kid = NoKid /\ Cardinality(kids) # 1
  BY <1>2 DEF Lookup, Sound
<1>3. CASE c.kid \in kids
  BY <1>3 DEF Lookup, Sound
<1>4. CASE c.kid \in Kids \ kids /\ ~c.force
  BY <1>4 DEF Lookup, Sound
<1>5. CASE c.kid \in Kids \ kids /\ c.force
  BY <1>5 DEF Lookup, Sound
<1> QED
  BY <1>0, <1>1, <1>2, <1>3, <1>4, <1>5

(* What a verification that ends comes to.                                   *)
LEMMA EndFields ==
  ASSUME NEW c \in Check, NEW key \in Kids \cup {NoKid},
         NEW verdict \in {"accepted", "unknown", "unavailable"}, check' = End(c, verdict, key)
  PROVE  /\ check' \in Check
         /\ check'.at = "done" /\ check'.verdict = verdict /\ check'.key = key
         /\ check'.kid = c.kid /\ check'.asked = c.asked
         /\ check'.present = c.present /\ check'.absent = c.absent
BY DEF End, Check

(* The same of one that fetches.                                             *)
LEMMA FetchFields ==
  ASSUME NEW c \in Check, NEW f \in BOOLEAN, tick \in Int, MaxRetries \in Nat,
         check' = Fetch(c, f)
  PROVE  /\ check' \in Check
         /\ check'.at = "asking" /\ check'.verdict = c.verdict /\ check'.asked = tick
         /\ check'.present = c.present /\ check'.absent = c.absent
<1>1. 0 \in 0 .. MaxRetries
  OBVIOUS
<1> QED
  BY <1>1 DEF Fetch, Check

(* A lookup leaves the verification in order if what it looks in was known.  *)
LEMMA LookupKeeps ==
  ASSUME Sound, Watched, NEW c \in Check, NEW kids \in SUBSET Kids,
         published \subseteq c.present, Kids \ published \subseteq c.absent,
         c.verdict = "none", c.asked <= tick,
         c.force => Kids \ kids \subseteq c.absent,
         UNCHANGED <<tick, published, seen>>, check' = Lookup(c, kids)
  PROVE  CheckKnown' /\ KnownKeyServed'
<1>1. ASSUME NEW k \in kids, check' = End(c, "accepted", k)
      PROVE  CheckKnown' /\ KnownKeyServed'
  <2>1. k \in Kids \cup {NoKid}
    OBVIOUS
  <2>2. /\ check' \in Check
        /\ check'.at = "done" /\ check'.verdict = "accepted" /\ check'.asked = c.asked
    BY <1>1, <2>1, EndFields
  <2> QED
    BY <2>2 DEF CheckKnown, KnownKeyServed
<1>2. CASE check' = Fetch(c, TRUE)
  <2>1. TRUE \in BOOLEAN /\ tick \in Int /\ MaxRetries \in Nat
    BY DEF Watched, Sound
  <2>2. /\ check' \in Check
        /\ check'.at = "asking" /\ check'.verdict = "none" /\ check'.asked = tick
        /\ check'.present = c.present /\ check'.absent = c.absent
    BY <1>2, <2>1, FetchFields, Zenon
  <2> QED
    BY <2>1, <2>2 DEF CheckKnown, KnownKeyServed
<1>3. CASE check' = End(c, "unknown", NoKid) /\ (c.kid \in Kids => c.kid \notin kids /\ c.force)
  <2>1. c.kid \in Kids => c.kid \in c.absent
    BY <1>3
  <2>2. c.kid \in Kids \cup {NoKid}
    BY DEF Check
  <2>3. /\ check' \in Check
        /\ check'.at = "done" /\ check'.kid = c.kid /\ check'.asked = c.asked
        /\ check'.absent = c.absent
    BY <1>3, EndFields
  <2> QED
    BY <2>1, <2>2, <2>3 DEF CheckKnown, KnownKeyServed
<1> QED
  BY LookupCases, <1>1, <1>2, <1>3

(* The invariant holds initially.                                            *)
LEMMA InitJwks ==
  ASSUME Sound, JwksInit
  PROVE  JwksInv
<1>1. Watched /\ CacheKnown
  BY DEF JwksInit, Watched, CacheKnown, Sound, Never
<1>2. check \in Check
  <2>1. 0 \in 0 .. MaxRetries
    BY DEF Sound
  <2>2. \A f \in {FALSE} : f \in BOOLEAN
    OBVIOUS
  <2> QED
    BY <2>1, <2>2, Zenon, SMT DEF JwksInit, Check
<1>3. CheckKnown /\ KnownKeyServed
  BY <1>2 DEF JwksInit, CheckKnown, KnownKeyServed
<1> QED
  BY <1>1, <1>3 DEF JwksInv

(* A verification starts by looking in a fresh cache, or by a refresh.       *)
LEMMA VerifyLooks ==
  ASSUME Sound, JwksInv, Verify
  PROVE  JwksInv' /\ AcceptsLiveKey
<1> PICK kid \in Kids \cup {NoKid} :
      LET c == [check EXCEPT !.kid = kid, !.verdict = "none", !.key = NoKid, !.force = FALSE,
                             !.present = published, !.absent = Kids \ published]
      IN  check' = IF Fresh THEN Lookup(c, cached) ELSE Fetch(c, FALSE)
  BY DEF Verify
<1> DEFINE c == [check EXCEPT !.kid = kid, !.verdict = "none", !.key = NoKid, !.force = FALSE,
                              !.present = published, !.absent = Kids \ published]
<1>1. UNCHANGED <<tick, published, seen, cached, cachedAt>>
  BY DEF Verify
<1>2. /\ c \in Check /\ c.present = published /\ c.absent = Kids \ published
      /\ c.verdict = "none" /\ ~c.force /\ c.asked <= tick
  <2>1. check \in Check /\ check.asked <= tick /\ published \in SUBSET Kids
    BY DEF JwksInv, CheckKnown, Watched
  <2>2. FALSE \in BOOLEAN
    OBVIOUS
  <2>3. c \in Check
    BY <2>1, <2>2 DEF Check
  <2>4. ~c.force
    BY <2>1 DEF Check
  <2> QED
    BY <2>1, <2>3, <2>4 DEF Check
<1>3. Watched' /\ CacheKnown'
  BY <1>1 DEF JwksInv, Watched, CacheKnown
<1>4. CASE Fresh
  <2>1. check' = Lookup(c, cached)
    BY <1>4
  <2>2. CheckKnown' /\ KnownKeyServed'
    BY <1>1, <1>2, <2>1, LookupKeeps DEF JwksInv, CacheKnown
  <2>3. ASSUME NEW k \in cached, check' = End(c, "accepted", k) PROVE AcceptsLiveKey
    <3>1. k \in Kids \cup {NoKid}
      BY DEF JwksInv, CacheKnown
    <3>2. check'.key = k
      BY <1>2, <2>3, <3>1, EndFields
    <3>3. tick - seen[k] < TTL
      BY <1>4 DEF Fresh, JwksInv, CacheKnown, Watched, Sound
    <3> QED
      BY <3>2, <3>3 DEF AcceptsLiveKey
  <2>4. ASSUME check' = Fetch(c, TRUE) PROVE AcceptsLiveKey
    <3>1. TRUE \in BOOLEAN /\ tick \in Int /\ MaxRetries \in Nat
      BY DEF JwksInv, Watched, Sound
    <3>2. check'.at = "asking"
      BY <1>2, <2>4, <3>1, FetchFields, Zenon
    <3> QED
      BY <3>2 DEF AcceptsLiveKey
  <2>5. ASSUME check' = End(c, "unknown", NoKid) PROVE AcceptsLiveKey
    <3>1. check'.verdict = "unknown"
      BY <1>2, <2>5, EndFields
    <3> QED
      BY <3>1 DEF AcceptsLiveKey
  <2>6. AcceptsLiveKey
    BY <1>2, <2>1, <2>3, <2>4, <2>5, LookupCases DEF JwksInv, CacheKnown
  <2> QED
    BY <1>3, <2>2, <2>6 DEF JwksInv
<1>5. CASE ~Fresh
  <2>1. check' = Fetch(c, FALSE)
    BY <1>5
  <2>2. FALSE \in BOOLEAN /\ tick \in Int /\ MaxRetries \in Nat
    BY DEF JwksInv, Watched, Sound
  <2>3. /\ check' \in Check
        /\ check'.at = "asking" /\ check'.verdict = "none" /\ check'.asked = tick
        /\ check'.present = published /\ check'.absent = Kids \ published
    BY <1>2, <2>1, <2>2, FetchFields, Zenon
  <2>4. CheckKnown'
    <3>1. tick' = tick /\ published' = published
      BY <1>1
    <3>2. check'.asked <= tick'
      <4>1. tick <= tick
        BY DEF JwksInv, Watched
      <4> QED
        BY <2>3, <3>1, <4>1, Zenon
    <3>3. (published \subseteq check.present /\ Kids \ published \subseteq check.absent)'
      BY <2>3, <3>1
    <3> QED
      BY <2>3, <3>2, <3>3 DEF CheckKnown
  <2>5. KnownKeyServed' /\ AcceptsLiveKey
    BY <2>3 DEF KnownKeyServed, AcceptsLiveKey
  <2> QED
    BY <1>3, <2>4, <2>5 DEF JwksInv
<1> QED
  BY <1>4, <1>5

(* A refresh that succeeds caches keys published since it was asked for.     *)
LEMMA ReplaceKeeps ==
  ASSUME Sound, JwksInv, Replace
  PROVE  JwksInv' /\ AcceptsLiveKey
<1>1. /\ UNCHANGED <<tick, published, seen>> /\ check.at = "reading"
      /\ cached' = check.reply /\ cachedAt' = check.asked /\ check' = Lookup(check, check.reply)
  BY DEF Replace
<1>2. /\ check \in Check /\ check.verdict = "none" /\ check.asked <= tick
      /\ published \subseteq check.present /\ Kids \ published \subseteq check.absent
      /\ check.reply \subseteq check.present /\ Kids \ check.reply \subseteq check.absent
      /\ \A k \in check.reply : seen[k] >= check.asked
  BY <1>1 DEF JwksInv, CheckKnown
<1>3. check.reply \in SUBSET Kids /\ check.asked \in Int
  BY <1>2 DEF Check
<1>4. Watched' /\ CacheKnown'
  BY <1>1, <1>2, <1>3 DEF JwksInv, Watched, CacheKnown
<1>5. CheckKnown' /\ KnownKeyServed'
  BY <1>1, <1>2, <1>3, LookupKeeps DEF JwksInv
<1>6. ASSUME NEW k \in check.reply, check' = End(check, "accepted", k) PROVE AcceptsLiveKey
  <2>1. k \in Kids \cup {NoKid}
    BY <1>3
  <2>2. check'.key = k /\ check'.present = check.present
    BY <1>2, <1>6, <2>1, EndFields
  <2> QED
    BY <1>2, <2>2 DEF AcceptsLiveKey
<1>7. ASSUME check' = Fetch(check, TRUE) PROVE AcceptsLiveKey
  <2>1. TRUE \in BOOLEAN /\ tick \in Int /\ MaxRetries \in Nat
    BY DEF JwksInv, Watched, Sound
  <2>2. check'.at = "asking"
    BY <1>2, <1>7, <2>1, FetchFields, Zenon
  <2> QED
    BY <2>2 DEF AcceptsLiveKey
<1>8. ASSUME check' = End(check, "unknown", NoKid) PROVE AcceptsLiveKey
  <2>1. check'.verdict = "unknown"
    BY <1>2, <1>8, EndFields
  <2> QED
    BY <2>1 DEF AcceptsLiveKey
<1>9. AcceptsLiveKey
  BY <1>1, <1>2, <1>3, <1>6, <1>7, <1>8, LookupCases
<1> QED
  BY <1>4, <1>5, <1>9 DEF JwksInv

(* Every step keeps the invariant and accepts only keys that may be.         *)
LEMMA JwksStep ==
  ASSUME Sound, JwksInv, [JwksNext]_jwksVars
  PROVE  JwksInv' /\ AcceptsLiveKey
<1> USE DEF JwksInv
<1>1. CASE SecondPasses
  <2>1. Watched' /\ \A k \in Kids : seen'[k] >= seen[k]
    BY <1>1 DEF SecondPasses, Watched
  <2>2. CacheKnown'
    BY <1>1, <2>1 DEF SecondPasses, CacheKnown, Watched
  <2>3. CheckKnown' /\ KnownKeyServed' /\ AcceptsLiveKey
    BY <1>1, <2>1 DEF SecondPasses, CheckKnown, Check, KnownKeyServed, AcceptsLiveKey, Watched
  <2> QED
    BY <2>1, <2>2, <2>3
<1>2. CASE Rotate
  <2>1. PICK kids \in SUBSET Kids :
          /\ published' = kids
          /\ seen' = [k \in Kids |-> IF k \in kids THEN tick ELSE seen[k]]
          /\ check' = IF check.at = "done" THEN check
                       ELSE [check EXCEPT !.present = @ \cup kids, !.absent = @ \cup (Kids \ kids)]
    BY <1>2 DEF Rotate
  <2>2. UNCHANGED <<tick, cached, cachedAt>>
    BY <1>2 DEF Rotate
  <2>3. seen' \in [Kids -> Int] /\ \A k \in kids : seen'[k] = tick
    BY <2>1 DEF Watched
  <2>4. Watched'
    BY <2>1, <2>2, <2>3 DEF Watched
  <2>5. \A k \in Kids : seen'[k] = tick \/ seen'[k] = seen[k]
    BY <2>1
  <2>6. CASE check.at = "done"
    <3>1. check' = check
      BY <2>1, <2>6
    <3>2. CacheKnown'
      BY <2>2, <2>5 DEF CacheKnown, Watched
    <3> QED
      BY <2>2, <2>4, <2>6, <3>1, <3>2 DEF CheckKnown, KnownKeyServed, AcceptsLiveKey
  <2>7. CASE check.at # "done"
    <3>1. CacheKnown'
      BY <2>2, <2>5 DEF CacheKnown, Watched
    <3>2. /\ check' \in Check /\ check'.at = check.at /\ check'.verdict = check.verdict
          /\ check'.kid = check.kid /\ check'.asked = check.asked /\ check'.reply = check.reply
          /\ check'.present = check.present \cup kids
          /\ check'.absent = check.absent \cup (Kids \ kids)
      BY <2>1, <2>7 DEF CheckKnown, Check
    <3>3. check.reply \subseteq Kids /\ check.asked \in Int
      BY DEF CheckKnown, Check
    <3>4. check.at = "reading" => \A k \in check.reply : seen'[k] >= check.asked
      BY <2>5, <3>3 DEF CheckKnown, Watched
    <3>5. CheckKnown'
      BY <2>1, <2>2, <2>7, <3>2, <3>4 DEF CheckKnown
    <3> QED
      BY <2>4, <2>7, <3>1, <3>2, <3>5 DEF KnownKeyServed, AcceptsLiveKey, CheckKnown
  <2> QED
    BY <2>6, <2>7
<1>3. CASE Verify
  BY <1>3, VerifyLooks
<1>4. CASE Get
  BY <1>4 DEF Get, Watched, CacheKnown, CheckKnown, Check, KnownKeyServed, AcceptsLiveKey
<1>5. CASE Retry
  <2>1. check \in Check /\ check.at = "reading" /\ check.attempt + 1 \in 0 .. MaxRetries
    BY <1>5 DEF Retry, MayRetry, CheckKnown, Check, Sound
  <2>2. check' \in Check
    BY <1>5, <2>1 DEF Retry, Check
  <2> QED
    BY <1>5, <2>1, <2>2
       DEF Retry, Watched, CacheKnown, CheckKnown, Check, KnownKeyServed, AcceptsLiveKey
<1>6. CASE GiveUp
  BY <1>6 DEF GiveUp, End, Watched, CacheKnown, CheckKnown, Check, KnownKeyServed, AcceptsLiveKey
<1>7. CASE Replace
  BY <1>7, ReplaceKeeps
<1>8. CASE UNCHANGED jwksVars
  BY <1>8 DEF jwksVars, Watched, CacheKnown, CheckKnown, KnownKeyServed, AcceptsLiveKey
<1> QED
  BY <1>1, <1>2, <1>3, <1>4, <1>5, <1>6, <1>7, <1>8 DEF JwksNext

(* KeysHonoured: for any keys, time to live and number of retries,           *)
(* _public_key_for_token accepts no key that was withdrawn a time to live    *)
(* before the verification began, however long the refresh took.             *)
THEOREM KeysHonoured == JwksSpec => WithdrawnKeyRefused
<1>1. Sound
  BY JwksAssumption, RetriesAssumption DEF Sound
<1>2. JwksInv /\ [JwksNext]_jwksVars => AcceptsLiveKey
  BY <1>1, JwksStep
<1> QED
  BY <1>1, <1>2, InitJwks, JwksStep, PTL DEF JwksSpec, WithdrawnKeyRefused

(* KeysFound: no token is refused as signed with an unknown key while the    *)
(* provider publishes that key throughout the verification.                  *)
THEOREM KeysFound == JwksSpec => []KnownKeyServed
<1>1. Sound
  BY JwksAssumption, RetriesAssumption DEF Sound
<1>2. JwksInv => KnownKeyServed
  BY DEF JwksInv
<1> QED
  BY <1>1, <1>2, InitJwks, JwksStep, PTL DEF JwksSpec

InTime == tick \in 0 .. LastTick

(* JwksTypeCorrect: the cache only ever holds keys of the provider, and a    *)
(* refresh, in which the process serves nobody else, asks at most            *)
(* MaxRetries + 1 times.                                                     *)
THEOREM JwksTypeCorrect == JwksSpec => []JwksTypeOK
<1>1. Sound /\ LastTick \in Nat
  BY JwksAssumption, RetriesAssumption DEF Sound
<1>2. JwksInit => InTime
  BY <1>1 DEF JwksInit, InTime
<1>3. ASSUME InTime, [JwksNext]_jwksVars PROVE InTime'
  <2>1. CASE SecondPasses
    BY <1>1, <1>3, <2>1 DEF SecondPasses, InTime
  <2>2. CASE tick' = tick
    BY <1>3, <2>2 DEF InTime
  <2> QED
    BY <1>3, <2>1, <2>2 DEF JwksNext, Rotate, Verify, Get, Retry, GiveUp, Replace, jwksVars
<1>4. JwksInv /\ InTime => JwksTypeOK
  BY DEF InTime, JwksInv, Watched, CacheKnown, CheckKnown, JwksTypeOK
<1> QED
  BY <1>1, <1>2, <1>3, <1>4, InitJwks, JwksStep, PTL DEF JwksSpec
=============================================================================
