------------------------------ MODULE Accounts ------------------------------
(***************************************************************************)
(* Users, access tokens and API keys: storage/auth_repository.py, the      *)
(* handlers of api/v1/auth.py that change them, the dependency that finds  *)
(* out who is asking (api/dependencies/auth.py) and the roles              *)
(* (core/auth/roles.py).  Server processes share one database.             *)
(***************************************************************************)
EXTENDS Integers, FiniteSets, Deployment

CONSTANTS
  Emails,      \* addresses people sign up with, normalised
  Outsiders,   \* subjects that identity providers vouch for
  Keys,        \* bound: API keys that are ever made
  TokenLife,   \* access_token_expire_minutes
  KeyLife,     \* expires_in_days
  LastHour,    \* bound: the clock stops here
  Development, \* the environment is development or testing
  SignupOpen   \* not production, or public_signup_enabled

\* Nobody is vouched for under the address of an account, and no address is reserved.
ASSUME AccountsAssumption ==
  /\ Outsiders \cap (Emails \cup {"dev@example.com", "nobody"}) = {}
  /\ "nobody" \notin Emails
  /\ TokenLife \in Nat /\ KeyLife \in Nat /\ LastHour \in Nat

VARIABLES
  hour,     \* datetime.now
  users,    \* rows of the table users
  tokens,   \* access tokens that were handed out
  keys,     \* rows of the table api_keys
  working   \* what each server process is doing

accountVars == <<hour, users, tokens, keys, working>>

-----------------------------------------------------------------------------
(* Roles and permissions *)

Roles == {"viewer", "analyst", "admin", "super_admin"}
PublicRoles == {"viewer", "analyst"}

ViewerMay == {"assessment:read", "report:view"}
AnalystMay == ViewerMay \cup {"assessment:create", "report:export"}
AdminMay == AnalystMay \cup {"assessment:delete", "organization:manage", "user:manage",
                             "user:view", "audit:view"}
Permissions == AdminMay \cup {"system:config"}

RoleMay == [viewer |-> ViewerMay, analyst |-> AnalystMay, admin |-> AdminMay,
            super_admin |-> Permissions]

\* A role that is not known grants nothing.
PermissionsOf(roles) == UNION {RoleMay[r] : r \in roles \cap Roles}

Claims == Roles \cup {"guest"}  \* role names that a request or a provider may give
ProviderClaims == {{}, {"analyst", "guest"}, {"admin"}}  \* bound: what providers claim

-----------------------------------------------------------------------------
(* State *)

Boss == "dev@example.com"
BossRow == [email |-> Boss, roles |-> {"admin"}, public |-> FALSE]

Nobody == [method |-> "none", sub |-> "nobody", roles |-> {}]
Principal == [method : {"none", "jwt", "external", "api_key"},
              sub : Emails \cup Outsiders \cup {Boss, "nobody"}, roles : SUBSET Claims]

NewKey == [owner |-> "nobody", roles |-> {}, expires |-> 0, state |-> "unused"]
KeyRow == [owner : Emails \cup Outsiders \cup {Boss, "nobody"}, roles : SUBSET Roles,
           expires : Nat, state : {"unused", "live", "revoked"}]

NoKey == "no key"
Down == [at |-> "down", who |-> Nobody, roles |-> {}, key |-> NoKey]
Ready == [Down EXCEPT !.at = "ready"]
Working == [at : {"down", "booting", "ready", "limiting", "found", "serving"}, who : Principal,
            roles : SUBSET Roles, key : Keys \cup {NoKey}]

AccountsInit ==
  /\ hour = 0
  /\ users = {}
  /\ tokens = {}
  /\ keys = [k \in Keys |-> NewKey]
  /\ working = [s \in Servers |-> Down]

Goes(s, state) == working' = [working EXCEPT ![s] = state]
At(s, where) == working[s].at = where

HourPasses ==
  /\ hour < LastHour
  /\ hour' = hour + 1
  /\ UNCHANGED <<users, tokens, keys, working>>

-----------------------------------------------------------------------------
(* _ensure_bootstrap_user, create_user, authenticate_user *)

HasAccount(email) == \E u \in users : u.email = email

\* INSERT; a second row with this address is an IntegrityError.
Insert(row) == users' = IF HasAccount(row.email) THEN users ELSE users \cup {row}

\* SELECT of the bootstrap user, by a process that starts.
Start(s) ==
  /\ At(s, "down")
  /\ Goes(s, IF Development /\ ~HasAccount(Boss) THEN [Down EXCEPT !.at = "booting"] ELSE Ready)
  /\ UNCHANGED <<hour, users, tokens, keys>>

\* Another process may have been faster: the error is ignored.
CreateBootstrapUser(s) ==
  /\ At(s, "booting")
  /\ Insert(BossRow)
  /\ Goes(s, Ready)
  /\ UNCHANGED <<hour, tokens, keys>>

\* _normalize_roles: every name is a role, and there is one.
Wellformed(roles) == roles # {} /\ roles \subseteq Roles

Signup(s, email) ==
  /\ At(s, "ready") /\ SignupOpen
  /\ \E roles \in SUBSET Claims :
       /\ Wellformed(roles)
       /\ roles \subseteq PublicRoles
       /\ Insert([email |-> email, roles |-> roles, public |-> TRUE])
  /\ UNCHANGED <<hour, tokens, keys, working>>

\* The row is read again after last_login_at is set; no statement changes its roles.
SignIn(s, u) ==
  /\ At(s, "ready")
  /\ tokens' = tokens \cup {[sub |-> u.email, roles |-> u.roles, exp |-> hour + TokenLife]}
  /\ UNCHANGED <<hour, users, keys, working>>

-----------------------------------------------------------------------------
(* get_current_user: a bearer token decides alone, an API key only without one *)

\* verify_parent_token: without a claim of roles one may only look.
ProviderRoles == {IF c = {} THEN {"viewer"} ELSE c : c \in ProviderClaims}

\* Verified here, or else by one of the external providers (a provider that cannot be
\* asked ends the request with 503, and nobody is let in).
Bearers ==
  {[method |-> "jwt", sub |-> t.sub, roles |-> t.roles] : t \in {x \in tokens : hour < x.exp}}
    \cup [method : {"external"}, sub : Outsiders, roles : ProviderRoles]

\* SELECT of a key that is not revoked, joined with its owner.
FindKey(s, k) ==
  /\ At(s, "ready")
  /\ keys[k].state = "live" /\ HasAccount(keys[k].owner)
  /\ Goes(s, [at |-> "found", roles |-> {}, key |-> k,
              who |-> [method |-> "api_key", sub |-> keys[k].owner, roles |-> keys[k].roles]])
  /\ UNCHANGED <<hour, users, tokens, keys>>

KeyExpired(k) == keys[k].expires < hour

\* An expired key is revoked (unless it is already) and refused.
ExpireKey(s) ==
  /\ At(s, "found") /\ KeyExpired(working[s].key)
  /\ keys' = [keys EXCEPT ![working[s].key].state = "revoked"]
  /\ Goes(s, Ready)
  /\ UNCHANGED <<hour, users, tokens>>

\* UPDATE last_used_at, also of a key that was revoked since it was found.
UseKey(s) ==
  /\ At(s, "found") /\ ~KeyExpired(working[s].key)
  /\ Goes(s, [Ready EXCEPT !.at = "serving", !.who = working[s].who])
  /\ UNCHANGED <<hour, users, tokens, keys>>

UseBearer(s, who) ==
  /\ At(s, "ready")
  /\ Goes(s, [Ready EXCEPT !.at = "serving", !.who = who])
  /\ UNCHANGED <<hour, users, tokens, keys>>

\* RequirePermission and the handlers that change nothing here end like this too.
Finish(s) ==
  /\ working[s].at \in {"limiting", "found", "serving"}
  /\ Goes(s, Ready)
  /\ UNCHANGED <<hour, users, tokens, keys>>

Crash(s) ==
  /\ ~At(s, "down")
  /\ Goes(s, Down)
  /\ UNCHANGED <<hour, users, tokens, keys>>

-----------------------------------------------------------------------------
(* create_api_key and revoke_api_key *)

\* Mutant: any roles that exist may be asked for.
AnyRoles(who, asked) == {r \in {asked} : Wellformed(r)}

\* _api_key_roles: without a request the key gets all roles of the principal.
KeyRoles(who, asked) ==
  IF asked = {} THEN {r \in {who.roles} : Wellformed(r)}
                ELSE {r \in {asked} : Wellformed(r) /\ Wellformed(who.roles) /\ r \subseteq who.roles}

\* API keys make no keys; then the rate limiter is awaited.
AskForKey(s) ==
  /\ At(s, "serving") /\ working[s].who.method # "api_key"
  /\ \E asked \in SUBSET Claims : \E roles \in KeyRoles(working[s].who, asked) :
       Goes(s, [working[s] EXCEPT !.at = "limiting", !.roles = roles])
  /\ UNCHANGED <<hour, users, tokens, keys>>

CreateKey(s, k) ==
  /\ At(s, "limiting") /\ keys[k] = NewKey
  /\ keys' = [keys EXCEPT ![k] = [owner |-> working[s].who.sub, roles |-> working[s].roles,
                                  expires |-> hour + KeyLife, state |-> "live"]]
  /\ Goes(s, Ready)
  /\ UNCHANGED <<hour, users, tokens>>

RevokeKey(s, k) ==
  /\ At(s, "serving")
  /\ keys[k].state = "live" /\ keys[k].owner = working[s].who.sub
  /\ keys' = [keys EXCEPT ![k].state = "revoked"]
  /\ Goes(s, Ready)
  /\ UNCHANGED <<hour, users, tokens>>

AccountsNext ==
  \/ HourPasses
  \/ \E s \in Servers :
       \/ Start(s) \/ CreateBootstrapUser(s) \/ Crash(s)
       \/ \E e \in Emails : Signup(s, e)
       \/ \E u \in users : SignIn(s, u)
       \/ \E who \in Bearers : UseBearer(s, who)
       \/ ExpireKey(s) \/ UseKey(s) \/ Finish(s) \/ AskForKey(s)
       \/ \E k \in Keys : FindKey(s, k) \/ CreateKey(s, k) \/ RevokeKey(s, k)

AccountsSpec == AccountsInit /\ [][AccountsNext]_accountVars

-----------------------------------------------------------------------------
(* Properties *)

(* AccountsTypeOK: rows, tokens and requests are of their kinds.             *)
AccountsTypeOK ==
  /\ hour \in 0 .. LastHour
  /\ users \subseteq [email : Emails \cup {Boss}, roles : SUBSET Roles, public : BOOLEAN]
  /\ tokens \subseteq [sub : Emails \cup {Boss}, roles : SUBSET Roles, exp : Nat]
  /\ keys \in [Keys -> KeyRow]
  /\ working \in [Servers -> Working]

Credentials ==
  {[sub |-> t.sub, roles |-> t.roles] : t \in tokens}
    \cup {[sub |-> keys[k].owner, roles |-> keys[k].roles] : k \in Keys}
    \cup {[sub |-> working[s].who.sub, roles |-> working[s].who.roles] : s \in Servers}

(* NoEscalation: a token, an API key or a request under way never lets an    *)
(* account do what its own row does not grant, through any chain of logins,  *)
(* keys and revocations and whichever process served them, and an account    *)
(* that was signed up for can only look, assess and export; there is one     *)
(* account to an address.                                                    *)
NoEscalation ==
  /\ \A c \in Credentials, u \in users :
       c.sub = u.email => PermissionsOf(c.roles) \subseteq PermissionsOf(u.roles)
  /\ \A u \in users : u.public => PermissionsOf(u.roles) \subseteq AnalystMay
  /\ \A u, v \in users : u.email = v.email => u = v
=============================================================================
