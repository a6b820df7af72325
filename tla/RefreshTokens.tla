--------------------------- MODULE RefreshTokens ---------------------------
(***************************************************************************)
(* Refresh tokens (core/auth/refresh.py) and the handlers that issue,      *)
(* rotate and revoke them (api/v1/auth.py).  A handler does not await once *)
(* it has passed the rate limiter, so a server process runs one at a time; *)
(* other processes on the same database interleave with it between its    *)
(* statements, and it may end at any of them.                              *)
(***************************************************************************)
EXTENDS Integers, FiniteSets, Deployment

CONSTANTS
  Users,      \* users who can log in
  MaxTokens,  \* bound: tokens that are ever issued
  Life,       \* refresh_token_expire_days, in ticks
  LastDay     \* bound: the clock stops here

ASSUME TokensAssumption == MaxTokens \in Nat /\ Life \in Nat /\ "nobody" \notin Users
ASSUME ServersAssumption == IsFiniteSet(Servers) /\ Servers # {}

VARIABLES
  day,      \* datetime.now
  issued,   \* tokens 1 .. issued have been made
  rows,     \* the table refresh_tokens
  serving,  \* what each server is doing
  known,    \* tokens that reached a client
  origin,   \* history: the token that was redeemed for one, and by whom
  doomed    \* history: tokens that went when a reuse was detected

tokenVars == <<day, issued, rows, serving, known, origin, doomed>>

Tokens == 1 .. MaxTokens
NoToken == 0
NoRow == [user |-> "nobody", expires |-> 0, used |-> FALSE]
NoServer == "none"

Row == [user : Users \cup {"nobody"}, expires : Nat, used : BOOLEAN]
Idle == [at |-> "idle", token |-> NoToken, data |-> NoRow]
Serving == [at : {"idle", "loaded", "marked"}, token : Tokens \cup {NoToken}, data : Row]

TokensInit ==
  /\ day = 0
  /\ issued = 0
  /\ rows = [t \in Tokens |-> NoRow]
  /\ serving = [s \in Servers |-> Idle]
  /\ known = {}
  /\ origin = [t \in Tokens |-> [from |-> NoToken, server |-> NoServer]]
  /\ doomed = {}

NextDay ==
  /\ day < LastDay
  /\ day' = day + 1
  /\ UNCHANGED <<issued, rows, serving, known, origin, doomed>>

Stored(t) == rows[t] # NoRow
Free(s) == serving[s].at = "idle"
Become(s, state) == serving' = [serving EXCEPT ![s] = state]

-----------------------------------------------------------------------------
(* create_refresh_token *)

\* INSERT OR REPLACE of a token that nobody has; the answer may be lost.
Issue(s, user, from) ==
  /\ issued < MaxTokens
  /\ issued' = issued + 1
  /\ rows' = [rows EXCEPT ![issued + 1] = [user |-> user, expires |-> day + Life, used |-> FALSE]]
  /\ known' \in {known, known \cup {issued + 1}}
  /\ origin' = [origin EXCEPT ![issued + 1] = [from |-> from, server |-> s]]
  /\ Become(s, Idle)
  /\ UNCHANGED <<day, doomed>>

Login(s, u) == Free(s) /\ Issue(s, u, NoToken)

-----------------------------------------------------------------------------
(* rotate_refresh_token *)

Refresh(s, t) ==
  /\ Free(s) /\ t \in known
  /\ Stored(t)
  /\ Become(s, [Idle EXCEPT !.at = "loaded", !.token = t, !.data = rows[t]])
  /\ UNCHANGED <<day, issued, rows, known, origin, doomed>>

Loaded(s) == serving[s].at = "loaded"
Expired(s) == serving[s].data.expires < day

Delete(gone) == rows' = [t \in Tokens |-> IF t \in gone THEN NoRow ELSE rows[t]]

RevokeExpired(s) ==
  /\ Loaded(s) /\ Expired(s)
  /\ Delete({serving[s].token})
  /\ Become(s, Idle)
  /\ UNCHANGED <<day, issued, known, origin, doomed>>

Family(user) == {t \in Tokens : rows[t].user = user}

\* Mutant: only the token that was presented goes.
RevokeReused(s) ==
  /\ Loaded(s) /\ ~Expired(s) /\ serving[s].data.used
  /\ Delete({serving[s].token})
  /\ doomed' = doomed \cup {serving[s].token}
  /\ Become(s, Idle)
  /\ UNCHANGED <<day, issued, known, origin>>

RevokeAll(s) ==
  /\ Loaded(s) /\ ~Expired(s) /\ serving[s].data.used
  /\ Delete(Family(serving[s].data.user))
  /\ doomed' = doomed \cup Family(serving[s].data.user) \cup {serving[s].token}
  /\ Become(s, Idle)
  /\ UNCHANGED <<day, issued, known, origin>>

Redeemable(s) == Loaded(s) /\ ~Expired(s) /\ ~serving[s].data.used

Marked(s) == Become(s, [serving[s] EXCEPT !.at = "marked"])

\* Mutant: the successor is stored without the token being marked.
MarkNothing(s) ==
  /\ Redeemable(s)
  /\ Marked(s)
  /\ UNCHANGED <<day, issued, rows, known, origin, doomed>>

\* UPDATE finds no row if the token was revoked meanwhile.
MarkUsed(s) ==
  /\ Redeemable(s)
  /\ Marked(s)
  /\ LET t == serving[s].token
     IN  rows' = IF Stored(t) THEN [rows EXCEPT ![t].used = TRUE] ELSE rows
  /\ UNCHANGED <<day, issued, known, origin, doomed>>

StoreSuccessor(s) ==
  /\ serving[s].at = "marked"
  /\ Issue(s, serving[s].data.user, serving[s].token)

-----------------------------------------------------------------------------
(* logout, and a handler that ends early *)

\* The client may log out with any token it was given.
Logout(s, t) ==
  /\ Free(s) /\ t \in known
  /\ Delete({t})
  /\ UNCHANGED <<day, issued, serving, known, origin, doomed>>

\* The process dies, or a statement raises DatabaseError.
Abort(s) ==
  /\ ~Free(s)
  /\ Become(s, Idle)
  /\ UNCHANGED <<day, issued, rows, known, origin, doomed>>

TokensNext ==
  \/ NextDay
  \/ \E s \in Servers :
       \/ \E u \in Users : Login(s, u)
       \/ \E t \in Tokens : Refresh(s, t) \/ Logout(s, t)
       \/ Abort(s)
       \/ RevokeExpired(s) \/ RevokeAll(s) \/ MarkUsed(s) \/ StoreSuccessor(s)

TokensSpec == TokensInit /\ [][TokensNext]_tokenVars

-----------------------------------------------------------------------------
(* Properties *)

(* TokensTypeOK: rows, copies of rows and tokens are of their kinds.         *)
TokensTypeOK ==
  /\ day \in Nat
  /\ issued \in 0 .. MaxTokens
  /\ rows \in [Tokens -> Row]
  /\ serving \in [Servers -> Serving]
  /\ known \subseteq 1 .. issued
  /\ origin \in [Tokens -> [from : Tokens \cup {NoToken}, server : Servers \cup {NoServer}]]
  /\ doomed \subseteq 1 .. issued

(* RedeemedOnce: no server redeems a token twice, whatever other servers     *)
(* do with it and wherever a handler ends: with one API process a refresh    *)
(* token has one successor.                                                  *)
RedeemedOnce ==
  \A t, v \in 1 .. issued : origin[t].from # NoToken /\ origin[t] = origin[v] => t = v

Escaped(u) == {t \in Family(u) : origin[t].from \in doomed}

(* ReuseEndsSessions: once a token is used again, none of the user's tokens  *)
(* is left and none of them has a successor, but for those that the other    *)
(* servers were about to store at that moment.                               *)
ReuseEndsSessions ==
  \A u \in Users : Cardinality(Escaped(u)) <= Cardinality(Servers) - 1
=============================================================================
