------------------------ MODULE RefreshTokensProofs ------------------------
(***************************************************************************)
(* RefreshTokens: no server redeems a refresh token twice, and a reuse     *)
(* ends the sessions of its user, for any servers, users, tokens and       *)
(* lifetime.                                                               *)
(***************************************************************************)
EXTENDS RefreshTokens, FiniteSetTheorems, TLAPS

Redeemed(s, t) == \E v \in 1 .. issued : origin[v] = [from |-> t, server |-> s]

\* A token that is gone or used cannot be redeemed by a server that looks now.
Spent(t) == ~Stored(t) \/ rows[t].used

\* What a server holds was issued, and is not yet redeemed by it.
Holds(s) ==
  /\ serving[s].at \in {"idle", "loaded", "marked"}
  /\ serving[s].at # "idle" => serving[s].token \in 1 .. issued
  /\ serving[s].at = "marked" => Spent(serving[s].token) /\ ~Redeemed(s, serving[s].token)
  /\ serving[s].at = "loaded" /\ ~serving[s].data.used => ~Redeemed(s, serving[s].token)

Kinds ==
  /\ issued \in 0 .. MaxTokens
  /\ DOMAIN rows = Tokens
  /\ DOMAIN serving = Servers
  /\ DOMAIN origin = Tokens
  /\ known \subseteq 1 .. issued
  /\ \A v \in 1 .. issued : origin[v].from \in 0 .. issued

\* Whatever a server redeemed stays spent.
RedeemInv ==
  /\ Kinds
  /\ \A s \in Servers : Holds(s)
  /\ \A s \in Servers, t \in Tokens : Redeemed(s, t) => Spent(t)
  /\ RedeemedOnce

(* The invariant holds initially.                                            *)
LEMMA InitRedeem ==
  ASSUME TokensInit
  PROVE  RedeemInv
BY TokensAssumption
   DEF TokensInit, RedeemInv, Kinds, Holds, Redeemed, Spent, RedeemedOnce,
       Tokens, Idle

(* Steps that issue nothing: rows are deleted or marked, and a server becomes *)
(* idle or goes on with what it holds.                                       *)
LEMMA SpendKeeps ==
  ASSUME RedeemInv, UNCHANGED <<issued, origin, known>>,
         DOMAIN rows' = Tokens, DOMAIN serving' = Servers,
         \A t \in Tokens : Spent(t) => Spent(t)',
         \A s \in Servers : Holds(s)'
  PROVE  RedeemInv'
<1>1. \A s \in Servers, t \in Tokens : Redeemed(s, t)' <=> Redeemed(s, t)
  BY DEF Redeemed
<1>2. Kinds'
  BY DEF RedeemInv, Kinds, Tokens
<1>3. RedeemedOnce'
  BY DEF RedeemInv, RedeemedOnce
<1>4. \A s \in Servers, t \in Tokens : Redeemed(s, t)' => Spent(t)'
  BY <1>1 DEF RedeemInv
<1> QED
  BY <1>2, <1>3, <1>4 DEF RedeemInv

(* A server that becomes idle, or does not move, still holds what it may.    *)
LEMMA OthersHold ==
  ASSUME RedeemInv, UNCHANGED <<issued, origin>>,
         \A t \in Tokens : Spent(t) => Spent(t)',
         NEW s \in Servers, serving'[s] = serving[s] \/ serving'[s] = Idle
  PROVE  Holds(s)'
<1>1. \A t \in Tokens : Redeemed(s, t)' <=> Redeemed(s, t)
  BY DEF Redeemed
<1>2. CASE serving'[s] = Idle
  BY <1>2 DEF Holds, Idle
<1>3. CASE serving'[s] = serving[s]
  <2>1. Holds(s) /\ 1 .. issued \subseteq Tokens
    BY TokensAssumption DEF RedeemInv, Kinds, Tokens
  <2>2. (serving[s].at = "loaded" /\ ~serving[s].data.used)'
          => serving[s].at = "loaded" /\ ~serving[s].data.used
    BY <1>3
  <2>3. serving[s].at # "idle" => serving[s].token \in Tokens
    BY <2>1 DEF Holds
  <2>4. (serving[s].at = "marked" => Spent(serving[s].token))'
    BY <1>3, <2>1, <2>3 DEF Holds, Spent, Stored
  <2>5. Redeemed(s, serving[s].token)' <=> Redeemed(s, serving[s].token)
    BY <1>3 DEF Redeemed
  <2>6. (serving[s].at # "idle" => serving[s].token \in 1 .. issued)'
    BY <1>3, <2>1 DEF Holds
  <2> QED
    BY <1>3, <2>1, <2>2, <2>4, <2>5, <2>6 DEF Holds
<1> QED
  BY <1>2, <1>3

(* Deleting tokens, or marking one, spends them.                             *)
LEMMA DeleteSpends ==
  ASSUME RedeemInv, NEW gone, Delete(gone)
  PROVE  DOMAIN rows' = Tokens /\ \A t \in Tokens : Spent(t) => Spent(t)'
BY DEF RedeemInv, Kinds, Delete, Spent, Stored

(* A token that a server redeems is not one that it redeemed before.         *)
LEMMA IssueKeeps ==
  ASSUME RedeemInv, NEW s \in Servers, NEW user, NEW from \in 0 .. issued,
         Issue(s, user, from),
         from # NoToken => Spent(from) /\ ~Redeemed(s, from)
  PROVE  RedeemInv'
<1> USE TokensAssumption
<1> DEFINE new == issued + 1
<1>1. /\ issued \in Nat /\ new \in Tokens /\ issued' = new /\ 1 .. new = (1 .. issued) \cup {new}
      /\ new \notin 1 .. issued /\ 1 .. issued \subseteq Tokens
  BY DEF RedeemInv, Kinds, Issue, Tokens
<1>2. /\ \A v \in 1 .. issued : origin'[v] = origin[v] /\ rows'[v] = rows[v]
      /\ origin'[new] = [from |-> from, server |-> s]
  BY <1>1 DEF RedeemInv, Kinds, Issue
<1>3. Kinds'
  <2>1. DOMAIN rows' = Tokens /\ DOMAIN serving' = Servers /\ DOMAIN origin' = Tokens
    BY DEF RedeemInv, Kinds, Issue, Become
  <2>2. known' \subseteq 1 .. issued'
    BY <1>1 DEF RedeemInv, Kinds, Issue
  <2>3. \A v \in 1 .. issued' : origin'[v].from \in 0 .. issued'
    BY <1>1, <1>2 DEF RedeemInv, Kinds
  <2> QED
    BY <1>1, <2>1, <2>2, <2>3 DEF Kinds, Tokens
<1>4. \A r \in Servers, t \in Tokens :
        Redeemed(r, t)' => Redeemed(r, t) \/ (r = s /\ t = from)
  BY <1>1, <1>2 DEF Redeemed
<1>5. \A t \in 1 .. issued : Spent(t) => Spent(t)'
  BY <1>2 DEF Spent, Stored
<1>6. \A r \in Servers, t \in Tokens : Redeemed(r, t) => t \in 1 .. issued
  BY DEF Redeemed, RedeemInv, Kinds, Tokens
<1>7. \A r \in Servers, t \in Tokens : Redeemed(r, t)' => Spent(t)'
  BY <1>1, <1>4, <1>5, <1>6 DEF RedeemInv, NoToken, Tokens
<1>8. ASSUME NEW r \in Servers PROVE Holds(r)'
  <2>1. CASE r = s
    <3>1. serving'[r] = Idle
      BY <2>1 DEF Issue, Become, RedeemInv, Kinds
    <3> QED
      BY <3>1 DEF Holds, Idle
  <2>2. CASE r # s
    <3>1. serving'[r] = serving[r] /\ Holds(r)
      BY <2>2 DEF Issue, Become, RedeemInv, Kinds
    <3>2. serving[r].at # "idle" => serving[r].token \in 1 .. issued
      BY <3>1 DEF Holds
    <3>3. (serving[r].at # "idle" => serving[r].token \in 1 .. issued)'
      BY <1>1, <3>1, <3>2
    <3>4. (serving[r].at = "marked" => Spent(serving[r].token))'
      BY <1>5, <3>1, <3>2 DEF Holds, Spent, Stored
    <3>5. serving[r].at # "idle" /\ Redeemed(r, serving[r].token)' => Redeemed(r, serving[r].token)
      BY <1>1, <1>2, <2>2, <3>1, <3>2 DEF Redeemed
    <3> QED
      BY <3>1, <3>3, <3>4, <3>5 DEF Holds
  <2> QED
    BY <2>1, <2>2
<1>9. RedeemedOnce'
  <2> SUFFICES ASSUME NEW t \in 1 .. issued', NEW v \in 1 .. issued',
                      origin'[t].from # NoToken, origin'[t] = origin'[v]
               PROVE  t = v
    BY DEF RedeemedOnce
  <2>1. CASE t \in 1 .. issued /\ v \in 1 .. issued
    BY <1>2, <2>1 DEF RedeemInv, RedeemedOnce
  <2>2. CASE t = new /\ v = new
    BY <2>2
  <2>3. CASE t = new /\ v \in 1 .. issued
    BY <1>2, <2>3 DEF Redeemed
  <2>4. CASE t \in 1 .. issued /\ v = new
    BY <1>2, <2>4 DEF Redeemed
  <2> QED
    BY <1>1, <2>1, <2>2, <2>3, <2>4
<1> QED
  BY <1>3, <1>7, <1>8, <1>9 DEF RedeemInv

(* Every step keeps the invariant.                                           *)
LEMMA RedeemNext ==
  ASSUME RedeemInv, [TokensNext]_tokenVars
  PROVE  RedeemInv'
<1> USE TokensAssumption
<1>1. CASE NextDay
  BY <1>1, SpendKeeps, OthersHold DEF NextDay, RedeemInv, Kinds, Spent, Stored
<1>2. ASSUME NEW s \in Servers, NEW u \in Users, Login(s, u) PROVE RedeemInv'
  BY <1>2, IssueKeeps DEF Login, NoToken, RedeemInv, Kinds
<1>3. ASSUME NEW s \in Servers, NEW t \in Tokens, Refresh(s, t) PROVE RedeemInv'
  <2>1. /\ UNCHANGED <<issued, origin, known, rows>>
        /\ serving'[s].at = "loaded" /\ serving'[s].token = t /\ serving'[s].data = rows[t]
        /\ \A r \in Servers \ {s} : serving'[r] = serving[r]
        /\ DOMAIN serving' = Servers
    BY <1>3 DEF Refresh, Become, Idle, RedeemInv, Kinds
  <2>2. \A x \in Tokens : Spent(x) => Spent(x)'
    BY <2>1 DEF Spent, Stored
  <2>3. Stored(t) /\ t \in 1 .. issued
    BY <1>3 DEF Refresh, RedeemInv, Kinds
  <2>4. ~rows[t].used => ~Redeemed(s, t)
    BY <2>3 DEF RedeemInv, Spent
  <2>5. Holds(s)'
    BY <2>1, <2>3, <2>4 DEF Holds, Redeemed
  <2>6. \A r \in Servers : Holds(r)'
    BY <2>1, <2>2, <2>5, OthersHold
  <2> QED
    BY <2>1, <2>2, <2>6, SpendKeeps DEF RedeemInv, Kinds
<1>4. ASSUME NEW s \in Servers, NEW t \in Tokens, Logout(s, t) PROVE RedeemInv'
  <2>1. DOMAIN rows' = Tokens /\ \A x \in Tokens : Spent(x) => Spent(x)'
    BY <1>4, DeleteSpends DEF Logout
  <2>2. \A r \in Servers : Holds(r)'
    BY <1>4, <2>1, OthersHold DEF Logout
  <2> QED
    BY <1>4, <2>1, <2>2, SpendKeeps DEF Logout, RedeemInv, Kinds
<1>5. ASSUME NEW s \in Servers, RevokeExpired(s) \/ RevokeAll(s) \/ Abort(s) PROVE RedeemInv'
  <2>1. /\ UNCHANGED <<issued, origin, known>> /\ DOMAIN serving' = Servers
        /\ \A r \in Servers : serving'[r] = serving[r] \/ serving'[r] = Idle
    BY <1>5 DEF RevokeExpired, RevokeAll, Abort, Become, RedeemInv, Kinds
  <2>2. DOMAIN rows' = Tokens /\ \A x \in Tokens : Spent(x) => Spent(x)'
    <3>1. CASE Abort(s)
      BY <3>1 DEF Abort, RedeemInv, Kinds, Spent, Stored
    <3>2. CASE RevokeExpired(s)
      BY <3>2, DeleteSpends DEF RevokeExpired
    <3>3. CASE RevokeAll(s)
      BY <3>3, DeleteSpends DEF RevokeAll
    <3> QED
      BY <1>5, <3>1, <3>2, <3>3
  <2>3. \A r \in Servers : Holds(r)'
    BY <2>1, <2>2, OthersHold
  <2> QED
    BY <2>1, <2>2, <2>3, SpendKeeps
<1>6. ASSUME NEW s \in Servers, MarkUsed(s) PROVE RedeemInv'
  <2> DEFINE t == serving[s].token
  <2>1. Holds(s) /\ t \in Tokens /\ t \in 1 .. issued /\ ~Redeemed(s, t)
    BY <1>6 DEF MarkUsed, Redeemable, Loaded, RedeemInv, Kinds, Holds, Tokens
  <2>2. /\ UNCHANGED <<issued, origin, known>> /\ DOMAIN serving' = Servers
        /\ serving'[s].at = "marked" /\ serving'[s].token = t
        /\ \A r \in Servers \ {s} : serving'[r] = serving[r]
    BY <1>6 DEF MarkUsed, Marked, Become, Redeemable, Loaded, RedeemInv, Kinds
  <2>3. rows' = IF Stored(t) THEN [rows EXCEPT ![t].used = TRUE] ELSE rows
    BY <1>6 DEF MarkUsed
  <2>4. Spent(t)'
    BY <2>1, <2>2, <2>3 DEF RedeemInv, Kinds, Spent, Stored
  <2>5. DOMAIN rows' = Tokens /\ \A x \in Tokens : Spent(x) => Spent(x)'
    <3>1. DOMAIN rows' = Tokens /\ \A x \in Tokens \ {t} : rows'[x] = rows[x]
      BY <2>3 DEF RedeemInv, Kinds
    <3>2. rows'[t] = NoRow \/ rows'[t].used
      BY <2>2, <2>4 DEF Spent, Stored
    <3> QED
      BY <3>1, <3>2 DEF Spent, Stored
  <2>6. Holds(s)'
    BY <2>1, <2>2, <2>4 DEF Holds, Redeemed
  <2>7. \A r \in Servers : Holds(r)'
    BY <2>2, <2>5, <2>6, OthersHold
  <2> QED
    BY <2>2, <2>5, <2>7, SpendKeeps
<1>7. ASSUME NEW s \in Servers, StoreSuccessor(s) PROVE RedeemInv'
  BY <1>7, IssueKeeps DEF StoreSuccessor, RedeemInv, Kinds, Holds
<1>8. CASE UNCHANGED tokenVars
  BY <1>8, SpendKeeps, OthersHold DEF tokenVars, RedeemInv, Kinds, Spent, Stored
<1> QED
  BY <1>1, <1>2, <1>3, <1>4, <1>5, <1>6, <1>7, <1>8 DEF TokensNext

(* RedeemedOnceEach: however many servers there are and wherever they end,   *)
(* rotate_refresh_token never makes two successors of a token on one server. *)
THEOREM RedeemedOnceEach == TokensSpec => []RedeemedOnce
<1>1. RedeemInv => RedeemedOnce
  BY DEF RedeemInv
<1> QED
  BY <1>1, InitRedeem, RedeemNext, PTL DEF TokensSpec

-----------------------------------------------------------------------------
(* A reuse ends the sessions of its user *)

\* A row is there for no token that was not issued, nor for one that went with a
\* reuse, and a server holds a token that was issued.
TokensInv ==
  /\ TokensTypeOK
  /\ \A t \in Tokens : Stored(t) => t \in 1 .. issued /\ rows[t].user \in Users
  /\ \A t \in doomed : ~Stored(t)
  /\ \A t \in Tokens : origin[t].from \in 0 .. issued
  /\ \A s \in Servers : serving[s].at # "idle" =>
       serving[s].token \in 1 .. issued /\ serving[s].data.user \in Users

\* A row, every copy of it and every successor are of the user a token was issued to.
OwnedBy(owner) ==
  /\ \A t \in Tokens : Stored(t) =>
       rows[t].user = owner[t] /\ (origin[t].from # NoToken => owner[origin[t].from] = owner[t])
  /\ \A s \in Servers : serving[s].at # "idle" => serving[s].data.user = owner[serving[s].token]

Owners == \E owner \in [Tokens -> Users \cup {"nobody"}] : OwnedBy(owner)

\* What a server is about to do with a token of u that went with a reuse.
Late(s, u) == serving[s].at # "idle" /\ serving[s].token \in doomed /\ serving[s].data.user = u

\* But for the server that saw the last reuse, each may store one successor
\* for a token that went, and none once it is done with that token.
EscapesBut(s, u) ==
  /\ ~Late(s, u)
  /\ \A t \in Escaped(u) : origin[t].server \in Servers \ {s} /\ ~Late(origin[t].server, u)
  /\ \A t, v \in Escaped(u) : origin[t].server = origin[v].server => t = v

FewEscape == \A u \in Users : \E s \in Servers : EscapesBut(s, u)

(* Every step keeps rows, tokens and what the servers hold of their kinds.   *)
LEMMA TokensInvNext ==
  ASSUME TokensInv, Owners, [TokensNext]_tokenVars
  PROVE  TokensInv'
<1> USE TokensAssumption DEF Stored
<1>0. /\ issued \in 0 .. MaxTokens /\ issued \in Nat /\ Tokens = 1 .. MaxTokens
      /\ NoRow \in Row /\ Idle \in Serving /\ NoRow.user = "nobody" /\ Idle.at = "idle"
      /\ day \in Nat /\ 1 .. issued \subseteq Tokens
  BY DEF TokensInv, TokensTypeOK, NoRow, Row, Idle, Serving, Tokens
<1> USE <1>0
<1> HIDE DEF Tokens, NoRow, Idle
<1>1. ASSUME NEW gone \in SUBSET Tokens, NEW s \in Servers, Delete(gone),
             UNCHANGED <<day, issued, known, origin>>,
             Become(s, Idle) \/ UNCHANGED serving,
             doomed' \subseteq doomed \cup gone, gone \cap doomed' \subseteq 1 .. issued
      PROVE  TokensInv'
  <2>1. /\ rows' \in [Tokens -> Row]
        /\ \A t \in Tokens : rows'[t] = IF t \in gone THEN NoRow ELSE rows[t]
    BY <1>1 DEF TokensInv, TokensTypeOK, Delete
  <2>2. /\ serving' \in [Servers -> Serving]
        /\ \A r \in Servers : serving'[r] = serving[r] \/ serving'[r] = Idle
    BY <1>1 DEF TokensInv, TokensTypeOK, Become
  <2>3. TokensTypeOK'
    BY <1>1, <2>1, <2>2 DEF TokensInv, TokensTypeOK
  <2>4. \A t \in doomed' : ~Stored(t)'
    BY <1>1, <2>1, <2>3 DEF TokensInv, TokensTypeOK
  <2> QED
    BY <1>1, <2>1, <2>2, <2>3, <2>4 DEF TokensInv
<1>2. ASSUME NEW s \in Servers, NEW user \in Users, NEW from \in 0 .. issued, Issue(s, user, from)
      PROVE  TokensInv'
  <2> DEFINE new == issued + 1
             row == [user |-> user, expires |-> day + Life, used |-> FALSE]
  <2>1. /\ new \in Tokens /\ issued' = new /\ 1 .. new = (1 .. issued) \cup {new}
        /\ new \notin 1 .. issued
        /\ new \in 0 .. MaxTokens /\ 0 .. issued \subseteq 0 .. new
        /\ day' = day /\ doomed' = doomed
    BY <1>2 DEF Issue, Tokens
  <2>2. row \in Row /\ row.user = user
    BY <1>2 DEF Row
  <2>3. /\ rows' = [rows EXCEPT ![new] = row] /\ Become(s, Idle)
        /\ known' \in {known, known \cup {new}}
        /\ origin' = [origin EXCEPT ![new] = [from |-> from, server |-> s]]
    BY <1>2 DEF Issue
  <2> HIDE DEF new, row
  <2>4. /\ rows' \in [Tokens -> Row] /\ rows'[new] = row
        /\ \A t \in Tokens \ {new} : rows'[t] = rows[t]
        /\ serving' \in [Servers -> Serving]
        /\ \A r \in Servers : serving'[r] = serving[r] \/ serving'[r] = Idle
    BY <2>1, <2>2, <2>3 DEF TokensInv, TokensTypeOK, Become
  <2>5. [from |-> from, server |-> s]
          \in [from : Tokens \cup {NoToken}, server : Servers \cup {NoServer}]
    BY DEF NoToken, Tokens
  <2>6. /\ origin' \in [Tokens -> [from : Tokens \cup {NoToken}, server : Servers \cup {NoServer}]]
        /\ \A t \in Tokens : origin'[t].from \in {origin[t].from, from}
    BY <2>1, <2>3, <2>5 DEF TokensInv, TokensTypeOK
  <2>7. TokensTypeOK'
    BY <2>1, <2>3, <2>4, <2>6 DEF TokensInv, TokensTypeOK
  <2>8. \A t \in Tokens : origin'[t].from \in 0 .. issued'
    BY <2>1, <2>6 DEF TokensInv
  <2>9. \A t \in doomed' : ~Stored(t)'
    BY <2>1, <2>4 DEF TokensInv, TokensTypeOK
  <2> QED
    BY <2>1, <2>2, <2>4, <2>7, <2>8, <2>9 DEF TokensInv
<1>3. CASE NextDay
  BY <1>3 DEF NextDay, TokensInv, TokensTypeOK
<1>4. ASSUME NEW s \in Servers, NEW u \in Users, Login(s, u) PROVE TokensInv'
  BY <1>2, <1>4 DEF Login, NoToken
<1>5. ASSUME NEW s \in Servers, NEW t \in Tokens, Refresh(s, t) PROVE TokensInv'
  <2> DEFINE held == [Idle EXCEPT !.at = "loaded", !.token = t, !.data = rows[t]]
  <2>1. rows[t] \in Row /\ rows[t].user \in Users /\ t \in 1 .. issued
    BY <1>5 DEF TokensInv, TokensTypeOK, Refresh
  <2>2. held \in Serving /\ held.token = t /\ held.data = rows[t]
    BY <2>1 DEF Serving, Idle
  <2>3. serving' = [serving EXCEPT ![s] = held]
    BY <1>5 DEF Refresh, Become
  <2> HIDE DEF held
  <2>4. /\ serving' \in [Servers -> Serving]
        /\ \A r \in Servers : serving'[r] = serving[r] \/ serving'[r] = held
    BY <2>2, <2>3 DEF TokensInv, TokensTypeOK
  <2> QED
    BY <1>5, <2>1, <2>2, <2>4 DEF Refresh, TokensInv, TokensTypeOK
<1>6. ASSUME NEW s \in Servers, NEW t \in Tokens, Logout(s, t) PROVE TokensInv'
  BY <1>1, <1>6 DEF Logout, TokensInv, TokensTypeOK
<1>7. ASSUME NEW s \in Servers, RevokeExpired(s) PROVE TokensInv'
  BY <1>1, <1>7 DEF RevokeExpired, Loaded, TokensInv, TokensTypeOK
<1>8. ASSUME NEW s \in Servers, RevokeAll(s) PROVE TokensInv'
  <2> DEFINE u == serving[s].data.user
  <2>1. serving[s].token \in 1 .. issued /\ u \in Users
    BY <1>8 DEF RevokeAll, Loaded, TokensInv
  <2>2. Family(u) \subseteq 1 .. issued
    BY <2>1 DEF Family, TokensInv
  <2>3. Stored(serving[s].token) => serving[s].token \in Family(u)
    BY <1>8, <2>1 DEF Owners, OwnedBy, RevokeAll, Loaded, Family
  <2> DEFINE gone == Family(u) \cup {serving[s].token}
  <2>4. gone \in SUBSET Tokens /\ gone \subseteq 1 .. issued
    BY <2>1, <2>2
  <2>5. Delete(gone)
    BY <1>8, <2>3 DEF RevokeAll, Delete
  <2> QED
    BY <1>1, <1>8, <2>4, <2>5 DEF RevokeAll
<1>9. ASSUME NEW s \in Servers, MarkUsed(s) PROVE TokensInv'
  <2> DEFINE held == [serving[s] EXCEPT !.at = "marked"]
             t == serving[s].token
  <2>1. serving[s] \in Serving /\ t \in 1 .. issued /\ serving[s].data.user \in Users
    BY <1>9 DEF MarkUsed, Redeemable, Loaded, TokensInv, TokensTypeOK
  <2>2. held \in Serving /\ held.token = t /\ held.data = serving[s].data
    BY <2>1 DEF Serving
  <2>3. serving' = [serving EXCEPT ![s] = held]
    BY <1>9 DEF MarkUsed, Marked, Become
  <2> DEFINE used == [rows[t] EXCEPT !.used = TRUE]
  <2>4. rows[t] \in Row /\ used \in Row /\ used.user = rows[t].user
    BY <2>1 DEF TokensInv, TokensTypeOK, Row
  <2>5. rows' = IF Stored(t) THEN [rows EXCEPT ![t] = used] ELSE rows
    BY <1>9 DEF MarkUsed
  <2> HIDE DEF used
  <2>6. /\ rows' \in [Tokens -> Row]
        /\ \A v \in Tokens : rows'[v].user = rows[v].user /\ (~Stored(v) => rows'[v] = rows[v])
    BY <2>1, <2>4, <2>5 DEF TokensInv, TokensTypeOK
  <2> HIDE DEF held
  <2>7. /\ serving' \in [Servers -> Serving]
        /\ \A r \in Servers : serving'[r] = serving[r] \/ serving'[r] = held
    BY <2>2, <2>3 DEF TokensInv, TokensTypeOK
  <2>8. TokensTypeOK'
    BY <1>9, <2>6, <2>7 DEF MarkUsed, TokensInv, TokensTypeOK
  <2>9. UNCHANGED <<issued, doomed, origin>>
    BY <1>9 DEF MarkUsed
  <2>10. \A v \in Tokens : Stored(v)' => Stored(v) /\ rows'[v].user = rows[v].user
    BY <2>6 DEF NoRow
  <2>11. \A v \in Tokens : Stored(v)' => v \in 1 .. issued' /\ rows'[v].user \in Users
    BY <2>9, <2>10 DEF TokensInv
  <2>12. \A r \in Servers : serving'[r].at # "idle" =>
           serving'[r].token \in 1 .. issued' /\ serving'[r].data.user \in Users
    BY <2>1, <2>2, <2>7, <2>9 DEF TokensInv
  <2>13. \A v \in doomed' : ~Stored(v)'
    BY <2>8, <2>9, <2>10 DEF TokensInv, TokensTypeOK
  <2> QED
    BY <2>8, <2>9, <2>11, <2>12, <2>13 DEF TokensInv
<1>10. ASSUME NEW s \in Servers, StoreSuccessor(s) PROVE TokensInv'
  BY <1>2, <1>10 DEF StoreSuccessor, TokensInv
<1>11. ASSUME NEW s \in Servers, Abort(s) PROVE TokensInv'
  BY <1>11 DEF Abort, Become, TokensInv, TokensTypeOK
<1>12. CASE UNCHANGED tokenVars
  BY <1>12 DEF tokenVars, TokensInv, TokensTypeOK
<1> QED
  BY <1>3, <1>4, <1>5, <1>6, <1>7, <1>8, <1>9, <1>10, <1>11, <1>12 DEF TokensNext

(* A step that issues nothing: rows keep their users or go, and servers hold *)
(* what they held, or what is stored.                                        *)
LEMMA OwnersKeep ==
  ASSUME TokensInv, Owners, UNCHANGED origin,
         \A t \in Tokens : Stored(t)' => Stored(t) /\ rows'[t].user = rows[t].user,
         \A s \in Servers : serving'[s].at # "idle" =>
           \/ /\ serving[s].at # "idle" /\ serving'[s].token = serving[s].token
              /\ serving'[s].data.user = serving[s].data.user
           \/ /\ serving'[s].token \in Tokens /\ Stored(serving'[s].token)
              /\ serving'[s].data = rows[serving'[s].token]
  PROVE  Owners'
<1>1. PICK owner \in [Tokens -> Users \cup {"nobody"}] : OwnedBy(owner)
  BY DEF Owners
<1>2. \A t \in Tokens : Stored(t)' =>
        rows'[t].user = owner[t] /\ (origin'[t].from # NoToken => owner[origin'[t].from] = owner[t])
  BY <1>1 DEF OwnedBy
<1>3. \A s \in Servers : serving'[s].at # "idle" => serving'[s].data.user = owner[serving'[s].token]
  BY <1>1 DEF OwnedBy
<1> QED
  BY <1>2, <1>3 DEF Owners, OwnedBy

(* A new token is its user's, and its successors' will be.                   *)
LEMMA OwnersIssue ==
  ASSUME TokensInv, Owners, NEW s \in Servers, NEW user \in Users, NEW from \in 0 .. issued,
         Issue(s, user, from),
         \A owner \in [Tokens -> Users \cup {"nobody"}] :
           OwnedBy(owner) /\ from # NoToken => owner[from] = user
  PROVE  Owners'
<1> DEFINE new == issued + 1
<1>1. PICK owner \in [Tokens -> Users \cup {"nobody"}] : OwnedBy(owner)
  BY DEF Owners
<1>2. /\ issued \in Nat /\ new \in Tokens /\ 1 .. issued \subseteq Tokens /\ new \notin 0 .. issued
      /\ new # NoToken /\ 0 .. issued = {NoToken} \cup 1 .. issued
  BY TokensAssumption DEF Issue, TokensInv, TokensTypeOK, Tokens, NoToken
<1>3. /\ rows' = [rows EXCEPT ![new] = [user |-> user, expires |-> day + Life, used |-> FALSE]]
      /\ origin' = [origin EXCEPT ![new] = [from |-> from, server |-> s]]
      /\ serving' = [serving EXCEPT ![s] = Idle]
  BY DEF Issue, Become
<1> HIDE DEF new
<1>4. /\ rows'[new].user = user /\ origin'[new].from = from
      /\ \A t \in Tokens \ {new} : rows'[t] = rows[t] /\ origin'[t] = origin[t]
      /\ \A r \in Servers : serving'[r] = serving[r] \/ serving'[r].at = "idle"
  BY <1>2, <1>3 DEF TokensInv, TokensTypeOK, Idle
<1> DEFINE other == [owner EXCEPT ![new] = user]
<1>5. /\ other \in [Tokens -> Users \cup {"nobody"}] /\ other[new] = user
      /\ \A t \in Tokens \ {new} : other[t] = owner[t]
  BY <1>1, <1>2
<1> HIDE DEF other
<1>6. ASSUME NEW t \in Tokens, Stored(t)'
      PROVE  /\ rows'[t].user = other[t]
             /\ (origin'[t].from # NoToken => other[origin'[t].from] = other[t])
  <2>1. CASE t = new
    BY <1>1, <1>2, <1>4, <1>5, <2>1
  <2>2. CASE t # new
    <3>1. Stored(t) /\ rows'[t] = rows[t] /\ origin'[t] = origin[t] /\ other[t] = owner[t]
      BY <1>4, <1>5, <1>6, <2>2 DEF Stored, NoRow
    <3>2. origin[t].from \in 0 .. issued
      BY DEF TokensInv
    <3> QED
      BY <1>1, <1>2, <1>5, <3>1, <3>2 DEF OwnedBy
  <2> QED
    BY <2>1, <2>2
<1>7. ASSUME NEW r \in Servers, serving'[r].at # "idle"
      PROVE  serving'[r].data.user = other[serving'[r].token]
  BY <1>1, <1>2, <1>4, <1>5, <1>7 DEF OwnedBy, TokensInv
<1> QED
  BY <1>5, <1>6, <1>7 DEF Owners, OwnedBy

(* Every step keeps a token with its user.                                   *)
LEMMA OwnersNext ==
  ASSUME TokensInv, Owners, [TokensNext]_tokenVars
  PROVE  Owners'
<1> USE DEF Stored
<1>0. /\ DOMAIN rows = Tokens /\ DOMAIN serving = Servers /\ Idle.at = "idle"
      /\ 1 .. issued \subseteq Tokens
      /\ 1 .. issued \subseteq 0 .. issued /\ 0 \in 0 .. issued
  BY TokensAssumption DEF TokensInv, TokensTypeOK, Idle, Tokens
<1>1. CASE NextDay \/ UNCHANGED tokenVars
  BY <1>1, OwnersKeep DEF NextDay, tokenVars
<1>2. ASSUME NEW s \in Servers, NEW u \in Users, Login(s, u) PROVE Owners'
  BY <1>0, <1>2, OwnersIssue DEF Login, NoToken
<1>3. ASSUME NEW s \in Servers, NEW t \in Tokens, Refresh(s, t) PROVE Owners'
  <2> DEFINE held == [Idle EXCEPT !.at = "loaded", !.token = t, !.data = rows[t]]
  <2>1. held.token = t /\ held.data = rows[t]
    BY DEF Idle
  <2>2. serving' = [serving EXCEPT ![s] = held]
    BY <1>3 DEF Refresh, Become
  <2> HIDE DEF held
  <2>3. serving'[s] = held /\ \A r \in Servers \ {s} : serving'[r] = serving[r]
    BY <1>0, <2>2
  <2>4. \A r \in Servers : serving'[r].at # "idle" =>
          \/ /\ serving[r].at # "idle" /\ serving'[r].token = serving[r].token
             /\ serving'[r].data.user = serving[r].data.user
          \/ /\ serving'[r].token \in Tokens /\ Stored(serving'[r].token)
             /\ serving'[r].data = rows[serving'[r].token]
    BY <1>3, <2>1, <2>3 DEF Refresh
  <2> QED
    BY <1>3, <2>4, OwnersKeep DEF Refresh
<1>4. ASSUME NEW gone, NEW s \in Servers, Delete(gone), UNCHANGED origin,
             Become(s, Idle) \/ UNCHANGED serving
      PROVE  Owners'
  <2>1. \A t \in Tokens : rows'[t] = NoRow \/ rows'[t] = rows[t]
    BY <1>4 DEF Delete
  <2>2. \A t \in Tokens : Stored(t)' => Stored(t) /\ rows'[t].user = rows[t].user
    BY <2>1 DEF NoRow
  <2>3. \A r \in Servers : serving'[r] = serving[r] \/ serving'[r].at = "idle"
    BY <1>0, <1>4 DEF Become
  <2> QED
    BY <1>4, <2>2, <2>3, OwnersKeep
<1>5. ASSUME NEW s \in Servers, RevokeExpired(s) \/ RevokeAll(s) PROVE Owners'
  BY <1>4, <1>5 DEF RevokeExpired, RevokeAll
<1>6. ASSUME NEW s \in Servers, NEW t \in Tokens, Logout(s, t) PROVE Owners'
  BY <1>4, <1>6 DEF Logout
<1>7. ASSUME NEW s \in Servers, Abort(s) PROVE Owners'
  <2>1. \A r \in Servers : serving'[r] = serving[r] \/ serving'[r].at = "idle"
    BY <1>0, <1>7 DEF Abort, Become
  <2> QED
    BY <1>7, <2>1, OwnersKeep DEF Abort
<1>8. ASSUME NEW s \in Servers, MarkUsed(s) PROVE Owners'
  <2> DEFINE held == [serving[s] EXCEPT !.at = "marked"]
             t == serving[s].token
             used == [rows[t] EXCEPT !.used = TRUE]
  <2>1. serving[s] \in Serving /\ serving[s].at # "idle" /\ t \in Tokens /\ rows[t] \in Row
    BY <1>0, <1>8 DEF MarkUsed, Redeemable, Loaded, TokensInv, TokensTypeOK
  <2>2. held.token = t /\ held.data = serving[s].data /\ used.user = rows[t].user
    BY <2>1 DEF Serving, Row
  <2>3. /\ serving' = [serving EXCEPT ![s] = held]
        /\ rows' = IF Stored(t) THEN [rows EXCEPT ![t] = used] ELSE rows
    BY <1>8 DEF MarkUsed, Marked, Become
  <2> HIDE DEF held, used
  <2>4. serving'[s] = held /\ \A r \in Servers \ {s} : serving'[r] = serving[r]
    BY <1>0, <2>3
  <2>5. \A v \in Tokens : rows'[v].user = rows[v].user /\ (~Stored(v) => rows'[v] = rows[v])
    BY <1>0, <2>1, <2>2, <2>3
  <2>6. \A v \in Tokens : Stored(v)' => Stored(v) /\ rows'[v].user = rows[v].user
    BY <2>5 DEF NoRow
  <2>7. \A r \in Servers : serving'[r].at # "idle" =>
          /\ serving[r].at # "idle" /\ serving'[r].token = serving[r].token
          /\ serving'[r].data.user = serving[r].data.user
    BY <2>1, <2>2, <2>4
  <2> QED
    BY <1>8, <2>6, <2>7, OwnersKeep DEF MarkUsed
<1>9. ASSUME NEW s \in Servers, StoreSuccessor(s) PROVE Owners'
  <2>1. serving[s].token \in 0 .. issued /\ serving[s].data.user \in Users /\ serving[s].at # "idle"
    BY <1>0, <1>9 DEF StoreSuccessor, TokensInv
  <2> QED
    BY <1>9, <2>1, OwnersIssue DEF StoreSuccessor, OwnedBy
<1> QED
  BY <1>1, <1>2, <1>3, <1>5, <1>6, <1>7, <1>8, <1>9 DEF TokensNext

(* No token is there in the beginning.                                       *)
LEMMA TokensInitKeeps ==
  ASSUME TokensInit
  PROVE  TokensInv /\ Owners /\ FewEscape
<1>1. NoRow \in Row /\ Idle \in Serving /\ NoRow.user = "nobody" /\ Idle.at = "idle"
  BY DEF NoRow, Row, Idle, Serving
<1>2. TokensInv
  BY <1>1, TokensAssumption
     DEF TokensInit, TokensInv, TokensTypeOK, Tokens, Stored, NoToken, NoServer
<1>3. OwnedBy([t \in Tokens |-> "nobody"])
  BY <1>1 DEF TokensInit, OwnedBy, Stored
<1>4. \A u \in Users : Escaped(u) = {} /\ \A s \in Servers : ~Late(s, u)
  BY <1>1 DEF TokensInit, Escaped, Late
<1> QED
  BY <1>2, <1>3, <1>4, ServersAssumption DEF Owners, FewEscape, EscapesBut

(* No more escapes, and nobody late who was not.                             *)
LEMMA EscapesShrink ==
  ASSUME NEW u \in Users, NEW s \in Servers, EscapesBut(s, u), Escaped(u)' \subseteq Escaped(u),
         \A t \in Escaped(u)' : origin'[t] = origin[t],
         \A r \in Servers : Late(r, u)' => Late(r, u)
  PROVE  EscapesBut(s, u)'
BY DEF EscapesBut

(* Nothing is issued and nothing reused.                                     *)
LEMMA EscapesFrame ==
  ASSUME TokensInv, FewEscape, UNCHANGED <<origin, doomed>>,
         \A t \in Tokens : rows'[t].user \in {rows[t].user, "nobody"},
         \A s \in Servers : serving'[s].at # "idle" =>
           \/ /\ serving[s].at # "idle" /\ serving'[s].token = serving[s].token
              /\ serving'[s].data.user = serving[s].data.user
           \/ serving'[s].token \in Tokens /\ Stored(serving'[s].token)
  PROVE  FewEscape'
<1> SUFFICES ASSUME NEW u \in Users PROVE \E s \in Servers : EscapesBut(s, u)'
  BY DEF FewEscape
<1>1. PICK s \in Servers : EscapesBut(s, u)
  BY DEF FewEscape
<1>2. u # "nobody" /\ \A t \in doomed : ~Stored(t)
  BY TokensAssumption DEF TokensInv
<1>3. Escaped(u)' \subseteq Escaped(u)
  BY <1>2 DEF Escaped, Family
<1>4. \A r \in Servers : Late(r, u)' => Late(r, u)
  BY <1>2 DEF Late
<1> QED
  BY <1>1, <1>3, <1>4, EscapesShrink

(* A successor that is stored late is the only one of its server, which is   *)
(* late no more.                                                             *)
LEMMA EscapesIssue ==
  ASSUME TokensInv, FewEscape, NEW s \in Servers, NEW user \in Users, NEW from \in 0 .. issued,
         Issue(s, user, from),
         from \in doomed => Late(s, user)
  PROVE  FewEscape'
<1> DEFINE new == issued + 1
<1>1. /\ issued \in Nat /\ new \in Tokens /\ 1 .. issued \subseteq Tokens /\ new \notin doomed
      /\ doomed' = doomed /\ DOMAIN rows = Tokens /\ DOMAIN origin = Tokens
      /\ DOMAIN serving = Servers
  BY TokensAssumption DEF Issue, TokensInv, TokensTypeOK, Tokens
<1>2. /\ rows' = [rows EXCEPT ![new] = [user |-> user, expires |-> day + Life, used |-> FALSE]]
      /\ origin' = [origin EXCEPT ![new] = [from |-> from, server |-> s]]
      /\ serving' = [serving EXCEPT ![s] = Idle]
  BY DEF Issue, Become
<1> HIDE DEF new
<1>3. /\ rows'[new].user = user /\ origin'[new].from = from /\ origin'[new].server = s
      /\ \A t \in Tokens \ {new} : rows'[t] = rows[t] /\ origin'[t] = origin[t]
      /\ serving'[s].at = "idle" /\ \A r \in Servers \ {s} : serving'[r] = serving[r]
  BY <1>1, <1>2 DEF Idle
<1>4. ASSUME NEW u \in Users PROVE \E r \in Servers : EscapesBut(r, u)'
  <2>1. PICK r \in Servers : EscapesBut(r, u)
    BY DEF FewEscape
  <2>2. \A x \in Servers : Late(x, u)' => Late(x, u) /\ x # s
    BY <1>1, <1>3 DEF Late
  <2>3. \A t \in Escaped(u)' : t # new => t \in Escaped(u) /\ origin'[t] = origin[t]
    BY <1>1, <1>3 DEF Escaped, Family
  <2>4. CASE new \in Escaped(u)'
    <3>1. user = u /\ from \in doomed
      BY <1>1, <1>3, <2>4 DEF Escaped, Family
    <3>2. Late(s, u)
      BY <3>1
    <3>3. r # s /\ \A t \in Escaped(u) : origin[t].server # s
      BY <2>1, <3>2 DEF EscapesBut
    <3>4. ~Late(r, u)'
      BY <2>1, <2>2 DEF EscapesBut
    <3>5. (\A t \in Escaped(u) : origin[t].server \in Servers \ {r} /\ ~Late(origin[t].server, u))'
      <4> SUFFICES ASSUME NEW t \in Escaped(u)'
                   PROVE  (origin[t].server \in Servers \ {r} /\ ~Late(origin[t].server, u))'
        OBVIOUS
      <4>1. CASE t = new
        <5>1. origin'[t].server = s
          BY <1>3, <4>1
        <5>2. ~Late(s, u)'
          BY <2>2
        <5> QED
          BY <3>3, <5>1, <5>2 DEF Late
      <4>2. CASE t # new
        <5>1. /\ origin'[t] = origin[t] /\ origin[t].server \in Servers \ {r}
              /\ ~Late(origin[t].server, u)
          BY <2>1, <2>3, <4>2 DEF EscapesBut
        <5>2. ~Late(origin[t].server, u)'
          BY <2>2, <5>1 DEF Late
        <5> QED
          BY <5>1, <5>2 DEF Late
      <4> QED
        BY <4>1, <4>2
    <3>6. \A t, v \in Escaped(u)' : origin'[t].server = origin'[v].server => t = v
      BY <1>3, <2>1, <2>3, <3>3 DEF EscapesBut
    <3> QED
      BY <3>4, <3>5, <3>6 DEF EscapesBut
  <2>5. CASE new \notin Escaped(u)'
    <3>1. Escaped(u)' \subseteq Escaped(u) /\ \A t \in Escaped(u)' : origin'[t] = origin[t]
      BY <2>3, <2>5
    <3> QED
      BY <2>1, <2>2, <3>1, EscapesShrink
  <2> QED
    BY <2>4, <2>5
<1> QED
  BY <1>4 DEF FewEscape

(* A reuse leaves nothing of its user, and no other user's tokens go.        *)
LEMMA EscapesReuse ==
  ASSUME TokensInv, Owners, FewEscape, NEW s \in Servers, RevokeAll(s)
  PROVE  FewEscape'
<1>1. serving[s].data.user \in Users
  BY DEF RevokeAll, Loaded, TokensInv
<1>2. PICK w \in Users : w = serving[s].data.user
  BY <1>1
<1> DEFINE gone == Family(w) \cup {serving[s].token}
<1>3. PICK owner \in [Tokens -> Users \cup {"nobody"}] : OwnedBy(owner)
  BY DEF Owners
<1>4. /\ serving[s].at # "idle" /\ serving[s].token \in Tokens /\ "nobody" \notin Users
      /\ NoRow.user = "nobody" /\ DOMAIN serving = Servers /\ Idle.at = "idle"
  BY TokensAssumption DEF RevokeAll, Loaded, TokensInv, TokensTypeOK, Idle, NoRow, Tokens
<1>5. /\ rows' = [t \in Tokens |-> IF t \in Family(w) THEN NoRow ELSE rows[t]]
      /\ doomed' = doomed \cup gone /\ origin' = origin
      /\ serving'[s] = Idle /\ \A r \in Servers \ {s} : serving'[r] = serving[r]
  BY <1>2, <1>4 DEF RevokeAll, Delete, Become
<1>6. \A t \in gone : owner[t] = w
  BY <1>3, <1>2, <1>4 DEF OwnedBy, Family, Stored
<1> HIDE DEF gone
<1>7. ASSUME NEW u \in Users, u # w PROVE \E r \in Servers : EscapesBut(r, u)'
  <2>1. PICK r \in Servers : EscapesBut(r, u)
    BY DEF FewEscape
  <2>2. \A t \in Tokens : rows'[t].user = u => rows[t].user = u /\ Stored(t) /\ owner[t] = u
    BY <1>3, <1>4, <1>5 DEF OwnedBy, Stored
  <2>3. \A t \in Tokens : Stored(t) => origin[t].from \notin gone \/ owner[t] = w
    <3>1. \A t \in gone : t # NoToken
      BY <1>4 DEF gone, Family, Tokens, NoToken
    <3> QED
      BY <1>3, <1>6, <3>1 DEF OwnedBy
  <2>4. Escaped(u)' \subseteq Escaped(u)
    <3> SUFFICES ASSUME NEW t \in Tokens, rows'[t].user = u, origin'[t].from \in doomed'
                 PROVE  rows[t].user = u /\ origin[t].from \in doomed
      BY DEF Escaped, Family
    <3> QED
      BY <1>5, <1>7, <2>2, <2>3
  <2>5. \A x \in Servers : Late(x, u)' => Late(x, u)
    <3> SUFFICES ASSUME NEW x \in Servers, Late(x, u)' PROVE Late(x, u)
      OBVIOUS
    <3>1. x # s /\ serving'[x] = serving[x]
      BY <1>4, <1>5 DEF Late
    <3>2. /\ serving[x].at # "idle" /\ serving[x].data.user = u
          /\ serving[x].token \in doomed \cup gone
      BY <1>5, <3>1 DEF Late
    <3>3. serving[x].token \notin gone
      BY <1>3, <1>6, <1>7, <3>2 DEF OwnedBy
    <3> QED
      BY <3>2, <3>3 DEF Late
  <2> QED
    BY <1>5, <2>1, <2>4, <2>5, EscapesShrink
<1>8. EscapesBut(s, w)'
  <2>1. Escaped(w)' = {}
    <3>1. \A t \in Tokens : rows'[t].user # w
      BY <1>4, <1>5 DEF Family
    <3> QED
      BY <3>1 DEF Escaped, Family
  <2>2. ~Late(s, w)'
    BY <1>4, <1>5 DEF Late
  <2> QED
    BY <2>1, <2>2 DEF EscapesBut
<1> QED
  BY <1>7, <1>8 DEF FewEscape

(* Every step leaves few escapes.                                            *)
LEMMA FewEscapeNext ==
  ASSUME TokensInv, Owners, FewEscape, [TokensNext]_tokenVars
  PROVE  FewEscape'
<1>0. /\ DOMAIN rows = Tokens /\ DOMAIN serving = Servers /\ Idle.at = "idle"
      /\ 1 .. issued \subseteq Tokens
      /\ 1 .. issued \subseteq 0 .. issued /\ 0 \in 0 .. issued /\ 0 \notin doomed
      /\ NoRow.user = "nobody"
  BY TokensAssumption DEF TokensInv, TokensTypeOK, Idle, NoRow, Tokens
<1>1. CASE NextDay \/ UNCHANGED tokenVars
  BY <1>1, EscapesFrame DEF NextDay, tokenVars
<1>2. ASSUME NEW s \in Servers, NEW u \in Users, Login(s, u) PROVE FewEscape'
  BY <1>0, <1>2, EscapesIssue DEF Login, NoToken
<1>3. ASSUME NEW s \in Servers, NEW t \in Tokens, Refresh(s, t) PROVE FewEscape'
  <2> DEFINE held == [Idle EXCEPT !.at = "loaded", !.token = t, !.data = rows[t]]
  <2>1. held.token = t
    BY DEF Idle
  <2>2. serving' = [serving EXCEPT ![s] = held]
    BY <1>3 DEF Refresh, Become
  <2> HIDE DEF held
  <2>3. serving'[s] = held /\ \A r \in Servers \ {s} : serving'[r] = serving[r]
    BY <1>0, <2>2
  <2>4. \A r \in Servers : serving'[r] = serving[r]
                           \/ (serving'[r].token \in Tokens /\ Stored(serving'[r].token))
    BY <1>3, <2>1, <2>3 DEF Refresh
  <2> QED
    BY <1>3, <2>4, EscapesFrame DEF Refresh
<1>4. ASSUME NEW gone, NEW s \in Servers, Delete(gone), UNCHANGED <<origin, doomed>>,
             Become(s, Idle) \/ UNCHANGED serving
      PROVE  FewEscape'
  <2>1. \A t \in Tokens : rows'[t].user \in {rows[t].user, "nobody"}
    BY <1>0, <1>4 DEF Delete
  <2>2. \A r \in Servers : serving'[r] = serving[r] \/ serving'[r].at = "idle"
    BY <1>0, <1>4 DEF Become
  <2> QED
    BY <1>4, <2>1, <2>2, EscapesFrame
<1>5. ASSUME NEW s \in Servers, RevokeExpired(s) PROVE FewEscape'
  BY <1>4, <1>5 DEF RevokeExpired
<1>6. ASSUME NEW s \in Servers, NEW t \in Tokens, Logout(s, t) PROVE FewEscape'
  BY <1>4, <1>6 DEF Logout
<1>7. ASSUME NEW s \in Servers, Abort(s) PROVE FewEscape'
  <2>1. \A r \in Servers : serving'[r] = serving[r] \/ serving'[r].at = "idle"
    BY <1>0, <1>7 DEF Abort, Become
  <2> QED
    BY <1>7, <2>1, EscapesFrame DEF Abort
<1>8. ASSUME NEW s \in Servers, MarkUsed(s) PROVE FewEscape'
  <2> DEFINE held == [serving[s] EXCEPT !.at = "marked"]
             t == serving[s].token
             used == [rows[t] EXCEPT !.used = TRUE]
  <2>1. serving[s] \in Serving /\ serving[s].at # "idle" /\ t \in Tokens /\ rows[t] \in Row
    BY <1>0, <1>8 DEF MarkUsed, Redeemable, Loaded, TokensInv, TokensTypeOK
  <2>2. held.token = t /\ held.data = serving[s].data /\ used.user = rows[t].user
    BY <2>1 DEF Serving, Row
  <2>3. /\ serving' = [serving EXCEPT ![s] = held]
        /\ rows' = IF Stored(t) THEN [rows EXCEPT ![t] = used] ELSE rows
    BY <1>8 DEF MarkUsed, Marked, Become
  <2> HIDE DEF held, used
  <2>4. serving'[s] = held /\ \A r \in Servers \ {s} : serving'[r] = serving[r]
    BY <1>0, <2>3
  <2>5. \A v \in Tokens : rows'[v].user = rows[v].user
    BY <1>0, <2>1, <2>2, <2>3
  <2>6. \A r \in Servers : serving'[r].at # "idle" =>
          /\ serving[r].at # "idle" /\ serving'[r].token = serving[r].token
          /\ serving'[r].data.user = serving[r].data.user
    BY <2>1, <2>2, <2>4
  <2> QED
    BY <1>8, <2>5, <2>6, EscapesFrame DEF MarkUsed
<1>9. ASSUME NEW s \in Servers, StoreSuccessor(s) PROVE FewEscape'
  <2>1. serving[s].token \in 0 .. issued /\ serving[s].data.user \in Users /\ serving[s].at # "idle"
    BY <1>0, <1>9 DEF StoreSuccessor, TokensInv
  <2> QED
    BY <1>9, <2>1, EscapesIssue DEF StoreSuccessor, Late
<1>10. ASSUME NEW s \in Servers, RevokeAll(s) PROVE FewEscape'
  BY <1>10, EscapesReuse
<1> QED
  BY <1>1, <1>2, <1>3, <1>5, <1>6, <1>7, <1>8, <1>9, <1>10 DEF TokensNext

(* As many escapes as servers but one.                                       *)
LEMMA EscapesCounted ==
  ASSUME NEW u \in Users, NEW s \in Servers, EscapesBut(s, u)
  PROVE  Cardinality(Escaped(u)) <= Cardinality(Servers) - 1
<1> DEFINE f == [t \in Escaped(u) |-> origin[t].server]
           Others == Servers \ {s}
<1>1. IsFiniteSet(Others) /\ Cardinality(Others) = Cardinality(Servers) - 1
  BY ServersAssumption, FS_RemoveElement
<1>2. f \in Injection(Escaped(u), Others)
  BY DEF EscapesBut, Injection, IsInjective
<1> QED
  BY <1>1, <1>2, FS_Injection, FS_CardinalityType

(* TokensTypeCorrect: rows, copies of rows and tokens are always of their    *)
(* kinds, whatever servers do at the same time and wherever a handler ends.  *)
THEOREM TokensTypeCorrect == TokensSpec => []TokensTypeOK
<1>1. TokensInit => TokensInv /\ Owners
  BY TokensAssumption, TokensInitKeeps
<1>2. TokensInv /\ Owners /\ [TokensNext]_tokenVars => TokensInv' /\ Owners'
  BY TokensInvNext, OwnersNext
<1>3. TokensInv => TokensTypeOK
  BY DEF TokensInv
<1> QED
  BY <1>1, <1>2, <1>3, PTL DEF TokensSpec

(* ReuseCaught: once rotate_refresh_token finds a token used, what is left of *)
(* the sessions of its user is at most one successor of each other server,    *)
(* stored by a rotation that had passed the test before.                     *)
THEOREM ReuseCaught == TokensSpec => []ReuseEndsSessions
<1>1. TokensInit => TokensInv /\ Owners /\ FewEscape
  BY TokensInitKeeps
<1>2. TokensInv /\ Owners /\ FewEscape /\ [TokensNext]_tokenVars
        => TokensInv' /\ Owners' /\ FewEscape'
  BY TokensInvNext, OwnersNext, FewEscapeNext
<1>3. FewEscape => ReuseEndsSessions
  BY EscapesCounted DEF FewEscape, ReuseEndsSessions
<1> QED
  BY <1>1, <1>2, <1>3, PTL DEF TokensSpec
=============================================================================
