----------------------------- MODULE JwksCache -----------------------------
(***************************************************************************)
(* The signing keys of an identity provider, as an API process caches them *)
(* (core/auth/opsorchestra.py, and core/auth/external_oidc.py, which       *)
(* delegates to it).  Verification is synchronous code on the event loop:  *)
(* a process verifies one token at a time, and sleeps and waits in it.     *)
(* The provider withdraws and publishes keys at any moment, also between   *)
(* the moment it writes an answer and the moment the process reads it.     *)
(***************************************************************************)
EXTENDS Integers, FiniteSets, Deployment

CONSTANTS
  Kids,     \* key ids
  TTL,      \* jwks_cache_ttl_seconds
  LastTick  \* bound: the clock stops here

VARIABLES
  tick,       \* time.time()
  published,  \* the keys the provider signs with
  seen,       \* history: the last moment at which each key was published
  cached,     \* _jwks_cache, by key id
  cachedAt,   \* _jwks_cache_updated_at
  check       \* the verification under way, or the last one and its verdict

jwksVars == <<tick, published, seen, cached, cachedAt, check>>

NoKid == "no kid"

ASSUME JwksAssumption ==
  IsFiniteSet(Kids) /\ NoKid \notin Kids /\ TTL \in Nat /\ LastTick \in Nat

Never == -TTL - 1  \* _jwks_cache_updated_at starts at 0.0, long before any time.time()

\* kid: of the token; key: it was accepted with; force, attempt, asked, reply: of the refresh
\* under way; present, absent: keys that were (not) published meanwhile.
Check ==
  [at : {"done", "asking", "reading"}, verdict : {"none", "accepted", "unknown", "unavailable"},
   kid : Kids \cup {NoKid}, key : Kids \cup {NoKid}, force : BOOLEAN, attempt : 0 .. MaxRetries,
   asked : Int, reply : SUBSET Kids, present : SUBSET Kids, absent : SUBSET Kids]

JwksInit ==
  /\ tick = 0
  /\ published \in SUBSET Kids
  /\ seen = [k \in Kids |-> IF k \in published THEN 0 ELSE Never]
  /\ cached = {}
  /\ cachedAt = Never
  /\ check = [at |-> "done", verdict |-> "none", kid |-> NoKid, key |-> NoKid, force |-> FALSE,
              attempt |-> 0, asked |-> 0, reply |-> {}, present |-> {}, absent |-> {}]

-----------------------------------------------------------------------------
(* The clock and the provider *)

SecondPasses ==
  /\ tick < LastTick
  /\ tick' = tick + 1
  /\ seen' = [k \in Kids |-> IF k \in published THEN tick + 1 ELSE seen[k]]
  /\ UNCHANGED <<published, cached, cachedAt, check>>

Rotate ==
  /\ \E keys \in SUBSET Kids \ {published} :
       /\ published' = keys
       /\ seen' = [k \in Kids |-> IF k \in keys THEN tick ELSE seen[k]]
       /\ check' = IF check.at = "done" THEN check
                    ELSE [check EXCEPT !.present = @ \cup keys, !.absent = @ \cup (Kids \ keys)]
  /\ UNCHANGED <<tick, cached, cachedAt>>

-----------------------------------------------------------------------------
(* _public_key_for_token and _refresh_jwks_cache *)

Fresh == cached # {} /\ tick - cachedAt < TTL

Fetch(c, force) ==
  [c EXCEPT !.at = "asking", !.force = force, !.attempt = 0, !.asked = tick]

End(c, verdict, key) == [c EXCEPT !.at = "done", !.verdict = verdict, !.key = key]

\* Mutant: a key id that the cache lacks is refused at once.
LookupCachedOnly(c, keys) ==
  IF c.kid = NoKid
    THEN IF Cardinality(keys) = 1 THEN End(c, "accepted", CHOOSE k \in keys : TRUE)
                                  ELSE End(c, "unknown", NoKid)
    ELSE IF c.kid \in keys THEN End(c, "accepted", c.kid) ELSE End(c, "unknown", NoKid)

\* What follows a refresh: the key is there, or the set is fetched once more,
\* or the token is refused.  A token without a kid is never worth a second fetch.
Lookup(c, keys) ==
  CASE c.kid = NoKid /\ Cardinality(keys) = 1 -> End(c, "accepted", CHOOSE k \in keys : TRUE)
    [] c.kid \in keys                         -> End(c, "accepted", c.kid)
    [] c.kid \in Kids \ keys /\ ~c.force      -> Fetch(c, TRUE)
    [] OTHER                                  -> End(c, "unknown", NoKid)

Verify ==
  /\ check.at = "done"
  /\ \E kid \in Kids \cup {NoKid} :
       LET c == [check EXCEPT !.kid = kid, !.verdict = "none", !.key = NoKid, !.force = FALSE,
                              !.present = published, !.absent = Kids \ published]
       IN  check' = IF Fresh THEN Lookup(c, cached) ELSE Fetch(c, FALSE)
  /\ UNCHANGED <<tick, published, seen, cached, cachedAt>>

\* httpx.get reaches the provider, which answers with what it publishes then.
Get ==
  /\ check.at = "asking"
  /\ check' = [check EXCEPT !.at = "reading", !.reply = published]
  /\ UNCHANGED <<tick, published, seen, cached, cachedAt>>

\* Mutant: one attempt too many.
RetryOnceMore(c) == c.attempt <= MaxRetries

MayRetry(c) == c.attempt < MaxRetries

\* One of the listed transport errors, or a retryable status; and sleep.
Retry ==
  /\ check.at = "reading" /\ MayRetry(check)
  /\ check' = [check EXCEPT !.at = "asking", !.attempt = @ + 1]
  /\ UNCHANGED <<tick, published, seen, cached, cachedAt>>

\* The last attempt, another error or status, or a body that is no key set:
\* the request is answered 503 (500 for an unlisted transport error).
GiveUp ==
  /\ check.at = "reading"
  /\ check' = End(check, "unavailable", NoKid)
  /\ UNCHANGED <<tick, published, seen, cached, cachedAt>>

\* Mutant: the age of the cache is counted from the moment the answer is read.
ReplaceReadNow ==
  /\ check.at = "reading" /\ check.reply # {}
  /\ cached' = check.reply
  /\ cachedAt' = tick
  /\ check' = Lookup(check, check.reply)
  /\ UNCHANGED <<tick, published, seen>>

\* The age of the cache counts from before the first attempt.
Replace ==
  /\ check.at = "reading" /\ check.reply # {}
  /\ cached' = check.reply
  /\ cachedAt' = check.asked
  /\ check' = Lookup(check, check.reply)
  /\ UNCHANGED <<tick, published, seen>>

JwksNext == SecondPasses \/ Rotate \/ Verify \/ Get \/ Retry \/ GiveUp \/ Replace

JwksSpec == JwksInit /\ [][JwksNext]_jwksVars

-----------------------------------------------------------------------------
(* Properties *)

(* JwksTypeOK: the cache, the provider and the verification are of their     *)
(* kinds; the process, which serves nobody else meanwhile, asks at most      *)
(* MaxRetries + 1 times in a refresh.                                        *)
JwksTypeOK ==
  /\ tick \in 0 .. LastTick
  /\ published \in SUBSET Kids
  /\ seen \in [Kids -> Int]
  /\ cached \in SUBSET Kids
  /\ cachedAt \in Int
  /\ check \in Check

(* WithdrawnKeyRefused: a token is accepted with a key only if the provider  *)
(* published that key while the token was verified, or less than the time to *)
(* live before: however long the refresh took, and whatever was withdrawn    *)
(* between the provider's answer and its arrival.                            *)
AcceptsLiveKey ==
  (check' # check /\ check'.at = "done" /\ check'.verdict = "accepted")
    => (check'.key \in check'.present \/ tick - seen[check'.key] < TTL)

WithdrawnKeyRefused == [][AcceptsLiveKey]_jwksVars

(* KnownKeyServed: a token is refused for an unknown key id only if the      *)
(* provider did not publish the key at some moment of the verification; a    *)
(* stale cache alone refuses nobody.                                         *)
KnownKeyServed ==
  check.verdict = "unknown" /\ check.kid # NoKid => check.kid \in check.absent
=============================================================================
