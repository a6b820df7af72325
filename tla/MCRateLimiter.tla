--------------------------- MODULE MCRateLimiter ---------------------------
(* Values for TLC of the constants of RateLimiter.                           *)
EXTENDS RateLimiter

CONSTANTS login, signup, submit, open

Limits == [k \in Keys |-> CASE k = login -> 2 [] k = signup -> 1 [] k = submit -> 1 [] OTHER -> 0]
Windows == [k \in Keys |-> CASE k = login -> 3 [] k = signup -> 2 [] k = submit -> 5 [] OTHER -> 2]

Times == [e \in Events |-> CASE e = "call" -> 4 [] e = "restart" -> 1 [] e = "timeout" -> 1]
=============================================================================
