----------------------------- MODULE Deployment -----------------------------
(***************************************************************************)
(* What the services around the assessments are deployed with.             *)
(***************************************************************************)
EXTENDS Naturals

CONSTANTS
  Servers,    \* API processes; they share the database and nothing else
  MaxRetries  \* opsorchestra_http_max_retries, of signing keys and of deliveries

ASSUME RetriesAssumption == MaxRetries \in Nat
=============================================================================
