------------------------------ MODULE MCWebhook ------------------------------
(* The two ways into the daemon, one per behaviour: signed requests at the     *)
(* webhook receiver, or calls of its API.                                      *)
EXTENDS Webhook, ApiPath, TLC

VARIABLES kind

\* Both names hold words that mapError looks for, those of a protected key among them.
SmallWords == [n \in Names |-> IF n = Edge THEN {"edge"} ELSE {"stack", "authenticated"}]

EitherInit ==
  /\ Init /\ CallInit
  /\ \/ kind = "api"
     \/ kind = "webhook" /\ res = "config" /\ \A n \in Names : rows[n] = "absent"
WebhookStep == kind = "webhook" /\ Next /\ UNCHANGED <<kind, callVars>>
ApiStep     == kind = "api" /\ CallNext /\ UNCHANGED <<kind, vars>>
EitherNext  == WebhookStep \/ ApiStep
EitherSpec  == EitherInit /\ [][EitherNext]_<<kind, vars, callVars>>

Symmetry == Permutations(Requests) \union Permutations(Secrets) \union Permutations(Callers)
=============================================================================
