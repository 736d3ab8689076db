------------------------------- MODULE Routing -------------------------------
(***************************************************************************)
(* Which provider a request goes to: decide_route and select_premium       *)
(* (src/app/gateway/router.py) and the fallback chain of the registry      *)
(* (src/app/providers/__init__.py), as pure operators.  Fallback.tla walks *)
(* the chain, Gateway.tla decides the route.                               *)
(***************************************************************************)
EXTENDS Naturals, Sequences

CONSTANT Model          \* the ids in the provider registry

ASSUME ModelAssumption == {"mock-small", "mock-large"} \subseteq Model

------------------------------------------------------------------------------
(* ProviderRegistry.fallback_chain.  decide_route only picks registered     *)
(* models and the two mocks are always registered, so the loops' test for   *)
(* an unregistered provider never succeeds.                                 *)
FallbackChain(primary) ==
    IF primary = "mock-large" THEN <<primary, "mock-small">>
    ELSE IF primary = "mock-small" THEN <<primary, "mock-large">>
    ELSE <<primary, "mock-large", "mock-small">>

Hops(primary) == Len(FallbackChain(primary))

(* select_premium: mock-large is always there, so it never returns None.    *)
SelectPremium ==
    IF "openai" \in Model THEN "openai"
    ELSE IF "anthropic" \in Model THEN "anthropic"
    ELSE IF "ollama" \in Model THEN "ollama"
    ELSE "mock-large"

Decision(model, reason) == [model |-> model, reason |-> reason]

(* decide_route for a request that asks for a model, or for "auto", with a  *)
(* prompt of some complexity.  Over budget in "reject" mode there is no     *)
(* decision: the request is refused instead.                                *)
DecideRoute(asked, level, withinBudget) ==
    IF ~withinBudget THEN Decision("mock-small", "budget_downgrade")
    ELSE IF asked # "auto"
         THEN IF asked \in Model THEN Decision(asked, "explicit_model")
              ELSE Decision("mock-small", "unknown_model_fallback")
    ELSE IF level = "simple" THEN Decision("mock-small", "simple_prompt")
    ELSE IF level = "complex" THEN Decision(SelectPremium, "complex_prompt")
    ELSE Decision("mock-large", "moderate_prompt")
==============================================================================
