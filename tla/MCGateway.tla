------------------------------ MODULE MCGateway ------------------------------
(***************************************************************************)
(* Small instances of Gateway: prompts, their similarity and the prices.   *)
(* "pii" is a prompt with an e-mail address, "masked" what redaction makes *)
(* of it.  Prompts a, b and c are similar one to the next, not a to c.     *)
(* Prompt a is a short question, b and c are so long and plain questions   *)
(* that their score is the bound of the premium provider.                  *)
(***************************************************************************)
EXTENDS Gateway, TLC

RequestSymmetry == Permutations(Request)

MCRedacted == [p \in Prompt |-> IF p = "pii" THEN "masked" ELSE p]
MCPII == Prompt \cap {"pii"}

MCLooks ==
    [p \in Prompt |-> IF p \in {"b", "c"}
                      THEN [tokens |-> 600, code |-> FALSE, question |-> TRUE]
                      ELSE [tokens |-> 12, code |-> FALSE, question |-> TRUE]]

Neighbours == {<<"a", "b">>, <<"b", "a">>, <<"b", "c">>, <<"c", "b">>}
MCSimilarity == [pq \in Prompt \X Prompt |->
                    IF pq[1] = pq[2] THEN 2 ELSE IF pq \in Neighbours THEN 1 ELSE 0]

(* A whole answer of either mock costs as much as the budget.              *)
MCPrice == [m \in Model |-> 1]
==============================================================================
