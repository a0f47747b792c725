---- MODULE MCAsk ----
(***************************************************************************)
(* A small instance of Ask: a contract may expire early with a renewal,    *)
(* later without one, or have no expiration.                               *)
(***************************************************************************)
EXTENDS Ask, TLC

CONSTANTS c1, c2, t1, k1, k2

Fact(expiration, renewal) == [expiration |-> expiration, renewal |-> renewal]

MCUpserted ==
  {Fact([iso |-> 0, text |-> t1], t1), Fact([iso |-> 2, text |-> t1], NoFact),
   Fact(NoFact, t1)}

\* The reranker turns the order of the search around.
MCContractOf == (k1 :> c1) @@ (k2 :> c2)
MCFused == (k1 :> 2) @@ (k2 :> 1)
MCCross == (k1 :> 1) @@ (k2 :> 2)

Question(expiry, renewal, days, scope, topK) ==
  [expiry |-> expiry, renewal |-> renewal, days |-> days, scope |-> scope,
   topK |-> topK]

MCQuestions ==
  {Question(TRUE, FALSE, 1, NoScope, 2), Question(TRUE, TRUE, 0, c1, 1),
   Question(TRUE, FALSE, Overflow, NoScope, 1),
   Question(FALSE, FALSE, NoDays, c2, 1), Question(FALSE, TRUE, NoDays, NoScope, 2)}

====
