---------------------------- MODULE MCCompletion ----------------------------
(* A reservation form with something to fill in, its filled-in form, and the *)
(* forms it may turn into: a free one, or one with an optional agreement    *)
(* checked.                                                                  *)
EXTENDS CompletionDispatch

MCFacts ==
  [f \in Fingerprints |->
     [amount    |-> IF f = "free" THEN 0 ELSE 1,
      empty     |-> IF f = "empty" THEN 1 ELSE 0,
      unchecked |-> IF f \in {"empty", "unchecked"} THEN 1 ELSE 0,
      optional  |-> IF f = "marketing" THEN 1 ELSE 0]]
=============================================================================
