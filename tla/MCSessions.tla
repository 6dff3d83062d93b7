----------------------------- MODULE MCSessions -----------------------------
(* Constants for model-checking Sessions: who shares an e-mail address. *)
EXTENDS Sessions, TLC

(* A parent and a staff member with one address. *)
OneAddress == [a \in Account |-> "shared"]
OwnAddress == [a \in Account |-> a]

(* Tokens, links and requests are interchangeable. *)
Interchangeable == Permutations(Token) \cup Permutations(Link) \cup Permutations(Request)

(* What decides the rest of a behaviour with one request at a time: neither *)
(* the chain of exchanges nor what happened to a token or link that is dead, *)
(* which is all that a request that found reuse has read.                  *)
Ahead ==
  <<accounts, holder, revoked, expired \ revoked,
    [t \in Token |-> IF Live(t) THEN ended[t] ELSE {}],
    linkFor, purpose, consumed, late \ consumed, spent,
    [q \in Request |-> IF req[q].pc = "reusing" THEN [req[q] EXCEPT !.ended = {}] ELSE req[q]]>>
=============================================================================
