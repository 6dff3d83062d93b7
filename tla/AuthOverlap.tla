---------------------------- MODULE AuthOverlap ----------------------------
(***************************************************************************)
(* The two halves of the backend's auth module whose requests overlap: the  *)
(* parents' one-time codes, and, of a state of their own, the sessions      *)
(* while no two requests in flight present one refresh token and no         *)
(* statement fails.                                                         *)
(***************************************************************************)
EXTENDS ParentCodes

CONSTANTS Member, Family, Address, Token, Link, None

VARIABLES
  status, password, holder, revoked, expired2, rotatedTo, from, ended,
  linkFor, purpose, consumed2, late, spent, req2

Overlapping == INSTANCE Sessions WITH
  Staff <- Member, Portal <- Family, Email <- Address,
  SharedTokens <- FALSE, Failures <- FALSE,
  expired <- expired2, consumed <- consumed2, req <- req2

(* API.md: every refresh rotates the token; no token is exchanged twice, and *)
(* one exchanged for a live one is revoked, or about to be.                 *)
ExchangedOnce == Overlapping!ExchangedOnce
=============================================================================
