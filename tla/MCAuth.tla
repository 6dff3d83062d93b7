------------------------------- MODULE MCAuth -------------------------------
(* Overlapping requests of the backend's auth module: two of a parent's     *)
(* one-time code, or two of one member's sessions while refresh tokens are  *)
(* presented one at a time.                                                 *)
EXTENDS MCParentCodes, AuthOverlap

CONSTANT s
OwnAddress == [a \in {s} |-> "own"]

VARIABLE coding       \* which of the two runs

session == <<status, password, holder, revoked, expired2, rotatedTo, from, ended,
             linkFor, purpose, consumed2, late, spent, req2>>

MCInit ==
  /\ coding \in BOOLEAN
  /\ Init
  /\ Overlapping!Init /\ (coding => status[s] = "Active" /\ password = {})
MCNext ==
  /\ UNCHANGED coding
  /\ \/ coding /\ Next /\ UNCHANGED session
     \/ ~coding /\ Overlapping!Next /\ UNCHANGED vars
MCSpec == MCInit /\ [][MCNext]_<<coding, vars, session>>

Alike == Interchangeable \cup Permutations(Token) \cup Permutations(Link)
=============================================================================
