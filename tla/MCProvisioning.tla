--------------------------- MODULE MCProvisioning ---------------------------
(* The operator's scripts, with a history of the repairs made by hand while *)
(* no script runs.                                                          *)
EXTENDS Provisioning

VARIABLE
  repaired       \* clients whose failed migration was resolved by hand, and
                 \* whose version has not been recorded since

MCInit == Init /\ repaired = {}
Resolved(c) == db[c] # None /\ db[c].failed /\ db'[c] # None /\ ~db'[c].failed
MCNext ==
  /\ \/ Release
     \/ \E s \in Script : ScriptStep(s)
     \/ (\A s \in Script : script[s] = None) /\ \E c \in Client : ByHand(c)
  /\ repaired' = {c \in Client : registry'[c] = registry[c] /\ (c \in repaired \/ Resolved(c))}
MCSpec == MCInit /\ [][MCNext]_<<vars, repaired>>

-----------------------------------------------------------------------------
(* The script takes its next client, and finds it up to date. *)
FindsUpToDate(s, c) ==
  /\ At(s, "next") /\ At(s, "next")'
  /\ c \in script[s].todo /\ c \notin script'[s].todo
  /\ Connects(c, script[s].copy[c].password) /\ ~db[c].failed /\ db[c].version = release

(* Rerunning clients:migrate on a client whose migration was repaired by    *)
(* hand records its new version: once the rerun is done with a client that  *)
(* is up to date, the registry and the database agree.                      *)
RerunRecords ==
  [][\A s \in Script, c \in repaired :
       FindsUpToDate(s, c) => registry'[c].version = db[c].version]_<<vars, repaired>>
=============================================================================
