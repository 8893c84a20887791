-------------------------------- MODULE MCRows -------------------------------
(***************************************************************************)
(* A mission that two queue rows ask for (MissionExecution), and beside it *)
(* the commands that measure a finished one, review it and archive it      *)
(* (ProductEvidence).  They share no state here: a behaviour is of one     *)
(* world, and the other component rests.                                   *)
(***************************************************************************)
EXTENDS MCMissionExecution, ProductEvidence

VARIABLE world

EvidenceWorlds == {"experiments", "missions"}

MCInit ==
  /\ world \in {"rows", "experiments", "missions"}
  /\ Init /\ EvidenceInit
  /\ world # "experiments" => due = 0
  /\ world # "missions" => \A m \in Missions : passes[m]

(* Experiments and missions are reviewed in worlds of their own. *)
EvidenceSplit ==
  /\ world = "experiments" =>
       passes' = passes /\ broken' = broken /\ \A a \in Commands : command'[a].step # "shown"
  /\ world = "missions" =>
       \A a \in Commands : command'[a].step \in {"idle", "shown", "rechecked"}

MCNext ==
  /\ \/ world = "rows" /\ Next /\ UNCHANGED evidenceVars
     \/ world \in EvidenceWorlds /\ EvidenceNext /\ EvidenceSplit /\ UNCHANGED vars
  /\ UNCHANGED world

MCSpec == MCInit /\ [][MCNext]_<<vars, evidenceVars, world>>
==============================================================================
