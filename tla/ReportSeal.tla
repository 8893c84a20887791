----------------------------- MODULE ReportSeal -----------------------------
(***************************************************************************)
(* What report finalization promises, without files, transactions, leases  *)
(* or crashes: a report is promised before anybody can see it, it becomes  *)
(* visible whole, and a visible report is never withdrawn: it gets sealed, *)
(* once, as the very report that was promised.                             *)
(* ReportFinalization implements this module (its RS instance).            *)
(***************************************************************************)
CONSTANTS Reports,    \* the reports a mission might produce
          None

VARIABLES promised,   \* the report journalled for this mission, or None
          visible,    \* the report a reader of the outputs directory finds
          sealed      \* the report the mission is complete with, or None

rsVars == <<promised, visible, sealed>>

Init == promised = None /\ visible = None /\ sealed = None

Promise(r) ==
  /\ promised = None /\ visible = None /\ sealed = None
  /\ promised' = r
  /\ UNCHANGED <<visible, sealed>>

Publish ==
  /\ promised # None /\ visible = None
  /\ visible' = promised
  /\ UNCHANGED <<promised, sealed>>

Withdraw ==
  /\ promised # None /\ visible = None
  /\ promised' = None
  /\ UNCHANGED <<visible, sealed>>

Seal ==
  /\ promised # None /\ visible = promised
  /\ sealed' = promised /\ promised' = None
  /\ UNCHANGED visible

Next == (\E r \in Reports : Promise(r)) \/ Publish \/ Withdraw \/ Seal

Spec == Init /\ [][Next]_rsVars
=============================================================================
