----------------------------- MODULE ServiceLife -----------------------------
(***************************************************************************)
(* What `service start' and `service stop' promise, without commands, pids,*)
(* ports, health checks or the lifecycle lock: services live, one file     *)
(* names one of them, and neither gets ahead of the other.  A service      *)
(* begins only while the named one does not run, only the named one is     *)
(* told to shut down, its name makes room for another's only once it is    *)
(* gone, and what the file says it became is what became of it.            *)
(* ServiceSupervisor implements this module (its Life instance).           *)
(***************************************************************************)
CONSTANTS Ids,       \* identities of launched services
          Null,      \* the identity of a service that could not be identified
          Exclusive  \* is a service begun only while none runs?

VARIABLES life,      \* where each service is in its life
          record     \* the service the file names, and what it says of it

vars == <<life, record>>

Says == {"starting", "running", "cleanup_failed", "stopped", "failed"}

Nobody == [id |-> Null, status |-> "none"]

Init == life = [i \in Ids |-> "gone"] /\ record = Nobody

Runs(i) == i \in Ids /\ life[i] # "gone"

Becomes(i, from, to) == life[i] \in from /\ life' = [life EXCEPT ![i] = to]

Launch(i) ==
  /\ i # record.id /\ ~Runs(record.id)
  /\ Exclusive => \A j \in Ids : ~Runs(j)
  /\ Becomes(i, {"gone"}, "booting")
  /\ UNCHANGED record

\* Only one service can have the port.
Serve(i) ==
  /\ \A j \in Ids : life[j] \notin {"serving", "closing"}
  /\ Becomes(i, {"booting"}, "serving")
  /\ UNCHANGED record

Close(i) ==
  /\ i = record.id
  /\ Becomes(i, {"serving"}, "closing")
  /\ UNCHANGED record

End(i) == Becomes(i, {"booting", "serving", "closing"}, "gone") /\ UNCHANGED record

\* A service that has not been identified is known by its pid only.
Write(i, status) ==
  /\ record' = [id |-> i, status |-> status]
  /\ i # record.id => ~Runs(record.id)
  /\ status = "running" => i \in Ids /\ life[i] # "booting"
  /\ status \in {"stopped", "failed"} => i = record.id /\ ~Runs(i)
  /\ i = Null => status = "cleanup_failed"
  /\ UNCHANGED life

Next ==
  \/ \E i \in Ids : Launch(i) \/ Serve(i) \/ Close(i) \/ End(i)
  \/ \E i \in Ids \cup {Null}, status \in Says : Write(i, status)

Spec == Init /\ [][Next]_vars
==============================================================================
