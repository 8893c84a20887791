--------------------------- MODULE DashboardWorker ---------------------------
(***************************************************************************)
(* The queue worker inside one dashboard process (dashboard.py,            *)
(* LocalQueueWorker and the stop handler): requests are handled by threads *)
(* of their own, a mission runs in a thread that outlives its request, and *)
(* one lock that is never waited for keeps missions apart and keeps them   *)
(* from a shutdown. What a claim and an execution do to the queue is in    *)
(* MissionExecution; here a row is claimed, settled, or left pending.      *)
(***************************************************************************)
EXTENDS Naturals, FiniteSets

CONSTANTS
  Handlers,        \* threads that handle requests
  Rows,            \* rows of the mission queue
  AbandonMayFail,  \* may giving a claim back fail (a locked database, a full disk)?
  Null

VARIABLES
  locked,  \* _run_lock
  shown,   \* _state["status"]; the ways of ending are one
  row,     \* the queue as far as this process has to do with it
  thread,  \* the mission thread of each row, and how far it is
  h,       \* the local variables of each handler
  server   \* is it serving, told to shut down, or has serve_forever returned?

workerVars == <<locked, shown, row, thread, h, server>>

RowStatus  == {"queued", "claimed", "settled", "pending"}
ThreadPc   == {"none", "execute", "show", "release"}
HandlerPc  == {"idle", "begin", "claim", "launch", "abandon", "show_failed",
               "release", "answer"}
Handler    == [pc : HandlerPc, row : Rows \cup {Null}]
IdleHandler == [pc |-> "idle", row |-> Null]

WorkerInit ==
  /\ locked = FALSE /\ shown = "idle" /\ server = "serving"
  /\ row = [q \in Rows |-> "queued"]
  /\ thread = [q \in Rows |-> "none"]
  /\ h = [x \in Handlers |-> IdleHandler]

HandlerAt(x, s)   == h[x].pc = s
GoTo(x, s) == h' = [h EXCEPT ![x].pc = s]

Done(x)    == h' = [h EXCEPT ![x] = IdleHandler]

----------------------------------------------------------------------------
\* POST /queue/run-next: start(q). Requests are taken in until serve_forever
\* has returned.
TryStart(x, q) ==
  /\ HandlerAt(x, "idle") /\ server # "closed" /\ ~locked
  /\ locked' = TRUE
  /\ h' = [h EXCEPT ![x] = [pc |-> "begin", row |-> q]]
  /\ UNCHANGED <<shown, row, thread, server>>

ShowRunning(x) ==
  /\ HandlerAt(x, "begin")
  /\ shown' = "running" /\ GoTo(x, "claim")
  /\ UNCHANGED <<locked, row, thread, server>>

\* Mutant: a refused claim only releases the lock.
ClaimSilently(x) ==
  /\ HandlerAt(x, "claim")
  /\ \/ /\ row[h[x].row] = "queued"
        /\ row' = [row EXCEPT ![h[x].row] = "claimed"] /\ GoTo(x, "launch")
     \/ GoTo(x, "release") /\ UNCHANGED row
  /\ UNCHANGED <<locked, shown, thread, server>>

\* claim_next_queue_item takes the reviewed row or raises.
Claim(x) ==
  /\ HandlerAt(x, "claim")
  /\ \/ /\ row[h[x].row] = "queued"
        /\ row' = [row EXCEPT ![h[x].row] = "claimed"] /\ GoTo(x, "launch")
     \/ GoTo(x, "show_failed") /\ UNCHANGED row
  /\ UNCHANGED <<locked, shown, thread, server>>

\* Mutant: a claim that got no thread is not given back.
LaunchForgetting(x) ==
  /\ HandlerAt(x, "launch")
  /\ \/ thread' = [thread EXCEPT ![h[x].row] = "execute"] /\ Done(x)
     \/ GoTo(x, "show_failed") /\ UNCHANGED thread
  /\ UNCHANGED <<locked, shown, row, server>>

\* Thread.start: the mission has a thread, or there is none to be had.
Launch(x) ==
  /\ HandlerAt(x, "launch")
  /\ \/ thread' = [thread EXCEPT ![h[x].row] = "execute"] /\ Done(x)
     \/ GoTo(x, "abandon") /\ UNCHANGED thread
  /\ UNCHANGED <<locked, shown, row, server>>

Abandon(x) ==
  /\ HandlerAt(x, "abandon")
  /\ \/ row' = [row EXCEPT ![h[x].row] = "settled"] /\ GoTo(x, "show_failed")
     \/ AbandonMayFail /\ GoTo(x, "release") /\ UNCHANGED row
  /\ UNCHANGED <<locked, shown, thread, server>>

ShowFailed(x) ==
  /\ HandlerAt(x, "show_failed")
  /\ shown' = "ended" /\ GoTo(x, "release")
  /\ UNCHANGED <<locked, row, thread, server>>

Release(x) ==
  /\ HandlerAt(x, "release")
  /\ locked' = FALSE /\ Done(x)
  /\ UNCHANGED <<shown, row, thread, server>>

----------------------------------------------------------------------------
\* The mission's thread: _run. An execution whose report is sealed but not yet
\* evaluated leaves its row pending.
ExecuteMission(q) ==
  /\ thread[q] = "execute"
  /\ row' \in {[row EXCEPT ![q] = "settled"], [row EXCEPT ![q] = "pending"]}
  /\ thread' = [thread EXCEPT ![q] = "show"]
  /\ UNCHANGED <<locked, shown, h, server>>

ShowOutcome(q) ==
  /\ thread[q] = "show"
  /\ shown' = "ended" /\ thread' = [thread EXCEPT ![q] = "release"]
  /\ UNCHANGED <<locked, row, h, server>>

EndThread(q) ==
  /\ thread[q] = "release"
  /\ locked' = FALSE /\ thread' = [thread EXCEPT ![q] = "none"]
  /\ UNCHANGED <<shown, row, h, server>>

----------------------------------------------------------------------------
\* POST /__service/stop with the service's token and instance
Reserve(x) ==
  /\ HandlerAt(x, "idle") /\ server # "closed" /\ ~locked
  /\ locked' = TRUE /\ GoTo(x, "answer")
  /\ UNCHANGED <<shown, row, thread, server>>

\* Mutant: the reservation ends with the request (a finally in its handler).
AnswerReleasing(x) ==
  /\ HandlerAt(x, "answer")
  /\ locked' = FALSE /\ Done(x) /\ server' \in {server, "stopping"}
  /\ UNCHANGED <<shown, row, thread>>

\* 202 is sent and the shutdown begins, or the client is gone (or there is no
\* thread for the shutdown) and the reservation is cancelled.
Answer(x) ==
  /\ HandlerAt(x, "answer")
  /\ \/ server' = "stopping" /\ Done(x) /\ UNCHANGED locked
     \/ locked' = FALSE /\ Done(x) /\ UNCHANGED server
  /\ UNCHANGED <<shown, row, thread>>

\* serve_forever returns; the process goes once the mission threads, which are
\* no daemons, have ended. Handlers are daemons and are not waited for.
Close ==
  /\ server = "stopping" /\ server' = "closed"
  /\ UNCHANGED <<locked, shown, row, thread, h>>

\* This process executes a row, or is about to, or is to give it back.
Holds(x, q) == h[x].row = q /\ h[x].pc \in {"launch", "abandon"}
Held(q)     == thread[q] = "execute" \/ \E x \in Handlers : Holds(x, q)

\* Another command requeues a row: recovery of one that nobody executes, reset.
Requeue(q) ==
  /\ row[q] # "queued" /\ ~Held(q)
  /\ row' = [row EXCEPT ![q] = "queued"]
  /\ UNCHANGED <<locked, shown, thread, h, server>>

Handle(x) ==
  \/ ShowRunning(x) \/ Claim(x) \/ Launch(x) \/ Abandon(x) \/ ShowFailed(x)
  \/ Release(x) \/ Answer(x)

Run(q) == ExecuteMission(q) \/ ShowOutcome(q) \/ EndThread(q)

WorkerNext ==
  \/ \E x \in Handlers : Handle(x) \/ Reserve(x) \/ \E q \in Rows : TryStart(x, q)
  \/ \E q \in Rows : Run(q) \/ Requeue(q)
  \/ Close

WorkerSpec == WorkerInit /\ [][WorkerNext]_workerVars

\* A request that is being handled and a mission that runs go on.
WorkerFairness ==
  /\ \A x \in Handlers : WF_workerVars(Handle(x))
  /\ \A q \in Rows : WF_workerVars(Run(q))

FairSpec == WorkerSpec /\ WorkerFairness

----------------------------------------------------------------------------
\* Every variable has its type, and a handler has a row while it starts one.
WorkerTypeOK ==
  /\ locked \in BOOLEAN /\ shown \in {"idle", "running", "ended"}
  /\ server \in {"serving", "stopping", "closed"}
  /\ row \in [Rows -> RowStatus] /\ thread \in [Rows -> ThreadPc]
  /\ h \in [Handlers -> Handler]
  /\ \A x \in Handlers : h[x].pc \notin {"idle", "answer"} => h[x].row \in Rows

\* "Shutdown atomically excludes new mission starts" (docs/OPERATIONS.md:1046):
\* once a shutdown is accepted no mission runs or is on its way to, and none
\* ever will be, for the reservation is never given up.
ShutdownExcludesMissions ==
  server # "serving" =>
    /\ locked
    /\ \A q \in Rows : thread[q] = "none"
    /\ \A x \in Handlers : h[x].pc = "idle"

\* One mission at a time: a mission has the lock to itself, from the request
\* that starts it to the end of its thread.
OneMission ==
  /\ \A q, r \in Rows : thread[q] # "none" /\ thread[r] # "none" => q = r
  /\ \A q \in Rows, x \in Handlers : thread[q] # "none" => h[x].pc = "idle"

\* A row this process claimed is executed or given back, whatever fails, as long
\* as giving it back works.
ClaimsAreHeld ==
  ~AbandonMayFail => \A q \in Rows : row[q] = "claimed" => Held(q)

\* What the dashboard shows while a mission executes is never the end of an
\* earlier one: readiness checks and the run button go by it.
ShownWhileRunning ==
  \A q \in Rows : thread[q] = "execute" => shown = "running"

\* "Dashboard worker is already running: wait for its status to leave running"
\* (OPERATOR.md:128), as long as there is a dashboard to look at.
StatusLeavesRunning ==
  shown = "running" ~> shown # "running" \/ server = "closed"
=============================================================================
