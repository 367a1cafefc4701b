-------------------------- MODULE CollectLifecycle --------------------------
(***************************************************************************)
(* How a collect process starts, serves and stops: runCollect in           *)
(* cmd/aiebom/main.go, with one or two servers over one receiver.  Several *)
(* processes may be started on the same graph file and the same addresses, *)
(* a successor before its predecessor has ended if Overlap says so.        *)
(*                                                                         *)
(* A request is an export of some evidence.  Its handler merges it, writes *)
(* the graph file and answers (module Receiver has the details).  A        *)
(* process that ends takes its handlers with it, wherever they are.        *)
(***************************************************************************)
EXTENDS Naturals, FiniteSets

CONSTANTS
  Processes,   \* collect processes, each started at most once
  Requests,    \* export requests, each sent at most once
  Transports,  \* the servers that are enabled
  Overlap,     \* TRUE if a process may be started while another one runs
  MaxFailures, \* bound: servers that fail in a behaviour
  Nobody       \* no process

ASSUME LifecycleAssumption ==
  /\ Transports \subseteq {"http", "grpc"} /\ Transports # {}
  /\ Overlap \in BOOLEAN
  /\ MaxFailures \in Nat
  /\ Nobody \notin Processes

VARIABLES
  main,       \* per process: where runCollect is
  signalled,  \* processes that were told to stop
  expired,    \* processes whose shutdownContext has expired
  errors,     \* per process: the servers whose error is in errorsChannel
  port,       \* per transport: the process that listens
  memory,     \* per process: the requests merged in its graph
  file,       \* the requests in the graph file
  request     \* per request: how far it is, and which server of whom has it

vars == <<main, signalled, expired, errors, port, memory, file, request>>

Draining == {"drainHTTP", "drainGRPC"}
Ended == {"stopped", "failed"}
Alive(p) == main[p] \notin Ended \cup {"absent"}

Unsent == [stage |-> "unsent", by |-> Nobody, over |-> "none"]
InFlight == {"open", "merged", "written"}
Sent == [stage : InFlight \cup {"answered", "cut"},
         by : Processes, over : Transports]
HandledBy(p) == {r \in Requests : request[r].by = p /\ request[r].stage \in InFlight}
Over(t) == {r \in Requests : request[r].over = t}
Advance(r, stage) == request' = [request EXCEPT ![r].stage = stage]
Move(p, stage) == main' = [main EXCEPT ![p] = stage]

Init ==
  /\ main = [p \in Processes |-> "absent"]
  /\ signalled = {} /\ expired = {}
  /\ errors = [p \in Processes |-> {}]
  /\ port = [t \in Transports |-> Nobody]
  /\ memory = [p \in Processes |-> {}]
  /\ file = {}
  /\ request = [r \in Requests |-> Unsent]

\* runCollect returns: the process is gone, its listeners and handlers with it.
Exit(p, outcome) ==
  /\ Move(p, outcome)
  /\ port' = [t \in Transports |-> IF port[t] = p THEN Nobody ELSE port[t]]
  /\ request' = [r \in Requests |->
                   IF r \in HandledBy(p)
                   THEN [request[r] EXCEPT !.stage = "cut"] ELSE request[r]]

-----------------------------------------------------------------------------
(***************************************************************************)
(* Starting.                                                               *)
(***************************************************************************)

\* Mutant: a receiver begins with an empty graph.
NewEmpty(p) ==
  /\ main[p] = "absent"
  /\ Overlap \/ \A q \in Processes : ~Alive(q)
  /\ Move(p, "created")
  /\ UNCHANGED <<memory, signalled, expired, errors, port, file, request>>

\* collector.New loads the graph file, before any listener is bound.
New(p) ==
  /\ main[p] = "absent"
  /\ Overlap \/ \A q \in Processes : ~Alive(q)
  /\ memory' = [memory EXCEPT ![p] = file]
  /\ Move(p, "created")
  /\ UNCHANGED <<signalled, expired, errors, port, file, request>>

\* net.Listen for a server that is enabled.  An address in use is an error, and
\* there are others.
Listen(p, t, before, after) ==
  /\ main[p] = before
  /\ \/ /\ t \notin Transports
        /\ Move(p, after)
        /\ UNCHANGED <<port, request>>
     \/ /\ t \in Transports /\ port[t] = Nobody
        /\ port' = [port EXCEPT ![t] = p]
        /\ Move(p, after)
        /\ UNCHANGED request
     \/ /\ t \in Transports
        /\ Exit(p, "failed")
  /\ UNCHANGED <<signalled, expired, errors, memory, file>>

ListenHTTP(p) == Listen(p, "http", "created", "listening")
ListenGRPC(p) == Listen(p, "grpc", "listening", "serving")

\* SIGINT or SIGTERM.  Until signal.NotifyContext the default action ends the
\* process.
Signal(p) ==
  /\ Alive(p) /\ p \notin signalled
  /\ signalled' = signalled \cup {p}
  /\ IF main[p] \in {"created", "listening"} THEN Exit(p, "failed")
     ELSE UNCHANGED <<main, port, request>>
  /\ UNCHANGED <<expired, errors, memory, file>>

-----------------------------------------------------------------------------
(***************************************************************************)
(* Serving.                                                                *)
(***************************************************************************)

\* A server has a listener from the start until it fails or is told to stop: the
\* gRPC server goes on accepting while the HTTP server drains.
Arrive(p, t, r) ==
  /\ request[r] = Unsent
  /\ main[p] \in {"serving", "drainHTTP"} /\ port[t] = p
  /\ request' = [request EXCEPT ![r] = [stage |-> "open", by |-> p, over |-> t]]
  /\ UNCHANGED <<main, signalled, expired, errors, port, memory, file>>

\* acceptBound, with the mutex held until the file is written.
Merge(r) ==
  LET p == request[r].by IN
  /\ request[r].stage = "open"
  /\ \A q \in HandledBy(p) : request[q].stage # "merged"
  /\ memory' = [memory EXCEPT ![p] = @ \cup {r}]
  /\ Advance(r, "merged")
  /\ UNCHANGED <<main, signalled, expired, errors, port, file>>

Persist(r) ==
  /\ request[r].stage = "merged"
  /\ file' = memory[request[r].by]
  /\ Advance(r, "written")
  /\ UNCHANGED <<main, signalled, expired, errors, port, memory>>

Answer(r) ==
  /\ request[r].stage = "written"
  /\ Advance(r, "answered")
  /\ UNCHANGED <<main, signalled, expired, errors, port, memory, file>>

\* Serve returns an error and its goroutine reports it.
ServeFails(p, t) ==
  /\ main[p] \in {"serving", "drainHTTP"} /\ port[t] = p
  /\ Cardinality({f \in Processes \X Transports : f[2] \in errors[f[1]]})
       < MaxFailures
  /\ errors' = [errors EXCEPT ![p] = @ \cup {t}]
  /\ port' = [port EXCEPT ![t] = Nobody]
  /\ UNCHANGED <<main, signalled, expired, memory, file, request>>

-----------------------------------------------------------------------------
(***************************************************************************)
(* Stopping.                                                               *)
(***************************************************************************)

\* The select of runCollect: an error closes both servers at once.
TakeError(p) ==
  /\ main[p] = "serving" /\ errors[p] # {}
  /\ Exit(p, "failed")
  /\ UNCHANGED <<signalled, expired, errors, memory, file>>

\* Closing a listener that may have failed before.
Close(p, t) ==
  port' = [u \in Transports |-> IF u = t /\ port[u] = p THEN Nobody ELSE port[u]]

\* ... and a signal begins the shutdown, HTTP first.
TakeSignal(p) ==
  /\ main[p] = "serving" /\ p \in signalled
  /\ Move(p, "drainHTTP")
  /\ Close(p, "http")
  /\ UNCHANGED <<signalled, expired, errors, memory, file, request>>

\* Mutant: Close where the code says Shutdown.
HTTPClosed(p) ==
  /\ main[p] = "drainHTTP"
  /\ Move(p, "drainGRPC")
  /\ Close(p, "grpc")
  /\ UNCHANGED <<signalled, expired, errors, memory, file, request>>

\* httpServer.Shutdown returns when no request is in flight; GracefulStop begins.
HTTPDrained(p) ==
  /\ main[p] = "drainHTTP"
  /\ HandledBy(p) \cap Over("http") = {}
  /\ Move(p, "drainGRPC")
  /\ Close(p, "grpc")
  /\ UNCHANGED <<signalled, expired, errors, memory, file, request>>

\* GracefulStop returns, and runCollect without an error.
GRPCDrained(p) ==
  /\ main[p] = "drainGRPC"
  /\ HandledBy(p) \cap Over("grpc") = {}
  /\ Exit(p, "stopped")
  /\ UNCHANGED <<signalled, expired, errors, memory, file>>

\* Ten seconds after the signal was taken, for both servers together.
Expire(p) ==
  /\ main[p] \in Draining /\ p \notin expired
  /\ expired' = expired \cup {p}
  /\ UNCHANGED <<main, signalled, errors, port, memory, file, request>>

\* Mutant: GracefulStop is waited for without the context.
GiveUpHTTP(p) ==
  /\ main[p] = "drainHTTP" /\ p \in expired
  /\ Exit(p, "failed")
  /\ UNCHANGED <<signalled, expired, errors, memory, file>>

GiveUp(p) ==
  /\ main[p] \in Draining /\ p \in expired
  /\ Exit(p, "failed")
  /\ UNCHANGED <<signalled, expired, errors, memory, file>>

\* What the process does by itself, whatever its handlers do.
Run(p) ==
  \/ ListenHTTP(p) \/ ListenGRPC(p)
  \/ TakeError(p) \/ TakeSignal(p)
  \/ HTTPDrained(p) \/ GRPCDrained(p)
  \/ Expire(p) \/ GiveUp(p)

Next ==
  \/ \E p \in Processes :
       \/ New(p) \/ Signal(p) \/ Run(p)
       \/ \E t \in Transports :
            ServeFails(p, t) \/ \E r \in Requests : Arrive(p, t, r)
  \/ \E r \in Requests : Merge(r) \/ Persist(r) \/ Answer(r)

Spec == Init /\ [][Next]_vars

\* The goroutine of runCollect and its timer run.  Handlers need not: a client may
\* be slow, or a disk.
FairSpec == Spec /\ \A p \in Processes : WF_vars(Run(p))
-----------------------------------------------------------------------------
(***************************************************************************)
(* Properties.                                                             *)
(***************************************************************************)

\* Types of the state; a request has a handler if and only if it was sent.
TypeOK ==
  /\ main \in [Processes -> {"absent", "created", "listening", "serving"}
                              \cup Draining \cup Ended]
  /\ signalled \subseteq Processes /\ expired \subseteq Processes
  /\ errors \in [Processes -> SUBSET Transports]
  /\ port \in [Transports -> Processes \cup {Nobody}]
  /\ memory \in [Processes -> SUBSET Requests]
  /\ file \subseteq Requests
  /\ request \in [Requests -> {Unsent} \cup Sent]

\* A process that says "collector stopped" has answered every request it let in,
\* also those the gRPC server took while the HTTP server drained (CHANGELOG.md,
\* "Graceful dual-server startup and shutdown").
OrderlyStopAnswersAll ==
  \A p \in Processes, r \in Requests :
    main[p] = "stopped" /\ request[r].by = p => request[r].stage = "answered"

\* Evidence that was acknowledged is in the graph file, whatever processes came
\* and went since (RUNTIME_RECEIVER.md, "evidence history continues after
\* restart").
HistoryContinues ==
  \A r \in Requests : request[r].stage = "answered" => r \in file

\* A process that was told to stop, or whose server failed, ends: no handler, no
\* client and no other server can hold it up for good.
ProcessEnds ==
  \A p \in Processes :
    (p \in signalled \/ errors[p] # {}) ~> main[p] \in Ended
=============================================================================
