----------------------------- MODULE LifeCycle ------------------------------
(***************************************************************************)
(* A process of the service from start to end: main, NewConnections,       *)
(* Application.Start and Shutdown, Connections.Close.  Several processes   *)
(* run side by side, and whoever runs them starts them again.              *)
(*                                                                         *)
(* HTTP requests are counted only; what they do is in the other modules.   *)
(***************************************************************************)
EXTENDS Naturals

CONSTANTS
    Procs,          \* processes of the service
    MaxInFlight,    \* how many requests each process is given at a time
    MaxStops        \* signals, crashes and rebalances, together

ASSUME InFlightAssumption == MaxInFlight \in [Procs -> Nat]
ASSUME StopsAssumption == MaxStops \in Nat

VARIABLES
    phase,          \* where main is
    conns,          \* the open connections
    inflight,       \* requests being served
    late,           \* the ten seconds for Shutdown are over
    stops           \* what has been spent of MaxStops

life == <<phase, conns, inflight, late, stops>>

AllConns == {"scylla", "redis", "kafka"}

Phases == {"down", "serving", "stopping", "closing"}

LifeInit ==
    /\ phase = [p \in Procs |-> "down"]
    /\ conns = [p \in Procs |-> {}]
    /\ inflight = [p \in Procs |-> 0]
    /\ late = [p \in Procs |-> FALSE]
    /\ stops = 0

-----------------------------------------------------------------------------
Goto(p, next) == phase' = [phase EXCEPT ![p] = next]

\* The process is gone, and with it all its goroutines.
Gone(p) ==
    /\ Goto(p, "down")
    /\ conns' = [conns EXCEPT ![p] = {}]
    /\ inflight' = [inflight EXCEPT ![p] = 0]
    /\ late' = [late EXCEPT ![p] = FALSE]

Spend == stops < MaxStops /\ stops' = stops + 1

\* main up to the wait for a signal: configuration, logger, NewConnections, which
\* opens everything or ends the process (and then nothing has happened here), and
\* Start, which starts the goroutines.
Start(p) ==
    /\ phase[p] = "down"
    /\ Goto(p, "serving")
    /\ conns' = [conns EXCEPT ![p] = AllConns]
    /\ UNCHANGED <<inflight, late, stops>>

\* A listener that fails (os.Exit(1)), or any other sudden end.
Crash(p) ==
    /\ phase[p] # "down"
    /\ Spend
    /\ Gone(p)

\* The HTTP server takes a request, and has answered one.
Accept(p) ==
    /\ phase[p] = "serving"
    /\ inflight[p] < MaxInFlight[p]
    /\ inflight' = [inflight EXCEPT ![p] = @ + 1]
    /\ UNCHANGED <<phase, conns, late, stops>>

Respond(p) ==
    /\ inflight[p] > 0
    /\ inflight' = [inflight EXCEPT ![p] = @ - 1]
    /\ UNCHANGED <<phase, conns, late, stops>>

\* SIGINT or SIGTERM: cancel, and HTTPServer.Shutdown stops listening.
Signal(p) ==
    /\ phase[p] = "serving"
    /\ Spend
    /\ Goto(p, "stopping")
    /\ UNCHANGED <<conns, inflight, late>>

\* shutdownCtx expires while requests are being served.
Deadline(p) ==
    /\ phase[p] = "stopping"
    /\ inflight[p] > 0 /\ ~late[p]
    /\ late' = [late EXCEPT ![p] = TRUE]
    /\ UNCHANGED <<phase, conns, inflight, stops>>

CloseKafka_First(p) ==               \* mutant: Kafka closed before the requests end
    /\ phase[p] = "stopping"
    /\ conns' = [conns EXCEPT ![p] = @ \ {"kafka"}]
    /\ Goto(p, "closing")
    /\ UNCHANGED <<inflight, late, stops>>

CloseKafka_NoDeadline(p) ==          \* mutant: Shutdown given a context without end
    /\ phase[p] = "stopping"
    /\ inflight[p] = 0
    /\ conns' = [conns EXCEPT ![p] = @ \ {"kafka"}]
    /\ Goto(p, "closing")
    /\ UNCHANGED <<inflight, late, stops>>

\* HTTPServer.Shutdown returns when nobody is being served or at the deadline,
\* and Kafka is closed.  The consumer is not waited for.
CloseKafka(p) ==
    /\ phase[p] = "stopping"
    /\ inflight[p] = 0 \/ late[p]
    /\ conns' = [conns EXCEPT ![p] = @ \ {"kafka"}]
    /\ Goto(p, "closing")
    /\ UNCHANGED <<inflight, late, stops>>

\* Connections.Close, deferred in main, and the end of main.  Requests that were
\* not waited for end with it.
Exit(p) ==
    /\ phase[p] = "closing"
    /\ Gone(p)
    /\ UNCHANGED stops

-----------------------------------------------------------------------------
(* Properties *)

\* Every variable stays in its domain.
LifeTypeOK ==
    /\ phase \in [Procs -> Phases]
    /\ conns \in [Procs -> SUBSET AllConns]
    /\ \A p \in Procs : inflight[p] \in 0..MaxInFlight[p]
    /\ late \in [Procs -> BOOLEAN]
    /\ stops \in 0..MaxStops

\* "Graceful shutdown": a request that is being served finds every connection
\* open, from the first request to the last, unless the ten seconds that
\* Shutdown waits are over.
ServedOpen ==
    \A p \in Procs : (inflight[p] > 0 /\ ~late[p]) => conns[p] = AllConns

\* A process that was told to stop ends, however long its requests take and
\* whatever its consumer is doing.
StopEnds == \A p \in Procs : phase[p] = "stopping" ~> phase[p] = "down"

=============================================================================
