------------------------------ MODULE Process ------------------------------
(***************************************************************************)
(* The process (cmd/api/main.go, setup.go): set-up step by step, serving,  *)
(* and the shutdown that closes what was set up in reverse order, beside   *)
(* the requests and goroutines of the service.  The volume feature closes  *)
(* first, before the HTTP server: handlers are still at work then.         *)
(***************************************************************************)
EXTENDS HttpController, Backoff, SequencesExt

CONSTANTS
    RetryPolicies,  \* the settings VOLUME_RETRY_* the process may be started with
    MaxSleeps       \* bound: sleeps of a policy looked at

ASSUME RetryPoliciesAssumption ==
    RetryPolicies \subseteq RetryPolicy /\ \E p \in RetryPolicies : Valid(p)
ASSUME MaxSleepsAssumption == MaxSleeps \in Nat

VARIABLES
    main,       \* what main is doing
    setup,      \* set-up steps done
    closers,    \* the resources registered to be closed, in order
    open,       \* the resources that are open
    wait,       \* the wait for the goroutines in VolumeFeature.Close
    server,     \* the HTTP server
    following,  \* the handler of some event stream is at work
    stop,       \* a termination signal has come
    expired     \* the shutdown has taken its 10 seconds

mainVars    == <<main, setup, closers, open, wait, server, following, stop, expired>>
processVars == <<httpVars, mainVars>>

Resources == {"tracer", "meter", "pool", "backend", "http", "feature"}

SetupSteps ==
    <<"configuration", "logger", "observability", "database", "migrations",
      "storage backend", "http server", "volume feature">>

ProcessTypeOK ==
    /\ HttpTypeOK
    /\ main \in {"setup", "serve", "close", "exit", "panic"}
    /\ setup \in 0..Len(SetupSteps)
    /\ closers \in Seq(Resources)
    /\ open = Range(closers)
    /\ wait \in {"none", "waiting", "released", "returned"}
    /\ server \in {"off", "on", "failed", "down"}
    /\ following \in BOOLEAN
    /\ stop \in BOOLEAN
    /\ expired \in BOOLEAN

ProcessInit ==
    /\ HttpInit
    /\ main = "setup"
    /\ setup = 0
    /\ closers = <<>>
    /\ open = {}
    /\ wait = "none"
    /\ server = "off"
    /\ following = FALSE
    /\ stop = FALSE
    /\ expired = FALSE

Alive == main \notin {"exit", "panic"}

\* A step that neither a request nor a goroutine of the service takes.
NothingServed == answer' = Silent /\ UNCHANGED <<vars, exchange>>

-----------------------------------------------------------------------------
(* Setup. *)

\* The resources a step opens, in order.
Opens(step) ==
    CASE step = "observability"                 -> <<"tracer", "meter">>
      [] step = "database" /\ Repo = "postgres" -> <<"pool">>
      [] step = "storage backend"               -> <<"backend">>
      [] step = "http server"                   -> <<"http">>
      [] step = "volume feature"                -> <<"feature">>
      [] OTHER                                  -> <<>>

\* Faulty: the telemetry is registered when the tracer and the meter are there.
RegisterLate(opened) == IF opened = <<"tracer">> THEN closers ELSE closers \o opened

\* Each resource is registered as soon as it is open.
Register(opened) == closers \o opened

\* A step done; with the last one main serves.
SetupStep ==
    /\ main = "setup"
    /\ LET step == SetupSteps[setup + 1]
       IN /\ step = "configuration" => \E p \in RetryPolicies : Valid(p)
          /\ open' = open \cup Range(Opens(step))
          /\ closers' = Register(Opens(step))
    /\ setup' = setup + 1
    /\ main' = IF setup' = Len(SetupSteps) THEN "serve" ELSE "setup"
    /\ server' = IF setup' = Len(SetupSteps) THEN "on" ELSE "off"
    /\ NothingServed /\ UNCHANGED <<wait, following, stop, expired>>

\* Steps that may report an error.  The observability step may have opened and
\* registered the tracer by then.
MayFail(step) ==
    \/ step = "configuration" /\ \E p \in RetryPolicies : ~Valid(p)
    \/ step = "observability"
    \/ step \in {"database", "migrations"} /\ Repo = "postgres"
    \/ step = "storage backend" /\ Kind = "ceph"

SetupFails ==
    /\ main = "setup"
    /\ MayFail(SetupSteps[setup + 1])
    /\ \E opened \in {<<>>, <<"tracer">>} :
          /\ IsPrefix(opened, Opens(SetupSteps[setup + 1]))
          /\ open' = open \cup Range(opened)
          /\ closers' = Register(opened)
    /\ main' = "close"
    /\ NothingServed /\ UNCHANGED <<setup, wait, server, following, stop, expired>>

-----------------------------------------------------------------------------
(* Serving. *)

\* The counter of the feature's WaitGroup is zero.
NoneCounted == \A t \in Tasks : ~Worker(t)

\* A request that passes its handler's checks reaches the server, which serves
\* until http.Server.Shutdown.
Request ==
    /\ Alive
    /\ server \in {"on", "failed"}
    /\ \E t \in Tasks, op \in Ops, n \in Names, node \in Nodes \cup {NoNode} :
            Receive(t, op, n, node)
    /\ UNCHANGED mainVars

\* A signal ends the contexts of all requests: the FSM and Postgres refuse what a
\* handler asks from then on.  The audit row is lost quietly, the backend is asked
\* without a context.  (A call that is cut returns once Close has come as far.)
ContextHeeded(t) ==
    /\ stop /\ exchange[t].pc = "app" =>
           \/ task'[t] = Idle
           \/ task[t].pc \in {"inspect", "record"}
           \/ Repo = "inmemory" /\ (At(t, "update") \/ task'[t].pc # "update")
    /\ stop /\ exchange[t].pc = "show" /\ exchange'[t] = Free =>
           Repo = "inmemory" \/ answer' = 500

\* A step of a handler or goroutine.  The one that brings the counter to zero
\* releases whoever waits for it.
Work(t) ==
    /\ Alive
    /\ HttpStep(t) \/ Show(t)
    /\ ContextHeeded(t)
    /\ wait' = IF wait = "waiting" /\ NoneCounted' THEN "released" ELSE wait
    /\ UNCHANGED <<main, setup, closers, open, server, following, stop, expired>>

\* A client opens an event stream.  What its handler sends is in EventStream; here it
\* counts that it is at work.
StreamStarts ==
    /\ Alive
    /\ server \in {"on", "failed"}
    /\ following' = TRUE
    /\ NothingServed
    /\ UNCHANGED <<main, setup, closers, open, wait, server, stop, expired>>

\* The last stream ends: its volume is at rest or its client is gone, which nobody can
\* count on, or a signal has ended its context.
StreamEnds ==
    /\ Alive
    /\ following
    /\ following' = FALSE
    /\ NothingServed
    /\ UNCHANGED <<main, setup, closers, open, wait, server, stop, expired>>

\* appCtx is the context of all requests, for as long as the process lives.
Signal ==
    /\ Alive
    /\ ~stop
    /\ stop' = TRUE
    /\ NothingServed
    /\ UNCHANGED <<main, setup, closers, open, wait, server, following, expired>>

\* ListenAndServe returns an error, which cancels no context.
ServerFails ==
    /\ main = "serve"
    /\ server = "on"
    /\ server' = "failed"
    /\ NothingServed
    /\ UNCHANGED <<main, setup, closers, open, wait, following, stop, expired>>

\* The end of the select in main.
Leave ==
    /\ main = "serve"
    /\ stop \/ server = "failed"
    /\ main' = "close"
    /\ NothingServed
    /\ UNCHANGED <<setup, closers, open, wait, server, following, stop, expired>>

-----------------------------------------------------------------------------
(* Shutdown: the registered resources are closed from the last to the first. *)

Closing(r) == main = "close" /\ closers # <<>> /\ Last(closers) = r

Closed(r) ==
    /\ closers' = Front(closers)
    /\ open' = open \ {r}

\* The context that all closers share is done; two of them look at it.
Expire ==
    /\ Closing("feature") \/ Closing("http")
    /\ ~expired
    /\ expired' = TRUE
    /\ NothingServed
    /\ UNCHANGED <<main, setup, closers, open, wait, server, following, stop>>

\* VolumeFeature.Close cancels bgCtx, starts the wait for the goroutines, and
\* returns when the wait has or the deadline is over.
CancelFeature ==
    /\ Closing("feature")
    /\ closing = "open"
    /\ closing' = "canceled"
    /\ answer' = Silent
    /\ UNCHANGED <<db, audit, backend, task, faults, exchange, mainVars>>

WaitStarts ==
    /\ Alive
    /\ closing # "open" /\ wait = "none"
    /\ wait' = IF NoneCounted THEN "returned" ELSE "waiting"
    /\ NothingServed
    /\ UNCHANGED <<main, setup, closers, open, server, following, stop, expired>>

\* A released wait panics when it finds that the WaitGroup was added to.
WaitReturns ==
    /\ Alive
    /\ wait = "released"
    /\ \/ NoneCounted /\ wait' = "returned" /\ UNCHANGED main
       \/ ~NoneCounted /\ main' = "panic" /\ UNCHANGED wait
    /\ NothingServed
    /\ UNCHANGED <<setup, closers, open, server, following, stop, expired>>

CloseFeature ==
    /\ Closing("feature")
    /\ closing = "canceled"
    /\ \/ wait = "returned" /\ closing' = "drained"
       \/ expired /\ closing' = "timedout"
    /\ Closed("feature")
    /\ answer' = Silent
    /\ UNCHANGED <<db, audit, backend, task, faults, exchange,
                   main, setup, wait, server, following, stop, expired>>

\* http.Server.Shutdown stops listening and waits for the handlers, those of the
\* event streams too.
StopServer ==
    /\ Closing("http")
    /\ server # "down"
    /\ server' = "down"
    /\ NothingServed
    /\ UNCHANGED <<main, setup, closers, open, wait, following, stop, expired>>

HandlersDone == ~following /\ \A t \in Tasks : exchange[t] = Free

CloseServer ==
    /\ Closing("http")
    /\ server = "down"
    /\ HandlersDone \/ expired
    /\ Closed("http")
    /\ NothingServed
    /\ UNCHANGED <<main, setup, wait, server, following, stop, expired>>

\* The backend and the telemetry close without looking at who still uses them.  The
\* pool's Close waits for connections that are checked out: a call that has one ends
\* by its timeout, so that is no step of its own.
CloseOther(r) ==
    /\ Closing(r)
    /\ Closed(r)
    /\ NothingServed
    /\ UNCHANGED <<main, setup, wait, server, following, stop, expired>>

Exit ==
    /\ main = "close"
    /\ closers = <<>>
    /\ main' = "exit"
    /\ NothingServed
    /\ UNCHANGED <<setup, closers, open, wait, server, following, stop, expired>>

-----------------------------------------------------------------------------
Shutdown ==
    \/ CancelFeature \/ CloseFeature
    \/ StopServer \/ CloseServer
    \/ \E r \in {"backend", "pool", "meter", "tracer"} : CloseOther(r)
    \/ Exit

Main == SetupStep \/ SetupFails \/ Leave \/ Shutdown

\* What happens besides requests.
Proceed ==
    \/ Main
    \/ \E t \in Tasks : Work(t)
    \/ WaitStarts \/ WaitReturns
    \/ StreamStarts \/ StreamEnds
    \/ Signal \/ ServerFails \/ Expire

ProcessNext == Request \/ Proceed

ProcessSpec == ProcessInit /\ [][ProcessNext]_processVars

\* Clients that wait for each other.
OrderlyRequest ==
    /\ Request
    /\ \A t \in Tasks :
          exchange[t] = Free /\ exchange'[t] # Free
              => OrderlyClient(exchange'[t].op, exchange'[t].name)

OrderlyProcessSpec == ProcessInit /\ [][OrderlyRequest \/ Proceed]_processVars

\* main, the requests and goroutines, and the wait of VolumeFeature.Close run, and a
\* signal ends the streams.  After a failure of the server no context is canceled: then,
\* and only for a stream, the shutdown may need its deadline.
ProcessFairness ==
    /\ WF_processVars(Main)
    /\ WF_processVars(WaitStarts \/ WaitReturns)
    /\ \A t \in Tasks : WF_processVars(Work(t))
    /\ WF_processVars(stop /\ StreamEnds)
    /\ WF_processVars(following /\ ~stop /\ Expire)

FairProcessSpec == OrderlyProcessSpec /\ ProcessFairness

-----------------------------------------------------------------------------
UsesDatabase(t) ==
    \/ task[t].pc \in {"lookup", "save", "setnode", "update", "record", "load"}
    \/ exchange[t].pc = "show"

\* As long as the shutdown is within its deadline, nobody calls a backend or a
\* database that is closed: neither a handler that outlives the volume feature, nor a
\* goroutine that such a handler has still started, nor the handler of a stream.
NoUseAfterClose ==
    main \in {"close", "exit"} /\ ~expired =>
        /\ following /\ Repo = "postgres" => "pool" \in open
        /\ \A t \in Tasks :
            /\ task[t].pc \in {"call", "inspect"} => "backend" \in open
            /\ UsesDatabase(t) /\ Repo = "postgres" => "pool" \in open

\* Whatever step of the set-up fails, and however the process ends short of a
\* panic, everything that was opened has been closed.
NothingLeftOpen == main = "exit" => open = {}

\* The shutdown comes to its end, by itself unless a stream is open that no signal
\* ends: goroutines notice that they are canceled, and what handlers still start does
\* not keep it waiting.
ShutdownEnds == main = "close" ~> ~Alive

SleepsWell(p) == Bounded(p, MaxSleeps) /\ Exponential(p, MaxSleeps)

\* Every policy that the configuration lets through sleeps as the back-off promises.
BackoffIsBounded ==
    setup = 1 => \A p \in RetryPolicies : Valid(p) => SleepsWell(p)

-----------------------------------------------------------------------------
(* What the repository says and the code does not do. *)

\* A termination signal leads to a clean shutdown.
ShutdownIsClean == stop => main # "panic"

=============================================================================
