----------------------------- MODULE Lifecycle -----------------------------
(***************************************************************************)
(* How the program starts and stops: start and stop of app.js, run of      *)
(* index.js, and HttpService of lib/services/http-service.js.  start is a  *)
(* chain of promises; stop may be called at any point of it.               *)
(***************************************************************************)
EXTENDS Naturals, Sequences, FiniteSets, SequencesExt

CONSTANTS
    Endpoint,       \* httpEndpoints, in the order of the configuration: a sequence
    MaxOpen,        \* how many requests are open on an endpoint at the same time
    MaxRuns,        \* how often the program is started
    Failing         \* steps of start that may fail

ASSUME LifecycleAssumption ==
    /\ Len(Endpoint) > 0 /\ MaxOpen \in Nat \ {0} /\ MaxRuns \in Nat

VARIABLES
    process,        \* whether the program runs
    runs,           \* how often it has been started
    step,           \* what start waits for
    http,           \* [endpoint -> none, created, listening, closing, closed]
    open,           \* [endpoint -> requests open]
    stopping,       \* no, or what stop waits for
    stopList,       \* the value of "services" that stop has read: none, empty, promise
    core            \* the database and messenger of on-core: down, up

lvars == <<process, runs, step, http, open, stopping, stopList, core>>

Endpoints == ToSet(Endpoint)
Steps == <<"core", "views", "files", "packs", "accounts", "uPnP", "http", "started">>

LifecycleInit ==
    /\ process = FALSE /\ runs = 0
    /\ step = "core"
    /\ http = [e \in Endpoints |-> "none"]
    /\ open = [e \in Endpoints |-> 0]
    /\ stopping = "no" /\ stopList = "none"
    /\ core = "down"

Launch ==
    /\ ~process /\ runs < MaxRuns
    /\ process' = TRUE /\ runs' = runs + 1
    /\ UNCHANGED <<step, http, open, stopping, stopList, core>>

\* process.exit: what the process held is gone.
Exit ==
    /\ process' = FALSE
    /\ step' = "core"
    /\ http' = [e \in Endpoints |-> "none"]
    /\ open' = [e \in Endpoints |-> 0]
    /\ stopping' = "no" /\ stopList' = "none"
    /\ core' = "down"
    /\ UNCHANGED runs

\* An exception that nobody catches, thrown by something that start has brought up.
Crash == process /\ step \in {"uPnP", "http", "started"} /\ Exit

-----------------------------------------------------------------------------
(* start                                                                   *)

Following(s) == Steps[(CHOOSE i \in 1 .. Len(Steps) : Steps[i] = s) + 1]

\* A promise of the chain is settled: start goes on with the next one, or the program ends.
Started(s) ==
    /\ process /\ step = s /\ s \notin {"http", "started"}
    /\ step' = Following(s)
    /\ core' = IF s = "core" THEN "up" ELSE core
    /\ UNCHANGED <<process, runs, http, open, stopping, stopList>>

\* A step that needs the database fails when stop has taken it down.
StartFails ==
    /\ process /\ step # "started"
    /\ step \in Failing \/ (step \in {"packs", "accounts"} /\ core = "down")
    /\ Exit

\* The endpoints are brought up one after the other: createSwagger, then listen.
HttpUp(i) ==
    /\ process /\ step = "http"
    /\ \A j \in 1 .. i - 1 : http[Endpoint[j]] # "created" /\ http[Endpoint[j]] # "none"
    /\ \/ http[Endpoint[i]] = "none" /\ http' = [http EXCEPT ![Endpoint[i]] = "created"]
       \/ http[Endpoint[i]] = "created" /\ http' = [http EXCEPT ![Endpoint[i]] = "listening"]
    /\ step' = IF i = Len(Endpoint) /\ http[Endpoint[i]] = "created" THEN "started" ELSE "http"
    /\ UNCHANGED <<process, runs, open, stopping, stopList, core>>

-----------------------------------------------------------------------------
(* Requests                                                                *)

Accept(e) ==
    /\ http[e] = "listening" /\ open[e] < MaxOpen
    /\ open' = [open EXCEPT ![e] = @ + 1]
    /\ UNCHANGED <<process, runs, step, http, stopping, stopList, core>>

Finish(e) ==
    /\ open[e] > 0
    /\ open' = [open EXCEPT ![e] = @ - 1]
    /\ UNCHANGED <<process, runs, step, http, stopping, stopList, core>>

-----------------------------------------------------------------------------
(* stop                                                                    *)

\* SIGINT: stop reads the list of services, which is empty until start comes to the
\* endpoints, and a promise of all of them from then on.
Interrupt ==
    /\ process /\ stopping = "no"
    /\ IF step \in {"http", "started"}
       THEN stopList' = "promise" /\ stopping' = "services"
       ELSE stopList' = "empty" /\ stopping' = "core"
    /\ UNCHANGED <<process, runs, step, http, open, core>>

\* The promise is fulfilled when every endpoint listens; each then takes no more
\* connections (server.close).
CloseServers ==
    /\ stopping = "services" /\ step = "started"
    /\ \A e \in Endpoints : http[e] = "listening"
    /\ http' = [e \in Endpoints |-> "closing"]
    /\ stopping' = "servers"
    /\ UNCHANGED <<process, runs, step, open, stopList, core>>

\* Mutation: a server counts as closed at once.
ClosedNow(e) ==
    /\ http[e] = "closing"
    /\ http' = [http EXCEPT ![e] = "closed"]
    /\ UNCHANGED <<process, runs, step, open, stopping, stopList, core>>

\* A server is closed when its last connection has ended.
Closed(e) ==
    /\ http[e] = "closing" /\ open[e] = 0
    /\ http' = [http EXCEPT ![e] = "closed"]
    /\ UNCHANGED <<process, runs, step, open, stopping, stopList, core>>

ServicesStopped ==
    /\ stopping = "servers"
    /\ \A e \in Endpoints : http[e] = "closed"
    /\ stopping' = "core"
    /\ UNCHANGED <<process, runs, step, http, open, stopList, core>>

\* core.stop, and then the end of the process.
StopCore ==
    /\ stopping = "core"
    /\ core' = "down" /\ stopping' = "done"
    /\ UNCHANGED <<process, runs, step, http, open, stopList>>

\* Mutation: the process ends only when the stop has failed.
StoppedOnFailure == stopping = "done" /\ core = "up" /\ Exit

\* index.js: the process ends when stop has settled, with success or not.
Stopped == stopping = "done" /\ Exit

-----------------------------------------------------------------------------

\* What the program does by itself; the uPnP step is its own service's.
LifecycleStep ==
    \/ \E s \in ToSet(Steps) \ {"uPnP"} : Started(s)
    \/ \E i \in 1 .. Len(Endpoint) : HttpUp(i)
    \/ \E e \in Endpoints : Closed(e)
    \/ CloseServers \/ ServicesStopped \/ StopCore

\* What others do to it.
LifecycleInput == Interrupt \/ \E e \in Endpoints : Accept(e) \/ Finish(e)

\* Connections end.
ConnectionsEnd == \A e \in Endpoints : WF_lvars(Finish(e))

Ends == StartFails \/ Stopped

LifecycleNext == Launch \/ LifecycleStep \/ Started("uPnP") \/ LifecycleInput \/ Ends \/ Crash

LifecycleSpec == LifecycleInit /\ [][LifecycleNext]_lvars

-----------------------------------------------------------------------------
(* Properties                                                              *)

\* The database and the messenger are there for every request that is accepted: what
\* start loads before is loaded, and stop takes them down only when every server has
\* served its last request (app.js, HttpService.stop).  The exception is a stop that
\* came before start had reached the endpoints: it does not wait for those that start
\* still brings up.
CoreOutlivesRequests ==
    \A e \in Endpoints :
        http[e] \in {"listening", "closing"} \/ open[e] > 0 => core = "up" \/ stopList = "empty"

\* A stop ends the program, provided that the open connections end.
StopEnds == stopping # "no" ~> ~process
=============================================================================
