------------------------------- MODULE OnHttp -------------------------------
(***************************************************************************)
(* The program as a whole, as far as its start, its stop and the uPnP      *)
(* service go (app.js, index.js): Lifecycle starts Discovery, and ends it  *)
(* with the process.                                                       *)
(***************************************************************************)
EXTENDS Discovery, Lifecycle

programVars == <<dvars, lvars>>

ProgramInit == DiscoveryInit /\ LifecycleInit

\* Mutation: start does not wait for the service, whose promise is not returned.
UPnPUnawaited ==
    \/ /\ process /\ step \in {"uPnP", "http", "started"}
       /\ StartServers \/ StartObserving
       /\ UNCHANGED lvars
    \/ Started("uPnP") /\ UNCHANGED dvars

\* uPnPService.start is a step of start; app.stop does not call uPnPService.stop.
UPnPUp ==
    \/ step = "uPnP" /\ process /\ StartServers /\ UNCHANGED lvars
    \/ step = "uPnP" /\ StartObserving /\ Started("uPnP")

\* A timer, a message, or a request that turns a server on or off.
Discovering == process /\ DiscoveryNext /\ UNCHANGED lvars

\* What the program does once it is launched.
Program ==
    \/ UPnPUp
    \/ LifecycleStep /\ UNCHANGED dvars
    \/ Ends /\ Forget

ProgramNext ==
    \/ Program
    \/ Discovering
    \/ Throw /\ Crash
    \/ Network /\ UNCHANGED lvars
    \/ (Launch \/ LifecycleInput) /\ UNCHANGED dvars

ProgramSpec ==
    /\ ProgramInit /\ [][ProgramNext]_programVars
    /\ WF_programVars(Program) /\ ConnectionsEnd /\ DiscoveryFairness

-----------------------------------------------------------------------------

\* Whoever asks for a server of the uPnP service to be turned on or off finds it, for patchManager
\* silently does nothing otherwise (managers.js); alerts are published while the messenger is
\* connected, until a stop has taken it down; and the service ends with the process,
\* since nobody calls its stop (app.js).
UPnPWithinProgram ==
    /\ \A e \in Endpoints : open[e] > 0 => servers = Offered /\ observing
    /\ observing => process /\ (core = "up" \/ stopping = "done")
    /\ servers # {} => process
=============================================================================
