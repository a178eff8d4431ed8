--------------------------- MODULE RequestService ---------------------------
(***************************************************************************)
(* What a client of the HTTP pipeline may rely on: a request that has been *)
(* accepted is answered once, and that answer stands, unless the process   *)
(* ends first.  It says nothing of how the answer comes about.             *)
(***************************************************************************)
CONSTANTS Request, Code

VARIABLES
    open,       \* the requests accepted and not answered
    lost,       \* the requests that ended with the process
    reply       \* [Request -> the answer sent, or "none"]

Init ==
    /\ open = {} /\ lost = {}
    /\ reply = [r \in Request |-> "none"]

Accept(r) ==
    /\ r \notin open \cup lost /\ reply[r] = "none"
    /\ open' = open \cup {r}
    /\ UNCHANGED <<lost, reply>>

Answer(r) ==
    /\ r \in open
    /\ open' = open \ {r}
    /\ reply'[r] \in Code
    /\ reply' = [reply EXCEPT ![r] = reply'[r]]
    /\ UNCHANGED lost

\* The process ends with every request that is open.
Crash ==
    /\ open # {}
    /\ open' = {} /\ lost' = lost \cup open
    /\ UNCHANGED reply

Next == Crash \/ \E r \in Request : Accept(r) \/ Answer(r)

vars == <<open, lost, reply>>

\* Nobody waits for ever: the requests are finitely many, so that again and again there
\* is no one waiting.
Answered == []<>(open = {})

Spec == Init /\ [][Next]_vars /\ Answered
=============================================================================
