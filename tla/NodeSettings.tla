---------------------------- MODULE NodeSettings ----------------------------
(***************************************************************************)
(* The out-of-band and in-band settings of the nodes:                      *)
(* lib/services/obm-api-service.js, and the same code once more in         *)
(* lib/api/2.0/ibms.js.  Whoever follows the events of a node is told when *)
(* its settings are not what they were before a request; this is found out *)
(* after the answer, by reading the node again.  Any call may fail: what   *)
(* fails before the answer ends the request, later only the event is lost. *)
(***************************************************************************)
EXTENDS Naturals, FiniteSets

CONSTANTS
    Holder,         \* the nodes
    Nobody,         \* what a setting belongs to that belongs to no node
    AtFirst,         \* the settings at first: documents [id, node, config]
    Change,         \* requests [op, id, to, config]; to is Nobody when no node is named
    MaxSent         \* how many of the requests are made

Document ==
    [id : {d.id : d \in AtFirst}, node : Holder \cup {Nobody},
     config : {d.config : d \in AtFirst} \cup {c.config : c \in Change}]

ASSUME ChangeAssumption ==
    /\ Nobody \notin Holder /\ MaxSent \in Nat
    /\ AtFirst \subseteq Document
    /\ \A d, e \in AtFirst : d.id = e.id => d = e
    /\ \A c \in Change : c.op \in {"patch", "delete"} /\ c.to \in Holder \cup {Nobody}

VARIABLES
    settings,       \* the documents
    stage,          \* [Change -> idle, found, read or answered]
    owner,          \* [Change -> the node of the setting, as the request has found it]
    before,         \* [Change -> nodes with their settings, as they were before the write]
    heard           \* [Holder -> the settings the last event was about]

svars == <<settings, stage, owner, before, heard>>

\* getNodeById: a node comes with its settings.
SettingsOf(n) == {d \in settings : d.node = n}

Seen(holders) == {[node |-> n, settings |-> SettingsOf(n)] : n \in holders \cap Holder}

SettingsInit ==
    /\ settings = AtFirst
    /\ stage = [c \in Change |-> "idle"]
    /\ owner = [c \in Change |-> Nobody]
    /\ before = [c \in Change |-> {}]
    /\ heard = [n \in Holder |-> SettingsOf(n)]

Goes(c, from, to) == stage[c] = from /\ stage' = [stage EXCEPT ![c] = to]

\* needByIdentifier
Find(c) ==
    /\ Cardinality({e \in Change : stage[e] # "idle"}) < MaxSent
    /\ \/ \E d \in settings : /\ d.id = c.id /\ Goes(c, "idle", "found")
                              /\ owner' = [owner EXCEPT ![c] = d.node]
       \/ (\A d \in settings : d.id # c.id) /\ Goes(c, "idle", "answered") /\ UNCHANGED owner
    /\ UNCHANGED <<settings, before, heard>>

\* Mutation: only the node the setting is taken from is told.
OldNodeOnly(c) == {owner[c]}

\* A setting that belongs to nobody is looked for under a name that the request does
\* not have: its new node is not told.
NodesToTell(c) == IF owner[c] = Nobody THEN {} ELSE {owner[c], c.to}

\* What is read is read after the setting, and may be of a later state.
ReadNodes(c) ==
    /\ Goes(c, "found", "read")
    /\ before' = [before EXCEPT ![c] = Seen(IF c.op = "patch" THEN NodesToTell(c) ELSE {owner[c]})]
    /\ UNCHANGED <<settings, owner, heard>>

\* The nodes cannot be read, or the setting not be written.
Refuse(c) ==
    /\ \E from \in {"found", "read"} : Goes(c, from, "answered")
    /\ before' = [before EXCEPT ![c] = {}]
    /\ UNCHANGED <<settings, owner, heard>>

Patched(c, d) == [d EXCEPT !.config = c.config, !.node = IF c.to = Nobody THEN @ ELSE c.to]

\* updateByIdentifier and destroyByIdentifier: nobody is told when the setting has gone.
Write(c) ==
    /\ Goes(c, "read", "answered")
    /\ LET old == {d \in settings : d.id = c.id} IN
       /\ settings' = (settings \ old) \cup IF c.op = "patch" THEN {Patched(c, d) : d \in old} ELSE {}
       /\ before' = IF old = {} THEN [before EXCEPT ![c] = {}] ELSE before
    /\ UNCHANGED <<owner, heard>>

\* publishNodeAttrEvent, for the node as it is now
Tell(c) ==
    \E b \in before[c] :
        /\ stage[c] = "answered"
        /\ before' = [before EXCEPT ![c] = @ \ {b}]
        /\ heard' = IF b.settings = SettingsOf(b.node) THEN heard
                    ELSE [heard EXCEPT ![b.node] = SettingsOf(b.node)]
        /\ UNCHANGED <<settings, stage, owner>>

\* The node cannot be read again, or its event not be published: that is logged.
TellFails(c, b) ==
    /\ stage[c] = "answered" /\ b \in before[c] /\ b.settings # SettingsOf(b.node)
    /\ before' = [before EXCEPT ![c] = @ \ {b}]
    /\ UNCHANGED <<settings, stage, owner, heard>>

SettingsNext ==
    \E c \in Change :
        \/ Find(c) \/ ReadNodes(c) \/ Refuse(c) \/ Write(c) \/ Tell(c)
        \/ \E b \in before[c] : TellFails(c, b)

SettingsSpec == SettingsInit /\ [][SettingsNext]_svars
=============================================================================
