------------------------------ MODULE Pollers ------------------------------
(***************************************************************************)
(* A collection that is listed page by page: the pollers of                *)
(* lib/services/pollers-api-service.js with the links of                   *)
(* lib/services/swagger-api-service.js, which the nodes, catalogs and      *)
(* workflows use as well.  A client knows the other pages from the links   *)
(* of the one it has.                                                      *)
(***************************************************************************)
EXTENDS Integers, Sequences, FiniteSets

CONSTANTS
    Poller,
    MaxTop          \* the largest $top and $skip asked for

ASSUME PagingAssumption == MaxTop \in Nat \ {0}

VARIABLES
    pollers,        \* the pollers stored; their order in a list stays the same
    paused

pvars == <<pollers, paused>>

PollersInit == paused = {} /\ pollers \in {stored \in SUBSET Poller : IsFiniteSet(stored)}

postPollers(p) ==
    /\ p \notin pollers
    /\ pollers' = pollers \cup {p}
    /\ UNCHANGED paused

\* patchPollersByIdPause and patchPollersByIdResume
patchPollersById(p, pause) ==
    /\ p \in pollers
    /\ paused' = IF pause THEN paused \cup {p} ELSE paused \ {p}
    /\ UNCHANGED pollers

deletePollersById(p) ==
    /\ p \in pollers
    /\ pollers' = pollers \ {p}
    /\ paused' = paused \ {p}

PollersNext ==
    \E p \in Poller :
        \/ postPollers(p)
        \/ \E pause \in BOOLEAN : patchPollersById(p, pause)
        \/ deletePollersById(p)

PollersSpec == PollersInit /\ [][PollersNext]_pvars

--------------------------------------------------------------------------
(* Pages: [skip, top] as the query has them                               *)

Absent == -1
Query == [skip : {Absent} \cup 0 .. MaxTop, top : {Absent} \cup 1 .. MaxTop]

count == Cardinality(pollers)

Skip(q) == IF q.skip = Absent THEN 0 ELSE q.skip
Top(q) == IF q.top = Absent THEN count - Skip(q) ELSE q.top

\* getPollers: the positions a page shows.
Listed(q) == {i \in 1 .. count : Skip(q) < i /\ (q.top = Absent \/ i <= Skip(q) + q.top)}

\* Without a query, or when one page holds everything, no links are added.
HasLinks(q) ==
    /\ q.skip # Absent \/ q.top # Absent
    /\ q.top = Absent \/ q.top < count

FirstPage(q) == [skip |-> 0, top |-> IF Skip(q) # 0 /\ Skip(q) < Top(q) THEN Skip(q) ELSE Top(q)]

\* Mutation: the quotient is rounded down.
LastSkipOfFullPages(q) ==
    IF Skip(q) + Top(q) = count THEN Skip(q) ELSE (count \div Top(q) - 1) * Top(q)

LastSkip(q) ==
    IF Skip(q) + Top(q) = count THEN Skip(q)
    ELSE ((count + Top(q) - 1) \div Top(q) - 1) * Top(q)

LastPage(q) == [skip |-> LastSkip(q), top |-> Top(q)]

\* A link is {} when there is none.
PrevPage(q) ==
    IF ~HasLinks(q) \/ Skip(q) = 0 THEN {}
    ELSE IF Skip(q) < Top(q) THEN {[skip |-> 0, top |-> Skip(q)]}
    ELSE {[skip |-> Skip(q) - Top(q), top |-> Top(q)]}

NextPage(q) ==
    IF ~HasLinks(q) \/ Skip(q) >= LastSkip(q) THEN {}
    ELSE {[skip |-> Skip(q) + Top(q), top |-> Top(q)]}

--------------------------------------------------------------------------

\* The link of a page that leads to the page after it, or before it.
Link(p, onwards) == IF onwards THEN NextPage(p) ELSE PrevPage(p)

\* The pages a client sees that follows one kind of link from q on.
Walk(q, onwards) ==
    LET walk[n \in 0 .. count] ==
            IF n = 0 THEN <<q>>
            ELSE LET w == walk[n - 1] IN
                 IF Link(w[Len(w)], onwards) = {} THEN w
                 ELSE Append(w, CHOOSE p \in Link(w[Len(w)], onwards) : TRUE)
    IN walk[count]

\* Pages the links are made for: they show something, and do not leave out what comes
\* before them because everything would fit.
Linked(q) ==
    /\ Listed(q) # {}
    /\ q.top < count \/ Skip(q) = 0

(***************************************************************************)
(* Whatever skip and top a client begins with, the pages before along the  *)
(* previous links and those after along the next ones show every item      *)
(* exactly once; the first and the last page show the first and the last.  *)
(***************************************************************************)
PagesPartition ==
    \A q \in {p \in Query : Linked(p)} :
        LET pages == Walk(q, FALSE) \o Tail(Walk(q, TRUE)) IN
        /\ \A i \in 1 .. count : Cardinality({n \in DOMAIN pages : i \in Listed(pages[n])}) = 1
        /\ HasLinks(q) => 1 \in Listed(FirstPage(q)) /\ count \in Listed(LastPage(q))
=============================================================================
