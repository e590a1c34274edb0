------------------------------- MODULE Gather -------------------------------
(***************************************************************************)
(* What a read of several queries promises: a query is done when every     *)
(* series that was found is gathered, and the response is sent when all    *)
(* queries are done, or the read is given up and nothing of it is kept.    *)
(***************************************************************************)
EXTENDS Naturals

CONSTANT Series

VARIABLES
    found,     \* the series that the fetches brought
    gathered,  \* those that are in the response
    wanted,    \* the number of queries
    done,      \* how many of them are done
    over       \* the response is sent

vars == <<found, gathered, wanted, done, over>>

Init ==
    /\ found = {} /\ gathered = {}
    /\ wanted \in Nat /\ done = 0
    /\ over = FALSE

Find(S) ==
    /\ ~over
    /\ S \cap found = {}
    /\ found' = found \cup S
    /\ UNCHANGED <<gathered, wanted, done, over>>

Add(s) ==
    /\ ~over
    /\ s \in found \ gathered
    /\ gathered' = gathered \cup {s}
    /\ UNCHANGED <<found, wanted, done, over>>

EndQuery ==
    /\ ~over
    /\ done < wanted
    /\ gathered = found
    /\ done' = done + 1
    /\ UNCHANGED <<found, gathered, wanted, over>>

Finish ==
    /\ ~over
    /\ done = wanted
    /\ over' = TRUE
    /\ UNCHANGED <<found, gathered, wanted, done>>

GiveUp ==
    /\ ~over
    /\ over' = TRUE
    /\ gathered' = {}
    /\ UNCHANGED <<found, wanted, done>>

Next ==
    \/ \E S \in SUBSET Series : Find(S)
    \/ \E s \in Series : Add(s)
    \/ EndQuery
    \/ Finish
    \/ GiveUp

Spec == Init /\ [][Next]_vars

=============================================================================
