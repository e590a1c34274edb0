-------------------------- MODULE ClientLifecycle --------------------------
(***************************************************************************)
(* What the handler promises about the graphite clients it builds (one per *)
(* ApplyConfig): a client serves requests only between being built and     *)
(* being shut down, it is shut down only when it serves nobody, and it     *)
(* never comes back.  CarbonWrite implements this for one client, and      *)
(* Reload for the sequence of clients that reloads of the configuration    *)
(* build.                                                                  *)
(***************************************************************************)
CONSTANTS Clients, Users, Nobody

VARIABLES
    live,      \* the clients that may be used
    retired,   \* the clients that were shut down
    servant    \* the client that serves each user, or Nobody

vars == <<live, retired, servant>>

TypeOK ==
    /\ live \subseteq Clients
    /\ retired \subseteq Clients
    /\ servant \in [Users -> Clients \cup {Nobody}]

Init ==
    /\ live \subseteq Clients
    /\ retired = {}
    /\ servant = [u \in Users |-> Nobody]

Build(c) ==
    /\ c \notin live \cup retired
    /\ live' = live \cup {c}
    /\ UNCHANGED <<retired, servant>>

(* Requests that waited for the handler's lock may enter together. *)
Enter(c, group) ==
    /\ c \in live
    /\ \A u \in group : servant[u] = Nobody
    /\ servant' = [u \in Users |-> IF u \in group THEN c ELSE servant[u]]
    /\ UNCHANGED <<live, retired>>

Exit(u) ==
    /\ servant[u] # Nobody
    /\ servant' = [servant EXCEPT ![u] = Nobody]
    /\ UNCHANGED <<live, retired>>

Retire(c) ==
    /\ c \in live
    /\ \A u \in Users : servant[u] # c
    /\ live' = live \ {c}
    /\ retired' = retired \cup {c}
    /\ UNCHANGED servant

Next ==
    \/ \E c \in Clients : Build(c) \/ Retire(c)
    \/ \E c \in Clients, group \in SUBSET Users : Enter(c, group)
    \/ \E u \in Users : Exit(u)

Spec == Init /\ [][Next]_vars

(* No request is ever served by a client that is not built yet or has been  *)
(* shut down, and no client that was shut down is live again.               *)
ServedByLive ==
    /\ \A u \in Users : servant[u] \in live \cup {Nobody}
    /\ live \cap retired = {}

=============================================================================
