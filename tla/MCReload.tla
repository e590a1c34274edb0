------------------------------ MODULE MCReload ------------------------------
(***************************************************************************)
(* A small instance of Reload and Settings for TLC: a setting of each sort *)
(* the code knows.                                                         *)
(***************************************************************************)
EXTENDS Settings, TLC

CONSTANTS unset, ours, theirs, standard

(* address and prefix have no default, ttl and purge have one, delay and    *)
(* timeout have one and are put back.                                       *)
MCNames == {"address", "prefix", "ttl", "purge", "delay", "timeout"}
MCValues == {unset, ours, theirs, standard}
MCDefault == [n \in MCNames |-> IF n \in {"address", "prefix"} THEN unset ELSE standard]

MCFiles == {[n \in MCNames |-> theirs], [purge |-> unset]}

(* Nothing, and a flag of each sort with a value and with a zero. *)
MCCommandLines ==
    {[n \in {} |-> unset],
     [n \in MCNames |-> IF n \in {"address", "ttl", "timeout"} THEN ours ELSE unset]}

(* The durations that the values of the chart give for an example, and no    *)
(* flags.                                                                   *)
ChartFiles == {[n \in {"ttl", "purge", "delay", "timeout"} |-> theirs]}
NoFlags    == {[n \in {} |-> unset]}

=============================================================================
