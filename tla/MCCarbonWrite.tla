--------------------------- MODULE MCCarbonWrite ---------------------------
(* Small instances of CarbonWrite for TLC. *)
EXTENDS CarbonWrite, TLC

Stream     == [address |-> TRUE, transport |-> "tcp", compress |-> "plain"]
Compressed == [address |-> TRUE, transport |-> "tcp", compress |-> "lz4"]
Datagrams  == [address |-> TRUE, transport |-> "udp", compress |-> "plain"]
ReadOnly   == [address |-> FALSE, transport |-> "tcp", compress |-> "plain"]

AllConfigs == {Stream, Compressed, Datagrams, ReadOnly}
StreamOnly == {Stream}

Symmetry == Permutations(Requests) \cup Permutations(Conn)

=============================================================================
