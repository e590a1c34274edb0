----------------------------- MODULE MCPacking -----------------------------
(* Small instances of Packing for TLC. *)
EXTENDS Packing, TLC

CONSTANT MaxSamples

(* Lines that fit, that fill the buffer and that are too long for it; a     *)
(* silenced metric; two lines, either the longer.                           *)
Samples == {Failed, <<>>, <<1>>, <<2>>, <<4>>, <<5>>, <<2, 3>>, <<3, 1>>}

MCRequests == UNION {[1..n -> Samples] : n \in 0..MaxSamples}

=============================================================================
