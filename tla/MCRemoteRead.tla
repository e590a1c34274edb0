---------------------------- MODULE MCRemoteRead ----------------------------
(* Small instances of RemoteRead for TLC. *)
EXTENDS RemoteRead, TLC

AllConfigs == [readers : {0, 1}, url : BOOLEAN, tags : BOOLEAN, ignoreError : BOOLEAN]

Symmetry == Permutations(Workers)

=============================================================================
