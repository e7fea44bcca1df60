------------------------------ MODULE MCPidFile ------------------------------
(* Model-checking instance of PidFile.                                     *)
EXTENDS PidFile

MCPids == {1, 2}

=============================================================================
