-------------------------- MODULE MCClientNetwork --------------------------
(* Frames of three cells in a buffer that holds two of them.                 *)
EXTENDS ClientNetwork

MCBodyLen == [t \in {"AuthRes", "AuthFail", "Field"} |-> 1]
=============================================================================
