--------------------------- MODULE MCIocpSession ---------------------------
(* TLC instances of IocpSession. *)
EXTENDS IocpSession

=============================================================================
