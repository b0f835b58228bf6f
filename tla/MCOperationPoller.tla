-------------------------- MODULE MCOperationPoller --------------------------
(* OperationPoller with concrete operations, and the variants of its       *)
(* definitions that a slip in operation_poller.go would give.              *)
EXTENDS OperationPoller
=============================================================================
