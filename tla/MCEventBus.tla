---------------------------- MODULE MCEventBus ----------------------------
(***************************************************************************)
(* A small instance of EventBus for TLC: one server with a feeder and a    *)
(* request that may stop, and another one that listens.                    *)
(***************************************************************************)
EXTENDS EventBus

CONSTANT n1  \* the server that emits

MCHome == [w \in Writers |-> n1]
=============================================================================
