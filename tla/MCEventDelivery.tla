--------------------------- MODULE MCEventDelivery ---------------------------
(***************************************************************************)
(* Instances of EventDelivery for TLC: one client, which may be a socket or  *)
(* desktop client in one connection and an SSE client in the next.           *)
(***************************************************************************)
EXTENDS EventDelivery

CONSTANT c1
=============================================================================
