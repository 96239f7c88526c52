---------------------------- MODULE MCCoordinator ----------------------------
(***************************************************************************)
(* Small instances of Coordinator for TLC.                                  *)
(***************************************************************************)
EXTENDS Coordinator, TLC

CONSTANTS n1, n2, c1, c2, r1, r2

\* Two connections of one node: it reconnects.
SameNode == [c \in Conn |-> n1]
==============================================================================
