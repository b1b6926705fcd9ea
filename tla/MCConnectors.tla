---------------------------- MODULE MCConnectors ----------------------------
(***************************************************************************)
(* Instances of Connectors for TLC.                                        *)
(***************************************************************************)
EXTENDS Connectors

CONSTANTS w1, w2

MCMessages2 == {1, 2}
MCMessages3 == {1, 2, 3}
=============================================================================
