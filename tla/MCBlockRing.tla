---------------------------- MODULE MCBlockRing ----------------------------
(***************************************************************************)
(* Constants for the run of BlockRing: probes on CPUs p1 and p2, client    *)
(* c1, one word per payload, both engines.                                 *)
(***************************************************************************)
EXTENDS BlockRing

CONSTANTS p1, p2, c1

MCFields == {"sector"}
MCBoth == {"scatter", "skip"}
=============================================================================
