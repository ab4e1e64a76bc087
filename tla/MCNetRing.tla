----------------------------- MODULE MCNetRing -----------------------------
(***************************************************************************)
(* Constants for the runs of NetRing: hooks h1 and h2 on two CPUs, clients *)
(* c1 and c2.                                                              *)
(***************************************************************************)
EXTENDS NetRing

CONSTANTS h1, h2, c1, c2

MCFields == {"src", "dest"}
MCOneField == {"src"}

\* Enough where only tickets are looked at.
MCNoFields == {}

MCBoth == {"scatter", "skip"}
MCScatter == {"scatter"}
MCSkip == {"skip"}
=============================================================================
