---------------------------- MODULE MCCharRing ----------------------------
(***************************************************************************)
(* Constants for the runs of CharRing.  Each thread's bytes are distinct   *)
(* from every other's, so a lost, repeated or misplaced byte shows.        *)
(***************************************************************************)
EXTENDS CharRing

CONSTANTS w1, w2, p1, r1, r2, z1

MCByte == {Zero} \cup ({"w1", "w2", "p1"} \X (1 .. 3))

Label(t) == IF t = w1 THEN "w1" ELSE IF t = w2 THEN "w2" ELSE "p1"

\* A write of two bytes and a metric of two bytes (a real metric has sixteen), on
\* rings that hold two: both fill the ring, and both can be cut in the middle.
MCMsg == [w \in Writers |-> << <<Label(w), 1>>, <<Label(w), 2>> >>]
MCMetric == [p \in Pushers |-> << <<Label(p), 1>>, <<Label(p), 2>> >>]

\* One long write of three bytes, which cannot fit the ring at once.
MCLongMsg == [w \in Writers |-> << <<Label(w), 1>>, <<Label(w), 2>>, <<Label(w), 3>> >>]
=============================================================================
