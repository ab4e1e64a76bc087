----------------------------- MODULE TicketLog -----------------------------
(***************************************************************************)
(* What a slot ring promises a single client that nobody restarts: a lossy *)
(* log.  Tickets are issued in order; those processed are issued ones, in  *)
(* rising order, none twice.  The record of ticket 0 may be processed      *)
(* before it is issued: a zeroed page looks like it.                       *)
(***************************************************************************)
EXTENDS Integers, Sequences

VARIABLES
  issued,   \* the number of tickets handed to producers
  log       \* the tickets under which records were processed

Issue ==
  /\ issued' = issued + 1
  /\ UNCHANGED log

Process(t) ==
  /\ t < issued \/ t = 0
  /\ log # <<>> => t > log[Len(log)]
  /\ log' = Append(log, t)
  /\ UNCHANGED issued

Init == issued = 0 /\ log = <<>>
Next == Issue \/ \E t \in 0 .. issued : Process(t)
Spec == Init /\ [][Next]_<<issued, log>>

\* No ticket is processed twice, and none after a younger one.
Rising == \A i, j \in 1 .. Len(log) : i < j => log[i] < log[j]
=============================================================================
