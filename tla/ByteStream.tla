---------------------------- MODULE ByteStream ----------------------------
(***************************************************************************)
(* What the character tenant of the telemetry page promises to whoever     *)
(* writes /dev/telemetry_char and whoever drains it: a bounded, lossless,  *)
(* first-in first-out stream of bytes.  Two histories say it all: the      *)
(* bytes accepted so far, and the bytes handed to the consumer so far.     *)
(***************************************************************************)
EXTENDS Naturals, Sequences

CONSTANTS Byte,     \* the bytes producers may write
          Bound     \* how many accepted bytes may be undelivered

VARIABLES sent,       \* the bytes accepted, in order
          delivered   \* the bytes handed to the consumer, in order

Init == sent = <<>> /\ delivered = <<>>

Put == /\ Len(sent) - Len(delivered) < Bound
       /\ \E b \in Byte : sent' = Append(sent, b)
       /\ UNCHANGED delivered

Get == /\ Len(delivered) < Len(sent)
       /\ delivered' = Append(delivered, sent[Len(delivered) + 1])
       /\ UNCHANGED sent

Next == Put \/ Get

Spec == Init /\ [][Next]_<<sent, delivered>>
=============================================================================
