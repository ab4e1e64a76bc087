---------------------------- MODULE MCLifecycle ----------------------------
(***************************************************************************)
(* Constants for the run of Lifecycle: one program of each kind, both      *)
(* tenant modules.                                                         *)
(***************************************************************************)
EXTENDS Lifecycle

CONSTANTS client, zero_copy, stream, cat, net_filter, block_filter
=============================================================================
