------------------------------ MODULE NetRing ------------------------------
(***************************************************************************)
(* The netfilter tenant (tenant 1) of the shared telemetry page.           *)
(*                                                                         *)
(* Producers: packet_telemetry_hook (net_filter/net_filter_kernel.c), run  *)
(* by several CPUs at once, with no lock and no regard for the reader.     *)
(* Consumers: the clients of TicketClient (user/net_filter_client.c).      *)
(*                                                                         *)
(* A packet is the number of the call that carries it, from 0, and stands  *)
(* for the header fields the hook copies; the ticket_dispenser is taken    *)
(* modulo TicketMod.  Plain stores between two barriers happen in any      *)
(* order.                                                                  *)
(***************************************************************************)
EXTENDS TicketClient

CONSTANTS
  Hooks,       \* the CPUs that run the hook
  MaxPackets   \* bound: packets the hook sees

ASSUME PacketsAssumption == MaxPackets \in Nat

VARIABLES
  taken,   \* packets that have taken a ticket
  hk       \* each hook: position, packet, fields stored, wr_idx seen

vars == <<slots, wr_idx, drain, taken, hk>>

Idle == [pc |-> "idle", packet |-> 0, stored |-> {}, seen |-> 0]

Init ==
  /\ RingInit
  /\ taken = 0
  /\ hk = [h \in Hooks |-> Idle]
-----------------------------------------------------------------------------
(* packet_telemetry_hook, for a TCP packet (others return at once) *)

my_ticket(h) == hk[h].packet % TicketMod

\* fetch_add on the ticket_dispenser.  The load of rd_idx that follows is not used.
HTake(h) ==
  /\ hk[h].pc = "idle" /\ taken < MaxPackets
  /\ taken' = taken + 1
  /\ hk' = [hk EXCEPT ![h].pc = "store", ![h].packet = taken]
  /\ UNCHANGED <<slots, wr_idx>>

\* One field of the payload; nothing orders the five among themselves.
HStore(h, f) ==
  /\ hk[h].pc = "store" /\ f \notin hk[h].stored
  /\ slots' = [slots EXCEPT ![SlotOf(my_ticket(h))][f] = hk[h].packet]
  /\ hk' = [hk EXCEPT ![h].stored = @ \cup {f}]
  /\ UNCHANGED <<wr_idx, taken>>

\* Mutant: no smp_wmb, so the ticket may become visible before the payload.
HStampEarly(h) ==
  /\ hk[h].pc = "store"
  /\ slots' = [slots EXCEPT ![SlotOf(my_ticket(h))]["ticket"] = my_ticket(h)]
  /\ hk' = [hk EXCEPT ![h].pc = IF hk[h].stored = Fields THEN "load_hint" ELSE "store"]
  /\ UNCHANGED <<wr_idx, taken>>

\* smp_wmb, then the slot_ticket.
HStamp(h) ==
  /\ hk[h].pc = "store" /\ hk[h].stored = Fields
  /\ slots' = [slots EXCEPT ![SlotOf(my_ticket(h))]["ticket"] = my_ticket(h)]
  /\ hk' = [hk EXCEPT ![h].pc = "load_hint"]
  /\ UNCHANGED <<wr_idx, taken>>

HLoadHint(h) ==
  /\ hk[h].pc = "load_hint"
  /\ hk' = [hk EXCEPT ![h].pc = "swap", ![h].seen = wr_idx]
  /\ UNCHANGED <<slots, wr_idx, taken>>

\* Mutant: the hint is the ticket's successor.
HintOfTicket(t) == t + 1

\* The hint is a position in the ring: slot_idx + 1.
Hint(t) == SlotOf(t) + 1

\* cmpxchg of wr_idx to the hint, retried with the value found: the loop's condition is
\* an unsigned remainder >= 0, always true.  (The locals of a call that has returned are
\* reset, to keep states few.)
HSwap(h) ==
  /\ hk[h].pc = "swap"
  /\ \/ wr_idx = hk[h].seen /\ wr_idx' = Hint(my_ticket(h)) /\ hk' = [hk EXCEPT ![h] = Idle]
     \/ wr_idx # hk[h].seen /\ hk' = [hk EXCEPT ![h].seen = wr_idx] /\ UNCHANGED wr_idx
  /\ UNCHANGED <<slots, taken>>

HRun(h) == (\E f \in Fields : HStore(h, f)) \/ HStamp(h) \/ HLoadHint(h) \/ HSwap(h)
-----------------------------------------------------------------------------
Arrive(h) == HTake(h) /\ UNCHANGED drain
Hook(h) == HRun(h) /\ UNCHANGED drain
Client(c) == CStep(c) /\ UNCHANGED <<slots, wr_idx, taken, hk>>
User(c) == (Stop(c) \/ Relaunch(c)) /\ UNCHANGED <<slots, wr_idx, taken, hk>>

Next ==
  \/ \E h \in Hooks : Arrive(h) \/ Hook(h)
  \/ \E c \in Clients : Client(c) \/ User(c)

Spec == Init /\ [][Next]_vars

\* A hook that has a ticket runs to its end, the consumer thread keeps running; nothing
\* obliges a packet to arrive, Enter to be pressed or a client to be killed.
FairSpec ==
  /\ Spec
  /\ \A h \in Hooks : WF_vars(Hook(h))
  /\ \A c \in Clients : WF_vars(Client(c))
-----------------------------------------------------------------------------
(* Properties *)

\* Type invariant; wr_idx, though compared with tickets, only ever holds a position.
TypeOK ==
  /\ RingType /\ wr_idx \in 0 .. Slots
  /\ taken \in 0 .. MaxPackets
  /\ hk \in [Hooks -> [pc : {"idle", "store", "load_hint", "swap"}, packet : Nat,
                       stored : SUBSET Fields, seen : 0 .. Slots]]

\* Until the ring is lapped, whatever a skip-ahead consumer processes under a ticket is
\* the payload of the packet that took it, however hooks and consumer interleave:
\* payload, barrier, ticket on one side, ticket, acquire, payload on the other.
FirstLapFaithful == taken <= Slots => AllFaithful("skip")

\* The same for scatter-gather, whose memcpy orders nothing.
SnapshotFaithful == taken <= Slots => AllFaithful("scatter")

\* The tickets processed form a lossy log of the tickets taken.
TL == INSTANCE TicketLog WITH issued <- taken, log <- Tickets
Log == TL!Spec

\* Until the ring is lapped, a scatter-gather consumer gets to every packet but the first,
\* whatever order the hooks finish in: a hole stops it for a while, never for good.  (In the
\* place of packet 0 it may have processed the zeroed page.)
DrainsFirstLap ==
  \A t \in 1 .. Slots - 1 : \A c \in Clients :
    (cl[c].mode = "scatter" /\ t < taken) ~> (rd_idx > t \/ taken > Slots \/ ~cl[c].run)

\* A consumer that was overrun rolls forward.
RollsForward ==
  \A t \in 0 .. MaxPackets - 1 : \A c \in Clients :
    (t < taken) ~> (rd_idx > t \/ ~cl[c].run)

\* main's pthread_join returns: no engine loops for ever over what it found.
ShutsDown ==
  \A c \in Clients : ~cl[c].run ~> (At(c, "done") \/ cl[c].run)
=============================================================================
