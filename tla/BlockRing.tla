----------------------------- MODULE BlockRing -----------------------------
(***************************************************************************)
(* The block tenant (tenant 2) of the shared telemetry page.               *)
(*                                                                         *)
(* Producers: the submit_bio probe (block_filter/telemetry_block.c), run   *)
(* by several CPUs at once.  Consumers: the clients of TicketClient        *)
(* (user/block_filter_client.cpp).                                         *)
(*                                                                         *)
(* Unlike the net tenant's, this lane has no separate dispenser: wr_idx    *)
(* itself hands out the tickets, and doubles as the hint of the skip-ahead *)
(* engine.  A bio is its ticket.                                           *)
(***************************************************************************)
EXTENDS TicketClient

CONSTANTS
  Cpus,     \* the CPUs that run the probe
  MaxBios   \* bound: bios submitted

\* Eight slots: unlike the net tenant's 24, a divisor of 2^32.
ASSUME DivisorAssumption == TicketMod % Slots = 0
\* The bios of a run do not use up the tickets.
ASSUME BiosAssumption == MaxBios \in Nat /\ MaxBios < TicketMod \div 2

VARIABLE pr   \* each probe: position, ticket, words stored

vars == <<slots, wr_idx, drain, pr>>

Idle == [pc |-> "idle", ticket |-> 0, stored |-> {}]

Init == RingInit /\ pr = [p \in Cpus |-> Idle]
-----------------------------------------------------------------------------
(* block_telemetry_commit_metric, from the pre-handler of the submit_bio probe *)

\* fetch_add on wr_idx.
PTake(p) ==
  /\ pr[p].pc = "idle" /\ wr_idx < MaxBios
  /\ wr_idx' = NextTicket(wr_idx)
  /\ pr' = [pr EXCEPT ![p].pc = "store", ![p].ticket = wr_idx]
  /\ UNCHANGED slots

\* One word of slot->io_metrics = *metric.
PStore(p, f) ==
  /\ pr[p].pc = "store" /\ f \notin pr[p].stored
  /\ slots' = [slots EXCEPT ![SlotOf(pr[p].ticket)][f] = pr[p].ticket]
  /\ pr' = [pr EXCEPT ![p].stored = @ \cup {f}]
  /\ UNCHANGED wr_idx

\* Mutant: the ticket is stamped on the slot after.
PStampNextSlot(p) ==
  /\ pr[p].pc = "store" /\ pr[p].stored = Fields
  /\ slots' = [slots EXCEPT ![SlotOf(pr[p].ticket + 1)]["ticket"] = pr[p].ticket]
  /\ pr' = [pr EXCEPT ![p] = Idle]
  /\ UNCHANGED wr_idx

\* Mutant: no smp_wmb, so the ticket may become visible before the payload.
PStampEarly(p) ==
  /\ pr[p].pc = "store"
  /\ slots' = [slots EXCEPT ![SlotOf(pr[p].ticket)]["ticket"] = pr[p].ticket]
  /\ pr' = IF pr[p].stored = Fields THEN [pr EXCEPT ![p] = Idle] ELSE pr
  /\ UNCHANGED wr_idx

\* smp_wmb, then the slot_ticket.  (The locals of a call that has returned are reset,
\* to keep states few.)
PStamp(p) ==
  /\ pr[p].pc = "store" /\ pr[p].stored = Fields
  /\ slots' = [slots EXCEPT ![SlotOf(pr[p].ticket)]["ticket"] = pr[p].ticket]
  /\ pr' = [pr EXCEPT ![p] = Idle]
  /\ UNCHANGED wr_idx

PRun(p) == (\E f \in Fields : PStore(p, f)) \/ PStamp(p)
-----------------------------------------------------------------------------
Submit(p) == PTake(p) /\ UNCHANGED drain
Probe(p) == PRun(p) /\ UNCHANGED drain
Client(c) == CStep(c) /\ UNCHANGED <<slots, wr_idx, pr>>
User(c) == (Stop(c) \/ Relaunch(c)) /\ UNCHANGED <<slots, wr_idx, pr>>

Next ==
  \/ \E p \in Cpus : Submit(p) \/ Probe(p)
  \/ \E c \in Clients : Client(c) \/ User(c)

Spec == Init /\ [][Next]_vars

\* A probe that has a ticket runs to its end, the consumer thread keeps running;
\* nothing obliges a bio to be submitted, Enter to be pressed or a client to be killed.
FairSpec ==
  /\ Spec
  /\ \A p \in Cpus : WF_vars(Probe(p))
  /\ \A c \in Clients : WF_vars(Client(c))
-----------------------------------------------------------------------------
(* Properties *)

\* Type invariant; a stamp other than that of the zeroed page is one of its own slot's.
TypeOK ==
  /\ RingType /\ wr_idx <= MaxBios
  /\ \A i \in Index : slots[i]["ticket"] # 0 => SlotOf(slots[i]["ticket"]) = i
  /\ pr \in [Cpus -> [pc : {"idle", "store"}, ticket : Ticket, stored : SUBSET Fields]]

\* Until the ring is lapped, whatever the skip-ahead engine processes under a ticket
\* other than the zeroed page's is the bio that took it: payload, barrier, ticket in the
\* probe, ticket, acquire, payload in the client.
FirstLapFaithful == wr_idx <= Slots => AllFaithful("skip")

\* The tickets processed form a lossy log of the tickets wr_idx handed out: even once
\* the ring is lapped, no record is processed twice, or after a younger one.
TL == INSTANCE TicketLog WITH issued <- wr_idx, log <- Tickets
Log == TL!Spec

\* A record that stays in the ring is passed by the skip-ahead engine, whatever was
\* overwritten before it and whatever a slow probe has put over a newer record: wr_idx
\* is ahead of every ticket, so the scan cannot stop short of it.
SettledIsPassed ==
  \A t \in 0 .. MaxBios - 1 : \A c \in Clients :
    (cl[c].mode = "skip") /\ <>[](t < wr_idx /\ slots[SlotOf(t)]["ticket"] = t)
      => <>(rd_idx > t \/ ~cl[c].run)
=============================================================================
