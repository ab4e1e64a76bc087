--------------------------- MODULE TicketClient ---------------------------
(***************************************************************************)
(* A slot ring of the shared telemetry page and the user programs that     *)
(* drain it: the consumer thread of user/net_filter_client.c, which        *)
(* user/block_filter_client.cpp repeats for its own lane.  NetRing and     *)
(* BlockRing extend this module with their producers.                      *)
(*                                                                         *)
(* A slot holds a payload and the validation ticket of its record.  Every  *)
(* access to the page whose value matters is an action of its own, and     *)
(* memory is sequentially consistent, except that plain loads between two  *)
(* barriers happen in any order.                                           *)
(***************************************************************************)
EXTENDS Integers, Sequences

CONSTANTS
  Clients,     \* processes that run a client program
  Fields,      \* the words of a payload
  None,        \* a payload word of the zeroed page
  Slots,       \* the slot capacity of the ring
  TicketMod,   \* tickets are 32 bits wide: 2^32
  Modes,       \* the modes a client may be started in: "scatter", "skip"
  MaxStarts    \* bound: times a client is started

ASSUME SlotsAssumption == Slots \in Nat \ {0}
ASSUME TicketAssumption == TicketMod \in Nat /\ Slots < TicketMod \div 2
ASSUME ModesAssumption == Modes \subseteq {"scatter", "skip"}
ASSUME StartsAssumption == MaxStarts \in Nat \ {0}
ASSUME WordAssumption == None \notin Nat /\ "ticket" \notin Fields

VARIABLES
  slots,             \* slots[i][w]: the payload words and the slot_ticket of slot i
  wr_idx, rd_idx,    \* tx.wr_idx and rx.rd_idx of the lane
  thread_active,     \* TELEMETRY_FLAG_..._THREAD_ACTIVE
  cl,                \* each client: its position, command line, stop flag and locals
  accepted           \* history: the records handed to process_metric after a match

drain == <<rd_idx, thread_active, cl, accepted>>

Index  == 0 .. Slots - 1
Ticket == 0 .. TicketMod - 1
Word   == Fields \cup {"ticket"}
Zeroed == [i \in Index |-> [w \in Word |-> IF w = "ticket" THEN 0 ELSE None]]

\* Where a ticket's record goes, and the ticket after it in 32 bits.
SlotOf(t) == t % Slots
NextTicket(t) == (t + 1) % TicketMod

\* (int32_t)(hint - t) >= 0
Ahead(hint, t) == (hint - t) % TicketMod < TicketMod \div 2

\* A client at the start of its n-th run, in mode m.
Launched(m, n) ==
  [pc |-> "start", mode |-> m, run |-> TRUE, starts |-> n,
   expected |-> 0, hint |-> 0, scan |-> 0, snap |-> Zeroed, copied |-> {}]

RingInit ==
  /\ slots = Zeroed /\ wr_idx = 0 /\ rd_idx = 0 /\ thread_active = FALSE
  /\ cl \in [Clients -> {Launched(m, 1) : m \in Modes}]
  /\ accepted = <<>>
-----------------------------------------------------------------------------
At(c, label) == cl[c].pc = label

\* Mutant: a client starts at the producers' end of the ring.
BaselineAtHead == wr_idx

\* The tracking baseline stored in the page.
Baseline == rd_idx

\* Claim the channel.  (The load of the flags before the store is not tested; it carries the
\* other bits over, which nobody sets.  So it is at the end, CExit.)
CStart(c) ==
  /\ At(c, "start")
  /\ thread_active' = TRUE
  /\ cl' = [cl EXCEPT ![c].pc = "baseline"]
  /\ UNCHANGED <<rd_idx, accepted>>

\* Start from where rd_idx is now.
CBaseline(c) ==
  /\ At(c, "baseline")
  /\ cl' = [cl EXCEPT ![c].pc = "loop", ![c].expected = Baseline]
  /\ UNCHANGED <<rd_idx, thread_active, accepted>>

\* Mutant: run_signal is read once, before the loop (were it not volatile).
RunningDeaf(c) == TRUE

Running(c) == cl[c].run

\* while (run_signal): one round of the engine main chose.
CLoop(c) ==
  /\ At(c, "loop")
  /\ cl' = [cl EXCEPT ![c].pc = IF ~Running(c) THEN "exit"
                                ELSE IF cl[c].mode = "scatter" THEN "copy" ELSE "hint"]
  /\ UNCHANGED <<rd_idx, thread_active, accepted>>

\* One word of slot i comes into the client's hands.
Fetch(c, i, w) ==
  /\ <<i, w>> \notin cl[c].copied
  /\ cl' = [cl EXCEPT ![c].snap[i][w] = slots[i][w], ![c].copied = @ \cup {<<i, w>>}]
  /\ UNCHANGED <<rd_idx, thread_active, accepted>>

\* memcpy of the pool: every word of every slot, in any order ...
CCopy(c) == At(c, "copy") /\ \E i \in Index, w \in Word : Fetch(c, i, w)

\* ... before the tickets of the copy are looked at.
CCopied(c) ==
  /\ At(c, "copy") /\ cl[c].copied = Index \X Word
  /\ cl' = [cl EXCEPT ![c].pc = "match"]
  /\ UNCHANGED <<rd_idx, thread_active, accepted>>

\* Mutant: the ticket of a slot is not compared.
MatchesAnything(stamp, t) == TRUE

Matches(stamp, t) == stamp = t

\* The record the client holds, under the ticket it expects.
Record(c) ==
  [ticket |-> cl[c].expected, mode |-> cl[c].mode,
   payload |-> cl[c].snap[SlotOf(cl[c].expected)]]

\* The snapshot has the expected ticket: process the record, expect the next;
\* or it has not: leave the snapshot.
CMatch(c) ==
  /\ At(c, "match")
  /\ IF Matches(Record(c).payload["ticket"], cl[c].expected)
     THEN /\ accepted' = Append(accepted, Record(c))
          /\ cl' = [cl EXCEPT ![c].expected = NextTicket(@)]
     ELSE /\ cl' = [cl EXCEPT ![c].pc = "publish"]
          /\ UNCHANGED accepted
  /\ UNCHANGED <<rd_idx, thread_active>>

CHint(c) ==
  /\ At(c, "hint")
  /\ cl' = [cl EXCEPT ![c].hint = wr_idx, ![c].pc = "walk"]
  /\ UNCHANGED <<rd_idx, thread_active, accepted>>

Holds(t) == Matches(slots[SlotOf(t)]["ticket"], t)

\* Mutant: a hole ends the round, as it does for the other engine.
AtHoleStops == "publish"

\* A hole starts a scan of the slots ahead.
AtHole == "scan"

\* Up to the hint, load the ticket of the expected slot: a match is processed in place.
CWalk(c) ==
  LET here == Ahead(cl[c].hint, cl[c].expected) IN
  /\ At(c, "walk")
  /\ \/ /\ here /\ Holds(cl[c].expected)
        /\ cl' = [cl EXCEPT ![c].pc = "process"]
     \/ /\ here /\ ~Holds(cl[c].expected)
        /\ cl' = [cl EXCEPT ![c].pc = AtHole, ![c].scan = NextTicket(cl[c].expected)]
     \/ ~here /\ cl' = [cl EXCEPT ![c].pc = "publish"]
  /\ UNCHANGED <<rd_idx, thread_active, accepted>>

\* process_metric reads the live slot, word by word ...
CReadSlot(c) == At(c, "process") /\ \E w \in Word : Fetch(c, SlotOf(cl[c].expected), w)

\* ... and the next ticket is expected.
CProcessed(c) ==
  /\ At(c, "process") /\ cl[c].copied = {SlotOf(cl[c].expected)} \X Word
  /\ accepted' = Append(accepted, Record(c))
  /\ cl' = [cl EXCEPT ![c].expected = NextTicket(@), ![c].pc = "walk",
                      ![c].snap = Zeroed, ![c].copied = {}]
  /\ UNCHANGED <<rd_idx, thread_active>>

\* Mutant: the scan finds its slot, and the leap is forgotten.
AnchorForgotten(c) == cl[c].expected

\* Where a scan that found its slot leaps to.
Anchor(c) == cl[c].scan

\* The scan leaps to the first slot up to the hint that holds its own ticket.
CScan(c) ==
  LET t == cl[c].scan
      here == Ahead(cl[c].hint, t) IN
  /\ At(c, "scan")
  /\ \/ here /\ Holds(t) /\ cl' = [cl EXCEPT ![c].pc = "walk", ![c].expected = Anchor(c)]
     \/ here /\ ~Holds(t) /\ cl' = [cl EXCEPT ![c].scan = NextTicket(t)]
     \/ ~here /\ cl' = [cl EXCEPT ![c].pc = "publish"]
  /\ UNCHANGED <<rd_idx, thread_active, accepted>>

\* Mutant: the snapshot is taken once, in the first round.
RoundOverKeeps(local) == [local EXCEPT !.pc = "loop"]

\* The round ends; its locals go out of scope.
RoundOver(local) ==
  [local EXCEPT !.pc = "loop", !.hint = 0, !.scan = 0, !.snap = Zeroed, !.copied = {}]

CPublish(c) ==
  /\ At(c, "publish")
  /\ rd_idx' = cl[c].expected
  /\ cl' = [cl EXCEPT ![c] = RoundOver(@)]
  /\ UNCHANGED <<thread_active, accepted>>

\* The flags are given back, whoever else has claimed them.
CExit(c) ==
  /\ At(c, "exit")
  /\ thread_active' = FALSE
  /\ cl' = [cl EXCEPT ![c].pc = "done"]
  /\ UNCHANGED <<rd_idx, accepted>>

CStep(c) ==
  \/ CStart(c) \/ CBaseline(c) \/ CLoop(c) \/ CCopy(c) \/ CCopied(c) \/ CMatch(c)
  \/ CHint(c) \/ CWalk(c) \/ CReadSlot(c) \/ CProcessed(c) \/ CScan(c) \/ CPublish(c) \/ CExit(c)

\* netfilter_main: Enter was pressed.
Stop(c) ==
  /\ cl[c].run
  /\ cl' = [cl EXCEPT ![c].run = FALSE]
  /\ UNCHANGED <<rd_idx, thread_active, accepted>>

\* The program was killed anywhere, or has ended, and is started again: the locals are
\* gone, the page is as it was left.
Relaunch(c) ==
  /\ ~At(c, "start") /\ cl[c].starts < MaxStarts
  /\ \E m \in Modes : cl' = [cl EXCEPT ![c] = Launched(m, @.starts + 1)]
  /\ UNCHANGED <<rd_idx, thread_active, accepted>>
-----------------------------------------------------------------------------
(* Parts of the properties of the rings that extend this module *)

Labels == {"start", "baseline", "loop", "copy", "match", "hint", "walk", "process", "scan",
           "publish", "exit", "done"}
Content == [Word -> Nat \cup {None}]

ClientState ==
  [pc : Labels, mode : Modes, run : BOOLEAN, starts : 1 .. MaxStarts,
   expected : Ticket, hint : Ticket, scan : Ticket,
   snap : [Index -> Content], copied : SUBSET (Index \X Word)]

RingType ==
  /\ slots \in [Index -> Content] /\ \A i \in Index : slots[i]["ticket"] \in Ticket
  /\ wr_idx \in Ticket /\ rd_idx \in Ticket /\ thread_active \in BOOLEAN
  /\ cl \in [Clients -> ClientState]
  /\ accepted \in Seq([ticket : Ticket, mode : Modes, payload : Content])

\* Ticket 0 aside, whose slot the zeroed page imitates, every word is the ticket's.
Faithful(r) == r.ticket # 0 => \A w \in Word : r.payload[w] = r.ticket

\* The same of every record one engine has processed.
AllFaithful(mode) ==
  \A k \in 1 .. Len(accepted) : accepted[k].mode = mode => Faithful(accepted[k])

\* The tickets under which records were processed.
Tickets == [k \in 1 .. Len(accepted) |-> accepted[k].ticket]

\* A client that is killed, or that another replaces, has published no ticket it had not
\* processed: while all clients are scatter-gather, no record below rd_idx is skipped.
\* Ticket 0 aside: the zeroed page may have been processed in its place.
NothingSkipped ==
  \A t \in 1 .. rd_idx - 1 : \E k \in 1 .. Len(accepted) : accepted[k].ticket = t
=============================================================================
