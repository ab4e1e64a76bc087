------------------------- MODULE TicketClientProofs -------------------------
(***************************************************************************)
(* Lemmas about the client of a slot ring, for NetRingProofs and           *)
(* BlockRingProofs: what its steps keep, whoever the producers are.        *)
(***************************************************************************)
EXTENDS TicketClient, SequenceTheorems, TLAPS

-----------------------------------------------------------------------------
(* The arithmetic of tickets *)

\* Every ticket has a slot; those of the first lap have the slot of their own number.
LEMMA SlotType == \A t \in Nat : SlotOf(t) \in Index
BY SlotsAssumption DEF SlotOf, Index

LEMMA SlotFixed == \A t \in Index : SlotOf(t) = t
BY SlotsAssumption DEF SlotOf, Index

\* The first lap is well inside the range of tickets.
LEMMA IndexIsTicket == Index \subseteq Ticket /\ Slots \in Ticket /\ Ticket \subseteq Nat
<1>1. TicketMod \in Nat /\ 2 * (TicketMod \div 2) <= TicketMod
  BY TicketAssumption
<1> QED BY <1>1, SlotsAssumption, TicketAssumption DEF Index, Ticket

LEMMA ZeroIsTicket == 0 \in Ticket /\ 0 \in Index
BY SlotsAssumption, TicketAssumption DEF Index, Ticket

\* expected_ticket++ in 32 bits.
LEMMA NextTicketStep ==
  \A t \in Ticket : NextTicket(t) = IF t + 1 = TicketMod THEN 0 ELSE t + 1
<1> SUFFICES ASSUME NEW t \in Ticket
             PROVE  NextTicket(t) = IF t + 1 = TicketMod THEN 0 ELSE t + 1
  OBVIOUS
<1>1. t \in Nat /\ t + 1 <= TicketMod /\ TicketMod \in Nat \ {0}
  BY SlotsAssumption, TicketAssumption DEF Ticket
<1>2. CASE t + 1 = TicketMod
  BY <1>1, <1>2 DEF NextTicket
<1>3. CASE t + 1 < TicketMod
  BY <1>1, <1>3 DEF NextTicket
<1> QED BY <1>1, <1>2, <1>3

LEMMA NextTicketType == \A t \in Ticket : NextTicket(t) \in Ticket
BY NextTicketStep, SlotsAssumption, TicketAssumption DEF Ticket

\* The signed difference of the code orders tickets that are less than half the range apart.
LEMMA AheadIsOrder ==
  \A hint, t \in Nat :
    hint < TicketMod \div 2 /\ t <= TicketMod \div 2 => (Ahead(hint, t) <=> t <= hint)
<1> SUFFICES ASSUME NEW hint \in Nat, NEW t \in Nat,
                    hint < TicketMod \div 2, t <= TicketMod \div 2
             PROVE  Ahead(hint, t) <=> t <= hint
  OBVIOUS
<1>1. TicketMod \in Nat \ {0} /\ 2 * (TicketMod \div 2) <= TicketMod /\ TicketMod \div 2 \in Nat
  BY SlotsAssumption, TicketAssumption
<1>2. CASE t <= hint
  <2>1. hint - t \in 0 .. TicketMod - 1
    BY <1>1, <1>2
  <2>2. (hint - t) % TicketMod = hint - t
    BY <1>1, <2>1
  <2> QED BY <1>1, <1>2, <2>2 DEF Ahead
<1>3. CASE hint < t
  <2>1. hint - t + TicketMod \in 0 .. TicketMod - 1
    BY <1>1, <1>3
  <2>2. (hint - t) % TicketMod = hint - t + TicketMod
    BY <1>1, <2>1
  <2> QED BY <1>1, <1>3, <2>2 DEF Ahead
<1> QED BY <1>2, <1>3

-----------------------------------------------------------------------------
(* Types *)

\* A step of a client: of its thread, of Enter, or of whoever starts the program again.
Drains(c) == CStep(c) \/ Stop(c) \/ Relaunch(c)

\* The zeroed page, and the page of slots as a client may copy it.
LEMMA ZeroedType == Zeroed \in [Index -> Content] /\ \A i \in Index : Zeroed[i]["ticket"] = 0
BY WordAssumption DEF Zeroed, Content, Word

LEMMA RingInitType == ASSUME RingInit PROVE RingType
<1>1. slots \in [Index -> Content] /\ \A i \in Index : slots[i]["ticket"] \in Ticket
  BY ZeroedType, ZeroIsTicket DEF RingInit
<1>3. \A m \in Modes : Launched(m, 1) \in ClientState
  BY ZeroIsTicket, ZeroedType, StartsAssumption DEF Launched, ClientState, Labels
<1>4. cl \in [Clients -> ClientState]
  BY <1>3 DEF RingInit
<1>5. accepted \in Seq([ticket : Ticket, mode : Modes, payload : Content])
  BY DEF RingInit
<1> QED BY <1>1, <1>4, <1>5, ZeroIsTicket DEF RingInit, RingType

\* What a client hands to process_metric is a record of the history.
LEMMA RecordType ==
  ASSUME RingType, NEW c \in Clients
  PROVE  /\ Record(c) \in [ticket : Ticket, mode : Modes, payload : Content]
         /\ Append(accepted, Record(c)) \in Seq([ticket : Ticket, mode : Modes, payload : Content])
<1>1. cl[c].expected \in Ticket /\ cl[c].mode \in Modes /\ cl[c].snap \in [Index -> Content]
  BY DEF RingType, ClientState
<1>2. SlotOf(cl[c].expected) \in Index
  BY <1>1, SlotType, IndexIsTicket
<1>3. Record(c) \in [ticket : Ticket, mode : Modes, payload : Content]
  BY <1>1, <1>2 DEF Record
<1> QED BY <1>3 DEF RingType

\* A client's steps keep the types of everything it writes.
LEMMA ClientType ==
  ASSUME RingType, NEW c \in Clients, Drains(c), UNCHANGED <<slots, wr_idx>>
  PROVE  RingType'
<1> USE DEF RingType
<1> DEFINE Rec == [ticket : Ticket, mode : Modes, payload : Content]
<1>0. cl[c] \in ClientState
  OBVIOUS
<1>1. ASSUME NEW l \in ClientState, cl' = [cl EXCEPT ![c] = l],
             UNCHANGED <<rd_idx, accepted>>, thread_active' \in BOOLEAN
      PROVE  RingType'
  BY <1>1
<1>2. CASE CStart(c)
  <2>1. [cl[c] EXCEPT !.pc = "baseline"] \in ClientState
    BY <1>0 DEF ClientState, Labels
  <2> QED BY <1>1, <1>2, <2>1 DEF CStart
<1>3. CASE CLoop(c)
  <2>1. \A p \in Labels : [cl[c] EXCEPT !.pc = p] \in ClientState
    BY <1>0 DEF ClientState
  <2>2. PICK p \in Labels : cl' = [cl EXCEPT ![c] = [cl[c] EXCEPT !.pc = p]]
    BY <1>3 DEF CLoop, Labels
  <2> QED BY <1>1, <1>3, <2>1, <2>2 DEF CLoop
<1>4. ASSUME NEW i \in Index, NEW w \in Word, Fetch(c, i, w) PROVE RingType'
  <2>1. [cl[c] EXCEPT !.snap[i][w] = slots[i][w], !.copied = @ \cup {<<i, w>>}] \in ClientState
    <3>1. slots[i][w] \in Nat \cup {None} /\ cl[c].snap \in [Index -> Content]
      BY <1>0 DEF ClientState, Content
    <3>2. [cl[c].snap EXCEPT ![i][w] = slots[i][w]] \in [Index -> Content]
      BY <3>1 DEF Content
    <3>3. cl[c].copied \cup {<<i, w>>} \in SUBSET (Index \X Word)
      BY <1>0 DEF ClientState
    <3> QED BY <1>0, <3>2, <3>3 DEF ClientState
  <2> QED BY <1>1, <1>4, <2>1 DEF Fetch
<1>5. CASE CCopied(c)
  BY <1>0, <1>1, <1>5 DEF CCopied, ClientState, Labels
<1>6. CASE CMatch(c)
  <2>1. accepted' \in Seq(Rec)
    BY <1>6, RecordType DEF CMatch
  <2>2. cl' \in [Clients -> ClientState]
    <3>1. NextTicket(cl[c].expected) \in Ticket
      BY <1>0, NextTicketType DEF ClientState
    <3>2. [cl[c] EXCEPT !.expected = NextTicket(@)] \in ClientState
      BY <1>0, <3>1 DEF ClientState
    <3>3. [cl[c] EXCEPT !.pc = "publish"] \in ClientState
      BY <1>0 DEF ClientState, Labels
    <3> QED BY <1>6, <3>2, <3>3 DEF CMatch
  <2> QED BY <1>6, <2>1, <2>2 DEF CMatch
<1>7. CASE CHint(c)
  <2>1. [cl[c] EXCEPT !.hint = wr_idx, !.pc = "walk"] \in ClientState
    BY <1>0 DEF ClientState, Labels
  <2> QED BY <1>1, <1>7, <2>1 DEF CHint
<1>8. CASE CWalk(c)
  <2>1. /\ [cl[c] EXCEPT !.pc = "process"] \in ClientState
        /\ [cl[c] EXCEPT !.pc = "publish"] \in ClientState
        /\ [cl[c] EXCEPT !.pc = "scan", !.scan = NextTicket(cl[c].expected)] \in ClientState
    BY <1>0, NextTicketType DEF ClientState, Labels
  <2> QED BY <1>1, <1>8, <2>1 DEF CWalk, AtHole
<1>9. CASE CProcessed(c)
  <2>1. accepted' \in Seq(Rec)
    BY <1>9, RecordType DEF CProcessed
  <2>2. [cl[c] EXCEPT !.expected = NextTicket(@), !.pc = "walk", !.snap = Zeroed, !.copied = {}]
          \in ClientState
    BY <1>0, NextTicketType, ZeroedType DEF ClientState, Labels
  <2>3. cl' \in [Clients -> ClientState]
    BY <1>9, <2>2 DEF CProcessed
  <2> QED BY <1>9, <2>1, <2>3 DEF CProcessed
<1>10. CASE CScan(c)
  <2>1. /\ [cl[c] EXCEPT !.pc = "walk", !.expected = cl[c].scan] \in ClientState
        /\ [cl[c] EXCEPT !.scan = NextTicket(cl[c].scan)] \in ClientState
        /\ [cl[c] EXCEPT !.pc = "publish"] \in ClientState
    BY <1>0, NextTicketType DEF ClientState, Labels
  <2> QED BY <1>1, <1>10, <2>1 DEF CScan, Anchor
<1>11. CASE CPublish(c)
  <2>1. RoundOver(cl[c]) \in ClientState /\ cl[c].expected \in Ticket
    BY <1>0, ZeroedType, ZeroIsTicket DEF RoundOver, ClientState, Labels
  <2> QED BY <1>11, <2>1 DEF CPublish
<1>12. CASE CExit(c)
  <2>1. [cl[c] EXCEPT !.pc = "done"] \in ClientState
    BY <1>0 DEF ClientState, Labels
  <2> QED BY <1>1, <1>12, <2>1 DEF CExit
<1>13. CASE Stop(c)
  <2>1. [cl[c] EXCEPT !.run = FALSE] \in ClientState
    BY <1>0 DEF ClientState
  <2> QED BY <1>1, <1>13, <2>1 DEF Stop
<1>14. CASE Relaunch(c)
  <2>1. PICK m \in Modes : cl' = [cl EXCEPT ![c] = Launched(m, cl[c].starts + 1)]
    BY <1>14 DEF Relaunch
  <2>2. cl[c].starts + 1 \in 1 .. MaxStarts
    BY <1>0, <1>14, StartsAssumption DEF Relaunch, ClientState
  <2>3. Launched(m, cl[c].starts + 1) \in ClientState
    BY <2>2, ZeroedType, ZeroIsTicket DEF Launched, ClientState, Labels
  <2> QED BY <1>1, <1>14, <2>1, <2>3 DEF Relaunch
<1>15. CASE CCopy(c)
  BY <1>4, <1>15 DEF CCopy
<1>16. CASE CReadSlot(c)
  <2>1. SlotOf(cl[c].expected) \in Index
    BY <1>0, SlotType, IndexIsTicket DEF ClientState
  <2> QED BY <1>4, <1>16, <2>1 DEF CReadSlot
<1>17. CASE CBaseline(c)
  <2>1. [cl[c] EXCEPT !.pc = "loop", !.expected = rd_idx] \in ClientState
    BY <1>0 DEF ClientState, Labels
  <2> QED BY <1>1, <1>17, <2>1 DEF CBaseline, Baseline
<1> QED
  BY <1>2, <1>3, <1>5, <1>6, <1>7, <1>8, <1>9, <1>10, <1>11, <1>12, <1>13, <1>14, <1>15, <1>16,
     <1>17
  DEF Drains, CStep

-----------------------------------------------------------------------------
(* Invariants of the client *)

\* Which engine a position belongs to; outside a copy nothing is in hand.
Positions ==
  \A c \in Clients :
    /\ cl[c].pc \in {"copy", "match"} => cl[c].mode = "scatter"
    /\ cl[c].pc \in {"hint", "walk", "process", "scan"} => cl[c].mode = "skip"
    /\ cl[c].pc \in {"start", "baseline", "loop", "hint", "walk", "scan"} => cl[c].copied = {}

\* In the first lap a slot with a stamp is full of it, ...
Stamped == \A i \in Index : slots[i]["ticket"] # 0 => \A w \in Word : slots[i][w] = i

\* ... and a skip-ahead client that has matched a stamp reads nothing else.
Reading ==
  \A c \in Clients : cl[c].pc = "process" /\ cl[c].expected # 0 =>
    LET i == SlotOf(cl[c].expected) IN
    /\ slots[i]["ticket"] = cl[c].expected
    /\ \A w \in Word : <<i, w>> \in cl[c].copied => cl[c].snap[i][w] = cl[c].expected

FirstLap == Stamped /\ Reading /\ AllFaithful("skip")

\* Every ticket below n has been processed.
Covered(n) == \A t \in 0 .. n - 1 : \E k \in 1 .. Len(accepted) : accepted[k].ticket = t

Coverage == Covered(rd_idx) /\ \A c \in Clients : Covered(cl[c].expected)

\* Stamps are of tickets issued, wherever they have been copied to.
Issued(n) ==
  \A i \in Index :
    /\ slots[i]["ticket"] \in (0 .. n - 1) \cup {0}
    /\ \A c \in Clients : cl[c].snap[i]["ticket"] \in (0 .. n - 1) \cup {0}

\* A client that is never started again has processed tickets below the one it expects, and
\* neither that one nor its scan gets beyond the bound b of tickets and hints.
InOrder(n, b) ==
  /\ rd_idx <= b
  /\ \A c \in Clients :
       /\ cl[c].starts = 1 /\ cl[c].expected <= b /\ cl[c].hint <= b
       /\ cl[c].pc \in {"start", "baseline"} => accepted = <<>>
       /\ accepted # <<>> => accepted[Len(accepted)].ticket < cl[c].expected
       /\ cl[c].pc = "process" => cl[c].expected < n \/ cl[c].expected = 0
       /\ cl[c].pc = "scan" => cl[c].expected < cl[c].scan /\ cl[c].scan <= b + 1

-----------------------------------------------------------------------------
(* The frame of a client's step *)

\* A client writes its own locals, at most one record, and its own place into rd_idx.
LEMMA ClientFrame ==
  ASSUME RingType, NEW c \in Clients, Drains(c)
  PROVE  /\ \A d \in Clients \ {c} : cl'[d] = cl[d]
         /\ accepted' = accepted \/ accepted' = Append(accepted, Record(c))
         /\ rd_idx' = rd_idx \/ rd_idx' = cl[c].expected
<1>1. \A d \in Clients \ {c} : cl'[d] = cl[d]
  BY DEF RingType, Drains, CStep, CStart, CBaseline, CLoop, CCopy, CCopied, CMatch, CHint, CWalk,
         CReadSlot, CProcessed, CScan, CPublish, CExit, Stop, Relaunch, Fetch
<1>2. accepted' = accepted \/ accepted' = Append(accepted, Record(c))
  BY DEF Drains, CStep, CStart, CBaseline, CLoop, CCopy, CCopied, CMatch, CHint, CWalk,
         CReadSlot, CProcessed, CScan, CPublish, CExit, Stop, Relaunch, Fetch
<1>3. rd_idx' = rd_idx \/ rd_idx' = cl[c].expected
  BY DEF Drains, CStep, CStart, CBaseline, CLoop, CCopy, CCopied, CMatch, CHint, CWalk,
         CReadSlot, CProcessed, CScan, CPublish, CExit, Stop, Relaunch, Fetch
<1> QED BY <1>1, <1>2, <1>3

\* The history after one more record.
LEMMA AppendRecord ==
  ASSUME RingType, NEW c \in Clients, accepted' = Append(accepted, Record(c))
  PROVE  /\ Len(accepted) \in Nat /\ Len(accepted') = Len(accepted) + 1
         /\ \A k \in 1 .. Len(accepted) : accepted'[k] = accepted[k]
         /\ accepted'[Len(accepted) + 1] = Record(c)
         /\ accepted' # <<>> /\ accepted'[Len(accepted')] = Record(c)
<1>1. Record(c) \in [ticket : Ticket, mode : Modes, payload : Content]
  BY RecordType
<1> QED BY <1>1 DEF RingType

LEMMA ClientPositions ==
  ASSUME RingType, Positions, NEW c \in Clients, Drains(c)
  PROVE  Positions'
<1>1. cl[c] \in ClientState /\ cl \in [Clients -> ClientState]
  BY DEF RingType
<1> DEFINE Kept ==
      /\ cl'[c].pc \in {"copy", "match"} => cl'[c].mode = "scatter"
      /\ cl'[c].pc \in {"hint", "walk", "process", "scan"} => cl'[c].mode = "skip"
      /\ cl'[c].pc \in {"start", "baseline", "loop", "hint", "walk", "scan"} => cl'[c].copied = {}
<1>2. SUFFICES Kept
  BY ClientFrame DEF Positions
<1> USE <1>1 DEF Positions, ClientState
<1>3. CASE CStart(c) \/ CBaseline(c)
  BY <1>3 DEF CStart, CBaseline, At
<1>4. CASE CLoop(c)
  BY <1>4, ModesAssumption DEF CLoop, At
<1>5. ASSUME NEW i \in Index, NEW w \in Word, Fetch(c, i, w), cl[c].pc \in {"copy", "process"}
      PROVE  Kept
  <2>1. cl'[c].pc = cl[c].pc /\ cl'[c].mode = cl[c].mode
    BY <1>5 DEF Fetch
  <2> QED BY <1>5, <2>1
<1>6. CASE CCopy(c)
  BY <1>5, <1>6 DEF CCopy, At
<1>7. CASE CReadSlot(c)
  <2>1. SlotOf(cl[c].expected) \in Index
    BY SlotType, IndexIsTicket
  <2> QED BY <1>5, <1>7, <2>1 DEF CReadSlot, At
<1>8. CASE CCopied(c)
  BY <1>8 DEF CCopied, At
<1>9. CASE CMatch(c)
  BY <1>9 DEF CMatch, At
<1>10. CASE CHint(c) \/ CWalk(c) \/ CScan(c)
  BY <1>10 DEF CHint, CWalk, CScan, AtHole, At
<1>11. CASE CProcessed(c)
  BY <1>11 DEF CProcessed, At
<1>12. CASE CPublish(c)
  <2>1. cl'[c].pc = "loop" /\ cl'[c].copied = {}
    BY <1>12 DEF CPublish, RoundOver
  <2> QED BY <2>1
<1>13. CASE CExit(c)
  <2>1. cl'[c].pc = "done"
    BY <1>13 DEF CExit
  <2> QED BY <2>1
<1>14. CASE Stop(c) \/ Relaunch(c)
  BY <1>14 DEF Stop, Relaunch, Launched, At
<1> QED
  BY <1>3, <1>4, <1>6, <1>7, <1>8, <1>9, <1>10, <1>11, <1>12, <1>13, <1>14 DEF Drains, CStep

-----------------------------------------------------------------------------
(* The first lap *)

\* A skip-ahead client accepts nothing but what the stamp it matched stands for.
LEMMA ClientLap ==
  ASSUME RingType, Positions, FirstLap, NEW c \in Clients, Drains(c), UNCHANGED slots
  PROVE  FirstLap'
<1> DEFINE t == cl[c].expected
           i == SlotOf(t)
<1>1. cl[c] \in ClientState /\ cl \in [Clients -> ClientState]
  BY DEF RingType
<1>2. t \in Ticket /\ i \in Index /\ "ticket" \in Word
  BY <1>1, SlotType, IndexIsTicket DEF ClientState, Word
<1>3. Stamped'
  BY DEF FirstLap, Stamped
<1>4. Reading'
  <2>1. SUFFICES ASSUME cl'[c].pc = "process", cl'[c].expected # 0
                 PROVE  LET j == SlotOf(cl'[c].expected) IN
                        /\ slots[j]["ticket"] = cl'[c].expected
                        /\ \A w \in Word : <<j, w>> \in cl'[c].copied =>
                             cl'[c].snap[j][w] = cl'[c].expected
    BY ClientFrame DEF FirstLap, Reading
  <2>2. CASE CWalk(c)
    <3>1. Holds(t) /\ cl'[c].expected = t /\ cl'[c].copied = {}
      BY <1>1, <2>1, <2>2 DEF CWalk, AtHole, At, Positions, ClientState
    <3> QED BY <3>1 DEF Holds, Matches
  <2>3. CASE CReadSlot(c)
    <3>1. PICK w \in Word : Fetch(c, i, w)
      BY <2>3 DEF CReadSlot
    <3>2. cl[c].pc = "process" /\ cl'[c].expected = t
      BY <1>1, <2>3, <3>1 DEF CReadSlot, Fetch, At, ClientState
    <3>3. slots[i]["ticket"] = t /\ slots[i][w] = t
      <4>1. slots[i]["ticket"] = t /\ t # 0
        BY <2>1, <3>2 DEF FirstLap, Reading
      <4>2. i = t
        BY <1>2, <4>1 DEF FirstLap, Stamped
      <4> QED BY <1>2, <4>1, <4>2 DEF FirstLap, Stamped
    <3>4. \A v \in Word : <<i, v>> \in cl[c].copied => cl[c].snap[i][v] = t
      BY <2>1, <3>2 DEF FirstLap, Reading
    <3>5. /\ cl'[c].copied = cl[c].copied \cup {<<i, w>>}
          /\ cl'[c].snap = [cl[c].snap EXCEPT ![i][w] = slots[i][w]]
      BY <1>1, <3>1 DEF Fetch, ClientState
    <3>6. cl[c].snap \in [Index -> [Word -> Nat \cup {None}]]
      BY <1>1 DEF ClientState, Content
    <3>7. \A v \in Word : <<i, v>> \in cl'[c].copied => cl'[c].snap[i][v] = t
      BY <1>2, <3>3, <3>4, <3>5, <3>6
    <3> QED BY <3>2, <3>3, <3>7
  <2>4. CASE Stop(c)
    <3>1. UNCHANGED <<cl[c].pc, cl[c].expected, cl[c].copied, cl[c].snap>>
      BY <1>1, <2>4 DEF Stop, ClientState
    <3> QED BY <2>1, <3>1 DEF FirstLap, Reading
  <2>5. CASE Relaunch(c)
    BY <1>1, <2>1, <2>5 DEF Relaunch, Launched, ClientState
  <2>6. CASE CCopy(c)
    <3>1. cl[c].pc = "copy" /\ \E j \in Index, w \in Word : Fetch(c, j, w)
      BY <2>6 DEF CCopy, At
    <3>2. cl'[c].pc = "copy"
      BY <1>1, <3>1 DEF Fetch, ClientState
    <3> QED BY <2>1, <3>2
  <2>7. CASE CStart(c) \/ CBaseline(c) \/ CLoop(c) \/ CCopied(c) \/ CHint(c) \/ CExit(c)
    BY <1>1, <2>1, <2>7 DEF CStart, CBaseline, CLoop, CCopied, CHint, CExit, ClientState
  <2>8. CASE CMatch(c) \/ CScan(c)
    BY <1>1, <2>1, <2>8 DEF CMatch, CScan, At, ClientState
  <2>9. CASE CProcessed(c)
    BY <1>1, <2>1, <2>9 DEF CProcessed, ClientState
  <2>10. CASE CPublish(c)
    BY <1>1, <2>1, <2>10 DEF CPublish, RoundOver, ClientState
  <2> QED BY <2>2, <2>3, <2>4, <2>5, <2>6, <2>7, <2>8, <2>9, <2>10 DEF Drains, CStep
<1>5. AllFaithful("skip")'
  <2>1. CASE accepted' = accepted
    BY <2>1 DEF FirstLap, AllFaithful
  <2>2. CASE accepted' # accepted
    <3>1. accepted' = Append(accepted, Record(c))
      BY <2>2, ClientFrame
    <3>2. CMatch(c) \/ CProcessed(c)
      BY <2>2 DEF Drains, CStep, CStart, CBaseline, CLoop, CCopy, CCopied, CHint, CWalk, CReadSlot, CScan,
                  CPublish, CExit, Stop, Relaunch, Fetch
    <3>3. Record(c).mode = "skip" => Faithful(Record(c))
      <4>1. CASE CMatch(c)
        BY <1>1, <4>1 DEF CMatch, At, Positions, Record
      <4>2. CASE CProcessed(c)
        <5>1. cl[c].pc = "process" /\ \A w \in Word : <<i, w>> \in cl[c].copied
          BY <4>2 DEF CProcessed, At
        <5>2. t # 0 => \A w \in Word : cl[c].snap[i][w] = t
          BY <5>1 DEF FirstLap, Reading
        <5> QED BY <5>2 DEF Record, Faithful
      <4> QED BY <3>2, <4>1, <4>2
    <3> QED BY <3>1, <3>3, AppendRecord DEF FirstLap, AllFaithful
  <2> QED BY <2>1, <2>2
<1> QED BY <1>3, <1>4, <1>5 DEF FirstLap
\* A producer may fill a slot that is not stamped: no client reads it ...
LEMMA StoreLap ==
  ASSUME RingType, FirstLap, NEW t \in Index, NEW f \in Fields, slots[t]["ticket"] = 0,
         slots' = [slots EXCEPT ![t][f] = t], UNCHANGED drain
  PROVE  FirstLap'
<1>1. f # "ticket" /\ slots \in [Index -> [Word -> Nat \cup {None}]] /\ "ticket" \in Word /\ f \in Word
  BY WordAssumption DEF RingType, Content, Word
<1>2. /\ \A i \in Index : slots'[i]["ticket"] = slots[i]["ticket"]
      /\ \A i \in Index \ {t} : slots'[i] = slots[i]
  BY <1>1
<1>3. Stamped'
  BY <1>2 DEF FirstLap, Stamped
<1>4. Reading'
  <2>1. \A c \in Clients : SlotOf(cl[c].expected) \in Index
    BY SlotType, IndexIsTicket DEF RingType, ClientState
  <2> QED BY <1>2, <2>1 DEF FirstLap, Reading, drain
<1>5. AllFaithful("skip")'
  BY DEF FirstLap, AllFaithful, drain
<1> QED BY <1>3, <1>4, <1>5 DEF FirstLap

\* ... and stamp it once it is full.
LEMMA StampLap ==
  ASSUME RingType, FirstLap, NEW t \in Index, slots[t]["ticket"] = 0,
         \A f \in Fields : slots[t][f] = t,
         slots' = [slots EXCEPT ![t]["ticket"] = t], UNCHANGED drain
  PROVE  FirstLap'
<1>1. slots \in [Index -> [Word -> Nat \cup {None}]] /\ "ticket" \in Word
  BY DEF RingType, Content, Word
<1>2. /\ \A w \in Word : slots'[t][w] = t
      /\ \A i \in Index \ {t} : slots'[i] = slots[i]
  <2>1. \A f \in Fields : f \in Word /\ f # "ticket"
    BY WordAssumption DEF Word
  <2>2. slots'[t]["ticket"] = t /\ \A f \in Fields : slots'[t][f] = t
    BY <1>1, <2>1
  <2>3. \A i \in Index \ {t} : slots'[i] = slots[i]
    BY <1>1
  <2> QED BY <2>2, <2>3 DEF Word
<1>3. Stamped'
  BY <1>2 DEF FirstLap, Stamped
<1>4. Reading'
  <2>1. \A c \in Clients : SlotOf(cl[c].expected) \in Index
    BY SlotType, IndexIsTicket DEF RingType, ClientState
  <2> QED BY <1>2, <2>1 DEF FirstLap, Reading, drain
<1>5. AllFaithful("skip")'
  BY DEF FirstLap, AllFaithful, drain
<1> QED BY <1>3, <1>4, <1>5 DEF FirstLap

-----------------------------------------------------------------------------
(* No record is skipped by a scatter-gather client *)

\* The history only grows.
LEMMA CoveredGrows ==
  ASSUME RingType, NEW c \in Clients, Drains(c), NEW n \in Ticket, Covered(n)
  PROVE  Covered(n)'
<1>1. CASE accepted' = accepted
  BY <1>1 DEF Covered
<1>2. CASE accepted' = Append(accepted, Record(c))
  <2>1. /\ Len(accepted) \in Nat /\ Len(accepted') = Len(accepted) + 1
        /\ \A k \in 1 .. Len(accepted) : accepted'[k] = accepted[k]
    BY <1>2, AppendRecord
  <2>2. 1 .. Len(accepted) \subseteq 1 .. Len(accepted')
    BY <2>1
  <2> QED BY <2>1, <2>2 DEF Covered
<1> QED BY <1>1, <1>2, ClientFrame

\* The client expects the ticket after the one it has processed, in 32 bits.
LEMMA CoveredNext ==
  ASSUME RingType, NEW c \in Clients, Drains(c), accepted' = Append(accepted, Record(c)),
         NEW t \in Ticket, t = cl[c].expected, Covered(t)
  PROVE  \A n \in Ticket : n = NextTicket(t) => Covered(n)'
<1>1. t \in Nat
  BY IndexIsTicket
<1>2. CASE t + 1 = TicketMod
  <2>1. NextTicket(t) = 0 /\ 0 .. 0 - 1 = {}
    BY <1>1, <1>2, NextTicketStep
  <2> QED BY <2>1 DEF Covered
<1>3. CASE t + 1 # TicketMod
  <2>1. NextTicket(t) = t + 1
    BY <1>3, NextTicketStep
  <2>2. Covered(t)'
    BY CoveredGrows
  <2>3. \E k \in 1 .. Len(accepted') : accepted'[k].ticket = t
    <3>1. /\ Len(accepted) \in Nat /\ Len(accepted') = Len(accepted) + 1
          /\ accepted'[Len(accepted')] = Record(c)
      BY AppendRecord
    <3>2. Len(accepted') \in 1 .. Len(accepted')
      BY <3>1
    <3> QED BY <3>1, <3>2 DEF Record
  <2>4. ASSUME NEW n \in Ticket, n = NextTicket(t), NEW m \in 0 .. n - 1
        PROVE  \E k \in 1 .. Len(accepted') : accepted'[k].ticket = m
    <3>1. m \in 0 .. t - 1 \/ m = t
      BY <1>1, <2>1, <2>4
    <3> QED BY <2>2, <2>3, <3>1 DEF Covered
  <2> QED BY <2>4 DEF Covered
<1> QED BY <1>2, <1>3

\* A client that never leaps has processed whatever is below the ticket it expects.
LEMMA ClientCovers ==
  ASSUME RingType, Positions, Coverage, Modes = {"scatter"}, NEW c \in Clients, Drains(c),
         UNCHANGED <<slots, wr_idx>>
  PROVE  Coverage'
<1> DEFINE t == cl[c].expected
<1>1. /\ cl[c] \in ClientState /\ cl \in [Clients -> ClientState]
      /\ rd_idx \in Ticket /\ \A d \in Clients : cl[d].expected \in Ticket
  BY DEF RingType, ClientState
<1>2. Covered(rd_idx)' /\ \A d \in Clients \ {c} : Covered(cl[d].expected)'
  <2>1. \A n \in Ticket : Covered(n) => Covered(n)'
    BY CoveredGrows
  <2>2. \A d \in Clients \ {c} : cl'[d] = cl[d]
    BY ClientFrame
  <2>3. rd_idx' = rd_idx \/ rd_idx' = t
    BY ClientFrame
  <2> QED BY <1>1, <2>1, <2>2, <2>3 DEF Coverage, Covered
<1>3. \A n \in Ticket : n = cl'[c].expected => Covered(n)'
  <2>1. SUFFICES ASSUME NEW n \in Ticket, n = cl'[c].expected
                 PROVE  Covered(n)'
    OBVIOUS
  <2>2. ASSUME \/ n = cl[c].expected
               \/ n = rd_idx
               \/ 0 .. n - 1 = {}
        PROVE  Covered(n)'
    <3>1. CASE 0 .. n - 1 = {}
      BY <3>1 DEF Covered
    <3>2. CASE n = cl[c].expected \/ n = rd_idx
      BY <3>2, CoveredGrows DEF Coverage
    <3> QED BY <2>2, <3>1, <3>2
  <2>3. CASE CStart(c) \/ CBaseline(c)
    <3>1. CASE CStart(c)
      <4>1. cl'[c].expected = t
        BY <1>1, <3>1 DEF CStart, ClientState
      <4> QED BY <2>1, <2>2, <4>1
    <3>2. CASE CBaseline(c)
      <4>1. cl'[c].expected = rd_idx
        BY <1>1, <3>2 DEF CBaseline, Baseline, ClientState
      <4> QED BY <2>1, <2>2, <4>1
    <3> QED BY <2>3, <3>1, <3>2
  <2>4. CASE CMatch(c)
    <3>1. CASE accepted' = accepted
      <4>1. ~Matches(Record(c).payload["ticket"], t)
        <5>1. Len(Append(accepted, Record(c))) # Len(accepted)
          BY DEF RingType
        <5> QED BY <2>4, <3>1, <5>1 DEF CMatch
      <4>2. n = cl[c].expected
        BY <1>1, <2>1, <2>4, <4>1 DEF CMatch, ClientState
      <4> QED BY <2>2, <4>2
    <3>2. CASE accepted' = Append(accepted, Record(c))
      <4>1. Matches(Record(c).payload["ticket"], t)
        <5>1. Len(Append(accepted, Record(c))) # Len(accepted)
          BY DEF RingType
        <5> QED BY <2>4, <3>2, <5>1 DEF CMatch
      <4>2. n = NextTicket(t)
        BY <1>1, <2>1, <2>4, <4>1 DEF CMatch, ClientState
      <4> QED BY <1>1, <3>2, <4>2, CoveredNext DEF Coverage
    <3> QED BY <3>1, <3>2, ClientFrame
  <2>5. CASE CWalk(c) \/ CProcessed(c) \/ CScan(c) \/ CHint(c) \/ CReadSlot(c)
    <3>1. cl[c].mode # "scatter"
      BY <2>5 DEF CWalk, CProcessed, CScan, CHint, CReadSlot, At, Positions
    <3> QED BY <1>1, <3>1 DEF ClientState
  <2>6. CASE CLoop(c) \/ CCopied(c) \/ CExit(c) \/ Stop(c)
    BY <1>1, <2>1, <2>2, <2>6 DEF CLoop, CCopied, CExit, Stop, ClientState
  <2>7. CASE CCopy(c)
    <3>1. PICK j \in Index, w \in Word : Fetch(c, j, w)
      BY <2>7 DEF CCopy
    <3>2. cl'[c].expected = t
      BY <1>1, <3>1 DEF Fetch, ClientState
    <3> QED BY <2>1, <2>2, <3>2
  <2>8. CASE CPublish(c)
    <3>1. cl'[c].expected = t
      BY <1>1, <2>8 DEF CPublish, RoundOver, ClientState
    <3> QED BY <2>1, <2>2, <3>1
  <2>9. CASE Relaunch(c)
    <3>1. cl'[c].expected = 0 /\ 0 .. 0 - 1 = {}
      BY <1>1, <2>9 DEF Relaunch, Launched
    <3> QED BY <2>1, <2>2, <3>1
  <2> QED BY <2>3, <2>4, <2>5, <2>6, <2>7, <2>8, <2>9 DEF Drains, CStep
<1>4. cl'[c].expected \in Ticket
  BY ClientType DEF RingType, ClientState
<1> QED BY <1>2, <1>3, <1>4 DEF Coverage

-----------------------------------------------------------------------------
(* The order in which one client, started once, processes records *)

\* What the page shows of tickets below n, and the client's place in their order, is kept
\* by its steps; a record is processed under a ticket issued, beyond all those before it.
LEMMA ClientIssued ==
  ASSUME RingType, NEW n \in Nat, Issued(n), NEW c \in Clients, Drains(c), UNCHANGED slots
  PROVE  Issued(n)'
<1> DEFINE Fine(snap) == \A i \in Index : snap[i]["ticket"] \in (0 .. n - 1) \cup {0}
<1>1. cl[c] \in ClientState /\ cl \in [Clients -> ClientState]
  BY DEF RingType
<1>2. Fine(slots) /\ Fine(cl[c].snap) /\ Fine(Zeroed)
  BY ZeroedType DEF Issued
<1>3. SUFFICES Fine(cl'[c].snap)
  BY ClientFrame DEF Issued
<1>4. ASSUME NEW i \in Index, NEW w \in Word, Fetch(c, i, w) PROVE Fine(cl'[c].snap)
  <2>1. cl'[c].snap = [cl[c].snap EXCEPT ![i][w] = slots[i][w]]
    BY <1>1, <1>4 DEF Fetch, ClientState
  <2>2. cl[c].snap \in [Index -> [Word -> Nat \cup {None}]]
    BY <1>1 DEF ClientState, Content
  <2>3. \A j \in Index : \/ cl'[c].snap[j]["ticket"] = cl[c].snap[j]["ticket"]
                         \/ cl'[c].snap[j]["ticket"] = slots[j]["ticket"]
    BY <2>1, <2>2 DEF Word
  <2> QED BY <1>2, <2>3
<1>5. CASE CCopy(c)
  BY <1>4, <1>5 DEF CCopy
<1>6. CASE CReadSlot(c)
  <2>1. SlotOf(cl[c].expected) \in Index
    BY <1>1, SlotType, IndexIsTicket DEF ClientState
  <2> QED BY <1>4, <1>6, <2>1 DEF CReadSlot
<1>7. CASE CProcessed(c) \/ CPublish(c) \/ Relaunch(c)
  <2>1. cl'[c].snap = Zeroed
    <3>1. CASE CProcessed(c)
      BY <1>1, <3>1 DEF CProcessed, ClientState
    <3>2. CASE CPublish(c)
      BY <1>1, <3>2 DEF CPublish, RoundOver, ClientState
    <3>3. CASE Relaunch(c)
      BY <1>1, <3>3 DEF Relaunch, Launched, ClientState
    <3> QED BY <1>7, <3>1, <3>2, <3>3
  <2> QED BY <1>2, <2>1
<1>8. CASE CStart(c) \/ CBaseline(c) \/ CLoop(c) \/ CCopied(c) \/ CMatch(c) \/ CHint(c) \/ CWalk(c) \/ CScan(c)
             \/ CExit(c) \/ Stop(c)
  <2>1. cl'[c].snap = cl[c].snap
    BY <1>1, <1>8 DEF CStart, CBaseline, CLoop, CCopied, CMatch, CHint, CWalk, CScan, CExit, Stop, ClientState
  <2> QED BY <1>2, <2>1
<1> QED BY <1>5, <1>6, <1>7, <1>8 DEF Drains, CStep

\* A record that joins the log: its ticket was issued and no earlier one is as high.
Joins(n, t) == (t < n \/ t = 0) /\ (accepted # <<>> => t > accepted[Len(accepted)].ticket)

LEMMA ClientInOrder ==
  ASSUME RingType, MaxStarts = 1, NEW c, Clients = {c}, Drains(c),
         NEW n \in Nat, NEW b \in Nat \ {0}, n <= b, b < TicketMod \div 2, wr_idx <= b,
         Issued(n), InOrder(n, b)
  PROVE  /\ InOrder(n, b)'
         /\ accepted' # accepted =>
              accepted' = Append(accepted, Record(c)) /\ Joins(n, cl[c].expected)
<1> DEFINE t == cl[c].expected
           last == accepted[Len(accepted)].ticket
           rec == [ticket : Ticket, mode : Modes, payload : Content]
           Kept == /\ rd_idx' <= b
                   /\ cl'[c].starts = 1 /\ cl'[c].expected <= b /\ cl'[c].hint <= b
                   /\ cl'[c].pc \in {"start", "baseline"} => accepted' = <<>>
                   /\ accepted' # <<>> => accepted'[Len(accepted')].ticket < cl'[c].expected
                   /\ cl'[c].pc = "process" => cl'[c].expected < n \/ cl'[c].expected = 0
                   /\ cl'[c].pc = "scan" => cl'[c].expected < cl'[c].scan /\ cl'[c].scan <= b + 1
<1>1. /\ cl[c] \in ClientState /\ cl \in [Clients -> ClientState]
      /\ t \in Nat /\ t \in Ticket /\ cl[c].hint \in Nat /\ cl[c].scan \in Nat /\ cl[c].scan \in Ticket
      /\ rd_idx \in Nat /\ wr_idx \in Nat
  BY IndexIsTicket DEF RingType, ClientState
<1>2. /\ rd_idx <= b /\ t <= b /\ cl[c].hint <= b /\ cl[c].starts = 1
      /\ cl[c].pc \in {"start", "baseline"} => accepted = <<>>
      /\ accepted # <<>> => last < t
      /\ cl[c].pc = "process" => t < n \/ t = 0
      /\ cl[c].pc = "scan" => t < cl[c].scan /\ cl[c].scan <= b + 1
  BY DEF InOrder
<1>3. TicketMod \in Nat /\ 2 * (TicketMod \div 2) <= TicketMod /\ TicketMod \div 2 \in Nat
  BY TicketAssumption
<1>4. accepted # <<>> => last \in Nat
  <2> SUFFICES ASSUME accepted # <<>> PROVE last \in Nat
    OBVIOUS
  <2>1. accepted \in Seq(rec)
    BY DEF RingType
  <2>2. Len(accepted) \in 1 .. Len(accepted)
    BY <2>1
  <2>3. accepted[Len(accepted)] \in rec
    <3> HIDE DEF rec
    <3> QED BY <2>1, <2>2
  <2> QED BY <2>3, IndexIsTicket
<1>5. Kept => InOrder(n, b)'
  BY DEF InOrder
<1>6. \A u \in Nat : u <= b => NextTicket(u) = u + 1
  BY <1>3, NextTicketStep DEF Ticket
<1>7. SUFFICES Kept /\ (accepted' # accepted =>
                          accepted' = Append(accepted, Record(c)) /\ Joins(n, t))
  BY <1>5
<1>8. ASSUME t < n \/ t = 0, accepted' = Append(accepted, Record(c)), rd_idx' = rd_idx,
             cl'[c].starts = 1, cl'[c].hint <= b, cl'[c].expected = NextTicket(t),
             cl'[c].pc \notin {"start", "baseline", "process", "scan"}
      PROVE  Kept /\ Joins(n, t)
  <2>1. cl'[c].expected = t + 1 /\ t + 1 <= b
    BY <1>1, <1>2, <1>6, <1>8
  <2>2. accepted'[Len(accepted')].ticket = t
    BY <1>8, AppendRecord DEF Record
  <2>3. Joins(n, t)
    BY <1>1, <1>2, <1>4, <1>8 DEF Joins
  <2> QED BY <1>1, <1>2, <1>8, <2>1, <2>2, <2>3
<1>9. CASE CMatch(c) /\ Matches(Record(c).payload["ticket"], t)
  <2>1. t < n \/ t = 0
    <3>1. SlotOf(t) \in Index
      BY <1>1, SlotType
    <3> QED BY <1>9, <3>1 DEF Matches, Record, Issued
  <2>2. /\ accepted' = Append(accepted, Record(c)) /\ rd_idx' = rd_idx
        /\ cl' = [cl EXCEPT ![c].expected = NextTicket(@)] /\ cl[c].pc = "match"
    BY <1>9 DEF CMatch, At
  <2>3. /\ cl'[c].starts = 1 /\ cl'[c].hint <= b /\ cl'[c].expected = NextTicket(t)
        /\ cl'[c].pc = "match"
    BY <1>1, <1>2, <2>2 DEF ClientState
  <2> QED BY <1>8, <2>1, <2>2, <2>3
<1>10. CASE CProcessed(c)
  <2>1. t < n \/ t = 0
    BY <1>2, <1>10 DEF CProcessed, At
  <2>2. /\ accepted' = Append(accepted, Record(c)) /\ rd_idx' = rd_idx
        /\ cl'[c].starts = 1 /\ cl'[c].hint <= b /\ cl'[c].expected = NextTicket(t)
        /\ cl'[c].pc = "walk"
    BY <1>1, <1>2, <1>10 DEF CProcessed, ClientState
  <2> QED BY <1>8, <2>1, <2>2
<1>11. ASSUME accepted' = accepted, Kept PROVE Kept /\ (accepted' # accepted =>
                          accepted' = Append(accepted, Record(c)) /\ Joins(n, t))
  BY <1>11
<1>12. CASE CStart(c) \/ CBaseline(c)
  <2>1. accepted' = <<>> /\ accepted' = accepted
    BY <1>2, <1>12 DEF CStart, CBaseline, At
  <2>2. /\ cl'[c].starts = 1 /\ cl'[c].expected \in {t, rd_idx} /\ cl'[c].hint = cl[c].hint
        /\ cl'[c].pc \in {"baseline", "loop"} /\ rd_idx' = rd_idx
    BY <1>1, <1>2, <1>12 DEF CStart, CBaseline, Baseline, ClientState
  <2> QED BY <1>2, <1>11, <2>1, <2>2
<1>13. ASSUME accepted' = accepted, rd_idx' = rd_idx, cl'[c].starts = 1, cl'[c].hint = cl[c].hint,
              cl'[c].expected = t, cl'[c].pc \notin {"start", "baseline", "process", "scan"}
       PROVE  Kept
  BY <1>2, <1>13
<1>14. CASE CLoop(c) \/ CCopied(c) \/ CExit(c)
  BY <1>1, <1>2, <1>11, <1>13, <1>14 DEF CLoop, CCopied, CExit, ClientState
<1>15. CASE CMatch(c) /\ ~Matches(Record(c).payload["ticket"], t)
  BY <1>1, <1>2, <1>11, <1>13, <1>15 DEF CMatch, ClientState
<1>16. ASSUME NEW i \in Index, NEW w \in Word, Fetch(c, i, w), cl[c].pc \notin {"start", "baseline"}
       PROVE  Kept /\ accepted' = accepted
  <2>1. /\ accepted' = accepted /\ rd_idx' = rd_idx
        /\ cl'[c].starts = 1 /\ cl'[c].expected = t /\ cl'[c].hint = cl[c].hint
        /\ cl'[c].pc = cl[c].pc /\ cl'[c].scan = cl[c].scan
    BY <1>1, <1>2, <1>16 DEF Fetch, ClientState
  <2> QED BY <1>2, <1>16, <2>1
<1>17. CASE CCopy(c)
  BY <1>16, <1>17 DEF CCopy, At
<1>18. CASE CReadSlot(c)
  <2>1. SlotOf(t) \in Index
    BY <1>1, SlotType
  <2> QED BY <1>16, <1>18, <2>1 DEF CReadSlot, At
<1>19. CASE CHint(c)
  <2>1. /\ accepted' = accepted /\ rd_idx' = rd_idx
        /\ cl'[c].starts = 1 /\ cl'[c].expected = t /\ cl'[c].hint = wr_idx /\ cl'[c].pc = "walk"
    BY <1>1, <1>2, <1>19 DEF CHint, ClientState
  <2> QED BY <1>2, <2>1
<1>20. CASE CWalk(c)
  <2>1. /\ accepted' = accepted /\ rd_idx' = rd_idx
        /\ cl'[c].starts = 1 /\ cl'[c].expected = t /\ cl'[c].hint = cl[c].hint
    BY <1>1, <1>2, <1>20 DEF CWalk, ClientState
  <2>2. CASE Ahead(cl[c].hint, t) /\ Holds(t) /\ cl'[c].pc = "process"
    <3>1. t < n \/ t = 0
      <4>1. SlotOf(t) \in Index
        BY <1>1, SlotType
      <4> QED BY <2>2, <4>1 DEF Holds, Matches, Issued
    <3> QED BY <1>2, <2>1, <2>2, <3>1
  <2>3. CASE Ahead(cl[c].hint, t) /\ cl'[c].pc = "scan" /\ cl'[c].scan = NextTicket(t)
    <3>1. NextTicket(t) = t + 1
      BY <1>1, <1>2, <1>6
    <3> QED BY <1>1, <1>2, <2>1, <2>3, <3>1
  <2>4. CASE cl'[c].pc = "publish"
    BY <1>13, <2>1, <2>4
  <2>5. \/ Ahead(cl[c].hint, t) /\ Holds(t) /\ cl'[c].pc = "process"
        \/ Ahead(cl[c].hint, t) /\ cl'[c].pc = "scan" /\ cl'[c].scan = NextTicket(t)
        \/ cl'[c].pc = "publish"
    BY <1>1, <1>20 DEF CWalk, AtHole, ClientState
  <2> QED BY <2>1, <2>2, <2>3, <2>4, <2>5
<1>21. CASE CScan(c)
  <2> DEFINE u == cl[c].scan
  <2>1. /\ accepted' = accepted /\ rd_idx' = rd_idx /\ cl[c].pc = "scan"
        /\ cl'[c].starts = 1 /\ cl'[c].hint = cl[c].hint
    BY <1>1, <1>2, <1>21 DEF CScan, At, ClientState
  <2>2. t < u /\ u <= b + 1
    BY <1>2, <2>1
  <2>3. Ahead(cl[c].hint, u) => u <= b
    <3>1. cl[c].hint < TicketMod \div 2 /\ u <= TicketMod \div 2
      BY <1>1, <1>2, <1>3, <2>2
    <3>2. Ahead(cl[c].hint, u) => u <= cl[c].hint
      BY <1>1, <3>1, AheadIsOrder
    <3> QED BY <1>1, <1>2, <3>2
  <2>4. CASE Ahead(cl[c].hint, u) /\ cl'[c].pc = "walk" /\ cl'[c].expected = u
    BY <1>1, <1>2, <1>4, <2>1, <2>2, <2>3, <2>4
  <2>5. CASE Ahead(cl[c].hint, u) /\ cl'[c].pc = "scan" /\ cl'[c].expected = t
               /\ cl'[c].scan = NextTicket(u)
    <3>1. NextTicket(u) = u + 1
      BY <1>1, <1>6, <2>3, <2>5
    <3> QED BY <1>1, <1>2, <2>1, <2>2, <2>3, <2>5, <3>1
  <2>6. CASE cl'[c].pc = "publish" /\ cl'[c].expected = t
    BY <1>13, <2>1, <2>6
  <2>7. \/ Ahead(cl[c].hint, u) /\ cl'[c].pc = "walk" /\ cl'[c].expected = u
        \/ /\ Ahead(cl[c].hint, u) /\ cl'[c].pc = "scan" /\ cl'[c].expected = t
           /\ cl'[c].scan = NextTicket(u)
        \/ cl'[c].pc = "publish" /\ cl'[c].expected = t
    BY <1>1, <1>21, <2>1 DEF CScan, Anchor, ClientState
  <2> QED BY <2>1, <2>4, <2>5, <2>6, <2>7
<1>22. CASE CPublish(c)
  <2>1. /\ accepted' = accepted /\ rd_idx' = t
        /\ cl'[c].starts = 1 /\ cl'[c].expected = t /\ cl'[c].hint = 0 /\ cl'[c].pc = "loop"
    BY <1>1, <1>2, <1>22 DEF CPublish, RoundOver, ClientState
  <2> QED BY <1>2, <2>1
<1>23. CASE Stop(c)
  <2>1. /\ accepted' = accepted /\ rd_idx' = rd_idx
        /\ cl'[c].starts = 1 /\ cl'[c].expected = t /\ cl'[c].hint = cl[c].hint
        /\ cl'[c].pc = cl[c].pc /\ cl'[c].scan = cl[c].scan
    BY <1>1, <1>2, <1>23 DEF Stop, ClientState
  <2> QED BY <1>2, <2>1
<1>24. ~Relaunch(c)
  BY <1>2 DEF Relaunch
<1> QED
  BY <1>9, <1>8, <1>10, <1>12, <1>14, <1>15, <1>17, <1>18, <1>19, <1>20, <1>21, <1>22, <1>23, <1>24
  DEF Drains, CStep
\* Producers take tickets and stamp slots with tickets taken: the client's order is kept.
LEMMA ProducerInOrder ==
  ASSUME RingType, NEW n \in Nat, NEW m \in Nat, n <= m, NEW b, Issued(n), InOrder(n, b),
         UNCHANGED drain,
         \A i \in Index : slots'[i]["ticket"] = slots[i]["ticket"] \/ slots'[i]["ticket"] \in 0 .. m - 1
  PROVE  Issued(m)' /\ InOrder(m, b)'
<1>1. (0 .. n - 1) \cup {0} \subseteq (0 .. m - 1) \cup {0}
  OBVIOUS
<1>2. Issued(m)'
  BY <1>1 DEF Issued, drain
<1>3. \A c \in Clients : cl[c].expected \in Nat
  BY IndexIsTicket DEF RingType, ClientState
<1> QED BY <1>2, <1>3 DEF InOrder, drain

-----------------------------------------------------------------------------
(* The history as a log of tickets *)

\* There is one client, and it is started once.
OneRun == MaxStarts = 1 /\ \E c : Clients = {c}

LEMMA NoTickets == accepted = <<>> => Tickets = <<>>
BY DEF Tickets

\* A record processed appends its ticket to the log.
LEMMA TicketsAppend ==
  ASSUME RingType, NEW c \in Clients, accepted' = Append(accepted, Record(c))
  PROVE  /\ Tickets' = Append(Tickets, cl[c].expected)
         /\ Len(Tickets) = Len(accepted)
         /\ Tickets = <<>> <=> accepted = <<>>
         /\ accepted # <<>> => Tickets[Len(Tickets)] = accepted[Len(accepted)].ticket
<1> DEFINE rec == [ticket : Ticket, mode : Modes, payload : Content]
           t == cl[c].expected
<1>1. accepted \in Seq(rec) /\ accepted' \in Seq(rec)
  BY RecordType DEF RingType
<1>2. /\ Len(accepted) \in Nat /\ Len(accepted') = Len(accepted) + 1
      /\ \A k \in 1 .. Len(accepted) : accepted'[k] = accepted[k]
      /\ accepted'[Len(accepted) + 1].ticket = t
  BY AppendRecord DEF Record
<1>3. \A k \in 1 .. Len(accepted) : accepted[k].ticket \in Ticket
  <2>1. \A k \in 1 .. Len(accepted) : accepted[k] \in rec
    <3> HIDE DEF rec
    <3> QED BY <1>1
  <2> QED BY <2>1
<1>4. Tickets \in Seq(Ticket) /\ Len(Tickets) = Len(accepted)
  BY <1>2, <1>3 DEF Tickets
<1>5. t \in Ticket
  BY DEF RingType, ClientState
<1>6. /\ Append(Tickets, t) \in Seq(Ticket)
      /\ Len(Append(Tickets, t)) = Len(accepted) + 1
      /\ \A k \in 1 .. Len(accepted) : Append(Tickets, t)[k] = accepted[k].ticket
      /\ Append(Tickets, t)[Len(accepted) + 1] = t
  <2>1. \A k \in 1 .. Len(accepted) : Tickets[k] = accepted[k].ticket
    BY DEF Tickets
  <2> QED BY <1>4, <1>5, <2>1, AppendProperties
<1>7. Tickets' = [k \in 1 .. Len(accepted) + 1 |-> accepted'[k].ticket]
  BY <1>2 DEF Tickets
<1>8. Tickets' \in Seq(Ticket) /\ Len(Tickets') = Len(accepted) + 1
  <2>1. \A k \in 1 .. Len(accepted) + 1 : accepted'[k].ticket \in Ticket
    BY <1>2, <1>3, <1>5
  <2> QED BY <1>2, <1>7, <2>1
<1>9. \A k \in 1 .. Len(accepted) + 1 : Tickets'[k] = Append(Tickets, t)[k]
  BY <1>2, <1>6, <1>7
<1>10. Tickets' = Append(Tickets, t)
  BY <1>6, <1>8, <1>9, SeqEqual
<1>11. accepted # <<>> => Tickets[Len(Tickets)] = accepted[Len(accepted)].ticket
  <2>1. accepted # <<>> => Len(accepted) \in 1 .. Len(accepted)
    <3> HIDE DEF rec
    <3> QED BY <1>1
  <2> QED BY <1>4, <2>1 DEF Tickets
<1>12. Tickets = <<>> <=> accepted = <<>>
  <2>1. Len(accepted) = 0 <=> accepted = <<>>
    <3> HIDE DEF rec
    <3> QED BY <1>1
  <2>2. Len(Tickets) = 0 <=> Tickets = <<>>
    BY <1>4
  <2> QED BY <1>4, <2>1, <2>2
<1> QED BY <1>4, <1>10, <1>11, <1>12

-----------------------------------------------------------------------------
(* The wrap of tickets *)

LEMMA TicketSplit ==
  \A t \in Nat : /\ t \div Slots \in Nat /\ SlotOf(t) \in 0 .. Slots - 1
                 /\ t = Slots * (t \div Slots) + SlotOf(t)
BY SlotsAssumption DEF SlotOf

\* No multiple of the slot count lies strictly between 0 and the slot count.
LEMMA NoMultiple == \A m \in Int : Slots * m \notin 1 .. Slots - 1
<1> SUFFICES ASSUME NEW m \in Int PROVE Slots * m \notin 1 .. Slots - 1
  OBVIOUS
<1>1. Slots \in Nat \ {0}
  BY SlotsAssumption
<1>2. CASE m <= 0
  <2>1. Slots * m <= 0
    BY <1>1, <1>2
  <2> QED BY <1>1, <2>1
<1>3. CASE m >= 1
  <2>1. Slots * m >= Slots
    BY <1>1, <1>3
  <2> QED BY <1>1, <2>1
<1> QED BY <1>2, <1>3

\* Where the slot count divides 2^32, as in the block ring, any two tickets less than a lap
\* apart have slots of their own, also when the tickets wrap between them.
THEOREM SlotsApart ==
  ASSUME TicketMod % Slots = 0
  PROVE  \A t \in Ticket : \A d \in 1 .. Slots - 1 : SlotOf((t + d) % TicketMod) # SlotOf(t)
<1> SUFFICES ASSUME NEW t \in Ticket, NEW d \in 1 .. Slots - 1,
                    SlotOf((t + d) % TicketMod) = SlotOf(t)
             PROVE  FALSE
  OBVIOUS
<1> DEFINE u == (t + d) % TicketMod
           a == t \div Slots
           b == u \div Slots
           q == TicketMod \div Slots
<1>1. /\ TicketMod \in Nat \ {0} /\ Slots \in Nat \ {0} /\ Slots < TicketMod /\ t \in 0 .. TicketMod - 1
      /\ t + d \in Nat
  BY SlotsAssumption, TicketAssumption DEF Ticket
<1>2. u \in Nat /\ (u = t + d \/ u = t + d - TicketMod)
  <2>1. CASE t + d < TicketMod
    BY <1>1, <2>1
  <2>2. CASE t + d >= TicketMod
    <3>1. t + d - TicketMod \in 0 .. TicketMod - 1
      BY <1>1, <2>2
    <3>2. (t + d) % TicketMod = t + d - TicketMod
      BY <1>1, <3>1
    <3> QED BY <3>1, <3>2
  <2> QED BY <1>1, <2>1, <2>2
<1>3. a \in Nat /\ b \in Nat /\ t = Slots * a + SlotOf(t) /\ u = Slots * b + SlotOf(t)
  <2>1. a \in Nat /\ t = Slots * a + SlotOf(t)
    <3>1. t \in Nat
      BY <1>1
    <3> QED BY <3>1, TicketSplit
  <2>2. b \in Nat /\ u = Slots * b + SlotOf(u)
    BY <1>2, TicketSplit
  <2> QED BY <2>1, <2>2
<1>4. q \in Nat /\ TicketMod = Slots * q
  BY <1>1
<1>5. SlotOf(t) \in Int
  BY <1>1, TicketSplit
<1> HIDE DEF u, a, b, q
<1>6. CASE u = t + d
  <2>1. d = Slots * b - Slots * a
    BY <1>1, <1>3, <1>5, <1>6
  <2>2. d = Slots * (b - a) /\ b - a \in Int
    BY <1>1, <1>3, <2>1
  <2> QED BY <2>2, NoMultiple
<1>7. CASE u = t + d - TicketMod
  <2>1. d = Slots * b - Slots * a + Slots * q
    BY <1>1, <1>3, <1>4, <1>5, <1>7
  <2>2. d = Slots * (b - a + q) /\ b - a + q \in Int
    BY <1>1, <1>3, <1>4, <2>1
  <2> QED BY <2>2, NoMultiple
<1> QED BY <1>2, <1>6, <1>7

\* Where it does not, as in the net ring with its 24 slots, two tickets less than a lap apart
\* share a slot: around the wrap a record is overwritten before it is a lap old.
THEOREM SlotsShared ==
  ASSUME TicketMod % Slots # 0
  PROVE  \E t \in Ticket : \E d \in 1 .. Slots - 1 : SlotOf((t + d) % TicketMod) = SlotOf(t)
<1> DEFINE d == TicketMod % Slots
           q == TicketMod \div Slots
<1>1. TicketMod \in Nat \ {0} /\ Slots \in Nat \ {0} /\ Slots < TicketMod
  BY SlotsAssumption, TicketAssumption
<1>2. d \in 1 .. Slots - 1 /\ q \in Nat /\ TicketMod = Slots * q + d
  BY <1>1
<1>3. TicketMod - d \in Ticket
  BY <1>1, <1>2 DEF Ticket
<1>4. SlotOf(TicketMod - d) = 0
  <2> DEFINE t == TicketMod - d
             a == t \div Slots
  <2>1. t \in Nat /\ t = Slots * q
    BY <1>1, <1>2
  <2>2. a \in Nat /\ SlotOf(t) \in 0 .. Slots - 1 /\ t = Slots * a + SlotOf(t)
    BY <2>1, TicketSplit
  <2> HIDE DEF a, t, q
  <2>3. SlotOf(t) = Slots * (q - a) /\ q - a \in Int
    BY <1>1, <1>2, <2>1, <2>2
  <2>4. SlotOf(t) = 0
    BY <1>1, <2>2, <2>3, NoMultiple
  <2> QED BY <2>4 DEF t
<1>5. SlotOf((TicketMod - d + d) % TicketMod) = 0
  <2>1. TicketMod - d + d = TicketMod /\ TicketMod % TicketMod = 0 /\ 0 % Slots = 0
    BY <1>1, <1>2
  <2> QED BY <2>1 DEF SlotOf
<1> HIDE DEF d, q
<1> QED BY <1>2, <1>3, <1>4, <1>5
=============================================================================
