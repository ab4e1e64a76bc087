--------------------------- MODULE NetRingProofs ---------------------------
(***************************************************************************)
(* Proofs about NetRing, for every number of hooks and clients, fields and *)
(* slots.                                                                  *)
(***************************************************************************)
EXTENDS NetRing, TicketClientProofs

\* Packets are numbered by their tickets, and no two hooks work for the same one.
Packets ==
  /\ \A h \in Hooks : IF hk[h].pc = "idle" THEN hk[h].stored = {} ELSE hk[h].packet < taken
  /\ \A g, h \in Hooks :
       hk[g].pc # "idle" /\ hk[h].pc # "idle" /\ hk[g].packet = hk[h].packet => g = h

\* In the first lap a hook fills a slot that is not stamped, and stamps are of packets taken.
Filling ==
  /\ \A i \in Index : slots[i]["ticket"] # 0 => i < taken
  /\ \A h \in Hooks : hk[h].pc = "store" =>
       /\ slots[hk[h].packet]["ticket"] = 0
       /\ \A f \in hk[h].stored : slots[hk[h].packet][f] = hk[h].packet

FirstLapInv == Positions /\ Packets /\ (taken <= Slots => FirstLap /\ Filling)

\* The bound of tickets and hints.
Top == IF MaxPackets > Slots THEN MaxPackets ELSE Slots

LogInv == Packets /\ Issued(taken) /\ InOrder(taken, Top)

-----------------------------------------------------------------------------
(* Types *)

HookState == [pc : {"idle", "store", "load_hint", "swap"}, packet : Nat,
              stored : SUBSET Fields, seen : 0 .. Slots]

\* The ticket of a packet, and, until tickets wrap, its number.
LEMMA TicketOfPacket ==
  ASSUME TypeOK, NEW h \in Hooks
  PROVE  /\ my_ticket(h) \in Ticket /\ SlotOf(my_ticket(h)) \in Index
         /\ hk[h].packet < TicketMod => my_ticket(h) = hk[h].packet
<1>1. hk[h].packet \in Nat /\ TicketMod \in Nat \ {0}
  BY SlotsAssumption, TicketAssumption DEF TypeOK
<1>2. my_ticket(h) \in Ticket
  BY <1>1 DEF my_ticket, Ticket
<1>3. hk[h].packet < TicketMod => my_ticket(h) = hk[h].packet
  BY <1>1 DEF my_ticket
<1> QED BY <1>2, <1>3, SlotType, IndexIsTicket

LEMMA TypeInit == Init => TypeOK
<1> SUFFICES ASSUME Init PROVE TypeOK
  OBVIOUS
<1>1. RingType /\ wr_idx = 0
  BY RingInitType DEF Init, RingInit
<1> QED BY <1>1, SlotsAssumption, PacketsAssumption DEF Init, Idle, TypeOK

LEMMA TypeStep == TypeOK /\ [Next]_vars => TypeOK'
<1> SUFFICES ASSUME TypeOK, [Next]_vars PROVE TypeOK'
  OBVIOUS
<1>1. /\ RingType /\ wr_idx \in 0 .. Slots /\ taken \in 0 .. MaxPackets /\ MaxPackets \in Nat
      /\ hk \in [Hooks -> HookState] /\ Slots \in Nat
  BY SlotsAssumption, PacketsAssumption DEF TypeOK, HookState
<1>2. ASSUME NEW i \in Index, NEW w \in Word, NEW v \in Nat, w = "ticket" => v \in Ticket,
             slots' = [slots EXCEPT ![i][w] = v], UNCHANGED <<wr_idx, drain>>
      PROVE  RingType'
  <2>1. slots \in [Index -> [Word -> Nat \cup {None}]] /\ "ticket" \in Word
    BY <1>1 DEF RingType, Content, Word
  <2>2. slots' \in [Index -> Content] /\ \A j \in Index : slots'[j]["ticket"] \in Ticket
    <3>1. slots' \in [Index -> [Word -> Nat \cup {None}]]
      BY <1>2, <2>1
    <3>2. \A j \in Index : slots'[j]["ticket"] = slots[j]["ticket"] \/ slots'[j]["ticket"] \in Ticket
      BY <1>2, <2>1
    <3> QED BY <1>1, <3>1, <3>2 DEF RingType, Content
  <2> QED BY <1>1, <1>2, <2>2 DEF RingType, drain
<1>3. ASSUME UNCHANGED <<slots, drain>>, wr_idx' \in Ticket PROVE RingType'
  BY <1>1, <1>3 DEF RingType, drain
<1>4. ASSUME NEW h \in Hooks, Arrive(h) PROVE TypeOK'
  <2>1. RingType'
    BY <1>1, <1>3, <1>4 DEF Arrive, HTake, RingType
  <2>2. [hk[h] EXCEPT !.pc = "store", !.packet = taken] \in HookState
    <3>1. taken \in Nat
      BY <1>1
    <3> QED BY <1>1, <3>1 DEF HookState
  <2>3. hk' \in [Hooks -> HookState]
    BY <1>1, <1>4, <2>2 DEF Arrive, HTake
  <2>4. taken' \in 0 .. MaxPackets
    BY <1>1, <1>4 DEF Arrive, HTake
  <2> QED BY <1>1, <1>4, <2>1, <2>3, <2>4 DEF Arrive, HTake, TypeOK, HookState
<1>5. ASSUME NEW h \in Hooks, Hook(h) PROVE TypeOK'
  <2>1. hk[h] \in HookState /\ hk[h].packet \in Nat /\ hk[h].stored \in SUBSET Fields
    BY <1>1 DEF HookState
  <2>2. my_ticket(h) \in Ticket /\ my_ticket(h) \in Nat /\ SlotOf(my_ticket(h)) \in Index
    BY TicketOfPacket, IndexIsTicket
  <2>3. CASE \E f \in Fields : HStore(h, f)
    <3>1. PICK f \in Fields : HStore(h, f)
      BY <2>3
    <3>2. f \in Word /\ f # "ticket"
      BY WordAssumption DEF Word
    <3>3. RingType'
      BY <1>2, <1>5, <2>1, <2>2, <3>1, <3>2 DEF Hook, HStore
    <3>4. [hk[h] EXCEPT !.stored = @ \cup {f}] \in HookState
      BY <2>1 DEF HookState
    <3>5. hk' \in [Hooks -> HookState]
      BY <1>1, <3>1, <3>4 DEF HStore
    <3> QED BY <1>1, <3>1, <3>3, <3>5 DEF HStore, TypeOK, HookState
  <2>4. CASE HStamp(h)
    <3>1. RingType'
      BY <1>2, <1>5, <2>2, <2>4 DEF Hook, HStamp, Word
    <3>2. [hk[h] EXCEPT !.pc = "load_hint"] \in HookState
      BY <2>1 DEF HookState
    <3>3. hk' \in [Hooks -> HookState]
      BY <1>1, <2>4, <3>2 DEF HStamp
    <3> QED BY <1>1, <2>4, <3>1, <3>3 DEF HStamp, TypeOK, HookState
  <2>5. CASE HLoadHint(h)
    <3>1. RingType'
      BY <1>1, <1>3, <1>5, <2>5 DEF Hook, HLoadHint, RingType
    <3>2. [hk[h] EXCEPT !.pc = "swap", !.seen = wr_idx] \in HookState
      BY <1>1, <2>1 DEF HookState
    <3>3. hk' \in [Hooks -> HookState]
      BY <1>1, <2>5, <3>2 DEF HLoadHint
    <3> QED BY <1>1, <2>5, <3>1, <3>3 DEF HLoadHint, TypeOK, HookState
  <2>6. CASE HSwap(h)
    <3>1. wr_idx' \in 0 .. Slots
      BY <1>1, <2>2, <2>6 DEF HSwap, Hint, Index
    <3>2. 0 .. Slots \subseteq Ticket
      BY <1>1, SlotsAssumption, TicketAssumption DEF Ticket
    <3>3. RingType'
      BY <1>3, <1>5, <2>6, <3>1, <3>2 DEF Hook, HSwap
    <3>4. Idle \in HookState /\ [hk[h] EXCEPT !.seen = wr_idx] \in HookState
      BY <1>1, <2>1 DEF HookState, Idle
    <3>5. hk' \in [Hooks -> HookState]
      BY <1>1, <2>6, <3>4 DEF HSwap
    <3> QED BY <1>1, <2>6, <3>1, <3>3, <3>5 DEF HSwap, TypeOK, HookState
  <2> QED BY <1>5, <2>3, <2>4, <2>5, <2>6 DEF Hook, HRun
<1>6. ASSUME NEW c \in Clients, Client(c) \/ User(c) PROVE TypeOK'
  <2>1. Drains(c) /\ UNCHANGED <<slots, wr_idx, taken, hk>>
    BY <1>6 DEF Client, User, Drains
  <2> QED BY <1>1, <2>1, ClientType DEF TypeOK
<1>7. CASE UNCHANGED vars
  <2>1. RingType'
    BY <1>1, <1>3, <1>7 DEF vars, RingType
  <2> QED BY <1>7, <2>1 DEF vars, TypeOK
<1> QED BY <1>4, <1>5, <1>6, <1>7 DEF Next

\* Every variable of the net ring keeps its type, and the hint stays a position in the ring.
THEOREM TypeCorrect == Spec => []TypeOK
BY TypeInit, TypeStep, PTL DEF Spec

-----------------------------------------------------------------------------
(* The first lap *)

LEMMA PacketsInit == Init => Packets
BY DEF Init, Idle, Packets

LEMMA TakenStep == [Next]_vars => taken' = taken \/ taken' = taken + 1
<1> SUFFICES ASSUME [Next]_vars PROVE taken' = taken \/ taken' = taken + 1
  OBVIOUS
<1>1. ASSUME NEW h \in Hooks, Arrive(h) PROVE taken' = taken + 1
  BY <1>1 DEF Arrive, HTake
<1>2. ASSUME NEW h \in Hooks, Hook(h) PROVE taken' = taken
  BY <1>2 DEF Hook, HRun, HStore, HStamp, HLoadHint, HSwap
<1>3. ASSUME NEW c \in Clients, Client(c) \/ User(c) PROVE taken' = taken
  BY <1>3 DEF Client, User
<1>4. CASE UNCHANGED vars
  BY <1>4 DEF vars
<1> QED BY <1>1, <1>2, <1>3, <1>4 DEF Next

LEMMA PacketsStep == TypeOK /\ Packets /\ [Next]_vars => Packets'
<1> SUFFICES ASSUME TypeOK, Packets, [Next]_vars PROVE Packets'
  OBVIOUS
<1>1. hk \in [Hooks -> HookState] /\ taken \in Nat
  BY PacketsAssumption DEF TypeOK, HookState
<1>2. ASSUME UNCHANGED taken, NEW h \in Hooks, \A g \in Hooks \ {h} : hk'[g] = hk[g],
             \/ hk'[h] = Idle
             \/ hk[h].pc # "idle" /\ hk'[h].pc # "idle" /\ hk'[h].packet = hk[h].packet
      PROVE  Packets'
  BY <1>2 DEF Packets, Idle
<1>3. ASSUME NEW h \in Hooks, Arrive(h) PROVE Packets'
  <2>1. /\ hk'[h].pc = "store" /\ hk'[h].packet = taken /\ taken' = taken + 1
        /\ \A g \in Hooks \ {h} : hk'[g] = hk[g]
    BY <1>1, <1>3 DEF Arrive, HTake, HookState
  <2>2. \A g \in Hooks \ {h} : hk[g].packet \in Nat
    BY <1>1 DEF HookState
  <2> QED BY <1>1, <2>1, <2>2 DEF Packets
<1>4. ASSUME NEW h \in Hooks, Hook(h) PROVE Packets'
  <2>1. CASE \E f \in Fields : HStore(h, f)
    BY <1>1, <1>2, <2>1 DEF HStore, HookState
  <2>2. CASE HStamp(h) \/ HLoadHint(h) \/ HSwap(h)
    BY <1>1, <1>2, <2>2 DEF HStamp, HLoadHint, HSwap, HookState
  <2> QED BY <1>4, <2>1, <2>2 DEF Hook, HRun
<1>5. CASE UNCHANGED <<taken, hk>>
  BY <1>5 DEF Packets
<1> QED BY <1>3, <1>4, <1>5 DEF Next, vars, Client, User

LEMMA FirstLapInit == Init => FirstLapInv
<1> SUFFICES ASSUME Init PROVE FirstLapInv
  OBVIOUS
<1>1. slots = Zeroed /\ accepted = <<>> /\ cl \in [Clients -> {Launched(m, 1) : m \in Modes}]
  BY DEF Init, RingInit
<1>2. Positions
  BY <1>1 DEF Positions, Launched
<1>3. Stamped
  BY <1>1, ZeroedType DEF Stamped
<1>4. Reading
  BY <1>1 DEF Reading, Launched
<1>5. AllFaithful("skip")
  BY <1>1 DEF AllFaithful
<1>6. Filling
  BY <1>1, ZeroedType DEF Filling, Init, Idle
<1> QED BY <1>2, <1>3, <1>4, <1>5, <1>6, PacketsInit DEF FirstLapInv, FirstLap

LEMMA FirstLapStep == TypeOK /\ FirstLapInv /\ [Next]_vars => FirstLapInv'
<1> SUFFICES ASSUME TypeOK, FirstLapInv, [Next]_vars PROVE FirstLapInv'
  OBVIOUS
<1>1. /\ RingType /\ hk \in [Hooks -> HookState] /\ taken \in Nat /\ Slots \in Nat
      /\ slots \in [Index -> [Word -> Nat \cup {None}]]
      /\ "ticket" \in Word /\ Fields \subseteq Word /\ "ticket" \notin Fields
  <2>1. hk \in [Hooks -> HookState] /\ taken \in Nat /\ Slots \in Nat
    BY SlotsAssumption, PacketsAssumption DEF TypeOK, HookState
  <2>2. slots \in [Index -> [Word -> Nat \cup {None}]]
    BY DEF TypeOK, RingType, Content
  <2> QED BY <2>1, <2>2, WordAssumption DEF TypeOK, Word
<1>2. Packets /\ Positions /\ Packets'
  BY PacketsStep DEF FirstLapInv
<1>3. Positions'
  <2>1. ASSUME NEW c \in Clients, Client(c) \/ User(c) PROVE Positions'
    BY <1>1, <1>2, <2>1, ClientPositions DEF Client, User, Drains
  <2>2. CASE UNCHANGED drain
    BY <1>2, <2>2 DEF Positions, drain
  <2> QED BY <2>1, <2>2 DEF Next, Arrive, Hook, vars
<1>4. ASSUME taken' <= Slots PROVE FirstLap' /\ Filling'
  <2>1. taken <= Slots
    BY <1>1, <1>4, TakenStep
  <2>2. FirstLap /\ Filling
    BY <2>1 DEF FirstLapInv
  <2>3. ASSUME NEW h \in Hooks, hk[h].pc # "idle"
        PROVE  hk[h].packet \in Index /\ my_ticket(h) = hk[h].packet
                 /\ SlotOf(my_ticket(h)) = hk[h].packet
    <3>1. hk[h].packet \in Nat /\ hk[h].packet < taken
      BY <1>1, <1>2, <2>3 DEF HookState, Packets
    <3>2. hk[h].packet \in Index /\ hk[h].packet < TicketMod
      BY <1>1, <2>1, <3>1, SlotsAssumption, TicketAssumption DEF Index
    <3> QED BY <3>2, TicketOfPacket, SlotFixed
  <2>4. ASSUME NEW h \in Hooks, Arrive(h) PROVE FirstLap' /\ Filling'
    <3>1. /\ hk'[h].pc = "store" /\ hk'[h].packet = taken /\ hk'[h].stored = {}
          /\ \A g \in Hooks \ {h} : hk'[g] = hk[g]
          /\ taken' = taken + 1 /\ UNCHANGED <<slots, drain>>
      BY <1>1, <1>2, <2>4 DEF Arrive, HTake, HookState, Packets
    <3>2. FirstLap'
      BY <2>2, <3>1 DEF FirstLap, Stamped, Reading, AllFaithful, drain
    <3>3. slots[taken]["ticket"] = 0
      <4>1. taken \in Index
        BY <1>1, <1>4, <3>1 DEF Index
      <4> QED BY <1>1, <2>2, <4>1 DEF Filling
    <3>4. \A i \in Index : i < taken => i < taken + 1
      BY <1>1 DEF Index
    <3> QED BY <2>2, <3>1, <3>2, <3>3, <3>4 DEF Filling
  <2>5. ASSUME NEW h \in Hooks, NEW f \in Fields, HStore(h, f), UNCHANGED drain
        PROVE  FirstLap' /\ Filling'
    <3> DEFINE p == hk[h].packet
    <3>1. p \in Index /\ slots' = [slots EXCEPT ![p][f] = p] /\ hk[h].pc = "store"
      BY <2>3, <2>5 DEF HStore
    <3>2. slots[p]["ticket"] = 0
      BY <2>2, <3>1 DEF Filling
    <3>3. FirstLap'
      BY <1>1, <2>2, <2>5, <3>1, <3>2, StoreLap
    <3>4. /\ hk'[h].pc = "store" /\ hk'[h].packet = p /\ hk'[h].stored = hk[h].stored \cup {f}
          /\ \A g \in Hooks \ {h} : hk'[g] = hk[g]
          /\ UNCHANGED taken
      BY <1>1, <2>5 DEF HStore, HookState
    <3>5. /\ \A i \in Index : slots'[i]["ticket"] = slots[i]["ticket"]
          /\ \A i \in Index \ {p} : slots'[i] = slots[i]
          /\ slots'[p][f] = p /\ \A e \in Fields \ {f} : slots'[p][e] = slots[p][e]
      BY <1>1, <3>1
    <3>6. \A g \in Hooks \ {h} : hk[g].pc = "store" => hk[g].packet \in Index \ {p}
      BY <1>2, <2>3, <3>1 DEF Packets
    <3>7. \A g \in Hooks : hk[g].stored \subseteq Fields
      BY <1>1 DEF HookState
    <3>8. hk'[h].pc = "store" =>
            /\ slots'[hk'[h].packet]["ticket"] = 0
            /\ \A e \in hk'[h].stored : slots'[hk'[h].packet][e] = hk'[h].packet
      BY <2>2, <3>1, <3>2, <3>4, <3>5, <3>7 DEF Filling
    <3>9. \A g \in Hooks \ {h} : hk'[g].pc = "store" =>
            /\ slots'[hk'[g].packet]["ticket"] = 0
            /\ \A e \in hk'[g].stored : slots'[hk'[g].packet][e] = hk'[g].packet
      BY <2>2, <3>4, <3>5, <3>6 DEF Filling
    <3> QED BY <2>2, <3>3, <3>4, <3>5, <3>8, <3>9 DEF Filling
  <2>6. ASSUME NEW h \in Hooks, HStamp(h), UNCHANGED drain
        PROVE  FirstLap' /\ Filling'
    <3> DEFINE p == hk[h].packet
    <3>1. /\ p \in Index /\ slots' = [slots EXCEPT ![p]["ticket"] = p]
          /\ hk[h].pc = "store" /\ hk[h].stored = Fields
      BY <2>3, <2>6 DEF HStamp
    <3>2. slots[p]["ticket"] = 0 /\ \A f \in Fields : slots[p][f] = p
      BY <2>2, <3>1 DEF Filling
    <3>3. FirstLap'
      BY <1>1, <2>2, <2>6, <3>1, <3>2, StampLap
    <3>4. /\ hk'[h].pc = "load_hint" /\ UNCHANGED taken
          /\ \A g \in Hooks \ {h} : hk'[g] = hk[g]
      BY <1>1, <2>6 DEF HStamp, HookState
    <3>5. slots'[p]["ticket"] = p /\ \A i \in Index \ {p} : slots'[i] = slots[i]
      BY <1>1, <3>1
    <3>6. \A g \in Hooks \ {h} : hk[g].pc = "store" => hk[g].packet \in Index \ {p}
      BY <1>2, <2>3, <3>1 DEF Packets
    <3>7. p < taken
      BY <1>2, <3>1 DEF Packets
    <3> QED BY <2>2, <3>3, <3>4, <3>5, <3>6, <3>7 DEF Filling
  <2>7. ASSUME NEW h \in Hooks, HLoadHint(h) \/ HSwap(h), UNCHANGED drain
        PROVE  FirstLap' /\ Filling'
    <3>1. /\ hk'[h].pc # "store" /\ \A g \in Hooks \ {h} : hk'[g] = hk[g]
          /\ UNCHANGED <<slots, taken>>
      BY <1>1, <2>7 DEF HLoadHint, HSwap, Idle, HookState
    <3> QED BY <2>2, <2>7, <3>1 DEF Filling, FirstLap, Stamped, Reading, AllFaithful, drain
  <2>8. ASSUME NEW c \in Clients, Client(c) \/ User(c) PROVE FirstLap' /\ Filling'
    <3>1. Drains(c) /\ UNCHANGED <<slots, wr_idx, taken, hk>>
      BY <2>8 DEF Client, User, Drains
    <3> QED BY <1>1, <1>2, <2>2, <3>1, ClientLap DEF Filling
  <2>9. CASE UNCHANGED vars
    BY <2>2, <2>9 DEF vars, drain, Filling, FirstLap, Stamped, Reading, AllFaithful
  <2> QED BY <2>4, <2>5, <2>6, <2>7, <2>8, <2>9 DEF Next, Hook, HRun
<1> QED BY <1>2, <1>3, <1>4 DEF FirstLapInv

\* Until the ring is lapped, a skip-ahead client processes under a ticket exactly the payload
\* of the packet that took it, however many hooks and clients there are and whatever becomes
\* of the clients.
THEOREM FirstLapSafe == Spec => []FirstLapFaithful
<1>1. FirstLapInv => FirstLapFaithful
  BY DEF FirstLapInv, FirstLap, FirstLapFaithful
<1> QED BY <1>1, TypeCorrect, FirstLapInit, FirstLapStep, PTL DEF Spec

-----------------------------------------------------------------------------
(* No record is skipped *)

\* While all clients are scatter-gather, every ticket but 0 below the published read index has been
\* processed, whichever clients were killed, restarted or replaced.
THEOREM ScatterSkipsNothing == ASSUME Modes = {"scatter"} PROVE Spec => []NothingSkipped
<1> DEFINE Inv == Positions /\ Coverage
<1>1. Init => Inv
  <2>1. SUFFICES ASSUME Init PROVE Coverage
    BY FirstLapInit DEF FirstLapInv
  <2>2. rd_idx = 0 /\ \A c \in Clients : cl[c].expected = 0
    BY <2>1 DEF Init, RingInit, Launched
  <2> QED BY <2>2 DEF Coverage, Covered
<1>2. TypeOK /\ Inv /\ [Next]_vars => Inv'
  <2> SUFFICES ASSUME TypeOK, Positions, Coverage, [Next]_vars PROVE Inv'
    OBVIOUS
  <2>1. ASSUME NEW c \in Clients, Client(c) \/ User(c) PROVE Inv'
    BY <2>1, ClientPositions, ClientCovers DEF TypeOK, Client, User, Drains
  <2>2. CASE UNCHANGED drain
    BY <2>2 DEF Positions, Coverage, Covered, drain
  <2> QED BY <2>1, <2>2 DEF Next, Arrive, Hook, vars
<1>3. Inv => NothingSkipped
  BY DEF Coverage, Covered, NothingSkipped
<1> QED BY <1>1, <1>2, <1>3, TypeCorrect, PTL DEF Spec

-----------------------------------------------------------------------------
(* The lossy log *)

LEMMA LogInit == ASSUME MaxPackets < TicketMod \div 2 PROVE Init => LogInv /\ TL!Init
<1> SUFFICES ASSUME Init PROVE LogInv /\ TL!Init
  OBVIOUS
<1>1. /\ slots = Zeroed /\ accepted = <<>> /\ rd_idx = 0 /\ taken = 0
      /\ cl \in [Clients -> {Launched(m, 1) : m \in Modes}]
  BY DEF Init, RingInit
<1>2. Issued(taken)
  BY <1>1, ZeroedType DEF Issued, Launched
<1>3. Top \in Nat
  BY SlotsAssumption, PacketsAssumption DEF Top
<1>4. InOrder(taken, Top)
  BY <1>1, <1>3 DEF InOrder, Launched
<1>5. Tickets = <<>>
  BY <1>1, NoTickets
<1> QED BY <1>1, <1>2, <1>4, <1>5, PacketsInit DEF LogInv, TL!Init

\* A step of the hooks, of the client or of its user is a step of the log, or changes nothing
\* in it.
LEMMA LogStep ==
  ASSUME OneRun, MaxPackets < TicketMod \div 2, TypeOK, LogInv, [Next]_vars
  PROVE  LogInv' /\ [TL!Next]_<<taken, Tickets>>
<1>1. /\ RingType /\ taken \in Nat /\ taken <= MaxPackets /\ MaxPackets \in Nat
      /\ Slots \in Nat \ {0} /\ wr_idx \in 0 .. Slots /\ hk \in [Hooks -> HookState]
  BY SlotsAssumption, PacketsAssumption DEF TypeOK, HookState
<1>2. Top \in Nat \ {0} /\ taken <= Top /\ Top < TicketMod \div 2 /\ wr_idx <= Top
  BY <1>1, TicketAssumption DEF Top
<1>3. Packets /\ Issued(taken) /\ InOrder(taken, Top) /\ Packets'
  BY PacketsStep DEF LogInv
<1>4. ASSUME UNCHANGED <<taken, drain>> PROVE [TL!Next]_<<taken, Tickets>>
  BY <1>4 DEF drain, Tickets
<1>5. ASSUME UNCHANGED drain, wr_idx' \in 0 .. Slots, taken' = taken,
             \A i \in Index : \/ slots'[i]["ticket"] = slots[i]["ticket"]
                              \/ slots'[i]["ticket"] \in 0 .. taken - 1
      PROVE  LogInv' /\ [TL!Next]_<<taken, Tickets>>
  <2>1. Issued(taken)' /\ InOrder(taken, Top)'
    <3>1. \A m \in Nat : m = taken => Issued(m)' /\ InOrder(m, Top)'
      BY <1>1, <1>3, <1>5, ProducerInOrder DEF Top
    <3> QED BY <1>1, <1>5, <3>1 DEF Issued, InOrder, Top
  <2> QED BY <1>3, <1>4, <1>5, <2>1 DEF LogInv
<1>6. ASSUME NEW h \in Hooks, Arrive(h) PROVE LogInv' /\ [TL!Next]_<<taken, Tickets>>
  <2>1. taken' = taken + 1 /\ UNCHANGED <<slots, wr_idx, drain>>
    BY <1>6 DEF Arrive, HTake
  <2>2. \A m \in Nat : m = taken + 1 => Issued(m)' /\ InOrder(m, Top)'
    BY <1>1, <1>3, <2>1, ProducerInOrder DEF Top
  <2>3. Issued(taken)' /\ InOrder(taken, Top)'
    BY <1>1, <2>1, <2>2 DEF Issued, InOrder, Top
  <2>4. TL!Issue
    BY <2>1 DEF TL!Issue, Tickets, drain
  <2> QED BY <1>3, <2>3, <2>4 DEF LogInv, TL!Next
<1>7. ASSUME NEW h \in Hooks, Hook(h) PROVE LogInv' /\ [TL!Next]_<<taken, Tickets>>
  <2>1. UNCHANGED <<taken, drain>> /\ wr_idx' \in 0 .. Slots
    BY <1>7, TypeStep DEF Hook, HRun, HStore, HStamp, HLoadHint, HSwap, TypeOK, Next
  <2>2. CASE UNCHANGED slots
    BY <1>5, <2>1, <2>2
  <2>3. CASE ~ UNCHANGED slots
    <3>1. slots \in [Index -> [Word -> Nat \cup {None}]] /\ "ticket" \in Word
      BY <1>1 DEF RingType, Content, Word
    <3>2. SlotOf(my_ticket(h)) \in Index
      BY TicketOfPacket
    <3>3. CASE \E f \in Fields : HStore(h, f)
      <4>1. PICK f \in Fields : HStore(h, f)
        BY <3>3
      <4>2. f # "ticket"
        BY WordAssumption
      <4>3. \A i \in Index : slots'[i]["ticket"] = slots[i]["ticket"]
        BY <3>1, <3>2, <4>1, <4>2 DEF HStore
      <4> QED BY <1>5, <2>1, <4>3
    <3>4. CASE HStamp(h)
      <4>1. hk[h].packet \in Nat /\ hk[h].packet < taken
        BY <1>1, <1>3, <3>4 DEF HStamp, Packets, HookState
      <4>2. my_ticket(h) = hk[h].packet
        BY <1>1, <4>1, TicketOfPacket, TicketAssumption
      <4>3. \A i \in Index : \/ slots'[i]["ticket"] = slots[i]["ticket"]
                             \/ slots'[i]["ticket"] \in 0 .. taken - 1
        BY <1>1, <3>1, <3>2, <3>4, <4>1, <4>2 DEF HStamp
      <4> QED BY <1>5, <2>1, <4>3
    <3> QED BY <1>7, <2>3, <3>3, <3>4 DEF Hook, HRun, HLoadHint, HSwap
  <2> QED BY <2>2, <2>3
<1>8. ASSUME NEW c \in Clients, Client(c) \/ User(c)
      PROVE  LogInv' /\ [TL!Next]_<<taken, Tickets>>
  <2>1. Drains(c) /\ UNCHANGED <<slots, wr_idx, taken, hk>> /\ Clients = {c} /\ MaxStarts = 1
    BY <1>8 DEF Client, User, Drains, OneRun
  <2>2. \A n \in Nat : n = taken => Issued(n)'
    BY <1>1, <1>3, <2>1, ClientIssued
  <2>3. /\ \A n, b \in Nat : n = taken /\ b = Top => InOrder(n, b)'
        /\ accepted' # accepted =>
             accepted' = Append(accepted, Record(c)) /\ Joins(taken, cl[c].expected)
    BY <1>1, <1>2, <1>3, <2>1, ClientInOrder
  <2>4. Issued(taken)' /\ InOrder(taken, Top)'
    BY <1>1, <1>2, <2>1, <2>2, <2>3 DEF Issued, InOrder, Top
  <2>5. CASE accepted' = accepted
    BY <1>3, <2>1, <2>4, <2>5 DEF LogInv, Tickets
  <2>6. CASE accepted' # accepted
    <3>1. TL!Process(cl[c].expected)
      BY <1>1, <2>1, <2>3, <2>6, TicketsAppend DEF TL!Process, Joins
    <3>2. cl[c].expected \in 0 .. taken
      <4>1. cl[c].expected \in Nat
        BY <1>1, IndexIsTicket DEF RingType, ClientState
      <4> QED BY <1>1, <2>3, <2>6, <4>1 DEF Joins
    <3> QED BY <1>3, <2>4, <3>1, <3>2 DEF LogInv, TL!Next
  <2> QED BY <2>5, <2>6
<1>9. CASE UNCHANGED vars
  BY <1>1, <1>5, <1>9 DEF vars, drain
<1> QED BY <1>6, <1>7, <1>8, <1>9 DEF Next

\* A single client that is started once sees a lossy log of the packets: each ticket it processes
\* is one taken, or that of the zeroed page, and none is processed twice or after a later one,
\* even if the ring is lapped while it reads.  2^31 packets are the limit: then the signed
\* distances turn over.
THEOREM LogImplemented ==
  ASSUME OneRun, MaxPackets < TicketMod \div 2
  PROVE  Spec => Log
<1>1. TypeOK /\ LogInv /\ [Next]_vars => LogInv' /\ [TL!Next]_<<taken, Tickets>>
  BY LogStep
<1>2. Init => LogInv /\ TL!Init
  BY LogInit
<1> QED BY <1>1, <1>2, TypeCorrect, PTL DEF Spec, Log, TL!Spec

TLP == INSTANCE TicketLogProofs WITH issued <- taken, log <- Tickets

\* Carried over to the ring: such a client handles no packet twice and none after a later one.
THEOREM ProcessedRise ==
  ASSUME OneRun, MaxPackets < TicketMod \div 2
  PROVE  Spec => []TL!Rising
<1>1. Spec => Log
  BY LogImplemented
<1>2. TLP!Spec => []TLP!Rising
  BY TLP!TicketsRise
<1>3. TLP!Init <=> TL!Init
  BY DEF TLP!Init, TL!Init
<1>4. [TLP!Next]_<<taken, Tickets>> <=> [TL!Next]_<<taken, Tickets>>
  BY DEF TLP!Next, TL!Next, TLP!Issue, TL!Issue, TLP!Process, TL!Process
<1>5. TLP!Rising <=> TL!Rising
  BY DEF TLP!Rising, TL!Rising
<1> QED BY <1>1, <1>2, <1>3, <1>4, <1>5, PTL DEF Log, TL!Spec, TLP!Spec
=============================================================================
