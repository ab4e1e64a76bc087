-------------------------- MODULE BlockRingProofs --------------------------
(***************************************************************************)
(* Proofs about BlockRing, for every number of probes and clients, words   *)
(* and slots.                                                              *)
(***************************************************************************)
EXTENDS BlockRing, TicketClientProofs

\* A probe at work has a ticket that was handed out, and has it alone.
Bios ==
  /\ \A p \in Cpus : IF pr[p].pc = "idle" THEN pr[p].stored = {} ELSE pr[p].ticket < wr_idx
  /\ \A p, q \in Cpus :
       pr[p].pc = "store" /\ pr[q].pc = "store" /\ pr[p].ticket = pr[q].ticket => p = q

\* In the first lap a probe fills a slot that is not stamped, and stamps are of tickets
\* handed out.
Filling ==
  /\ \A i \in Index : slots[i]["ticket"] # 0 => i < wr_idx
  /\ \A p \in Cpus : pr[p].pc = "store" =>
       /\ slots[pr[p].ticket]["ticket"] = 0
       /\ \A f \in pr[p].stored : slots[pr[p].ticket][f] = pr[p].ticket

FirstLapInv == Positions /\ Bios /\ (wr_idx <= Slots => FirstLap /\ Filling)

LogInv == Bios /\ Issued(wr_idx) /\ InOrder(wr_idx, MaxBios)

-----------------------------------------------------------------------------
(* Types *)

ProbeState == [pc : {"idle", "store"}, ticket : Ticket, stored : SUBSET Fields]

\* The tickets of a run do not wrap.
LEMMA BiosAreTickets ==
  /\ MaxBios \in Ticket /\ MaxBios \in Nat
  /\ \A n \in Nat : n < MaxBios => n \in Ticket /\ NextTicket(n) = n + 1
<1>1. MaxBios \in Nat /\ MaxBios < TicketMod
  BY BiosAssumption, TicketAssumption
<1> QED BY <1>1, NextTicketStep, TicketAssumption DEF Ticket

LEMMA TypeInit == Init => TypeOK
<1> SUFFICES ASSUME Init PROVE TypeOK
  OBVIOUS
<1>1. RingType /\ wr_idx = 0 /\ slots = Zeroed
  BY RingInitType DEF Init, RingInit
<1>2. \A i \in Index : slots[i]["ticket"] = 0
  BY <1>1, ZeroedType
<1> QED BY <1>1, <1>2, BiosAssumption, ZeroIsTicket DEF Init, Idle, TypeOK

LEMMA TypeStep == TypeOK /\ [Next]_vars => TypeOK'
<1> SUFFICES ASSUME TypeOK, [Next]_vars PROVE TypeOK'
  OBVIOUS
<1>1. /\ RingType /\ wr_idx \in Nat /\ wr_idx <= MaxBios /\ MaxBios \in Nat
      /\ pr \in [Cpus -> ProbeState]
      /\ slots \in [Index -> [Word -> Nat \cup {None}]] /\ "ticket" \in Word
  BY BiosAreTickets, IndexIsTicket DEF TypeOK, ProbeState, RingType, Content, Word
<1>2. ASSUME NEW i \in Index, NEW w \in Word, NEW v \in Nat,
             w = "ticket" => v \in Ticket /\ SlotOf(v) = i,
             slots' = [slots EXCEPT ![i][w] = v], UNCHANGED <<wr_idx, drain>>
      PROVE  RingType' /\ \A j \in Index : slots'[j]["ticket"] # 0 => SlotOf(slots'[j]["ticket"]) = j
  <2>1. slots' \in [Index -> [Word -> Nat \cup {None}]]
    BY <1>1, <1>2
  <2>2. \A j \in Index : \/ slots'[j]["ticket"] = slots[j]["ticket"]
                         \/ slots'[j]["ticket"] \in Ticket /\ SlotOf(slots'[j]["ticket"]) = j
    BY <1>1, <1>2
  <2>3. \A j \in Index : slots'[j]["ticket"] \in Ticket
    BY <1>1, <2>2 DEF RingType
  <2>4. RingType'
    BY <1>1, <1>2, <2>1, <2>3 DEF RingType, Content, drain
  <2>5. \A j \in Index : slots'[j]["ticket"] # 0 => SlotOf(slots'[j]["ticket"]) = j
    BY <2>2 DEF TypeOK
  <2> QED BY <2>4, <2>5
<1>3. ASSUME NEW p \in Cpus, Submit(p) PROVE TypeOK'
  <2>1. wr_idx' = wr_idx + 1 /\ wr_idx' \in Ticket /\ wr_idx \in Ticket /\ wr_idx' <= MaxBios
    <3>1. wr_idx < MaxBios /\ wr_idx' = NextTicket(wr_idx)
      BY <1>3 DEF Submit, PTake
    <3> QED BY <1>1, <3>1, BiosAreTickets, NextTicketType
  <2>2. [pr[p] EXCEPT !.pc = "store", !.ticket = wr_idx] \in ProbeState
    BY <1>1, <2>1 DEF ProbeState
  <2>3. pr' \in [Cpus -> ProbeState]
    BY <1>1, <1>3, <2>2 DEF Submit, PTake
  <2>4. RingType'
    BY <1>1, <1>3, <2>1 DEF Submit, PTake, RingType, drain
  <2> QED BY <1>3, <2>1, <2>3, <2>4 DEF Submit, PTake, TypeOK, ProbeState
<1>4. ASSUME NEW p \in Cpus, Probe(p) PROVE TypeOK'
  <2>1. /\ pr[p] \in ProbeState /\ pr[p].ticket \in Ticket /\ pr[p].ticket \in Nat
        /\ SlotOf(pr[p].ticket) \in Index
    BY <1>1, SlotType, IndexIsTicket DEF ProbeState
  <2>2. CASE \E f \in Fields : PStore(p, f)
    <3>1. PICK f \in Fields : PStore(p, f)
      BY <2>2
    <3>2. f \in Word /\ f # "ticket"
      BY WordAssumption DEF Word
    <3>3. RingType' /\ \A j \in Index : slots'[j]["ticket"] # 0 => SlotOf(slots'[j]["ticket"]) = j
      BY <1>2, <1>4, <2>1, <3>1, <3>2 DEF Probe, PStore
    <3>4. [pr[p] EXCEPT !.stored = @ \cup {f}] \in ProbeState
      BY <2>1 DEF ProbeState
    <3>5. pr' \in [Cpus -> ProbeState]
      BY <1>1, <3>1, <3>4 DEF PStore
    <3> QED BY <1>1, <3>1, <3>3, <3>5 DEF PStore, TypeOK, ProbeState
  <2>3. CASE PStamp(p)
    <3>1. RingType' /\ \A j \in Index : slots'[j]["ticket"] # 0 => SlotOf(slots'[j]["ticket"]) = j
      BY <1>1, <1>2, <1>4, <2>1, <2>3 DEF Probe, PStamp
    <3>2. Idle \in ProbeState
      BY ZeroIsTicket DEF Idle, ProbeState
    <3>3. pr' \in [Cpus -> ProbeState]
      BY <1>1, <2>3, <3>2 DEF PStamp
    <3> QED BY <1>1, <2>3, <3>1, <3>3 DEF PStamp, TypeOK, ProbeState
  <2> QED BY <1>4, <2>2, <2>3 DEF Probe, PRun
<1>5. ASSUME NEW c \in Clients, Client(c) \/ User(c) PROVE TypeOK'
  <2>1. Drains(c) /\ UNCHANGED <<slots, wr_idx, pr>>
    BY <1>5 DEF Client, User, Drains
  <2> QED BY <1>1, <2>1, ClientType DEF TypeOK
<1>6. CASE UNCHANGED vars
  BY <1>6 DEF vars, drain, TypeOK, RingType
<1> QED BY <1>3, <1>4, <1>5, <1>6 DEF Next

\* Every variable of the block ring keeps its type, and a slot only ever shows a stamp of its
\* own.
THEOREM TypeCorrect == Spec => []TypeOK
BY TypeInit, TypeStep, PTL DEF Spec

-----------------------------------------------------------------------------
(* The first lap *)

LEMMA BiosInit == Init => Bios
BY DEF Init, Idle, Bios

LEMMA IssueStep ==
  ASSUME TypeOK, [Next]_vars
  PROVE  \/ wr_idx' = wr_idx
         \/ wr_idx' = wr_idx + 1 /\ wr_idx < MaxBios /\ \E p \in Cpus : Submit(p)
<1>1. wr_idx \in Nat
  BY IndexIsTicket DEF TypeOK, RingType
<1>2. ASSUME NEW p \in Cpus, Submit(p) PROVE wr_idx' = wr_idx + 1 /\ wr_idx < MaxBios
  BY <1>1, <1>2, BiosAreTickets DEF Submit, PTake
<1>3. ASSUME NEW p \in Cpus, Probe(p) PROVE wr_idx' = wr_idx
  BY <1>3 DEF Probe, PRun, PStore, PStamp
<1>4. ASSUME NEW c \in Clients, Client(c) \/ User(c) PROVE wr_idx' = wr_idx
  BY <1>4 DEF Client, User
<1>5. CASE UNCHANGED vars
  BY <1>5 DEF vars
<1> QED BY <1>2, <1>3, <1>4, <1>5 DEF Next

LEMMA BiosStep == TypeOK /\ Bios /\ [Next]_vars => Bios'
<1> SUFFICES ASSUME TypeOK, Bios, [Next]_vars PROVE Bios'
  OBVIOUS
<1>1. pr \in [Cpus -> ProbeState] /\ wr_idx \in Nat /\ \A q \in Cpus : pr[q].ticket \in Nat
  BY IndexIsTicket DEF TypeOK, RingType, ProbeState
<1>2. ASSUME NEW p \in Cpus, Submit(p) PROVE Bios'
  <2>1. /\ pr'[p].pc = "store" /\ pr'[p].ticket = wr_idx /\ wr_idx' = wr_idx + 1
        /\ \A q \in Cpus \ {p} : pr'[q] = pr[q]
    BY <1>1, <1>2, BiosAreTickets DEF Submit, PTake, ProbeState
  <2> QED BY <1>1, <2>1 DEF Bios
<1>3. ASSUME NEW p \in Cpus, Probe(p) PROVE Bios'
  <2>1. /\ wr_idx' = wr_idx /\ \A q \in Cpus \ {p} : pr'[q] = pr[q]
        /\ \/ pr'[p] = Idle
           \/ pr[p].pc = "store" /\ pr'[p].pc = "store" /\ pr'[p].ticket = pr[p].ticket
    <3>1. CASE \E f \in Fields : PStore(p, f)
      BY <1>1, <3>1 DEF PStore, ProbeState
    <3>2. CASE PStamp(p)
      BY <1>1, <3>2 DEF PStamp
    <3> QED BY <1>3, <3>1, <3>2 DEF Probe, PRun
  <2> QED BY <2>1 DEF Bios, Idle
<1>4. CASE UNCHANGED <<wr_idx, pr>>
  BY <1>4 DEF Bios
<1> QED BY <1>2, <1>3, <1>4 DEF Next, vars, Client, User

LEMMA FirstLapInit == Init => FirstLapInv
<1> SUFFICES ASSUME Init PROVE FirstLapInv
  OBVIOUS
<1>1. slots = Zeroed /\ accepted = <<>> /\ cl \in [Clients -> {Launched(m, 1) : m \in Modes}]
  BY DEF Init, RingInit
<1>2. Positions
  BY <1>1 DEF Positions, Launched
<1>3. Stamped
  BY <1>1, ZeroedType DEF Stamped
<1>4. Reading
  BY <1>1 DEF Reading, Launched
<1>5. AllFaithful("skip")
  BY <1>1 DEF AllFaithful
<1>6. Filling
  BY <1>1, ZeroedType DEF Filling, Init, Idle
<1> QED BY <1>2, <1>3, <1>4, <1>5, <1>6, BiosInit DEF FirstLapInv, FirstLap

LEMMA FirstLapStep == TypeOK /\ FirstLapInv /\ [Next]_vars => FirstLapInv'
<1> SUFFICES ASSUME TypeOK, FirstLapInv, [Next]_vars PROVE FirstLapInv'
  OBVIOUS
<1>1. /\ RingType /\ pr \in [Cpus -> ProbeState] /\ wr_idx \in Nat /\ Slots \in Nat
      /\ slots \in [Index -> [Word -> Nat \cup {None}]]
      /\ "ticket" \in Word /\ Fields \subseteq Word /\ "ticket" \notin Fields
  <2>1. pr \in [Cpus -> ProbeState] /\ wr_idx \in Nat /\ Slots \in Nat
    BY SlotsAssumption, IndexIsTicket DEF TypeOK, RingType, ProbeState
  <2>2. slots \in [Index -> [Word -> Nat \cup {None}]]
    BY DEF TypeOK, RingType, Content
  <2> QED BY <2>1, <2>2, WordAssumption DEF TypeOK, Word
<1>2. Bios /\ Positions /\ Bios'
  BY BiosStep DEF FirstLapInv
<1>3. Positions'
  <2>1. ASSUME NEW c \in Clients, Client(c) \/ User(c) PROVE Positions'
    BY <1>1, <1>2, <2>1, ClientPositions DEF Client, User, Drains
  <2>2. CASE UNCHANGED drain
    BY <1>2, <2>2 DEF Positions, drain
  <2> QED BY <2>1, <2>2 DEF Next, Submit, Probe, vars
<1>4. ASSUME wr_idx' <= Slots PROVE FirstLap' /\ Filling'
  <2>1. wr_idx <= Slots
    BY <1>1, <1>4, IssueStep
  <2>2. FirstLap /\ Filling
    BY <2>1 DEF FirstLapInv
  <2>3. ASSUME NEW p \in Cpus, pr[p].pc = "store"
        PROVE  pr[p].ticket \in Index /\ SlotOf(pr[p].ticket) = pr[p].ticket
    <3>1. pr[p].ticket \in Nat /\ pr[p].ticket < wr_idx
      BY <1>1, <1>2, <2>3, IndexIsTicket DEF ProbeState, Bios
    <3>2. pr[p].ticket \in Index
      BY <1>1, <2>1, <3>1 DEF Index
    <3> QED BY <3>2, SlotFixed
  <2>4. ASSUME NEW p \in Cpus, Submit(p) PROVE FirstLap' /\ Filling'
    <3>1. /\ pr'[p].pc = "store" /\ pr'[p].ticket = wr_idx /\ pr'[p].stored = {}
          /\ \A q \in Cpus \ {p} : pr'[q] = pr[q]
          /\ wr_idx' = wr_idx + 1 /\ UNCHANGED <<slots, drain>>
      BY <1>1, <1>2, <2>4, BiosAreTickets DEF Submit, PTake, ProbeState, Bios
    <3>2. FirstLap'
      BY <2>2, <3>1 DEF FirstLap, Stamped, Reading, AllFaithful, drain
    <3>3. slots[wr_idx]["ticket"] = 0
      <4>1. wr_idx \in Index
        BY <1>1, <1>4, <3>1 DEF Index
      <4> QED BY <1>1, <2>2, <4>1 DEF Filling
    <3>4. \A i \in Index : i < wr_idx => i < wr_idx + 1
      BY <1>1 DEF Index
    <3> QED BY <2>2, <3>1, <3>2, <3>3, <3>4 DEF Filling
  <2>5. ASSUME NEW p \in Cpus, NEW f \in Fields, PStore(p, f), UNCHANGED drain
        PROVE  FirstLap' /\ Filling'
    <3> DEFINE t == pr[p].ticket
    <3>1. t \in Index /\ slots' = [slots EXCEPT ![t][f] = t] /\ pr[p].pc = "store"
      BY <2>3, <2>5 DEF PStore
    <3>2. slots[t]["ticket"] = 0
      BY <2>2, <3>1 DEF Filling
    <3>3. FirstLap'
      BY <1>1, <2>2, <2>5, <3>1, <3>2, StoreLap
    <3>4. /\ pr'[p].pc = "store" /\ pr'[p].ticket = t /\ pr'[p].stored = pr[p].stored \cup {f}
          /\ \A q \in Cpus \ {p} : pr'[q] = pr[q]
          /\ UNCHANGED wr_idx
      BY <1>1, <2>5 DEF PStore, ProbeState
    <3>5. /\ \A i \in Index : slots'[i]["ticket"] = slots[i]["ticket"]
          /\ \A i \in Index \ {t} : slots'[i] = slots[i]
          /\ slots'[t][f] = t /\ \A e \in Fields \ {f} : slots'[t][e] = slots[t][e]
      BY <1>1, <3>1
    <3>6. \A q \in Cpus \ {p} : pr[q].pc = "store" => pr[q].ticket \in Index \ {t}
      BY <1>2, <2>3, <3>1 DEF Bios
    <3>7. \A q \in Cpus : pr[q].stored \subseteq Fields
      BY <1>1 DEF ProbeState
    <3>8. /\ slots'[pr'[p].ticket]["ticket"] = 0
          /\ \A e \in pr'[p].stored : slots'[pr'[p].ticket][e] = pr'[p].ticket
      BY <2>2, <3>1, <3>2, <3>4, <3>5, <3>7 DEF Filling
    <3>9. \A q \in Cpus \ {p} : pr'[q].pc = "store" =>
            /\ slots'[pr'[q].ticket]["ticket"] = 0
            /\ \A e \in pr'[q].stored : slots'[pr'[q].ticket][e] = pr'[q].ticket
      BY <2>2, <3>4, <3>5, <3>6 DEF Filling
    <3> QED BY <2>2, <3>3, <3>4, <3>5, <3>8, <3>9 DEF Filling
  <2>6. ASSUME NEW p \in Cpus, PStamp(p), UNCHANGED drain
        PROVE  FirstLap' /\ Filling'
    <3> DEFINE t == pr[p].ticket
    <3>1. /\ t \in Index /\ slots' = [slots EXCEPT ![t]["ticket"] = t]
          /\ pr[p].pc = "store" /\ pr[p].stored = Fields
      BY <2>3, <2>6 DEF PStamp
    <3>2. slots[t]["ticket"] = 0 /\ \A f \in Fields : slots[t][f] = t
      BY <2>2, <3>1 DEF Filling
    <3>3. FirstLap'
      BY <1>1, <2>2, <2>6, <3>1, <3>2, StampLap
    <3>4. /\ pr'[p].pc = "idle" /\ UNCHANGED wr_idx
          /\ \A q \in Cpus \ {p} : pr'[q] = pr[q]
      BY <1>1, <2>6 DEF PStamp, Idle
    <3>5. slots'[t]["ticket"] = t /\ \A i \in Index \ {t} : slots'[i] = slots[i]
      BY <1>1, <3>1
    <3>6. \A q \in Cpus \ {p} : pr[q].pc = "store" => pr[q].ticket \in Index \ {t}
      BY <1>2, <2>3, <3>1 DEF Bios
    <3>7. t < wr_idx
      BY <1>2, <3>1 DEF Bios
    <3> QED BY <2>2, <3>3, <3>4, <3>5, <3>6, <3>7 DEF Filling
  <2>7. ASSUME NEW c \in Clients, Client(c) \/ User(c) PROVE FirstLap' /\ Filling'
    <3>1. Drains(c) /\ UNCHANGED <<slots, wr_idx, pr>>
      BY <2>7 DEF Client, User, Drains
    <3> QED BY <1>1, <1>2, <2>2, <3>1, ClientLap DEF Filling
  <2>8. CASE UNCHANGED vars
    BY <2>2, <2>8 DEF vars, drain, Filling, FirstLap, Stamped, Reading, AllFaithful
  <2> QED BY <2>4, <2>5, <2>6, <2>7, <2>8 DEF Next, Probe, PRun
<1> QED BY <1>2, <1>3, <1>4 DEF FirstLapInv

\* Until the ring is lapped, the skip-ahead engine processes under a ticket exactly the bio that
\* took it, however many probes and clients there are and whatever becomes of the clients.
THEOREM FirstLapSafe == Spec => []FirstLapFaithful
<1>1. FirstLapInv => FirstLapFaithful
  BY DEF FirstLapInv, FirstLap, FirstLapFaithful
<1> QED BY <1>1, TypeCorrect, FirstLapInit, FirstLapStep, PTL DEF Spec

-----------------------------------------------------------------------------
(* No record is skipped *)

\* While all clients are scatter-gather, every ticket but 0 below the published read index has been
\* processed, whichever clients were killed, restarted or replaced.
THEOREM ScatterSkipsNothing == ASSUME Modes = {"scatter"} PROVE Spec => []NothingSkipped
<1> DEFINE Inv == Positions /\ Coverage
<1>1. Init => Inv
  <2>1. SUFFICES ASSUME Init PROVE Coverage
    BY FirstLapInit DEF FirstLapInv
  <2>2. rd_idx = 0 /\ \A c \in Clients : cl[c].expected = 0
    BY <2>1 DEF Init, RingInit, Launched
  <2> QED BY <2>2 DEF Coverage, Covered
<1>2. TypeOK /\ Inv /\ [Next]_vars => Inv'
  <2> SUFFICES ASSUME TypeOK, Positions, Coverage, [Next]_vars PROVE Inv'
    OBVIOUS
  <2>1. ASSUME NEW c \in Clients, Client(c) \/ User(c) PROVE Inv'
    BY <2>1, ClientPositions, ClientCovers DEF TypeOK, Client, User, Drains
  <2>2. CASE UNCHANGED drain
    BY <2>2 DEF Positions, Coverage, Covered, drain
  <2> QED BY <2>1, <2>2 DEF Next, Submit, Probe, vars
<1>3. Inv => NothingSkipped
  BY DEF Coverage, Covered, NothingSkipped
<1> QED BY <1>1, <1>2, <1>3, TypeCorrect, PTL DEF Spec

-----------------------------------------------------------------------------
(* The lossy log *)

LEMMA LogInit == Init => LogInv /\ TL!Init
<1> SUFFICES ASSUME Init PROVE LogInv /\ TL!Init
  OBVIOUS
<1>1. /\ slots = Zeroed /\ accepted = <<>> /\ rd_idx = 0 /\ wr_idx = 0
      /\ cl \in [Clients -> {Launched(m, 1) : m \in Modes}]
  BY DEF Init, RingInit
<1>2. Issued(wr_idx)
  BY <1>1, ZeroedType DEF Issued, Launched
<1>3. InOrder(wr_idx, MaxBios)
  BY <1>1, BiosAssumption DEF InOrder, Launched
<1>4. Tickets = <<>>
  BY <1>1, NoTickets
<1> QED BY <1>1, <1>2, <1>3, <1>4, BiosInit DEF LogInv, TL!Init

\* A step of the probes, of the client or of its user is a step of the log, or changes nothing
\* in it.
LEMMA LogStep ==
  ASSUME OneRun, MaxBios > 0, TypeOK, LogInv, [Next]_vars
  PROVE  LogInv' /\ [TL!Next]_<<wr_idx, Tickets>>
<1>1. /\ RingType /\ wr_idx \in Nat /\ wr_idx <= MaxBios
      /\ MaxBios \in Nat \ {0} /\ MaxBios < TicketMod \div 2
      /\ pr \in [Cpus -> ProbeState] /\ Bios /\ Bios'
      /\ slots \in [Index -> [Word -> Nat \cup {None}]] /\ "ticket" \in Word
  <2>1. RingType /\ wr_idx \in Nat /\ wr_idx <= MaxBios /\ MaxBios \in Nat \ {0}
          /\ MaxBios < TicketMod \div 2
    BY BiosAssumption, IndexIsTicket DEF TypeOK, RingType
  <2>2. slots \in [Index -> [Word -> Nat \cup {None}]] /\ "ticket" \in Word
    BY DEF TypeOK, RingType, Content, Word
  <2> QED BY <2>1, <2>2, BiosStep DEF TypeOK, ProbeState, LogInv
<1>2. Issued(wr_idx) /\ InOrder(wr_idx, MaxBios)
  BY DEF LogInv
<1>3. ASSUME NEW m \in Nat, wr_idx <= m, m = wr_idx', UNCHANGED drain,
             \A i \in Index : \/ slots'[i]["ticket"] = slots[i]["ticket"]
                              \/ slots'[i]["ticket"] \in 0 .. m - 1
      PROVE  LogInv'
  <2>1. Issued(m)' /\ InOrder(m, MaxBios)'
    BY <1>1, <1>2, <1>3, ProducerInOrder
  <2>2. Issued(wr_idx)' /\ InOrder(wr_idx, MaxBios)'
    BY <1>3, <2>1 DEF Issued, InOrder
  <2> QED BY <1>1, <2>2 DEF LogInv
<1>4. ASSUME NEW p \in Cpus, Submit(p) PROVE LogInv' /\ [TL!Next]_<<wr_idx, Tickets>>
  <2>1. wr_idx' = wr_idx + 1 /\ UNCHANGED <<slots, drain>>
    BY <1>1, <1>4, BiosAreTickets DEF Submit, PTake
  <2>2. LogInv'
    BY <1>1, <1>3, <2>1
  <2>3. TL!Issue
    BY <2>1 DEF TL!Issue, Tickets, drain
  <2> QED BY <2>2, <2>3 DEF TL!Next
<1>5. ASSUME NEW p \in Cpus, Probe(p) PROVE LogInv' /\ [TL!Next]_<<wr_idx, Tickets>>
  <2>1. UNCHANGED <<wr_idx, drain>>
    BY <1>5 DEF Probe, PRun, PStore, PStamp
  <2>2. SlotOf(pr[p].ticket) \in Index /\ pr[p].ticket \in Nat
    BY <1>1, SlotType, IndexIsTicket DEF ProbeState
  <2>3. \A i \in Index : \/ slots'[i]["ticket"] = slots[i]["ticket"]
                         \/ slots'[i]["ticket"] \in 0 .. wr_idx - 1
    <3>1. CASE \E f \in Fields : PStore(p, f)
      BY <1>1, <2>2, <3>1, WordAssumption DEF PStore
    <3>2. CASE PStamp(p)
      <4>1. pr[p].ticket \in 0 .. wr_idx - 1
        BY <1>1, <2>2, <3>2 DEF PStamp, Bios
      <4> QED BY <1>1, <2>2, <3>2, <4>1 DEF PStamp
    <3> QED BY <1>5, <3>1, <3>2 DEF Probe, PRun
  <2>4. LogInv'
    BY <1>1, <1>3, <2>1, <2>3
  <2> QED BY <2>1, <2>4 DEF Tickets, drain
<1>6. ASSUME NEW c \in Clients, Client(c) \/ User(c)
      PROVE  LogInv' /\ [TL!Next]_<<wr_idx, Tickets>>
  <2>1. Drains(c) /\ UNCHANGED <<slots, wr_idx, pr>> /\ Clients = {c} /\ MaxStarts = 1
    BY <1>6 DEF Client, User, Drains, OneRun
  <2>2. \A n \in Nat : n = wr_idx => Issued(n)'
    BY <1>1, <1>2, <2>1, ClientIssued
  <2>3. /\ \A n \in Nat : n = wr_idx => InOrder(n, MaxBios)'
        /\ accepted' # accepted =>
             accepted' = Append(accepted, Record(c)) /\ Joins(wr_idx, cl[c].expected)
    BY <1>1, <1>2, <2>1, ClientInOrder
  <2>4. LogInv'
    <3>1. Issued(wr_idx)' /\ InOrder(wr_idx, MaxBios)'
      BY <1>1, <2>1, <2>2, <2>3 DEF Issued, InOrder
    <3> QED BY <1>1, <3>1 DEF LogInv
  <2>5. CASE accepted' = accepted
    BY <2>1, <2>4, <2>5 DEF Tickets
  <2>6. CASE accepted' # accepted
    <3>1. TL!Process(cl[c].expected)
      BY <1>1, <2>1, <2>3, <2>6, TicketsAppend DEF TL!Process, Joins
    <3>2. cl[c].expected \in 0 .. wr_idx
      <4>1. cl[c].expected \in Nat
        BY <1>1, IndexIsTicket DEF RingType, ClientState
      <4> QED BY <1>1, <2>3, <2>6, <4>1 DEF Joins
    <3> QED BY <2>4, <3>1, <3>2 DEF TL!Next
  <2> QED BY <2>5, <2>6
<1>7. CASE UNCHANGED vars
  <2>1. UNCHANGED <<wr_idx, drain, slots>>
    BY <1>7 DEF vars
  <2> QED BY <1>1, <1>3, <2>1 DEF Tickets, drain
<1> QED BY <1>4, <1>5, <1>6, <1>7 DEF Next

\* A single client that is started once sees a lossy log of the bios: each ticket it processes is
\* one handed out, or that of the zeroed page, and none is processed twice or after a later one,
\* even if the ring is lapped while it reads.
THEOREM LogImplemented ==
  ASSUME OneRun, MaxBios > 0
  PROVE  Spec => Log
<1>1. TypeOK /\ LogInv /\ [Next]_vars => LogInv' /\ [TL!Next]_<<wr_idx, Tickets>>
  BY LogStep
<1> QED BY <1>1, LogInit, TypeCorrect, PTL DEF Spec, Log, TL!Spec

TLP == INSTANCE TicketLogProofs WITH issued <- wr_idx, log <- Tickets

\* Carried over to the ring: such a client handles no bio twice and none after a later one.
THEOREM ProcessedRise ==
  ASSUME OneRun, MaxBios > 0
  PROVE  Spec => []TL!Rising
<1>1. Spec => Log
  BY LogImplemented
<1>2. TLP!Spec => []TLP!Rising
  BY TLP!TicketsRise
<1>3. TLP!Init <=> TL!Init
  BY DEF TLP!Init, TL!Init
<1>4. [TLP!Next]_<<wr_idx, Tickets>> <=> [TL!Next]_<<wr_idx, Tickets>>
  BY DEF TLP!Next, TL!Next, TLP!Issue, TL!Issue, TLP!Process, TL!Process
<1>5. TLP!Rising <=> TL!Rising
  BY DEF TLP!Rising, TL!Rising
<1> QED BY <1>1, <1>2, <1>3, <1>4, <1>5, PTL DEF Log, TL!Spec, TLP!Spec
=============================================================================
