-------------------------- MODULE TicketLogProofs --------------------------
(***************************************************************************)
(* What the lossy log of TicketLog means for the one who reads it.         *)
(***************************************************************************)
EXTENDS TicketLog, TLAPS

LogType == issued \in Nat /\ log \in Seq(Nat)

\* Process compares with the last entry only; it is the largest because the rest rises.
LEMMA RisingStep ==
  ASSUME LogType, Rising, [Next]_<<issued, log>>
  PROVE  LogType' /\ Rising'
<1>1. CASE Issue
  BY <1>1 DEF Issue, LogType, Rising
<1>2. ASSUME NEW t \in 0 .. issued, Process(t) PROVE LogType' /\ Rising'
  <2>1. /\ log' = Append(log, t) /\ issued' = issued /\ t \in Nat
        /\ log \in Seq(Nat) /\ issued \in Nat
    BY <1>2 DEF Process, LogType
  <2>2. \A i \in 1 .. Len(log) : log[i] < t
    BY <1>2, <2>1 DEF Process, Rising
  <2>3. ASSUME NEW i \in 1 .. Len(log'), NEW j \in 1 .. Len(log'), i < j
        PROVE  log'[i] < log'[j]
    <3>1. /\ i \in 1 .. Len(log) /\ log'[i] = log[i]
          /\ j \in 1 .. Len(log) + 1
      BY <2>1, <2>3
    <3>2. CASE j = Len(log) + 1
      <4>1. log'[j] = t
        BY <2>1, <3>2
      <4> QED BY <2>2, <3>1, <4>1
    <3>3. CASE j \in 1 .. Len(log)
      <4>1. log'[j] = log[j]
        BY <2>1, <3>3
      <4> QED BY <2>3, <3>1, <3>3, <4>1 DEF Rising
    <3> QED BY <3>1, <3>2, <3>3
  <2>4. Rising'
    BY <2>3 DEF Rising
  <2> QED BY <2>1, <2>4 DEF LogType
<1>3. CASE UNCHANGED <<issued, log>>
  BY <1>3 DEF LogType, Rising
<1> QED BY <1>1, <1>2, <1>3 DEF Next

\* The tickets a single client processes rise: no packet or bio is handled twice or out of
\* order (the loops of telemetry_consumer_thread).
THEOREM TicketsRise == Spec => []Rising
<1>1. Init => LogType /\ Rising
  BY DEF Init, LogType, Rising
<1>2. LogType /\ Rising /\ [Next]_<<issued, log>> => (LogType /\ Rising)'
  BY RisingStep
<1> QED BY <1>1, <1>2, PTL DEF Spec
=============================================================================
