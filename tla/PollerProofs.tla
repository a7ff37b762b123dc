---------------------------- MODULE PollerProofs ----------------------------
(***************************************************************************)
(* The safety properties of Poller for every number of retries, every      *)
(* timeout and every bound.                                                *)
(*                                                                         *)
(* OutstandingBounded, StaleHasAnError, OutcomeIsFinal, LinkLossIsFinal    *)
(* and the refinement of SignalCache are not inductive by themselves: they *)
(* follow from IndInv, whose parts say where a request can be in its life. *)
(***************************************************************************)
EXTENDS Poller, FiniteSetTheorems, SequenceTheorems, TLAPS

\* Request numbers above ticks are unused.
NumberInv == \A t \in Tids : t > ticks => status[t] = "none"

\* The most EmitTime calls that the spent retries account for when n are left.
Spent(n) == (MaxRetries - n) * TicksPerTimeout

\* An outstanding request has seen no more EmitTime calls than its spent
\* retries account for, and age[t] since the last one.
TimerInv == \A t \in Pending : ticks - t <= Spent(left[t]) + age[t]

\* While nothing failed since the last refresh, all that was sent is under way.
FreshInv ==
    /\ heldAt <= ticks
    /\ ~faulty => \A t \in Tids : heldAt < t /\ t <= ticks => t \in Pending

\* Without a connection nothing is outstanding.
LinkInv == link # "connected" => Pending = {}

\* No answer under way is older than the latest decoded, and all are in order.
OrderInv ==
    /\ sig <= plc
    /\ \A i \in 1 .. Len(fromPlc) : fromPlc[i].ver <= plc
    /\ \A i \in 1 .. Len(fromPlc) :
          fromPlc[i].ver # ModbusException => sig <= fromPlc[i].ver
    /\ \A i, j \in 1 .. Len(fromPlc) :
          /\ i < j
          /\ fromPlc[i].ver # ModbusException
          /\ fromPlc[j].ver # ModbusException
          => fromPlc[i].ver <= fromPlc[j].ver

\* The inductive invariant.
IndInv == TypeOK /\ NumberInv /\ TimerInv /\ FreshInv /\ LinkInv /\ OrderInv
-----------------------------------------------------------------------------
(* Type correctness. *)

\* Losing the link and destroying the object end every request alike.
LEMMA AllFinished ==
    ASSUME LinkDown \/ Destruct
    PROVE  /\ link' \in {"unconnected", "gone"}
           /\ \E outcome \in {"failed", "aborted"} :
                 status' = [t \in Tids |-> IF t \in Pending THEN outcome ELSE status[t]]
           /\ faulty' = (faulty \/ Pending # {})
           /\ toPlc' = <<>> /\ fromPlc' = <<>>
           /\ left' = NoTimer(left, Pending) /\ age' = NoTimer(age, Pending)
           /\ logged' \subseteq logged \cup Pending
           /\ UNCHANGED <<ticks, plc, first, sig, heldAt, shown>>
<1>1. CASE LinkDown
  <2>1. status' = [t \in Tids |-> IF t \in Pending THEN "failed" ELSE status[t]]
    BY <1>1 DEF LinkDown, FinishAll
  <2>2. "failed" \in {"failed", "aborted"}
    OBVIOUS
  <2>3. \E outcome \in {"failed", "aborted"} :
           status' = [t \in Tids |-> IF t \in Pending THEN outcome ELSE status[t]]
    BY <2>1, <2>2, Zenon
  <2> QED BY <1>1, <2>3 DEF LinkDown, FinishAll, signals
<1>2. CASE Destruct
  <2>1. status' = [t \in Tids |-> IF t \in Pending THEN "aborted" ELSE status[t]]
    BY <1>2 DEF Destruct, FinishAll
  <2>2. "aborted" \in {"failed", "aborted"}
    OBVIOUS
  <2>3. \E outcome \in {"failed", "aborted"} :
           status' = [t \in Tids |-> IF t \in Pending THEN outcome ELSE status[t]]
    BY <2>1, <2>2, Zenon
  <2> QED BY <1>2, <2>3 DEF Destruct, FinishAll, signals
<1> QED BY <1>1, <1>2

\* The initial state has the declared types.
LEMMA TypeInit == Init => TypeOK
  BY PollerAssumption, SMT DEF Init, TypeOK, Tids, Ended, PollerAssumption

\* Every step, whoever takes it, keeps the declared types.
LEMMA TypeStep == TypeOK /\ [Next]_vars => TypeOK'
<1> USE PollerAssumption DEF PollerAssumption
<1> SUFFICES ASSUME TypeOK, [Next]_vars PROVE TypeOK'
  OBVIOUS
<1>1. CASE Connected
  BY <1>1 DEF Connected, TypeOK, timers, wires, signals
<1>2. CASE LinkDown \/ Destruct
  <2>1. status' \in [Tids -> {"none", "pending"} \cup Ended]
    BY <1>2, AllFinished DEF TypeOK, Ended
  <2>2. left' \in [Tids -> 0 .. MaxRetries] /\ age' \in [Tids -> 0 .. TicksPerTimeout]
    <3>1. left' = NoTimer(left, Pending) /\ age' = NoTimer(age, Pending)
      BY <1>2, AllFinished
    <3> QED BY <3>1 DEF TypeOK, NoTimer
  <2>3. toPlc' \in Seq(Tids) /\ fromPlc' \in Seq([tid : Tids, ver : 0 .. MaxPlc])
    <3>1. toPlc' = <<>> /\ fromPlc' = <<>>
      BY <1>2, AllFinished
    <3> QED BY <3>1
  <2>4. /\ link' \in {"unconnected", "gone"} /\ faulty' \in BOOLEAN /\ logged' \subseteq Tids
        /\ UNCHANGED <<ticks, plc, first, sig, heldAt, shown>>
    BY <1>2, AllFinished DEF TypeOK, Pending
  <2> QED BY <2>1, <2>2, <2>3, <2>4 DEF TypeOK
<1>3. CASE EmitTime
  <2> USE <1>3 DEF EmitTime
  <2>1. ticks + 1 \in Tids /\ ticks' \in 0 .. MaxTick
    BY DEF TypeOK, Tids
  <2>2. age' \in [Tids -> 0 .. TicksPerTimeout]
    BY DEF TypeOK, Pending
  <2>3. /\ status' \in [Tids -> {"none", "pending"} \cup Ended]
        /\ left' \in [Tids -> 0 .. MaxRetries]
        /\ toPlc' \in Seq(Tids)
        /\ faulty' \in BOOLEAN
        /\ logged' \subseteq Tids
    <3>1. CASE link = "connected"
      <4>1. /\ status' = [status EXCEPT ![ticks + 1] = "pending"]
            /\ left' = [left EXCEPT ![ticks + 1] = MaxRetries]
            /\ toPlc' = Append(toPlc, ticks + 1)
            /\ UNCHANGED <<faulty, logged>>
        BY <3>1 DEF PrepareRead
      <4>2. toPlc' \in Seq(Tids)
        BY <2>1, <4>1, AppendProperties DEF TypeOK
      <4>3. status' \in [Tids -> {"none", "pending"} \cup Ended]
        BY <4>1 DEF TypeOK
      <4>4. left' \in [Tids -> 0 .. MaxRetries]
        BY <2>1, <4>1 DEF TypeOK
      <4> QED BY <4>1, <4>2, <4>3, <4>4 DEF TypeOK
    <3>2. CASE link # "connected"
      <4>1. /\ status' = [status EXCEPT ![ticks + 1] = "refused"]
            /\ faulty' = TRUE
            /\ logged' = logged \cup {ticks + 1}
            /\ UNCHANGED <<left, toPlc>>
        BY <3>2 DEF PrepareRead
      <4>2. status' \in [Tids -> {"none", "pending"} \cup Ended]
        BY <4>1 DEF TypeOK, Ended
      <4> QED BY <2>1, <4>1, <4>2 DEF TypeOK
    <3> QED BY <3>1, <3>2
  <2> QED BY <2>1, <2>2, <2>3 DEF TypeOK, signals
<1>4. ASSUME NEW t \in Tids, ResponseTimeout(t) PROVE TypeOK'
  <2> USE <1>4 DEF ResponseTimeout
  <2>1. age' \in [Tids -> 0 .. TicksPerTimeout]
    BY DEF TypeOK
  <2>2. /\ status' \in [Tids -> {"none", "pending"} \cup Ended]
        /\ left' \in [Tids -> 0 .. MaxRetries]
        /\ toPlc' \in Seq(Tids)
        /\ faulty' \in BOOLEAN
    <3>1. CASE Resend(t)
      <4>1. toPlc' \in Seq(Tids)
        BY <3>1, AppendProperties DEF TypeOK, Resend
      <4>2. left' \in [Tids -> 0 .. MaxRetries]
        BY <3>1 DEF TypeOK, Resend
      <4> QED BY <3>1, <4>1, <4>2 DEF TypeOK, Resend
    <3>2. CASE ~Resend(t)
      <4>1. /\ status' = [status EXCEPT ![t] = "failed"]
            /\ faulty' = TRUE
            /\ UNCHANGED <<left, toPlc>>
        BY <3>2
      <4>2. status' \in [Tids -> {"none", "pending"} \cup Ended]
        BY <4>1 DEF TypeOK, Ended
      <4> QED BY <4>1, <4>2 DEF TypeOK
    <3> QED BY <3>1, <3>2
  <2> QED BY <2>1, <2>2 DEF TypeOK, signals
<1>5. CASE ReadReady
  <2> USE <1>5 DEF ReadReady, HasRegisters
  <2> DEFINE m == NextAnswer
  <2>1. m \in [tid : Tids, ver : 0 .. MaxPlc] /\ fromPlc' \in Seq([tid : Tids, ver : 0 .. MaxPlc])
    BY HeadTailProperties DEF TypeOK, NextAnswer
  <2>2. left' \in [Tids -> 0 .. MaxRetries] /\ age' \in [Tids -> 0 .. TicksPerTimeout]
    BY DEF TypeOK, NoTimer
  <2>3. /\ status' \in [Tids -> {"none", "pending"} \cup Ended]
        /\ first' \in 0 .. MaxPlc /\ sig' \in 0 .. MaxPlc
        /\ heldAt' \in 0 .. MaxTick
        /\ faulty' \in BOOLEAN
    BY <2>1 DEF TypeOK, Ended, signals, Analogs
  <2> QED BY <2>1, <2>2, <2>3 DEF TypeOK
<1>6. CASE PlcAnswer
  <2> USE <1>6 DEF PlcAnswer
  <2>1. toPlc' \in Seq(Tids) /\ Head(toPlc) \in Tids
    BY DEF TypeOK
  <2>2. PICK v \in {plc, ModbusException} :
            fromPlc' = Append(fromPlc, [tid |-> Head(toPlc), ver |-> v])
    OBVIOUS
  <2>3. v \in 0 .. MaxPlc
    BY <2>2 DEF TypeOK, ModbusException
  <2>4. fromPlc' \in Seq([tid : Tids, ver : 0 .. MaxPlc])
    BY <2>1, <2>2, <2>3 DEF TypeOK
  <2> QED BY <2>1, <2>4 DEF TypeOK, timers, signals
<1>7. CASE PlcIgnore
  BY <1>7 DEF PlcIgnore, TypeOK, timers, signals
<1>8. CASE PlcChange
  BY <1>8 DEF PlcChange, TypeOK, timers, wires, signals
<1>9. CASE UNCHANGED vars
  BY <1>9 DEF TypeOK, vars
<1> QED
  BY <1>1, <1>2, <1>3, <1>4, <1>5, <1>6, <1>7, <1>8, <1>9 DEF Next, Horizon

\* Poller never leaves its types: retries do not go below zero and no response
\* timer outlives its bound.
THEOREM TypeCorrect == Spec => []TypeOK
<1>1. Init => TypeOK
  BY TypeInit
<1>2. TypeOK /\ [Next]_vars => TypeOK'
  BY TypeStep
<1> QED BY <1>1, <1>2, PTL DEF Spec
-----------------------------------------------------------------------------
(* The steps keep each part of IndInv. *)

\* What readReady takes off the wire.
LEMMA AnswerTaken ==
    ASSUME TypeOK, ReadReady
    PROVE  /\ fromPlc # <<>>
           /\ NextAnswer = fromPlc[1]
           /\ NextAnswer.tid \in Tids
           /\ NextAnswer.ver \in 0 .. MaxPlc
           /\ Len(fromPlc) \in Nat \ {0}
           /\ Len(fromPlc') = Len(fromPlc) - 1
           /\ \A i \in 1 .. Len(fromPlc') : fromPlc'[i] = fromPlc[i + 1]
<1>1. fromPlc # <<>> /\ fromPlc' = Tail(fromPlc)
  BY DEF ReadReady, HasRegisters
<1>2. fromPlc \in Seq([tid : Tids, ver : 0 .. MaxPlc])
  BY DEF TypeOK
<1>3. Head(fromPlc) \in [tid : Tids, ver : 0 .. MaxPlc]
  BY <1>1, <1>2, HeadTailProperties
<1>5. Head(fromPlc) = fromPlc[1]
  OBVIOUS
<1>4. Len(fromPlc) \in Nat \ {0}
  BY <1>1, <1>2, EmptySeq, LenProperties
<1> QED
  BY <1>1, <1>2, <1>3, <1>4, <1>5, HeadTailProperties DEF NextAnswer

\* What EmitTime does to the requests.
LEMMA RequestNumbered ==
    ASSUME TypeOK, EmitTime
    PROVE  /\ ticks \in Nat /\ ticks' = ticks + 1 /\ ticks + 1 \in Tids
           /\ \A u \in Tids \ {ticks + 1} :
                 status'[u] = status[u] /\ left'[u] = left[u]
           /\ \/ /\ link = "connected"
                 /\ status'[ticks + 1] = "pending"
                 /\ left'[ticks + 1] = MaxRetries
                 /\ faulty' = faulty
              \/ /\ link # "connected"
                 /\ status'[ticks + 1] = "refused"
                 /\ faulty'
           /\ UNCHANGED <<link, fromPlc, plc, first, sig, heldAt>>
<1>1. ticks \in Nat /\ ticks' = ticks + 1 /\ ticks + 1 \in Tids
  BY PollerAssumption DEF EmitTime, TypeOK, Tids, PollerAssumption
<1>2. status \in [Tids -> {"none", "pending"} \cup Ended] /\ left \in [Tids -> 0 .. MaxRetries]
  BY DEF TypeOK
<1>3. PrepareRead /\ UNCHANGED <<link, fromPlc, plc, first, sig, heldAt>>
  BY DEF EmitTime, signals
<1> QED
  BY <1>1, <1>2, <1>3 DEF PrepareRead

\* Request numbers are handed out in order, by EmitTime only.
LEMMA NumberStep == TypeOK /\ NumberInv /\ [Next]_vars => NumberInv'
<1> USE DEF NumberInv, TypeOK, Tids
<1> SUFFICES ASSUME TypeOK, NumberInv, [Next]_vars,
                    NEW u \in Tids, u > ticks'
             PROVE  status'[u] = "none"
  OBVIOUS
<1>1. CASE LinkDown \/ Destruct
  BY <1>1, AllFinished DEF Pending
<1>2. CASE EmitTime
  BY <1>2, RequestNumbered
<1>3. ASSUME NEW t \in Tids, ResponseTimeout(t) PROVE status'[u] = "none"
  BY <1>3 DEF ResponseTimeout, Resend, IsAwaited
<1>4. CASE ReadReady
  <2>1. NextAnswer.tid \in Tids
    BY <1>4, AnswerTaken
  <2> QED BY <1>4, <2>1 DEF ReadReady, HasRegisters, IsAwaited
<1>5. CASE Connected \/ PlcAnswer \/ PlcIgnore \/ PlcChange \/ UNCHANGED vars
  BY <1>5 DEF Connected, PlcAnswer, PlcIgnore, PlcChange, vars
<1> QED
  BY <1>1, <1>2, <1>3, <1>4, <1>5 DEF Next, Horizon

\* Only EmitTime on an open link makes a request outstanding, and losing the
\* link ends them all.
LEMMA LinkStep == TypeOK /\ LinkInv /\ [Next]_vars => LinkInv'
<1> USE DEF LinkInv, TypeOK, Pending
<1> SUFFICES ASSUME TypeOK, LinkInv, [Next]_vars,
                    NEW u \in Tids, status'[u] = "pending"
             PROVE  link' = "connected"
  OBVIOUS
<1>1. CASE LinkDown \/ Destruct
  BY <1>1, AllFinished
<1>2. CASE EmitTime
  BY <1>2, RequestNumbered
<1>3. ASSUME NEW t \in Tids, ResponseTimeout(t) PROVE link' = "connected"
  BY <1>3 DEF ResponseTimeout, Resend, IsAwaited
<1>4. CASE ReadReady
  <2>1. NextAnswer.tid \in Tids
    BY <1>4, AnswerTaken
  <2> QED BY <1>4, <2>1 DEF ReadReady, HasRegisters, IsAwaited
<1>5. CASE Connected \/ PlcAnswer \/ PlcIgnore \/ PlcChange \/ UNCHANGED vars
  BY <1>5 DEF Connected, PlcAnswer, PlcIgnore, PlcChange, vars
<1> QED
  BY <1>1, <1>2, <1>3, <1>4, <1>5 DEF Next, Horizon

\* A request leaves the pending state only by being applied, which resets
\* heldAt and faulty, or by failing, which sets faulty.
LEMMA FreshStep == TypeOK /\ FreshInv /\ [Next]_vars => FreshInv'
<1> USE DEF FreshInv, TypeOK, Pending
<1> SUFFICES ASSUME TypeOK, FreshInv, [Next]_vars PROVE FreshInv'
  OBVIOUS
<1>1. CASE LinkDown \/ Destruct
  BY <1>1, AllFinished
<1>2. CASE EmitTime
  <2>1. heldAt' <= ticks'
    BY <1>2, RequestNumbered
  <2>2. ASSUME ~faulty', NEW u \in Tids, heldAt' < u, u <= ticks'
        PROVE  status'[u] = "pending"
    <3>1. u \in Int /\ ticks \in Nat /\ ticks' = ticks + 1 /\ heldAt' = heldAt
      BY <1>2, RequestNumbered DEF Tids
    <3>2. CASE u = ticks + 1
      BY <1>2, <2>2, <3>2, RequestNumbered
    <3>3. CASE u # ticks + 1
      <4>1. status'[u] = status[u] /\ ~faulty
        BY <1>2, <2>2, <3>3, RequestNumbered
      <4>2. u <= ticks
        BY <2>2, <3>1, <3>3
      <4> HIDE DEF TypeOK
      <4> QED BY <2>2, <3>1, <4>1, <4>2
    <3> QED BY <3>2, <3>3
  <2> QED BY <2>1, <2>2
<1>3. ASSUME NEW t \in Tids, ResponseTimeout(t) PROVE FreshInv'
  BY <1>3 DEF ResponseTimeout, Resend, IsAwaited, signals
<1>4. CASE ReadReady
  <2>1. NextAnswer.tid \in Tids
    BY <1>4, AnswerTaken
  <2>2. CASE IsAwaited(NextAnswer.tid) /\ NextAnswer.ver # ModbusException
    <3>1. heldAt' = ticks /\ ticks' = ticks /\ ticks \in Int
      BY <1>4, <2>2 DEF ReadReady, HasRegisters
    <3>2. \A t \in Tids : t \in Int
      BY PollerAssumption DEF Tids, PollerAssumption
    <3> HIDE DEF TypeOK, Pending
    <3> QED BY <3>1, <3>2
  <2>3. CASE IsAwaited(NextAnswer.tid) /\ NextAnswer.ver = ModbusException
    BY <1>4, <2>3 DEF ReadReady, HasRegisters, signals
  <2>4. CASE ~IsAwaited(NextAnswer.tid)
    BY <1>4, <2>4 DEF ReadReady, HasRegisters, signals
  <2> QED BY <2>2, <2>3, <2>4
<1>5. CASE Connected \/ PlcAnswer \/ PlcIgnore \/ PlcChange \/ UNCHANGED vars
  BY <1>5 DEF Connected, PlcAnswer, PlcIgnore, PlcChange, vars, signals
<1> QED
  BY <1>1, <1>2, <1>3, <1>4, <1>5 DEF Next, Horizon

\* Arithmetic of Spent: nothing at first, TicksPerTimeout more with each retry,
\* and never more than all retries together.
LEMMA SpentFacts ==
    /\ Spent(MaxRetries) = 0
    /\ \A n \in 0 .. MaxRetries :
          /\ Spent(n) \in Int
          /\ Spent(n - 1) = Spent(n) + TicksPerTimeout
          /\ Spent(n) + TicksPerTimeout <= Lifetime
    /\ Lifetime \in Nat
<1> USE PollerAssumption DEF PollerAssumption, Spent, Lifetime
<1>1. ASSUME NEW n \in 0 .. MaxRetries
      PROVE  Spent(n) + TicksPerTimeout <= Lifetime
  <2>1. n * TicksPerTimeout \in Nat
    OBVIOUS
  <2>2. Lifetime - (Spent(n) + TicksPerTimeout) = n * TicksPerTimeout
    OBVIOUS
  <2>3. Lifetime \in Int /\ Spent(n) \in Int
    OBVIOUS
  <2> HIDE DEF Spent, Lifetime
  <2> QED BY <2>1, <2>2, <2>3
<1>2. ASSUME NEW n \in 0 .. MaxRetries
      PROVE  Spent(n) \in Int /\ Spent(n - 1) = Spent(n) + TicksPerTimeout
  OBVIOUS
<1>3. Spent(MaxRetries) = 0 /\ Lifetime \in Nat
  OBVIOUS
<1> QED BY <1>1, <1>2, <1>3

\* EmitTime ages every outstanding request by one call; a retry accounts for
\* the TicksPerTimeout calls whose count it resets.
LEMMA TimerStep ==
    TypeOK /\ NumberInv /\ TimerInv /\ [Next]_vars => TimerInv'
<1> SUFFICES ASSUME TypeOK, NumberInv, TimerInv, [Next]_vars,
                    NEW u \in Tids, status'[u] = "pending"
             PROVE  ticks' - u <= Spent(left'[u]) + age'[u]
  BY DEF TimerInv, Pending, Spent
<1> DEFINE Goal == ticks' - u <= Spent(left'[u]) + age'[u]
<1>a. /\ ticks \in Int /\ u \in Int /\ TicksPerTimeout \in Nat
      /\ left[u] \in 0 .. MaxRetries /\ Spent(left[u]) \in Int
      /\ age[u] \in Nat /\ age[u] <= TicksPerTimeout
  <2>1. ticks \in Int /\ u \in Int /\ TicksPerTimeout \in Nat
    BY PollerAssumption DEF TypeOK, PollerAssumption, Tids
  <2>2. left[u] \in 0 .. MaxRetries /\ age[u] \in 0 .. TicksPerTimeout
    BY DEF TypeOK
  <2> QED BY <2>1, <2>2, SpentFacts
<1>b. status[u] = "pending" => ticks - u <= Spent(left[u]) + age[u]
  BY DEF TimerInv, Pending
<1>c. CASE /\ status[u] = "pending"
           /\ ticks' = ticks /\ left'[u] = left[u] /\ age'[u] = age[u]
  BY <1>b, <1>c
<1>1. CASE LinkDown \/ Destruct
  BY <1>1, AllFinished DEF Pending
<1>2. CASE EmitTime
  <2>1. CASE u = ticks + 1
    <3>1. status[u] = "none"
      BY <1>a, <2>1 DEF NumberInv
    <3>2. left'[u] = MaxRetries /\ ticks' = u
      BY <1>2, <2>1, RequestNumbered
    <3>3. age'[u] = age[u]
      BY <1>2, <3>1 DEF EmitTime, Pending
    <3> QED BY <1>a, <3>2, <3>3, SpentFacts
  <2>2. CASE u # ticks + 1
    <3>1. status[u] = "pending" /\ left'[u] = left[u] /\ ticks' = ticks + 1
      BY <1>2, <2>2, RequestNumbered
    <3>2. age'[u] = age[u] + 1
      BY <1>2, <3>1 DEF EmitTime, Pending
    <3> QED BY <1>a, <1>b, <3>1, <3>2
  <2> QED BY <2>1, <2>2
<1>3. ASSUME NEW t \in Tids, ResponseTimeout(t) PROVE Goal
  <2>1. CASE u = t
    <3>1. status[t] = "pending" /\ Resend(t)
      BY <1>3, <2>1 DEF ResponseTimeout, IsAwaited, TypeOK
    <3>2. left'[t] = left[t] - 1 /\ age'[t] = 0 /\ ticks' = ticks
      BY <1>3, <3>1 DEF ResponseTimeout, Resend, TypeOK
    <3>3. Spent(left'[u]) = Spent(left[u]) + TicksPerTimeout
      BY <1>a, <2>1, <3>2, SpentFacts
    <3> QED BY <1>a, <1>b, <2>1, <3>1, <3>2, <3>3
  <2>2. CASE u # t
    <3>1. /\ status[u] = "pending"
          /\ ticks' = ticks /\ left'[u] = left[u] /\ age'[u] = age[u]
      BY <1>3, <2>2 DEF ResponseTimeout, Resend, TypeOK
    <3> QED BY <1>c, <3>1
  <2> QED BY <2>1, <2>2
<1>4. CASE ReadReady
  <2>1. NextAnswer.tid \in Tids
    BY <1>4, AnswerTaken
  <2>2. status[u] = "pending" /\ ticks' = ticks
    BY <1>4, <2>1 DEF ReadReady, HasRegisters, IsAwaited, TypeOK, Ended
  <2>3. u # NextAnswer.tid
    BY <1>4, <2>1, <2>2 DEF ReadReady, HasRegisters, IsAwaited, TypeOK
  <2>4. left'[u] = left[u] /\ age'[u] = age[u]
    BY <1>4, <2>3 DEF ReadReady, HasRegisters, NoTimer
  <2> QED BY <1>c, <2>2, <2>4
<1>5. CASE Connected \/ PlcAnswer \/ PlcIgnore \/ PlcChange \/ UNCHANGED vars
  BY <1>5, <1>c DEF Connected, PlcAnswer, PlcIgnore, PlcChange, vars, timers
<1> QED
  BY <1>1, <1>2, <1>3, <1>4, <1>5 DEF Next, Horizon

\* Answers are put at the end with the newest state and taken from the front.
LEMMA OrderStep == TypeOK /\ OrderInv /\ [Next]_vars => OrderInv'
<1> SUFFICES ASSUME TypeOK, OrderInv, [Next]_vars PROVE OrderInv'
  OBVIOUS
<1>a. /\ plc \in Nat \ {0} /\ sig \in Nat /\ Len(fromPlc) \in Nat
      /\ \A i \in 1 .. Len(fromPlc) : fromPlc[i].ver \in Nat
  <2>1. fromPlc \in Seq([tid : Tids, ver : 0 .. MaxPlc])
    BY DEF TypeOK
  <2>2. \A i \in 1 .. Len(fromPlc) : fromPlc[i] \in [tid : Tids, ver : 0 .. MaxPlc]
    BY <2>1, ElementOfSeq
  <2>3. plc \in Nat \ {0} /\ sig \in Nat
    BY PollerAssumption DEF TypeOK, PollerAssumption
  <2>4. \A i \in 1 .. Len(fromPlc) : fromPlc[i].ver \in Nat
    BY <2>2
  <2>5. Len(fromPlc) \in Nat
    BY <2>1, LenProperties
  <2> QED BY <2>3, <2>4, <2>5
<1>b. CASE UNCHANGED <<fromPlc, plc, sig>>
  BY <1>b DEF OrderInv
<1>1. CASE LinkDown \/ Destruct
  <2>1. fromPlc' = <<>> /\ UNCHANGED <<plc, sig>>
    BY <1>1, AllFinished
  <2> QED BY <1>a, <2>1 DEF OrderInv
<1>2. CASE EmitTime
  BY <1>2, <1>b DEF EmitTime, signals
<1>3. ASSUME NEW t \in Tids, ResponseTimeout(t) PROVE OrderInv'
  BY <1>3, <1>b DEF ResponseTimeout, signals
<1>4. CASE ReadReady
  <2>1. /\ NextAnswer = fromPlc[1] /\ Len(fromPlc) # 0
        /\ Len(fromPlc') = Len(fromPlc) - 1
        /\ \A i \in 1 .. Len(fromPlc') : fromPlc'[i] = fromPlc[i + 1]
    BY <1>4, AnswerTaken
  <2>2. plc' = plc
    BY <1>4 DEF ReadReady, HasRegisters
  <2>3. sig' = sig \/ (sig' = fromPlc[1].ver /\ fromPlc[1].ver # ModbusException)
    <3>1. CASE IsAwaited(NextAnswer.tid) /\ NextAnswer.ver # ModbusException
      BY <1>4, <2>1, <3>1 DEF ReadReady, HasRegisters
    <3>2. CASE IsAwaited(NextAnswer.tid) /\ NextAnswer.ver = ModbusException
      <4>1. UNCHANGED signals
        BY <1>4, <3>2 DEF ReadReady, HasRegisters
      <4> QED BY <4>1 DEF signals
    <3>3. CASE ~IsAwaited(NextAnswer.tid)
      <4>1. UNCHANGED signals
        BY <1>4, <3>3 DEF ReadReady, HasRegisters
      <4> QED BY <4>1 DEF signals
    <3> QED BY <3>1, <3>2, <3>3
  <2>4. sig' <= plc
    BY <1>a, <2>1, <2>3 DEF OrderInv
  <2>5. \A i \in 1 .. Len(fromPlc') :
           fromPlc'[i].ver # ModbusException => sig' <= fromPlc'[i].ver
    BY <1>a, <2>1, <2>3 DEF OrderInv
  <2>6. \A i \in 1 .. Len(fromPlc') :
           i + 1 \in 1 .. Len(fromPlc) /\ fromPlc'[i].ver = fromPlc[i + 1].ver
    BY <1>a, <2>1
  <2>7. ASSUME NEW i \in 1 .. Len(fromPlc'), NEW j \in 1 .. Len(fromPlc'), i < j,
               fromPlc'[i].ver # ModbusException, fromPlc'[j].ver # ModbusException
        PROVE  fromPlc'[i].ver <= fromPlc'[j].ver
    <3>1. i + 1 < j + 1
      BY <2>7
    <3> QED BY <2>6, <2>7, <3>1 DEF OrderInv
  <2>8. \A i \in 1 .. Len(fromPlc') : fromPlc'[i].ver <= plc
    BY <2>6 DEF OrderInv
  <2> QED BY <2>2, <2>4, <2>5, <2>7, <2>8 DEF OrderInv
<1>5. CASE PlcAnswer
  <2>1. Head(toPlc) \in Tids
    BY <1>5, HeadTailProperties DEF PlcAnswer, TypeOK
  <2>2. PICK v \in {plc, ModbusException} :
            fromPlc' = Append(fromPlc, [tid |-> Head(toPlc), ver |-> v])
    BY <1>5 DEF PlcAnswer
  <2> DEFINE m == [tid |-> Head(toPlc), ver |-> v]
  <2>3. m \in [tid : Tids, ver : 0 .. MaxPlc]
    <3>1. v \in 0 .. MaxPlc
      BY <2>2, PollerAssumption DEF TypeOK, ModbusException, PollerAssumption
    <3> QED BY <2>1, <3>1
  <2>4. /\ Len(fromPlc') = Len(fromPlc) + 1
        /\ \A i \in 1 .. Len(fromPlc) : fromPlc'[i] = fromPlc[i]
        /\ fromPlc'[Len(fromPlc) + 1] = m
    BY <2>2, <2>3, AppendProperties DEF TypeOK
  <2>5. /\ plc' = plc /\ sig' = sig
        /\ m.ver = plc \/ m.ver = ModbusException
    BY <1>5, <2>2 DEF PlcAnswer, signals
  <2>6. ModbusException = 0
    BY DEF ModbusException
  <2> HIDE DEF m
  <2>7. \A i \in 1 .. Len(fromPlc') : i \in 1 .. Len(fromPlc) \/ i = Len(fromPlc) + 1
    BY <1>a, <2>4
  <2>8. \A i \in 1 .. Len(fromPlc') :
           /\ fromPlc'[i].ver <= plc
           /\ fromPlc'[i].ver # ModbusException => sig <= fromPlc'[i].ver
    BY <1>a, <2>4, <2>5, <2>6, <2>7 DEF OrderInv
  <2>9. ASSUME NEW i \in 1 .. Len(fromPlc'), NEW j \in 1 .. Len(fromPlc'), i < j,
               fromPlc'[i].ver # ModbusException, fromPlc'[j].ver # ModbusException
        PROVE  fromPlc'[i].ver <= fromPlc'[j].ver
    <3>1. i \in 1 .. Len(fromPlc)
      BY <1>a, <2>4, <2>9
    <3>2. CASE j \in 1 .. Len(fromPlc)
      BY <2>4, <2>9, <3>1, <3>2 DEF OrderInv
    <3>3. CASE j = Len(fromPlc) + 1
      BY <2>4, <2>5, <2>9, <3>1, <3>3 DEF OrderInv
    <3> QED BY <2>7, <3>2, <3>3
  <2> QED BY <2>5, <2>8, <2>9 DEF OrderInv
<1>6. CASE PlcChange
  BY <1>6, <1>a DEF PlcChange, wires, signals, OrderInv
<1>7. CASE Connected \/ PlcIgnore \/ UNCHANGED vars
  BY <1>7, <1>b DEF Connected, PlcIgnore, vars, wires, signals
<1> QED
  BY <1>1, <1>2, <1>3, <1>4, <1>5, <1>6, <1>7 DEF Next, Horizon

-----------------------------------------------------------------------------
(* The inductive invariant and what follows from it. *)

\* The initial state satisfies every part of the inductive invariant.
LEMMA IndInit == Init => IndInv
<1> SUFFICES ASSUME Init PROVE IndInv
  OBVIOUS
<1>1. TypeOK
  BY TypeInit
<1>2. /\ ticks = 0 /\ heldAt = 0 /\ sig = 0 /\ plc = 1 /\ faulty = TRUE
      /\ Len(fromPlc) = 0 /\ Pending = {}
      /\ \A t \in Tids : status[t] = "none"
  BY DEF Init, Pending
<1> QED
  BY <1>1, <1>2 DEF IndInv, NumberInv, TimerInv, FreshInv, LinkInv, OrderInv

\* Every reachable state satisfies the inductive invariant.
THEOREM Invariance == Spec => []IndInv
<1>1. Init => IndInv
  BY IndInit
<1>2. IndInv /\ [Next]_vars => IndInv'
  BY TypeStep, NumberStep, TimerStep, FreshStep, LinkStep, OrderStep DEF IndInv
<1> QED BY <1>1, <1>2, PTL DEF Spec

\* Every outstanding request was sent within the last Lifetime + 1 calls.
LEMMA PendingIsYoung ==
    ASSUME IndInv
    PROVE  \A t \in Pending : t \in (ticks - Lifetime) .. ticks
<1> SUFFICES ASSUME NEW t \in Pending PROVE t \in (ticks - Lifetime) .. ticks
  OBVIOUS
<1>1. /\ t \in Tids /\ t \in Int /\ ticks \in Int
      /\ status[t] = "pending"
      /\ left[t] \in 0 .. MaxRetries
      /\ age[t] \in Int /\ age[t] <= TicksPerTimeout /\ TicksPerTimeout \in Int
  BY PollerAssumption DEF IndInv, TypeOK, Pending, Tids, PollerAssumption
<1>2. ticks - t <= Spent(left[t]) + age[t]
  BY DEF IndInv, TimerInv
<1>3. Spent(left[t]) \in Int /\ Spent(left[t]) + TicksPerTimeout <= Lifetime /\ Lifetime \in Int
  BY <1>1, SpentFacts
<1>4. t <= ticks
  BY <1>1 DEF IndInv, NumberInv
<1> QED BY <1>1, <1>2, <1>3, <1>4

\* For every retry limit and timeout, at most one request per EmitTime call of
\* a request's lifetime is outstanding.
THEOREM OutstandingIsBounded == Spec => []OutstandingBounded
<1>1. IndInv => OutstandingBounded
  <2> SUFFICES ASSUME IndInv PROVE Cardinality(Pending) <= Lifetime + 1
    BY DEF OutstandingBounded
  <2> DEFINE W == (ticks - Lifetime) .. ticks
  <2>1. ticks \in Int /\ ticks - Lifetime \in Int /\ Lifetime \in Nat
    BY SpentFacts DEF IndInv, TypeOK
  <2>2. IsFiniteSet(W) /\ Cardinality(W) = Lifetime + 1
    <3>1. ~(ticks - Lifetime > ticks) /\ ticks - (ticks - Lifetime) + 1 = Lifetime + 1
      BY <2>1
    <3> QED BY <2>1, <3>1, FS_Interval
  <2>3. Pending \in SUBSET W
    BY PendingIsYoung
  <2> HIDE DEF W
  <2> QED BY <2>2, <2>3, FS_Subset
<1> QED BY <1>1, Invariance, PTL

\* For every retry limit and timeout, values older than a request's lifetime
\* imply an error the code has seen.
THEOREM StalenessHasAnError == Spec => []StaleHasAnError
<1>1. IndInv => StaleHasAnError
  <2> SUFFICES ASSUME IndInv, ticks - heldAt > Lifetime + 1, ~faulty
               PROVE  FALSE
    BY DEF StaleHasAnError
  <2>1. ticks \in 0 .. MaxTick /\ heldAt \in 0 .. MaxTick /\ Lifetime \in Nat /\ MaxTick \in Nat
    BY SpentFacts, PollerAssumption DEF IndInv, TypeOK, PollerAssumption
  <2>2. heldAt + 1 \in Tids /\ heldAt < heldAt + 1 /\ heldAt + 1 <= ticks
    BY <2>1 DEF Tids
  <2>3. heldAt + 1 \in Pending
    BY <2>2 DEF IndInv, FreshInv
  <2>4. heldAt + 1 \in (ticks - Lifetime) .. ticks
    BY <2>3, PendingIsYoung
  <2> QED BY <2>1, <2>4
<1> QED BY <1>1, Invariance, PTL

\* No step of any actor changes the outcome of a request that has ended.
THEOREM OutcomesAreFinal == Spec => OutcomeIsFinal
<1>1. IndInv /\ [Next]_vars =>
        [\A t \in Tids : status[t] \in Ended => status'[t] = status[t]]_vars
  <2> SUFFICES ASSUME IndInv, Next, NEW u \in Tids, status[u] \in Ended
               PROVE  status'[u] = status[u]
    OBVIOUS
  <2>a. TypeOK /\ NumberInv /\ status[u] \notin {"none", "pending"}
    BY DEF IndInv, Ended
  <2>1. CASE LinkDown \/ Destruct
    BY <2>1, <2>a, AllFinished DEF Pending
  <2>2. CASE EmitTime
    <3>1. u # ticks + 1
      BY <2>2, <2>a, RequestNumbered DEF NumberInv
    <3> QED BY <2>2, <2>a, <3>1, RequestNumbered
  <2>3. ASSUME NEW t \in Tids, ResponseTimeout(t) PROVE status'[u] = status[u]
    BY <2>3, <2>a DEF ResponseTimeout, Resend, IsAwaited, TypeOK
  <2>4. CASE ReadReady
    <3>1. NextAnswer.tid \in Tids
      BY <2>4, <2>a, AnswerTaken
    <3> QED BY <2>4, <2>a, <3>1 DEF ReadReady, HasRegisters, IsAwaited, TypeOK
  <2>5. CASE Connected \/ PlcAnswer \/ PlcIgnore \/ PlcChange \/ Horizon
    BY <2>5 DEF Connected, PlcAnswer, PlcIgnore, PlcChange, Horizon, vars
  <2> QED BY <2>1, <2>2, <2>3, <2>4, <2>5 DEF Next
<1> QED BY <1>1, Invariance, PTL DEF Spec, OutcomeIsFinal

\* After the link is lost, no step changes the signals or the link.
THEOREM LinkLossFreezes == Spec => LinkLossIsFinal
<1>1. IndInv /\ [Next]_vars =>
        [LinkLost => LinkLost' /\ UNCHANGED signals]_vars
  <2> USE DEF LinkLost
  <2> SUFFICES ASSUME IndInv, Next, LinkLost
               PROVE  LinkLost' /\ UNCHANGED signals
    OBVIOUS
  <2>a. TypeOK /\ Pending = {}
    BY DEF IndInv, LinkInv
  <2>1. CASE ReadReady
    <3>1. NextAnswer.tid \in Tids
      BY <2>1, <2>a, AnswerTaken
    <3>2. ~IsAwaited(NextAnswer.tid)
      BY <2>a, <3>1 DEF Pending, IsAwaited
    <3> QED BY <2>1, <3>2 DEF ReadReady, HasRegisters
  <2>2. CASE Connected \/ LinkDown \/ Destruct
    BY <2>2, AllFinished DEF Connected, signals
  <2>3. CASE EmitTime \/ \E t \in Tids : ResponseTimeout(t)
    BY <2>3 DEF EmitTime, ResponseTimeout
  <2>4. CASE PlcAnswer \/ PlcIgnore \/ PlcChange \/ Horizon
    BY <2>4 DEF PlcAnswer, PlcIgnore, PlcChange, Horizon, vars, signals
  <2> QED BY <2>1, <2>2, <2>3, <2>4 DEF Next
<1> QED BY <1>1, Invariance, PTL DEF Spec, LinkLossIsFinal

\* Poller implements SignalCache: what is decoded never goes back and never runs
\* ahead of the controller, the analogs keep the first reply, and a placement
\* offers that reply's analogs and the latest one's other signals.
THEOREM Refinement == Spec => ImplementsSignalCache
<1>1. Init => Cache!Init
  BY DEF Init, Cache!Init
<1>2. IndInv /\ [Next]_vars => [Cache!Next]_(Cache!cacheVars)
  <2> SUFFICES ASSUME IndInv, Next
               PROVE  Cache!Next \/ UNCHANGED <<plc, first, sig, shown>>
    BY DEF vars, Cache!cacheVars
  <2>a. TypeOK /\ OrderInv
    BY DEF IndInv
  <2>1. CASE ReadReady
    <3>1. CASE IsAwaited(NextAnswer.tid) /\ HasRegisters(NextAnswer)
      <4>1. /\ sig' = fromPlc[1].ver /\ fromPlc[1].ver # ModbusException
            /\ first' = Analogs(fromPlc[1].ver)
            /\ UNCHANGED <<plc, shown>>
        BY <2>1, <2>a, <3>1, AnswerTaken DEF ReadReady, HasRegisters
      <4>2. 1 \in 1 .. Len(fromPlc) /\ fromPlc[1].ver \in Nat
        BY <2>1, <2>a, AnswerTaken
      <4>3. sig <= fromPlc[1].ver /\ fromPlc[1].ver <= plc
        BY <2>a, <4>1, <4>2 DEF OrderInv
      <4>4. sig' \in sig .. plc /\ sig' # 0
        BY <2>a, <4>1, <4>2, <4>3 DEF TypeOK, ModbusException
      <4> QED BY <4>1, <4>4 DEF Cache!Next, Cache!Refresh, Analogs
    <3>2. CASE ~(IsAwaited(NextAnswer.tid) /\ HasRegisters(NextAnswer))
      BY <2>1, <3>2 DEF ReadReady, signals
    <3> QED BY <3>1, <3>2
  <2>2. CASE EmitTime
    BY <2>2 DEF EmitTime, signals, Cache!Next, Cache!Offer
  <2>3. CASE PlcChange
    BY <2>3 DEF PlcChange, signals, Cache!Next, Cache!Advance
  <2>4. CASE Connected \/ LinkDown \/ Destruct \/ \E t \in Tids : ResponseTimeout(t)
    BY <2>4, AllFinished DEF Connected, ResponseTimeout, signals
  <2>5. CASE PlcAnswer \/ PlcIgnore \/ Horizon
    BY <2>5 DEF PlcAnswer, PlcIgnore, Horizon, vars, signals
  <2> QED BY <2>1, <2>2, <2>3, <2>4, <2>5 DEF Next
<1> QED BY <1>1, <1>2, Invariance, PTL DEF Spec, ImplementsSignalCache, Cache!Spec
=============================================================================
