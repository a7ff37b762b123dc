-------------------------- MODULE FreshnessProofs --------------------------
(***************************************************************************)
(* How recent the decoded registers are, for every number of retries and   *)
(* every timeout.                                                          *)
(*                                                                         *)
(* Freshness only adds a record to Poller, so Poller's inductive invariant *)
(* holds of it; what is added to it here says that time and the            *)
(* controller's state advance together, and that no request or answer      *)
(* under way is from the future.                                           *)
(***************************************************************************)
EXTENDS Freshness, PollerProofs

\* The marks are the controller's states in the order of the EmitTime calls.
MarkInv ==
    /\ plcAt \in [Tids -> Nat]
    /\ \A t \in Tids : plcAt[t] <= plc
    /\ \A t, u \in Tids : t <= u /\ u <= ticks => plcAt[t] <= plcAt[u]

\* Requests under way were sent, and an answer is not older than its request.
WireInv ==
    /\ \A i \in 1 .. Len(toPlc) : toPlc[i] <= ticks
    /\ \A i \in 1 .. Len(fromPlc) :
          /\ fromPlc[i].tid <= ticks
          /\ fromPlc[i].ver # ModbusException => plcAt[fromPlc[i].tid] <= fromPlc[i].ver

\* The inductive invariant.
FreshnessInv == IndInv /\ MarkInv /\ WireInv /\ DecodedIsRecent
-----------------------------------------------------------------------------
\* The types that the steps below need.
LEMMA WireTypes ==
    ASSUME TypeOK
    PROVE  /\ \A t \in Tids : t \in Nat
           /\ ticks \in Nat /\ plc \in Nat /\ sig \in Nat /\ heldAt \in Nat
           /\ Len(toPlc) \in Nat /\ Len(fromPlc) \in Nat
           /\ \A i \in 1 .. Len(toPlc) : toPlc[i] \in Tids
           /\ \A i \in 1 .. Len(fromPlc) :
                 fromPlc[i].tid \in Tids /\ fromPlc[i].ver \in Nat
<1>1. toPlc \in Seq(Tids) /\ fromPlc \in Seq([tid : Tids, ver : 0 .. MaxPlc])
  BY DEF TypeOK
<1>2. /\ Len(toPlc) \in Nat /\ Len(fromPlc) \in Nat
      /\ \A i \in 1 .. Len(toPlc) : toPlc[i] \in Tids
      /\ \A i \in 1 .. Len(fromPlc) : fromPlc[i] \in [tid : Tids, ver : 0 .. MaxPlc]
  BY <1>1, ElementOfSeq, LenProperties
<1>3. /\ \A t \in Tids : t \in Nat
      /\ ticks \in Nat /\ plc \in Nat /\ sig \in Nat /\ heldAt \in Nat
  BY PollerAssumption DEF TypeOK, Tids, PollerAssumption
<1> QED BY <1>2, <1>3, PollerAssumption DEF PollerAssumption

\* Only EmitTime moves ticks, and only it leaves a mark.
LEMMA MarkFacts ==
    ASSUME TypeOK, MarkInv, FreshNext
    PROVE  \/ EmitTime /\ plcAt' = [plcAt EXCEPT ![ticks + 1] = plc]
           \/ ~EmitTime /\ ticks' = ticks /\ plcAt' = plcAt
<1>1. CASE EmitTime
  <2>1. ticks' = ticks + 1 /\ ticks' # ticks
    BY <1>1, RequestNumbered
  <2> QED BY <1>1, <2>1 DEF FreshNext
<1>2. CASE ~EmitTime
  <2>1. ticks' = ticks
    BY <1>2, AllFinished DEF FreshNext, Next, Connected, ResponseTimeout, ReadReady,
       PlcAnswer, PlcIgnore, PlcChange, Horizon, vars
  <2> QED BY <1>2, <2>1 DEF FreshNext
<1> QED BY <1>1, <1>2

\* A new mark is the controller's newest state.
LEMMA MarkStep ==
    TypeOK /\ MarkInv /\ [FreshNext]_<<vars, plcAt>> => MarkInv'
<1> SUFFICES ASSUME TypeOK, MarkInv, [FreshNext]_<<vars, plcAt>> PROVE MarkInv'
  OBVIOUS
<1> USE DEF MarkInv
<1>a. Tids' = Tids /\ ticks \in Nat /\ plc \in Nat /\ \A t \in Tids : t \in Nat
  BY WireTypes DEF Tids
<1>1. CASE FreshNext /\ EmitTime
  <2>1. /\ plcAt' = [plcAt EXCEPT ![ticks + 1] = plc]
        /\ ticks' = ticks + 1 /\ plc' = plc /\ ticks + 1 \in Tids
    BY <1>1, MarkFacts, RequestNumbered
  <2> HIDE DEF MarkInv
  <2>2. plcAt' \in [Tids -> Nat] /\ \A t \in Tids : plcAt'[t] <= plc
    BY <1>a, <2>1 DEF MarkInv
  <2>3. ASSUME NEW t \in Tids, NEW u \in Tids, t <= u, u <= ticks + 1
        PROVE  plcAt'[t] <= plcAt'[u]
    <3>1. CASE u = ticks + 1
      <4>1. plcAt'[u] = plc
        BY <2>1, <3>1 DEF MarkInv
      <4> QED BY <2>2, <4>1
    <3>2. CASE u # ticks + 1
      <4>1. u <= ticks /\ t # ticks + 1
        BY <1>a, <2>3, <3>2
      <4>2. plcAt'[t] = plcAt[t] /\ plcAt'[u] = plcAt[u]
        BY <2>1, <3>2, <4>1 DEF MarkInv
      <4> QED BY <2>3, <4>1, <4>2 DEF MarkInv
    <3> QED BY <3>1, <3>2
  <2> QED BY <1>a, <2>1, <2>2, <2>3 DEF MarkInv
<1>2. CASE FreshNext /\ ~EmitTime
  <2>1. ticks' = ticks /\ plcAt' = plcAt
    BY <1>2, MarkFacts
  <2>2. plc' = plc \/ plc' = plc + 1
    BY <1>2, AllFinished DEF FreshNext, Next, Connected, ResponseTimeout, ReadReady,
       PlcAnswer, PlcIgnore, PlcChange, Horizon, vars
  <2> QED BY <1>a, <2>1, <2>2
<1>3. CASE UNCHANGED <<vars, plcAt>>
  BY <1>a, <1>3 DEF vars
<1> QED BY <1>1, <1>2, <1>3

\* Requests are queued when they are sent or repeated, and an answer takes the
\* registers of the moment.
LEMMA WireStep ==
    IndInv /\ MarkInv /\ WireInv /\ [FreshNext]_<<vars, plcAt>> => WireInv'
<1> SUFFICES ASSUME IndInv, MarkInv, WireInv, [FreshNext]_<<vars, plcAt>>
             PROVE  WireInv'
  OBVIOUS
<1> USE DEF WireInv
<1>a. TypeOK /\ NumberInv
  BY DEF IndInv
<1>b. CASE UNCHANGED <<ticks, toPlc, fromPlc, plcAt>>
  BY <1>b
<1>1. CASE FreshNext /\ EmitTime
  <2>1. /\ plcAt' = [plcAt EXCEPT ![ticks + 1] = plc]
        /\ ticks' = ticks + 1 /\ fromPlc' = fromPlc /\ ticks + 1 \in Tids
    BY <1>a, <1>1, MarkFacts, RequestNumbered
  <2>2. toPlc' = toPlc \/ toPlc' = Append(toPlc, ticks + 1)
    BY <1>1 DEF EmitTime, PrepareRead
  <2>3. \A i \in 1 .. Len(toPlc') : toPlc'[i] <= ticks + 1
    <3>1. CASE toPlc' = toPlc
      BY <1>a, <3>1, WireTypes
    <3>2. CASE toPlc' = Append(toPlc, ticks + 1)
      <4>1. /\ Len(toPlc') = Len(toPlc) + 1
            /\ \A i \in 1 .. Len(toPlc) : toPlc'[i] = toPlc[i]
            /\ toPlc'[Len(toPlc) + 1] = ticks + 1
        BY <1>a, <2>1, <3>2, AppendProperties DEF TypeOK
      <4>2. /\ ticks \in Nat /\ Len(toPlc) \in Nat
            /\ \A i \in 1 .. Len(toPlc) : toPlc[i] \in Nat /\ toPlc[i] <= ticks
        BY <1>a, WireTypes
      <4>3. \A i \in 1 .. Len(toPlc') : i \in 1 .. Len(toPlc) \/ i = Len(toPlc) + 1
        BY <4>1, <4>2
      <4> HIDE DEF WireInv
      <4> QED BY <4>1, <4>2, <4>3
    <3> QED BY <2>2, <3>1, <3>2
  <2>4. ASSUME NEW i \in 1 .. Len(fromPlc)
        PROVE  /\ fromPlc[i].tid <= ticks + 1
               /\ fromPlc[i].ver # ModbusException => plcAt'[fromPlc[i].tid] <= fromPlc[i].ver
    <3>1. fromPlc[i].tid \in Nat /\ fromPlc[i].tid \in Tids /\ ticks \in Nat
      BY <1>a, WireTypes
    <3>2. fromPlc[i].tid <= ticks /\ fromPlc[i].tid # ticks + 1
      BY <3>1
    <3>3. plcAt'[fromPlc[i].tid] = plcAt[fromPlc[i].tid]
      BY <2>1, <3>1, <3>2 DEF MarkInv
    <3> QED BY <3>1, <3>2, <3>3
  <2> QED BY <2>1, <2>3, <2>4
<1>2. CASE FreshNext /\ ~EmitTime
  <2>1. ticks' = ticks /\ plcAt' = plcAt
    BY <1>a, <1>2, MarkFacts
  <2>2. ASSUME NEW t \in Tids, ResponseTimeout(t) PROVE WireInv'
    <3>1. fromPlc' = fromPlc /\ (toPlc' = toPlc \/ toPlc' = Append(toPlc, t))
      BY <2>2 DEF ResponseTimeout, Resend
    <3>2. t <= ticks
      <4>1. status[t] # "none"
        BY <2>2 DEF ResponseTimeout, IsAwaited
      <4>2. ~(t > ticks) /\ t \in Nat /\ ticks \in Nat
        BY <1>a, <4>1, WireTypes DEF NumberInv
      <4> QED BY <4>2
    <3>3. CASE toPlc' = Append(toPlc, t)
      <4>1. /\ Len(toPlc') = Len(toPlc) + 1
            /\ \A i \in 1 .. Len(toPlc) : toPlc'[i] = toPlc[i]
            /\ toPlc'[Len(toPlc) + 1] = t
        BY <1>a, <3>3, AppendProperties DEF TypeOK
      <4>2. /\ ticks \in Nat /\ Len(toPlc) \in Nat
            /\ \A i \in 1 .. Len(toPlc) : toPlc[i] \in Nat /\ toPlc[i] <= ticks
        BY <1>a, WireTypes
      <4>3. \A i \in 1 .. Len(toPlc') : i \in 1 .. Len(toPlc) \/ i = Len(toPlc) + 1
        BY <4>1, <4>2
      <4>4. \A i \in 1 .. Len(toPlc') : toPlc'[i] <= ticks
        BY <3>2, <4>1, <4>2, <4>3
      <4> QED BY <2>1, <3>1, <4>4
    <3> QED BY <1>b, <2>1, <3>1, <3>3
  <2>3. CASE ReadReady
    <3>1. /\ Len(fromPlc) \in Nat \ {0} /\ Len(fromPlc') = Len(fromPlc) - 1
          /\ \A i \in 1 .. Len(fromPlc') : fromPlc'[i] = fromPlc[i + 1]
          /\ toPlc' = toPlc
      BY <1>a, <2>3, AnswerTaken DEF ReadReady
    <3>2. \A i \in 1 .. Len(fromPlc') : i + 1 \in 1 .. Len(fromPlc)
      BY <3>1
    <3> QED BY <2>1, <3>1, <3>2
  <2>4. CASE PlcAnswer \/ PlcIgnore
    <3>1. /\ toPlc \in Seq(Tids) /\ toPlc # <<>> /\ toPlc' = Tail(toPlc)
      BY <1>a, <2>4 DEF PlcAnswer, PlcIgnore, TypeOK
    <3>2. /\ Len(toPlc) \in Nat \ {0} /\ Len(toPlc') = Len(toPlc) - 1
          /\ \A i \in 1 .. Len(toPlc') : toPlc'[i] = toPlc[i + 1]
      BY <3>1, HeadTailProperties, EmptySeq, LenProperties
    <3>3. \A i \in 1 .. Len(toPlc') : toPlc'[i] <= ticks
      <4>1. \A i \in 1 .. Len(toPlc') : i + 1 \in 1 .. Len(toPlc)
        BY <3>2
      <4> QED BY <3>2, <4>1
    <3>4. CASE PlcIgnore
      BY <2>1, <3>3, <3>4 DEF PlcIgnore
    <3>5. CASE PlcAnswer
      <4>1. PICK v \in {plc, ModbusException} :
                fromPlc' = Append(fromPlc, [tid |-> Head(toPlc), ver |-> v])
        BY <3>5 DEF PlcAnswer
      <4> DEFINE m == [tid |-> Head(toPlc), ver |-> v]
      <4>2. 1 \in 1 .. Len(toPlc)
        BY <3>2
      <4>3. Head(toPlc) \in Tids /\ Head(toPlc) <= ticks
        BY <1>a, <3>1, <4>2, WireTypes, HeadTailProperties
      <4>4. /\ m.tid = Head(toPlc)
            /\ m.ver # ModbusException => plcAt[m.tid] <= m.ver
        BY <4>3 DEF MarkInv
      <4>5. m \in [tid : Tids, ver : 0 .. MaxPlc]
        <5>1. v \in 0 .. MaxPlc
          BY <1>a, PollerAssumption DEF TypeOK, ModbusException, PollerAssumption
        <5> QED BY <4>3, <5>1
      <4>6. /\ Len(fromPlc') = Len(fromPlc) + 1
            /\ \A i \in 1 .. Len(fromPlc) : fromPlc'[i] = fromPlc[i]
            /\ fromPlc'[Len(fromPlc) + 1] = m
        BY <1>a, <4>1, <4>5, AppendProperties DEF TypeOK
      <4> HIDE DEF m
      <4>7. \A i \in 1 .. Len(fromPlc') : i \in 1 .. Len(fromPlc) \/ i = Len(fromPlc) + 1
        BY <1>a, <4>6, WireTypes
      <4>8. \A i \in 1 .. Len(fromPlc') :
               /\ fromPlc'[i].tid <= ticks
               /\ fromPlc'[i].ver # ModbusException => plcAt[fromPlc'[i].tid] <= fromPlc'[i].ver
        BY <4>3, <4>4, <4>6, <4>7
      <4> QED BY <2>1, <3>3, <4>8
    <3> QED BY <2>4, <3>4, <3>5
  <2>5. CASE LinkDown \/ Destruct
    BY <2>1, <2>5, AllFinished
  <2>6. CASE Connected \/ PlcChange \/ Horizon
    BY <1>b, <2>1, <2>6 DEF Connected, PlcChange, Horizon, wires, vars
  <2> QED
    BY <1>2, <2>2, <2>3, <2>4, <2>5, <2>6 DEF FreshNext, Next
<1>3. CASE UNCHANGED <<vars, plcAt>>
  BY <1>b, <1>3 DEF vars
<1> QED BY <1>1, <1>2, <1>3

\* What is decoded answers a request that is at most Lifetime calls old, and is
\* not older than that request.
LEMMA RecentStep ==
    FreshnessInv /\ [FreshNext]_<<vars, plcAt>> => DecodedIsRecent'
<1> SUFFICES ASSUME FreshnessInv, [FreshNext]_<<vars, plcAt>>,
                    NEW t \in Tids, t + Lifetime <= heldAt'
             PROVE  sig' >= plcAt'[t]
  BY DEF DecodedIsRecent, Tids, Lifetime
<1>a. /\ IndInv /\ TypeOK /\ FreshInv /\ MarkInv /\ WireInv /\ DecodedIsRecent
      /\ Lifetime \in Nat /\ t \in Nat /\ ticks \in Nat /\ heldAt \in Nat
      /\ sig \in Nat /\ plcAt[t] \in Nat
  BY WireTypes, SpentFacts DEF FreshnessInv, IndInv, MarkInv
<1>b. CASE UNCHANGED <<sig, heldAt, plcAt>>
  BY <1>a, <1>b DEF DecodedIsRecent
<1>1. CASE FreshNext /\ EmitTime
  <2>1. /\ plcAt' = [plcAt EXCEPT ![ticks + 1] = plc] /\ UNCHANGED <<sig, heldAt>>
    BY <1>a, <1>1, MarkFacts, RequestNumbered
  <2>2. t # ticks + 1
    BY <1>a, <2>1 DEF FreshInv
  <2>3. plcAt'[t] = plcAt[t]
    BY <1>a, <2>1, <2>2 DEF MarkInv
  <2> QED BY <1>a, <2>1, <2>3 DEF DecodedIsRecent
<1>2. CASE FreshNext /\ ReadReady
  <2>1. plcAt' = plcAt
    BY <1>a, <1>2, MarkFacts DEF ReadReady, EmitTime
  <2>2. CASE IsAwaited(NextAnswer.tid) /\ NextAnswer.ver # ModbusException
    <3>1. /\ NextAnswer = fromPlc[1] /\ NextAnswer.tid \in Tids
          /\ 1 \in 1 .. Len(fromPlc)
      BY <1>a, <1>2, AnswerTaken
    <3>2. sig' = NextAnswer.ver /\ heldAt' = ticks
      BY <1>2, <2>2 DEF ReadReady, HasRegisters
    <3>3. NextAnswer.tid \in (ticks - Lifetime) .. ticks
      BY <1>a, <2>2, <3>1, PendingIsYoung DEF Pending, IsAwaited
    <3>4. plcAt[NextAnswer.tid] <= NextAnswer.ver
      BY <1>a, <2>2, <3>1 DEF WireInv
    <3>5. t <= NextAnswer.tid /\ NextAnswer.tid <= ticks
      BY <1>a, <3>2, <3>3
    <3>6. plcAt[t] <= plcAt[NextAnswer.tid] /\ plcAt[NextAnswer.tid] \in Nat
      BY <1>a, <3>1, <3>5 DEF MarkInv
    <3>7. NextAnswer.ver \in Nat
      BY <1>a, <3>1, WireTypes
    <3> QED BY <1>a, <2>1, <3>2, <3>4, <3>6, <3>7
  <2>3. CASE ~(IsAwaited(NextAnswer.tid) /\ NextAnswer.ver # ModbusException)
    <3>1. UNCHANGED <<sig, heldAt>>
      BY <1>2, <2>3 DEF ReadReady, HasRegisters, signals
    <3> QED BY <1>b, <2>1, <3>1
  <2> QED BY <2>2, <2>3
<1>3. CASE FreshNext /\ ~EmitTime /\ ~ReadReady
  <2>1. plcAt' = plcAt
    BY <1>a, <1>3, MarkFacts
  <2>2. UNCHANGED <<sig, heldAt>>
    BY <1>3, AllFinished DEF FreshNext, Next, Connected, ResponseTimeout,
       PlcAnswer, PlcIgnore, PlcChange, Horizon, vars, signals
  <2> QED BY <1>b, <2>1, <2>2
<1>4. CASE UNCHANGED <<vars, plcAt>>
  BY <1>b, <1>4 DEF vars
<1> QED BY <1>1, <1>2, <1>3, <1>4

\* For every retry limit and timeout, the registers a reply brings are not older
\* than the controller was a request's lifetime before.
THEOREM RepliesAreRecent == FreshSpec => []DecodedIsRecent
<1>1. FreshInit => FreshnessInv
  <2> SUFFICES ASSUME FreshInit PROVE FreshnessInv
    OBVIOUS
  <2>1. IndInv
    BY IndInit DEF FreshInit
  <2>2. /\ plcAt = [t \in Tids |-> 0] /\ sig = 0 /\ plc = 1
        /\ Len(toPlc) = 0 /\ Len(fromPlc) = 0
    BY DEF FreshInit, Init
  <2> QED BY <2>1, <2>2 DEF FreshnessInv, MarkInv, WireInv, DecodedIsRecent
<1>2. FreshnessInv /\ [FreshNext]_<<vars, plcAt>> => FreshnessInv'
  <2>1. [FreshNext]_<<vars, plcAt>> => [Next]_vars
    BY DEF FreshNext
  <2>2. IndInv /\ [Next]_vars => IndInv'
    BY TypeStep, NumberStep, TimerStep, FreshStep, LinkStep, OrderStep DEF IndInv
  <2>3. FreshnessInv => TypeOK
    BY DEF FreshnessInv, IndInv
  <2> QED BY <2>1, <2>2, <2>3, MarkStep, WireStep, RecentStep DEF FreshnessInv
<1>3. FreshnessInv => DecodedIsRecent
  BY DEF FreshnessInv
<1> QED BY <1>1, <1>2, <1>3, PTL DEF FreshSpec
=============================================================================
