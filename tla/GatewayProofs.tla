--------------------------- MODULE GatewayProofs ---------------------------
(***************************************************************************)
(* The gateway as a whole, for all constants: both of its sides behave as  *)
(* their own modules say, so that what is proved of Poller and Placement   *)
(* holds of it, and what only the composition can say.                     *)
(*                                                                         *)
(* That replies come only after the first placement is no assumption here: *)
(* it follows from EmitTime, which sends the first request that is sent at *)
(* all and makes the first placement in one step.                          *)
(***************************************************************************)
EXTENDS Gateway, SequenceTheorems, TLAPS

Polling == INSTANCE PollerProofs
Placing == INSTANCE PlacementProofs
-----------------------------------------------------------------------------
(* The polling side. *)

\* Poller's initial states and steps, under the name its proofs have them.
LEMMA PollInit == Poll!Init => Polling!Init
  BY DEF Poll!Init, Polling!Init, Poll!Tids, Polling!Tids

\* The same for every step.
LEMMA PollNext == Poll!Next => Polling!Next
  BY DEF Poll!Next, Polling!Next, Poll!Connected, Polling!Connected,
     Poll!LinkDown, Polling!LinkDown, Poll!Destruct, Polling!Destruct,
     Poll!FinishAll, Polling!FinishAll, Poll!Analogs, Polling!Analogs,
     Poll!EmitTime, Polling!EmitTime,
     Poll!PrepareRead, Polling!PrepareRead, Poll!ResponseTimeout,
     Polling!ResponseTimeout, Poll!Resend, Polling!Resend,
     Poll!IsAwaited, Polling!IsAwaited, Poll!ReadReady,
     Polling!ReadReady, Poll!NextAnswer, Polling!NextAnswer,
     Poll!HasRegisters, Polling!HasRegisters, Poll!PlcAnswer,
     Polling!PlcAnswer, Poll!PlcIgnore, Polling!PlcIgnore,
     Poll!PlcChange, Polling!PlcChange, Poll!Horizon, Polling!Horizon,
     Poll!NoTimer, Polling!NoTimer, Poll!Pending, Polling!Pending,
     Poll!Tids, Polling!Tids, Poll!ModbusException,
     Polling!ModbusException, Poll!vars, Polling!vars, Poll!wires,
     Polling!wires, Poll!timers, Polling!timers, Poll!signals,
     Polling!signals

\* Whatever the gateway does, its polling side takes a step of Poller or none.
LEMMA PollStep == [Next]_vars => [Poll!Next]_(Poll!vars)
<1> SUFFICES ASSUME [Next]_vars PROVE [Poll!Next]_(Poll!vars)
  OBVIOUS
<1>a. CASE UNCHANGED pollVars
  BY <1>a DEF pollVars, Poll!vars
<1>1. CASE ThreadStep \/ PutNext \/ CheckThread \/ UNCHANGED vars
  BY <1>a, <1>1 DEF ThreadStep, PutNext, CheckThread, vars
<1>2. CASE EmitTime \/ ReadReady \/ LinkHandler \/ Controller
  BY <1>2 DEF EmitTime, ReadReady, LinkHandler, Controller, Poll!Next
<1>3. ASSUME NEW t \in Poll!Tids, ResponseTimeout(t) PROVE Poll!Next
  BY <1>3 DEF ResponseTimeout, Poll!Next
<1>4. CASE Destruct
  BY <1>a, <1>4 DEF Destruct, Poll!Next
<1> QED BY <1>1, <1>2, <1>3, <1>4 DEF Next

\* Placements that keep the thread busy, and the end of the object, only delay
\* or drop what Poller could do: the gateway polls as Poller says.
THEOREM ImplementsPolling == Spec => Poll!Spec
<1>1. Init => Poll!Init
  BY DEF Init
<1> QED BY <1>1, PollStep, PTL DEF Spec, Poll!Spec

\* So the gateway is an instance of the specification PollerProofs speaks of.
LEMMA PollSpec == Spec => Polling!Spec
<1>1. Init => Polling!Init
  BY PollInit DEF Init
<1>2. [Next]_vars => [Polling!Next]_(Polling!vars)
  BY PollStep, PollNext DEF Poll!vars, Polling!vars
<1> QED BY <1>1, <1>2, PTL DEF Spec, Polling!Spec

\* And Poller's inductive invariant holds of it.
LEMMA PollInvariance == Spec => []Polling!IndInv
<1>1. Polling!Spec => []Polling!IndInv
  BY Polling!Invariance, GatewayAssumption DEF GatewayAssumption
<1> QED BY <1>1, PollSpec, PTL

\* Signals change only by a reply to a request that was sent, and then not all
\* of them are the zeros they began with any longer.
LEMMA DecodeFacts ==
    ASSUME Polling!IndInv, Poll!ReadReady
    PROVE  UNCHANGED <<first, sig>> \/ (sig' # 0 /\ ticks > 0)
<1>1. \/ UNCHANGED <<first, sig>>
      \/ /\ fromPlc # <<>> /\ status[Head(fromPlc).tid] = "pending"
         /\ sig' = Head(fromPlc).ver /\ Head(fromPlc).ver # 0
  BY DEF Poll!ReadReady, Poll!NextAnswer, Poll!IsAwaited, Poll!HasRegisters,
     Poll!ModbusException, Poll!signals
<1>2. ASSUME fromPlc # <<>>, status[Head(fromPlc).tid] = "pending"
      PROVE  ticks > 0
  <2>1. /\ fromPlc \in Seq([tid : 1 .. MaxTick, ver : 0 .. MaxPlc])
        /\ ticks \in 0 .. MaxTick
        /\ \A t \in 1 .. MaxTick : t > ticks => status[t] = "none"
    BY DEF Polling!IndInv, Polling!TypeOK, Polling!NumberInv, Polling!Tids
  <2>2. Head(fromPlc) \in [tid : 1 .. MaxTick, ver : 0 .. MaxPlc]
    BY <1>2, <2>1, HeadTailProperties
  <2> QED BY <1>2, <2>1, <2>2, GatewayAssumption DEF GatewayAssumption
<1> QED BY <1>1, <1>2
-----------------------------------------------------------------------------
(* The placement side. *)

\* Replies that were decoded, requests that were sent and placements go together.
SettledInv ==
    /\ polled <=> sig # 0
    /\ first # 0 => sig # 0
    /\ ticks > 0 => cycle > 0
    /\ ticks \in Nat /\ cycle \in Nat

\* What no handler but EmitTime, readReady and a placement's end changes.
LEMMA OtherSteps ==
    /\ ThreadStep \/ CheckThread \/ PutNext =>
          UNCHANGED <<first, sig, ticks, polled>>
    /\ ThreadStep \/ CheckThread =>
          (cycle' = cycle \/ cycle' = cycle + 1) /\ UNCHANGED sent
    /\ PutNext => UNCHANGED cycle
    /\ LinkHandler \/ (\E t \in Poll!Tids : ResponseTimeout(t)) \/ Controller =>
          UNCHANGED <<first, sig, ticks, placeVars, sent>>
    /\ Destruct => UNCHANGED <<first, sig, ticks, polled, cycle, sent>>
<1>1. ThreadStep \/ CheckThread \/ PutNext =>
          UNCHANGED <<first, sig, ticks, polled>>
  BY DEF ThreadStep, CheckThread, PutNext, pollVars, Place!ConstructMember,
     Place!ReadFails, Place!ConstructLocal, Place!CallFromInit, Place!Call,
     Place!Finish, Place!Return, Place!LeaveInit, Place!CheckWorkability,
     Place!PutNext, Place!signalVars
<1>2. ThreadStep \/ CheckThread =>
          (cycle' = cycle \/ cycle' = cycle + 1) /\ UNCHANGED sent
  BY DEF ThreadStep, CheckThread, Place!ConstructMember,
     Place!ReadFails, Place!ConstructLocal, Place!CallFromInit, Place!Call,
     Place!Finish, Place!Return, Place!LeaveInit, Place!CheckWorkability,
     Place!callVars
<1>3. PutNext => UNCHANGED cycle
  BY DEF PutNext, Place!PutNext
<1>4. LinkHandler \/ (\E t \in Poll!Tids : ResponseTimeout(t)) \/ Controller =>
          UNCHANGED <<first, sig, ticks, placeVars, sent>>
  BY DEF LinkHandler, ResponseTimeout, Controller, Poll!Connected, Poll!LinkDown,
     Poll!FinishAll, Poll!ResponseTimeout, Poll!PlcAnswer, Poll!PlcIgnore, Poll!PlcChange, Poll!signals
<1>5. Destruct => UNCHANGED <<first, sig, ticks, polled, cycle, sent>>
  BY DEF Destruct, Place!Destruct, Place!callVars, Place!signalVars, Poll!Destruct,
     Poll!FinishAll, Poll!signals, pollVars
<1> QED BY <1>1, <1>2, <1>3, <1>4, <1>5

\* A request is sent together with a placement, a reply is counted when it is
\* decoded.
LEMMA SettledStep ==
    Polling!IndInv /\ SettledInv /\ [Next]_vars => SettledInv'
<1> USE DEF SettledInv
<1> SUFFICES ASSUME Polling!IndInv, SettledInv, [Next]_vars PROVE SettledInv'
  OBVIOUS
<1>1. CASE EmitTime
  BY <1>1 DEF EmitTime, Poll!EmitTime, Poll!signals, Place!EmitTime, Place!Call,
     Place!signalVars
<1>2. CASE ReadReady
  <2>1. ticks' = ticks /\ cycle' = cycle
    BY <1>2 DEF ReadReady, Poll!ReadReady
  <2>2. UNCHANGED <<first, sig>> \/ sig' # 0
    BY <1>2, DecodeFacts DEF ReadReady
  <2> QED BY <1>2, <2>1, <2>2 DEF ReadReady
<1>3. CASE ThreadStep \/ CheckThread \/ PutNext
  BY <1>3, OtherSteps
<1>4. CASE LinkHandler \/ (\E t \in Poll!Tids : ResponseTimeout(t)) \/ Controller
  BY <1>4, OtherSteps DEF placeVars
<1>5. CASE Destruct
  BY <1>5, OtherSteps
<1>6. CASE UNCHANGED vars
  BY <1>6 DEF vars, pollVars, placeVars
<1> QED BY <1>1, <1>2, <1>3, <1>4, <1>5, <1>6 DEF Next

\* Replies and placements are in step from the start.
LEMMA SettledInvariance == Spec => []SettledInv
<1>1. Init => SettledInv
  BY DEF Init, Poll!Init, Place!Init, SettledInv
<1> QED BY <1>1, SettledStep, PollInvariance, PTL DEF Spec

\* Whatever the gateway does, its placement side takes a step of Placement or
\* none; the first reply is one, as it comes after the first placement.
LEMMA PlaceStep ==
    Polling!IndInv /\ SettledInv /\ [Next]_vars => [Place!Next]_(Place!vars)
<1> SUFFICES ASSUME Polling!IndInv, SettledInv, [Next]_vars
             PROVE  [Place!Next]_(Place!vars)
  OBVIOUS
<1>a. CASE UNCHANGED placeVars
  BY <1>a DEF placeVars, Place!vars
<1>1. CASE ThreadStep \/ PutNext \/ CheckThread \/ EmitTime \/ Destruct
  BY <1>1 DEF ThreadStep, PutNext, CheckThread, EmitTime, Destruct, Place!Next
<1>2. CASE ReadReady
  <2>1. CASE sig = 0 /\ sig' # 0
    <3>1. cycle > 0 /\ ~polled
      BY <1>2, <2>1, DecodeFacts DEF ReadReady, SettledInv
    <3>2. Place!FirstReply
      BY <1>2, <2>1, <3>1
      DEF ReadReady, Serving, Place!FirstReply, Place!dtsVars, Place!callVars
    <3> QED BY <3>2 DEF Place!Next
  <2>2. CASE ~(sig = 0 /\ sig' # 0)
    BY <1>a, <1>2, <2>2 DEF ReadReady, placeVars
  <2> QED BY <2>1, <2>2
<1>3. CASE LinkHandler \/ (\E t \in Poll!Tids : ResponseTimeout(t)) \/ Controller
  BY <1>a, <1>3, OtherSteps
<1>4. CASE UNCHANGED vars
  BY <1>a, <1>4 DEF vars
<1> QED BY <1>1, <1>2, <1>3, <1>4 DEF Next

\* The whole gateway implements Placement, for all constants: what Placement
\* takes for granted about replies, the polling guarantees.
THEOREM PlacementRefinement == Spec => ImplementsPlacement
<1>1. Init => Place!Init
  BY DEF Init
<1> QED
  BY <1>1, PlaceStep, PollInvariance, SettledInvariance, PTL
  DEF Spec, ImplementsPlacement, Place!Spec

\* Placement's initial states and steps, under the name its proofs have them.
LEMMA PlaceInit == Place!Init => Placing!Init
  BY DEF Place!Init, Placing!Init, Place!DtsInit, Placing!DtsInit,
     Place!Objects, Placing!Objects, Place!Originals, Placing!Originals,
     Place!Positions, Placing!Positions

\* The same for every step.
LEMMA PlaceNext == Place!Next => Placing!Next
  BY DEF Place!Next, Placing!Next, Place!ConstructMember,
     Placing!ConstructMember, Place!ReadFails, Placing!ReadFails,
     Place!ConstructLocal, Placing!ConstructLocal, Place!CallFromInit,
     Placing!CallFromInit, Place!EmitTime, Placing!EmitTime, Place!Call,
     Placing!Call, Place!PutNext, Placing!PutNext, Place!PutOutcomes,
     Placing!PutOutcomes, Place!AfterPut, Placing!AfterPut,
     Place!Finish, Placing!Finish, Place!Return, Placing!Return,
     Place!LeaveInit, Placing!LeaveInit, Place!FirstReply,
     Placing!FirstReply, Place!Destruct, Placing!Destruct,
     Place!CheckWorkability, Placing!CheckWorkability, Place!Construct,
     Placing!Construct, Place!Copy, Placing!Copy, Place!Destroy,
     Placing!Destroy, Place!Block, Placing!Block, Place!Originals,
     Placing!Originals, Place!Objects, Placing!Objects, Place!States,
     Placing!States, Place!Positions, Placing!Positions, Place!dtsVars,
     Placing!dtsVars, Place!callVars, Placing!callVars,
     Place!signalVars, Placing!signalVars

\* So the gateway is an instance of the specification PlacementProofs speaks of.
LEMMA PlaceSpec == Spec => Placing!Spec
<1>1. Place!Init => Placing!Init
  BY PlaceInit
<1>2. [Place!Next]_(Place!vars) => [Placing!Next]_(Placing!vars)
  BY PlaceNext DEF Place!vars, Placing!vars
<1> QED
  BY <1>1, <1>2, PlacementRefinement, PTL
  DEF ImplementsPlacement, Place!Spec, Placing!Spec

\* And Placement's inductive invariant holds of it.
LEMMA PlaceInvariance == Spec => []Placing!IndInv
<1>1. Placing!Spec => []Placing!IndInv
  BY Placing!Invariance, GatewayAssumption DEF GatewayAssumption
<1> QED BY <1>1, PlaceSpec, PTL
-----------------------------------------------------------------------------
(* What the parts promise, promised by the whole. *)

\* The polling keeps its promises although placements hold up its handlers and
\* the destructor cuts them off.
THEOREM PollingHolds ==
    Spec => /\ [](Polling!OutstandingBounded /\ Polling!StaleHasAnError)
            /\ Polling!OutcomeIsFinal /\ Polling!LinkLossIsFinal
            /\ Polling!ImplementsSignalCache
<1>1. /\ Polling!Spec => []Polling!OutstandingBounded
      /\ Polling!Spec => []Polling!StaleHasAnError
      /\ Polling!Spec => Polling!OutcomeIsFinal
      /\ Polling!Spec => Polling!LinkLossIsFinal
      /\ Polling!Spec => Polling!ImplementsSignalCache
  BY Polling!OutstandingIsBounded, Polling!StalenessHasAnError,
     Polling!OutcomesAreFinal, Polling!LinkLossFreezes, Polling!Refinement,
     GatewayAssumption DEF GatewayAssumption
<1> QED BY <1>1, PollSpec, PTL

\* The placements keep theirs, whenever the replies come.
THEOREM PlacementsHold ==
    Spec => [](/\ Placing!SingleOwner /\ Placing!OnlyFirstPlacementReaches
               /\ Placing!FirstPlacementIsSafe /\ Placing!PlacedInOrder
               /\ Placing!LaterReturnsAreIdle /\ Placing!SimulNeedsFailure)
<1>1. /\ Placing!Spec => []Placing!SingleOwner
      /\ Placing!Spec => []Placing!OnlyFirstPlacementReaches
      /\ Placing!Spec => []Placing!FirstPlacementIsSafe
      /\ Placing!Spec => []Placing!PlacedInOrder
      /\ Placing!Spec => []Placing!LaterReturnsAreIdle
      /\ Placing!Spec => []Placing!SimulNeedsFailure
  BY Placing!OneOwner, Placing!OnlyTheFirstReaches, Placing!TheFirstIsSafe,
     Placing!PlacementsAreInOrder, Placing!LaterReturnsHadNothing,
     Placing!SimulationNeedsFailure, GatewayAssumption DEF GatewayAssumption
<1> QED BY <1>1, PlaceSpec, PTL
-----------------------------------------------------------------------------
(* What only the composition can say. *)

\* A put that reaches the channel is one of the first placement, which is over
\* before the first reply.
LEMMA PutBeforeReply ==
    ASSUME Placing!IndInv, SettledInv, PutNext, chan' # chan
    PROVE  sig = 0 /\ first = 0
<1>1. /\ pc = "placing" /\ obj["arg"] = "Ok" /\ lib # "down"
  BY DEF PutNext, Place!PutNext, Place!PutOutcomes
<1>2. cycle <= 1
  BY <1>1 DEF Placing!IndInv, Placing!DownInv, Placing!PhaseInv, SettledInv
<1>3. ~polled
  BY <1>1, <1>2 DEF Placing!IndInv, Placing!PolledInv, SettledInv
<1> QED BY <1>3 DEF SettledInv

\* For all constants, no value the channel has is one of the controller's.
THEOREM NoReadingReachesTheChannel == Spec => []ChannelHasNoReading
<1> DEFINE Inv == sent \in [1 .. Len(list) -> {0}]
<1>1. Init => Inv
  BY DEF Init, Place!Positions
<1>2. Placing!IndInv /\ SettledInv /\ Inv /\ [Next]_vars => Inv'
  <2> SUFFICES ASSUME Placing!IndInv, SettledInv, Inv, [Next]_vars PROVE Inv'
    OBVIOUS
  <2>a. list' = list
    BY DEF Next, ThreadStep, CheckThread, PutNext, EmitTime, ReadReady, LinkHandler,
       ResponseTimeout, Controller, Destruct, vars, placeVars,
       Place!ConstructMember, Place!ReadFails, Place!ConstructLocal,
       Place!CallFromInit, Place!Call, Place!Finish, Place!Return, Place!LeaveInit,
       Place!CheckWorkability, Place!PutNext, Place!EmitTime, Place!Destruct
  <2>1. CASE PutNext
    <3>1. CASE chan' = chan
      BY <2>a, <2>1, <3>1 DEF PutNext
    <3>2. CASE chan' # chan
      <4>1. sent' = [sent EXCEPT ![next] = Carried(next)]
        BY <2>1, <3>2 DEF PutNext
      <4>2. Carried(next) = 0
        BY <2>1, <3>2, PutBeforeReply DEF Carried
      <4> QED BY <2>a, <4>1, <4>2
    <3> QED BY <3>1, <3>2
  <2>2. CASE EmitTime \/ ReadReady
    BY <2>a, <2>2 DEF EmitTime, ReadReady
  <2>3. CASE ThreadStep \/ CheckThread \/ LinkHandler \/ Controller \/ Destruct
               \/ \E t \in Poll!Tids : ResponseTimeout(t)
    BY <2>a, <2>3, OtherSteps
  <2>4. CASE UNCHANGED vars
    BY <2>a, <2>4 DEF vars
  <2> QED BY <2>1, <2>2, <2>3, <2>4 DEF Next
<1>3. Inv => ChannelHasNoReading
  BY DEF ChannelHasNoReading, Place!Positions
<1> QED
  BY <1>1, <1>2, <1>3, PlaceInvariance, SettledInvariance, PTL DEF Spec
=============================================================================
