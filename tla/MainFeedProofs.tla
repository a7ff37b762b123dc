--------------------------- MODULE MainFeedProofs ---------------------------
(***************************************************************************)
(* The safety properties of MainFeed for all loop bounds and any number of *)
(* rounds.                                                                 *)
(*                                                                         *)
(* BinaryIsParity says nothing of the pass under way; what makes it        *)
(* inductive is that the binary put in this pass is the parity of the      *)
(* sample that the integer will get (PassInv).  The overrun needs the one  *)
(* fact about the bounds that the code has wrong.                          *)
(***************************************************************************)
EXTENDS MainFeed, TLAPS

TypeOK ==
    /\ pc \in {"start", "analog", "draw", "binary", "integer", "rest"} \cup Stopped
    /\ i \in Nat
    /\ sample \in Int
    /\ heap \in {"intact", "overrun"}
    /\ binary \in [0 .. BinaryLoop - 1 -> Int]
    /\ integer \in [0 .. MixedLoop - 1 -> Int]

\* In a pass that has a binary, the channel has this sample's or dropped it.
PassInv ==
    /\ pc = "binary" => i < BinaryLoop
    /\ pc = "integer" /\ i < BinaryLoop /\ i \notin missed => binary[i] = sample % 2

\* As long as the vector was only written where it is, the program is in its
\* first analog loop or has left it for good.
IntactInv ==
    heap = "intact" =>
        /\ pc \in {"start", "analog", "exited", "parked"}
        /\ \A k \in 0 .. MixedLoop - 1 : integer[k] = -1

\* The inductive invariants.
ParityInv == TypeOK /\ PassInv /\ BinaryIsParity
OverrunInv == TypeOK /\ IntactInv
-----------------------------------------------------------------------------
\* Every step keeps the types that the two invariants rest on.
LEMMA TypeStep == TypeOK /\ [Next]_vars => TypeOK'
<1> USE MainFeedAssumption DEF TypeOK, Stopped, MainFeedAssumption
<1> SUFFICES ASSUME TypeOK, [Next]_vars PROVE TypeOK'
  OBVIOUS
<1>1. CASE Start
  BY <1>1 DEF Start, channel
<1>2. CASE PutAnalog
  BY <1>2 DEF PutAnalog, WriteFloat, NextAnalog, Refuse
<1>3. CASE Draw
  BY <1>3 DEF Draw, channel
<1>4. CASE PutBinary
  <2>1. sample % 2 \in Int
    OBVIOUS
  <2>2. pc' \in {"integer", "parked"} /\ UNCHANGED <<i, sample, heap, integer>>
    BY <1>4 DEF PutBinary, Refuse
  <2>3. binary' \in [0 .. BinaryLoop - 1 -> Int]
    BY <1>4, <2>1 DEF PutBinary
  <2> QED BY <2>2, <2>3
<1>5. CASE PutInteger
  BY <1>5 DEF PutInteger, NextInteger, IntegerValue, Refuse
<1>6. CASE Rest
  BY <1>6 DEF Rest, channel
<1>7. CASE Abort
  BY <1>7 DEF Abort, channel
<1>8. CASE UNCHANGED vars
  BY <1>8 DEF vars
<1> QED
  BY <1>1, <1>2, <1>3, <1>4, <1>5, <1>6, <1>7, <1>8 DEF Next

\* Both invariants begin with the types.
LEMMA TypeInit == Init => TypeOK
  BY MainFeedAssumption DEF Init, TypeOK, Stopped, MainFeedAssumption

\* Between Draw and the put of the integer the sample does not change.
LEMMA PassStep == TypeOK /\ PassInv /\ [Next]_vars => PassInv'
<1> USE DEF PassInv
<1> SUFFICES ASSUME TypeOK, PassInv, [Next]_vars PROVE PassInv'
  OBVIOUS
<1>1. CASE Draw
  BY <1>1 DEF Draw
<1>2. CASE PutBinary
  <2>1. /\ i' = i /\ sample' = sample /\ i \in 0 .. BinaryLoop - 1
        /\ binary \in [0 .. BinaryLoop - 1 -> Int]
    BY <1>2, MainFeedAssumption DEF PutBinary, TypeOK, MainFeedAssumption
  <2>2. \/ pc' = "integer" /\ binary' = [binary EXCEPT ![i] = sample % 2]
        \/ pc' = "integer" /\ i \in missed'
        \/ pc' = "parked"
    BY <1>2 DEF PutBinary, Refuse
  <2> QED BY <2>1, <2>2
<1>3. CASE Start \/ PutAnalog \/ PutInteger \/ Rest \/ Abort
  <2>1. pc' \notin {"binary", "integer"}
    BY <1>3 DEF Start, PutAnalog, NextAnalog, PutInteger, NextInteger, Refuse, Rest, Abort
  <2> QED BY <2>1
<1>4. CASE UNCHANGED vars
  BY <1>4 DEF vars
<1> QED
  BY <1>1, <1>2, <1>3, <1>4 DEF Next

\* A pass touches the pair of its own index only, and completes it.
LEMMA ParityStep ==
    TypeOK /\ PassInv /\ BinaryIsParity /\ [Next]_vars => BinaryIsParity'
<1> SUFFICES ASSUME TypeOK, PassInv, BinaryIsParity, [Next]_vars,
                    NEW k \in 0 .. BinaryLoop - 1,
                    k \notin missed', binary'[k] # -1, integer'[k] # -1,
                    ~(pc' \in {"binary", "integer", "parked", "aborted"} /\ k = i')
             PROVE  binary'[k] = integer'[k] % 2
  BY DEF BinaryIsParity
<1> USE DEF BinaryIsParity, Stopped
<1>a. CASE /\ binary'[k] = binary[k] /\ integer'[k] = integer[k] /\ k \notin missed
           /\ ~(pc \in {"binary", "integer", "parked", "aborted"} /\ k = i)
  BY <1>a
<1>1. CASE PutAnalog \/ Start \/ Rest
  BY <1>a, <1>1 DEF PutAnalog, Start, Rest, channel
<1>2. CASE Draw
  BY <1>a, <1>2 DEF Draw, channel
<1>3. CASE PutBinary
  <2>1. k # i /\ k \notin missed
    BY <1>3 DEF PutBinary, Refuse
  <2>2. integer' = integer /\ (binary' = binary \/ binary' = [binary EXCEPT ![i] = sample % 2])
    BY <1>3 DEF PutBinary
  <2>3. binary'[k] = binary[k]
    BY <2>1, <2>2 DEF TypeOK
  <2> QED BY <1>a, <2>1, <2>2, <2>3
<1>4. CASE PutInteger
  <2>1. CASE k = i
    <3>1. integer' = [integer EXCEPT ![i] = sample] /\ missed' = missed /\ binary' = binary
      BY <1>4, <2>1 DEF PutInteger, IntegerValue, Refuse
    <3>2. i \in DOMAIN integer
      BY <2>1, MainFeedAssumption DEF TypeOK, MainFeedAssumption
    <3>3. i < BinaryLoop
      BY <2>1, MainFeedAssumption DEF MainFeedAssumption
    <3>4. binary[i] = sample % 2
      BY <1>4, <2>1, <3>1, <3>3 DEF PutInteger, PassInv
    <3> QED BY <2>1, <3>1, <3>2, <3>4
  <2>2. CASE k # i
    <3>1. /\ binary' = binary /\ k \notin missed
          /\ integer' = integer \/ integer' = [integer EXCEPT ![i] = sample]
      BY <1>4 DEF PutInteger, IntegerValue
    <3>2. integer'[k] = integer[k]
      BY <2>2, <3>1, MainFeedAssumption DEF TypeOK, MainFeedAssumption
    <3> QED BY <1>a, <2>2, <3>1, <3>2
  <2> QED BY <2>1, <2>2
<1>5. CASE Abort
  BY <1>a, <1>5 DEF Abort, MayAbort, channel
<1>6. CASE UNCHANGED vars
  BY <1>a, <1>6 DEF vars
<1> QED
  BY <1>1, <1>2, <1>3, <1>4, <1>5, <1>6 DEF Next

\* For all loop bounds and samples, a binary that stands next to its integer in
\* the channel is its parity.
THEOREM BinaryFollowsInteger == Spec => []BinaryIsParity
<1>1. Init => ParityInv
  <2> SUFFICES ASSUME Init PROVE ParityInv
    OBVIOUS
  <2>1. BinaryIsParity
    BY DEF Init, BinaryIsParity
  <2> QED BY <2>1, TypeInit DEF Init, ParityInv, PassInv
<1>2. ParityInv /\ [Next]_vars => ParityInv'
  BY TypeStep, PassStep, ParityStep DEF ParityInv
<1>3. ParityInv => BinaryIsParity
  BY DEF ParityInv
<1> QED BY <1>1, <1>2, <1>3, PTL DEF Spec

\* The last pass of the analog loop is behind the vector's end.
LEMMA IntactStep ==
    ASSUME FloatVector < AnalogLoop
    PROVE  TypeOK /\ IntactInv /\ [Next]_vars => IntactInv'
<1> USE DEF IntactInv
<1> SUFFICES ASSUME TypeOK, IntactInv, [Next]_vars, heap' = "intact"
             PROVE  /\ pc' \in {"start", "analog", "exited", "parked"}
                    /\ \A k \in 0 .. MixedLoop - 1 : integer'[k] = -1
  OBVIOUS
<1>1. CASE PutAnalog
  <2>1. heap = "intact" /\ i < FloatVector /\ integer' = integer
    BY <1>1 DEF PutAnalog, WriteFloat
  <2>2. i + 1 < AnalogLoop
    BY <2>1, MainFeedAssumption DEF TypeOK, MainFeedAssumption
  <2>3. pc' \in {"analog", "parked"}
    BY <1>1, <2>2 DEF PutAnalog, NextAnalog, Refuse
  <2> QED BY <2>1, <2>3
<1>2. CASE Start
  BY <1>2 DEF Start, channel
<1>3. CASE Draw \/ PutBinary \/ PutInteger \/ Rest \/ Abort
  BY <1>3 DEF Draw, PutBinary, PutInteger, Rest, Abort, MayAbort
<1>4. CASE UNCHANGED vars
  BY <1>4 DEF vars
<1> QED
  BY <1>1, <1>2, <1>3, <1>4 DEF Next

\* With an analog loop that runs past the vector, as in the code, no integer is
\* put before the heap was overrun.
THEOREM IntegersFollowTheOverrun ==
    ASSUME FloatVector < AnalogLoop
    PROVE  Spec => []NoIntegerWithoutOverrun
<1>1. Init => OverrunInv
  <2> SUFFICES ASSUME Init PROVE OverrunInv
    OBVIOUS
  <2> QED BY TypeInit DEF Init, OverrunInv, IntactInv
<1>2. OverrunInv /\ [Next]_vars => OverrunInv'
  BY TypeStep, IntactStep DEF OverrunInv
<1>3. OverrunInv => NoIntegerWithoutOverrun
  BY DEF OverrunInv, TypeOK, IntactInv, NoIntegerWithoutOverrun
<1> QED BY <1>1, <1>2, <1>3, PTL DEF Spec
=============================================================================
