------------------------------ MODULE MainFeed ------------------------------
(***************************************************************************)
(* main.cpp, the program that CMakeLists.txt builds: it owns one DTSClient *)
(* and feeds the channel with test values, round after round.  First come  *)
(* the analogs, one a second, then integers, the first few of them with a  *)
(* binary value that is the integer's parity.                              *)
(*                                                                         *)
(* The loop for the analogs runs one past the vector it fills: the write   *)
(* and the read at that index are undefined behaviour.  QVector does not   *)
(* check the index in a release build, so the process may be aborted there *)
(* or at a later use of the heap, or put whatever value it reads back.     *)
(***************************************************************************)
EXTENDS Integers, FiniteSets

CONSTANTS
    AnalogLoop,   \* bound of the analog loop, 17 in the code
    FloatVector,  \* size of t_test_float, 16 in the code
    MixedLoop,    \* bound of the integer loop and size of t_test_int, 8
    BinaryLoop,   \* how many integers have a binary, 5
    Samples,      \* what testVector_int may return
    MaxRound      \* bound: rounds of the endless loop

ASSUME MainFeedAssumption ==
    /\ AnalogLoop \in Nat /\ FloatVector \in Nat
    /\ MixedLoop \in Nat /\ BinaryLoop \in 0 .. MixedLoop
    /\ Samples \subseteq Nat /\ MaxRound \in Nat

VARIABLES
    pc,       \* where main is
    i,        \* the loop variable
    round,    \* number of the round
    sample,   \* t_test_int[i]
    heap,     \* "intact", or "overrun" once the vector was written past its end
    analog,   \* index -> round whose value the channel took last, 0 for none
    binary,   \* index -> value the channel took last, -1 for none
    integer,  \* likewise
    missed    \* indices whose last binary or integer the channel had no room for

vars == <<pc, i, round, sample, heap, analog, binary, integer, missed>>
channel == <<analog, binary, integer>>

Init ==
    /\ pc = "start" /\ i = 0 /\ round = 1 /\ sample = 0 /\ heap = "intact"
    /\ analog = [k \in 0 .. AnalogLoop - 1 |-> 0]
    /\ binary = [k \in 0 .. BinaryLoop - 1 |-> -1]
    /\ integer = [k \in 0 .. MixedLoop - 1 |-> -1]
    /\ missed = {}

\* The client is usable, or main returns -1.
Start ==
    /\ pc = "start"
    /\ pc' \in {"analog", "exited"}
    /\ UNCHANGED <<i, round, sample, heap, channel, missed>>

-----------------------------------------------------------------------------
(* Plausible mistakes in the loops below. *)

\* A fresh value is drawn for the integer.
MutIntegerValue(v) == v + 1

\* The loop stops where the vector ends.
MutNextAnalog ==
    IF i + 1 < FloatVector THEN i' = i + 1 /\ pc' = pc ELSE i' = 0 /\ pc' = "draw"

\* The loop starts over instead of ending.
MutNextAnalogAgain ==
    IF i + 1 < AnalogLoop THEN i' = i + 1 /\ pc' = pc ELSE i' = 0 /\ pc' = pc

-----------------------------------------------------------------------------
\* t_test_float[k] = ..., the vector just resized to FloatVector elements.
WriteFloat(k) == IF k < FloatVector THEN UNCHANGED heap ELSE heap' = "overrun"

\* The heap is used again: it may show that it was overrun.
MayAbort == heap = "overrun" /\ pc \notin {"parked", "exited", "aborted"}

\* put returned an error: return a.exec(), an event loop nothing ever ends.
Refuse == pc' = "parked"

NextAnalog ==
    IF i + 1 < AnalogLoop THEN i' = i + 1 /\ pc' = pc ELSE i' = 0 /\ pc' = "draw"

\* One pass of the analog loop.
PutAnalog ==
    /\ pc = "analog"
    /\ WriteFloat(i)
    /\ \/ NextAnalog /\ analog' = [analog EXCEPT ![i] = round]
       \/ NextAnalog /\ UNCHANGED analog
       \/ Refuse /\ UNCHANGED <<i, analog>>
    /\ UNCHANGED <<round, sample, binary, integer, missed>>

\* A pass of the second loop begins with a new t_test_int[i].
Draw ==
    /\ pc = "draw"
    /\ sample' \in Samples
    /\ pc' = IF i < BinaryLoop THEN "binary" ELSE "integer"
    /\ missed' = missed \ {i}
    /\ UNCHANGED <<i, round, heap, channel>>

PutBinary ==
    /\ pc = "binary"
    /\ \/ /\ pc' = "integer"
          /\ binary' = [binary EXCEPT ![i] = sample % 2]
          /\ UNCHANGED missed
       \/ pc' = "integer" /\ missed' = missed \cup {i} /\ UNCHANGED binary
       \/ Refuse /\ UNCHANGED <<binary, missed>>
    /\ UNCHANGED <<i, round, sample, heap, analog, integer>>

IntegerValue(v) == v

NextInteger ==
    IF i + 1 < MixedLoop THEN i' = i + 1 /\ pc' = "draw" ELSE i' = 0 /\ pc' = "rest"

PutInteger ==
    /\ pc = "integer"
    /\ \/ /\ NextInteger
          /\ integer' = [integer EXCEPT ![i] = IntegerValue(sample)]
          /\ UNCHANGED missed
       \/ NextInteger /\ missed' = missed \cup {i} /\ UNCHANGED integer
       \/ Refuse /\ UNCHANGED <<i, integer, missed>>
    /\ UNCHANGED <<round, sample, heap, analog, binary>>

\* sleep(1) and the next round of for(;;).
Rest ==
    /\ pc = "rest" /\ round < MaxRound
    /\ pc' = "analog" /\ round' = round + 1
    /\ UNCHANGED <<i, sample, heap, channel, missed>>

Abort ==
    /\ MayAbort
    /\ pc' = "aborted"
    /\ UNCHANGED <<i, round, sample, heap, channel, missed>>

Next ==
    Start \/ PutAnalog \/ Draw \/ PutBinary \/ PutInteger \/ Rest \/ Abort

Spec == Init /\ [][Next]_vars

\* main is sequential code that waits for nobody.
FairSpec == Spec /\ WF_vars(PutAnalog \/ Draw \/ PutBinary \/ PutInteger \/ Rest)

-----------------------------------------------------------------------------
Stopped == {"parked", "exited", "aborted"}

\* Outside the two puts of one pass, a binary and its integer agree, unless the
\* channel dropped one of them: index 0 to BinaryLoop - 1 never shows the
\* parity of an older or a newer integer.
BinaryIsParity ==
    \A k \in 0 .. BinaryLoop - 1 :
        /\ k \notin missed /\ binary[k] # -1 /\ integer[k] # -1
        /\ ~(pc \in {"binary", "integer", "parked", "aborted"} /\ k = i)
        => binary[k] = integer[k] % 2

\* No integer, and so no complete round, ever reaches the channel without the
\* process having written past the end of the vector.
NoIntegerWithoutOverrun ==
    (\E k \in 0 .. MixedLoop - 1 : integer[k] # -1) => heap = "overrun"

\* A round that is begun ends, or the program has stopped.
RoundEnds == pc = "analog" ~> pc \in {"rest"} \cup Stopped
=============================================================================
