------------------------------ MODULE Gateway ------------------------------
(***************************************************************************)
(* The whole PLC_connector: Poller and Placement on the one thread of the  *)
(* event loop.  While a placement puts its values, and sleeps, no handler  *)
(* of the Modbus client runs, but the controller and the network go on.    *)
(*                                                                         *)
(* EmitTime is one step of both sides: it sends the read and then enters   *)
(* placeIn_PPD, whose puts are steps of Placement.  A reply is a step of   *)
(* both, too: the first one settles for good what the analogs are, and     *)
(* which of them can be put.  Poller's Init says what will become of the   *)
(* connection; nothing acts on it before Init has started the timer.       *)
(***************************************************************************)
EXTENDS Naturals, Sequences

CONSTANTS MaxRetries, TicksPerTimeout, MaxTick, MaxPlc, MaxAnswers,
          Modes, Lists, MaxCycle

\* What Poller and Placement assume of these.
ASSUME GatewayAssumption ==
    /\ MaxRetries \in Nat /\ TicksPerTimeout \in Nat \ {0}
    /\ MaxTick \in Nat /\ MaxPlc \in Nat \ {0} /\ MaxAnswers \in Nat \ {0}
    /\ Modes \subseteq {"WORK", "SIMUL"}
    /\ \A l \in Lists : l \in Seq({"analog", "discrete", "integer", "group"})
    /\ MaxCycle \in Nat

VARIABLES
    link, ticks, status, left, age, toPlc, fromPlc, plc, first, sig, shown,
    heldAt, faulty, logged,
    lib, obj, mode, list, pc, caller, timer, cycle, next, bad, polled, chan,
    dropped, outage,
    sent    \* position -> number of the register state of its value in the
            \* channel; 0 for values that are not the controller's, and for none

Poll == INSTANCE Poller
Place == INSTANCE Placement

pollVars == <<link, ticks, status, left, age, toPlc, fromPlc, plc, first, sig,
              shown, heldAt, faulty, logged>>
placeVars == <<lib, obj, mode, list, pc, caller, timer, cycle, next, bad,
               polled, chan, dropped, outage>>
vars == <<pollVars, placeVars, sent>>

Init ==
    /\ Poll!Init /\ Place!Init
    /\ sent = [i \in Place!Positions |-> 0]

-----------------------------------------------------------------------------
(* Plausible mistakes in the handlers. *)

\* A read is sent without a placement after it, connectOn's own for example.
MutEmitTime ==
    /\ Poll!EmitTime
    /\ Place!EmitTime \/ (pc = "idle" /\ timer /\ UNCHANGED placeVars)
    /\ UNCHANGED sent

-----------------------------------------------------------------------------
\* The event loop is in no handler, and there is a link it could serve.
Serving == pc = "idle" /\ timer

\* The constructor and Init, the end of a placement and its return.
ThreadStep ==
    /\ \/ Place!ConstructMember \/ Place!ReadFails \/ Place!ConstructLocal
       \/ Place!CallFromInit \/ Place!Finish \/ Place!Return
       \/ Place!LeaveInit
    /\ UNCHANGED <<pollVars, sent>>

CheckThread == Place!CheckWorkability /\ UNCHANGED <<pollVars, sent>>

\* What a put carries: the analogs stay those of the first reply, a group has
\* no signal behind it.  A discrete that is never decoded counts as one that is.
Carried(i) == CASE list[i] = "analog" -> first
                [] list[i] = "group" -> 0
                [] OTHER -> sig

PutNext ==
    /\ Place!PutNext
    /\ sent' = IF chan' = chan THEN sent
               ELSE [sent EXCEPT ![next] = Carried(next)]
    /\ UNCHANGED pollVars

\* EmitTime: prepareRead, then the call of placeIn_PPD.
EmitTime == Poll!EmitTime /\ Place!EmitTime /\ UNCHANGED sent

\* readReady: a reply that is decoded, the first one or a later one, or none.
ReadReady ==
    /\ Serving /\ Poll!ReadReady
    /\ \/ /\ sig = 0 /\ sig' # 0
          /\ polled' = TRUE
          /\ bad' \in SUBSET {i \in Place!Positions : list[i] = "analog"}
       \/ (sig # 0 \/ sig' = 0) /\ UNCHANGED <<bad, polled>>
    /\ UNCHANGED <<lib, obj, mode, list, pc, caller, timer, cycle, next, chan,
                   dropped, outage, sent>>

\* The other handlers of the event loop.
LinkHandler ==
    /\ Serving
    /\ Poll!Connected \/ Poll!LinkDown
    /\ UNCHANGED <<placeVars, sent>>

ResponseTimeout(t) ==
    Serving /\ Poll!ResponseTimeout(t) /\ UNCHANGED <<placeVars, sent>>

\* The controller does not wait for the event loop.
Controller ==
    /\ Poll!PlcAnswer \/ Poll!PlcIgnore \/ Poll!PlcChange
    /\ UNCHANGED <<placeVars, sent>>

\* ~PLC_connector disconnects, which ends what is outstanding.
Destruct ==
    /\ Place!Destruct
    /\ IF timer THEN Poll!Destruct ELSE UNCHANGED pollVars
    /\ UNCHANGED sent

Next ==
    \/ ThreadStep \/ PutNext \/ CheckThread
    \/ EmitTime
    \/ ReadReady \/ LinkHandler \/ (\E t \in Poll!Tids : ResponseTimeout(t))
    \/ Controller \/ Destruct

Spec == Init /\ [][Next]_vars

\* The thread goes on with what it is doing, and the event loop serves a
\* response timer that is due: EmitTime cannot run before an overdue one.
FairSpec ==
    /\ Spec
    /\ WF_vars(PutNext) /\ WF_vars(ThreadStep)
    /\ \A t \in Poll!Tids : WF_vars(ResponseTimeout(t))

-----------------------------------------------------------------------------
\* Placement takes for granted that replies come between placements, that the
\* first one comes after the first placement and that later ones do not touch
\* the analogs: what it says of the channel holds for the whole gateway.
ImplementsPlacement == Place!Spec

\* No register of the controller ever reaches the channel, whatever the order
\* of timers, replies and puts: the only placement that gets through is the
\* one before the first reply.
ChannelHasNoReading == \A i \in Place!Positions : sent[i] = 0

\* A read ends although placements keep the event loop busy, unless the process
\* goes down with one; destroying the object ends it as well.
ReadEndsOrProcessDies ==
    \A t \in Poll!Tids :
        status[t] = "pending" ~> status[t] # "pending" \/ pc = "crashed"
=============================================================================
