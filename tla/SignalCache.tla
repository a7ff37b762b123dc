---------------------------- MODULE SignalCache ----------------------------
(***************************************************************************)
(* What the polling side of PLC_connector promises to the rest of the      *)
(* gateway, without requests, answers, retries or the link.                *)
(*                                                                         *)
(* Each reply that is decoded shows a state the controller really had and  *)
(* none older than the reply before.  Integers, qualities and the last     *)
(* word's discretes follow it; the analogs keep the first one.  Each       *)
(* placement offers what the signals hold at that moment, whether or not   *)
(* it is all of one reply.                                                 *)
(*                                                                         *)
(* Successive states of the holding registers are numbered: 0 stands for   *)
(* the zero-initialised WS_signal objects, 1, 2, ... for the controller.   *)
(***************************************************************************)
EXTENDS Naturals

VARIABLES
    world,   \* number of the state the controller's registers are in
    kept,    \* number of the state the analogs show
    held,    \* number of the state the signals that follow show
    offered  \* kept and held, as the last placement offered them to the channel

cacheVars == <<world, kept, held, offered>>

Init == world = 1 /\ kept = 0 /\ held = 0 /\ offered = <<0, 0>>

\* The controller's process moves on.
Advance == world' = world + 1 /\ UNCHANGED <<kept, held, offered>>

\* A reply is decoded: it may be old, but no older than the one before.  Only
\* the first one reaches the analogs.
Refresh ==
    /\ held' \in held .. world
    /\ held' # 0
    /\ kept' = IF kept = 0 THEN held' ELSE kept
    /\ UNCHANGED <<world, offered>>

\* One call of placeIn_PPD offers the signals as they are.
Offer == offered' = <<kept, held>> /\ UNCHANGED <<world, kept, held>>

Next == Advance \/ Refresh \/ Offer

Spec == Init /\ [][Next]_cacheVars
=============================================================================
