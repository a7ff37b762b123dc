----------------------------- MODULE Freshness -----------------------------
(***************************************************************************)
(* How recent the replies are that PLC_connector decodes: Poller, with a   *)
(* record of the register state the controller was in at each EmitTime.    *)
(*                                                                         *)
(* A request cannot be answered with registers older than itself, requests *)
(* do not live for ever, and old answers do not undo new ones; so what is  *)
(* decoded is never much older than the moment it is decoded.              *)
(***************************************************************************)
EXTENDS Poller

VARIABLES
    plcAt  \* EmitTime call -> number of the controller's state at that time

FreshInit == Init /\ plcAt = [t \in Tids |-> 0]

\* Every EmitTime call leaves a mark; nothing else does.
FreshNext ==
    /\ Next
    /\ plcAt' = IF ticks' = ticks THEN plcAt ELSE [plcAt EXCEPT ![ticks'] = plc]

FreshSpec == FreshInit /\ [][FreshNext]_<<vars, plcAt>>

\* As in Poller: a started response timer fires.
FairFreshSpec ==
    /\ FreshSpec
    /\ \A t \in Tids : WF_<<vars, plcAt>>(ResponseTimeout(t) /\ FreshNext)

-----------------------------------------------------------------------------
\* When a reply was decoded into the signals, it showed the controller as it
\* was at most as long ago as a request can live: no interleaving of retries,
\* late answers and timers brings in older registers.  (This is about the reply:
\* the analogs do not take it if it is not the first.  StaleHasAnError adds how
\* long the other signals can then stand without an error.)
DecodedIsRecent == \A t \in Tids : t + Lifetime <= heldAt => sig >= plcAt[t]

\* Each EmitTime's read comes to something: in the end integers, qualities and
\* the last word's discretes show the controller as it was then or later, or the
\* read itself was refused, failed or ended with the object; a lost answer does
\* not leave them behind without a trace.  (Analogs and other discretes stay
\* behind.)
ReadComesToSomething ==
    \A t \in Tids :
        plcAt[t] # 0 ~> sig >= plcAt[t] \/ status[t] \in Ended \ {"applied"}
=============================================================================
