------------------------------ MODULE Placement ------------------------------
(***************************************************************************)
(* The channel side of PLC_connector: its construction, Init with its own  *)
(* local DTSClient, and placeIn_PPD, which Init (--SIMUL) or every         *)
(* EmitTime calls with a DTSClient passed by value.                        *)
(*                                                                         *)
(* The handlers run on one thread, but a placement puts one value after    *)
(* another while the library's check thread and the channel's consumers    *)
(* act in between, so each put is a step.  Polling is left to Poller; what *)
(* matters here is that a reply may bring analog values that makeAValue    *)
(* rejects (NaN, infinities), and that it does so once: the analog buffer  *)
(* keeps the first reply (see RegisterMap).                                *)
(***************************************************************************)
EXTENDS DtsClient, Integers, Sequences

CONSTANTS
    Modes,    \* the values of m_params to consider, "WORK" and "SIMUL"
    Lists,    \* the signal lists signals.ini may hold, as sequences of kinds
    MaxCycle  \* bound: number of placements

ASSUME PlacementAssumption ==
    /\ Modes \subseteq {"WORK", "SIMUL"}
    /\ \A l \in Lists : l \in Seq({"analog", "discrete", "integer", "group"})
    /\ MaxCycle \in Nat

VARIABLES
    mode,     \* m_params
    list,     \* the signals, in the order placeIn_PPD visits them
    pc,       \* where the event loop's thread is
    caller,   \* who called placeIn_PPD
    timer,    \* m_emit_timer is running
    cycle,    \* number of placements begun
    next,     \* position in list of the next put
    bad,      \* positions whose value makeAValue rejects
    polled,   \* a reply was decoded
    chan,     \* position -> the placement whose value the channel took last
    dropped,  \* positions the channel had no room for in this placement
    outage    \* something outside the gateway stood in this placement's way

callVars == <<caller, cycle, next>>
signalVars == <<bad, polled>>
vars == <<lib, obj, mode, list, pc, caller, timer, cycle, next, bad, polled,
          chan, dropped, outage>>

Positions == 1 .. Len(list)

Init ==
    /\ DtsInit
    /\ mode \in Modes /\ list \in Lists
    /\ pc = "construct" /\ caller = "nobody" /\ timer = FALSE
    /\ cycle = 0 /\ next = 1
    /\ bad = {} /\ polled = FALSE
    /\ chan = [i \in Positions |-> 0]
    /\ dropped = {} /\ outage = FALSE

\* The constructor: the member client comes before the body, that is Init.
ConstructMember ==
    /\ pc = "construct"
    /\ pc' = "read"
    /\ Construct("member")
    /\ outage' = (obj'["member"] = "BadInit")
    /\ UNCHANGED <<mode, list, callVars, timer, signalVars, chan, dropped>>

\* Init gives up when reading signals.ini fails, and goes on with no signals
\* when the file cannot be opened (an empty list).
ReadFails ==
    /\ pc = "read"
    /\ pc' = "idle"
    /\ UNCHANGED <<dtsVars, mode, list, callVars, timer, signalVars, chan,
                   dropped, outage>>

\* Init: a second DTSClient, local and shadowing the member.  --SIMUL fills in
\* test values and places them with it; otherwise the link is opened and the
\* timer started.
ConstructLocal ==
    /\ pc = "read"
    /\ Construct("local")
    /\ pc' = IF mode = "SIMUL" THEN "simul" ELSE "leaveInit"
    /\ timer' = (mode # "SIMUL")
    /\ UNCHANGED <<mode, list, callVars, signalVars, chan, dropped, outage>>

\* A call of placeIn_PPD(client) copies the caller's client.
Call(client) ==
    /\ cycle < MaxCycle
    /\ Copy(client, "arg")
    /\ pc' = "placing"
    /\ cycle' = cycle + 1 /\ next' = 1
    /\ dropped' = {}
    /\ UNCHANGED <<mode, list, timer, signalVars, chan, outage>>

CallFromInit == pc = "simul" /\ caller' = "Init" /\ Call("local")
EmitTime == pc = "idle" /\ timer /\ caller' = "EmitTime" /\ Call("member")

-----------------------------------------------------------------------------
(* Plausible mistakes in placeIn_PPD. *)

\* A value that cannot be put is skipped instead of ending the placement.
MutAfterPut(r) ==
    /\ next' = next + 1
    /\ pc' = IF r = "crash" THEN "crashed" ELSE pc

\* A value the channel has no room for starts the placement over.
MutAfterPutRetry(r) ==
    \/ r = "ok" /\ next' = next + 1 /\ UNCHANGED pc
    \/ r = "warning" /\ next' = 1 /\ UNCHANGED pc
    \/ r \in {"error", "refused"} /\ pc' = "returning" /\ UNCHANGED next
    \/ r = "crash" /\ pc' = "crashed" /\ UNCHANGED next

\* The position is counted up twice.
MutAfterPutTwice(r) ==
    /\ next' = next + 2
    /\ pc' = IF r = "ok" THEN pc ELSE "returning"

-----------------------------------------------------------------------------
\* The switch on put's result: an error ends the placement at once, a warning
\* goes on to the next signal unless this one is a group.
AfterPut(r) ==
    \/ /\ r = "ok" \/ (r = "warning" /\ list[next] # "group")
       /\ next' = next + 1
       /\ UNCHANGED pc
    \/ /\ r \in {"error", "refused"} \/ (r = "warning" /\ list[next] = "group")
       /\ pc' = "returning"
       /\ UNCHANGED next
    \/ /\ r = "crash"
       /\ pc' = "crashed"
       /\ UNCHANGED next

\* One make...Value and put; what make...Value returns is not looked at.
PutNext ==
    /\ pc = "placing" /\ next <= Len(list)
    /\ \E r \in PutOutcomes("arg", next \notin bad) :
          /\ AfterPut(r)
          /\ chan' = IF r = "ok" THEN [chan EXCEPT ![next] = cycle] ELSE chan
          /\ dropped' = IF r = "warning" THEN dropped \cup {next} ELSE dropped
          /\ outage' = (outage \/ r \in {"warning", "refused"} \/ next \in bad)
    /\ UNCHANGED <<dtsVars, mode, list, caller, timer, cycle, signalVars>>

\* All signals were visited: sleep(2), return 0.
Finish ==
    /\ pc = "placing" /\ next > Len(list)
    /\ pc' = "returning"
    /\ UNCHANGED <<dtsVars, mode, list, callVars, timer, signalVars, chan,
                   dropped, outage>>

\* The copy is destroyed when the call returns; its result is not used.
Return ==
    /\ pc = "returning"
    /\ Destroy("arg")
    /\ pc' = IF caller = "Init" THEN "leaveInit" ELSE "idle"
    /\ UNCHANGED <<mode, list, callVars, timer, signalVars, chan, dropped,
                   outage>>

\* Init ends and the local client is destroyed.
LeaveInit ==
    /\ pc = "leaveInit"
    /\ Destroy("local")
    /\ pc' = "idle"
    /\ UNCHANGED <<mode, list, callVars, timer, signalVars, chan, dropped,
                   outage>>

\* The first good reply decides, for good, which analogs are numbers.  The
\* first request that is sent at all is that of the first EmitTime.
FirstReply ==
    /\ pc = "idle" /\ cycle > 0 /\ timer /\ ~polled
    /\ polled' = TRUE
    /\ bad' \in SUBSET {i \in Positions : list[i] = "analog"}
    /\ UNCHANGED <<dtsVars, mode, list, pc, callVars, timer, chan, dropped,
                   outage>>

\* ~PLC_connector: the member client and the timer go with the object.
Destruct ==
    /\ pc = "idle"
    /\ pc' = "gone"
    /\ timer' = FALSE
    /\ Destroy("member")
    /\ UNCHANGED <<mode, list, callVars, signalVars, chan, dropped, outage>>

\* The check thread of the library runs beside all of this.
CheckWorkability ==
    /\ pc # "crashed"
    /\ Block
    /\ outage' = TRUE
    /\ UNCHANGED <<mode, list, pc, callVars, timer, signalVars, chan, dropped>>

Next ==
    \/ ConstructMember \/ ReadFails \/ ConstructLocal
    \/ CallFromInit \/ EmitTime
    \/ PutNext \/ Finish \/ Return \/ LeaveInit
    \/ FirstReply \/ Destruct \/ CheckWorkability

Spec == Init /\ [][Next]_vars

\* placeIn_PPD is sequential code: a thread that runs it goes on running.
FairSpec == Spec /\ WF_vars(PutNext) /\ WF_vars(Finish) /\ WF_vars(Return)

-----------------------------------------------------------------------------
TypeOK ==
    /\ DtsTypeOK
    /\ mode \in Modes /\ list \in Lists
    /\ pc \in {"construct", "read", "simul", "leaveInit", "idle", "placing",
               "returning", "crashed", "gone"}
    /\ caller \in {"nobody", "Init", "EmitTime"}
    /\ timer \in BOOLEAN /\ polled \in BOOLEAN /\ outage \in BOOLEAN
    /\ cycle \in 0 .. MaxCycle
    /\ next \in 1 .. Len(list) + 1
    /\ bad \subseteq Positions /\ dropped \subseteq Positions
    /\ chan \in [Positions -> 0 .. MaxCycle]

\* The channel takes values from the first placement only, that is before any
\* reply was decoded: the copy of the client that placement worked with takes
\* the library down when it is destroyed.
OnlyFirstPlacementReaches ==
    \A i \in Positions :
        /\ chan[i] <= 1
        /\ (pc = "placing" /\ polled) => chan[i] # cycle

\* The first placement of a process never runs into a library that is down,
\* although Init's second client came and went before it.
FirstPlacementIsSafe == pc = "crashed" => cycle >= 2

\* What the channel has of a placement is a prefix of the signals, but for
\* those it had no room for: an error on one signal keeps every later one,
\* discretes and integers included, from being placed.
PlacedInOrder ==
    \A i, j \in Positions :
        i < j /\ cycle > 0 /\ chan[j] = cycle => chan[i] = cycle \/ i \in dropped

\* A later placement of a polling gateway returns only if it had nothing it
\* could put: no signals, a first analog that is not a number, or a client that
\* is not Ok.  Any other one uses the library that the first one took down.
LaterReturnsAreIdle ==
    cycle >= 2 /\ pc = "idle" =>
        list = <<>> \/ 1 \in bad \/ obj["member"] # "Ok"

\* In simulation mode the values reach the channel only if the member client
\* failed to connect and Init's local client then succeeded.
SimulNeedsFailure ==
    mode = "SIMUL" /\ pc # "gone" /\ (\E i \in Positions : chan[i] # 0)
        => obj["member"] = "BadInit"

\* Every placement returns or takes the process down; it never hangs on a
\* channel without room.
PlacementEnds == pc = "placing" ~> pc \in {"returning", "crashed"}

\* placeIn_PPD places the data in the channel: when nothing outside stood in
\* its way, the channel has every signal of the placement by its end.
PlacementPlaces ==
    pc \in {"returning", "crashed"} /\ ~outage =>
        \A i \in Positions : chan[i] = cycle
=============================================================================
