------------------------------- MODULE Poller -------------------------------
(***************************************************************************)
(* The polling side of PLC_connector: the one second timer (EmitTime), the *)
(* read requests it puts on the Modbus TCP link (prepareRead), the replies *)
(* that finish them (readReady), and the link itself, which connectOn      *)
(* opens once and nobody reopens, until the destructor closes it.          *)
(*                                                                         *)
(* The code runs on one Qt event loop, so each handler is one atomic       *)
(* action; the controller and the network act between handlers.            *)
(* QModbusTcpClient is external.  What the code relies on: a request gets  *)
(* a transaction number of its own, several may be outstanding, every one  *)
(* has its own response timer (setTimeout) and retry counter               *)
(* (setNumberOfRetries), a retry repeats the same number, an answer to a   *)
(* number that is no longer outstanding is dropped, and losing the link    *)
(* finishes every outstanding request with an error.                       *)
(*                                                                         *)
(* Register contents are abstracted to the number of the controller state  *)
(* they show (see SignalCache); RegisterMap models their decoding.  What a *)
(* reply does to the analogs is told apart from what it does to the other  *)
(* signals: the analogs keep the first reply for good.  Discretes of other *)
(* words than the last are never decoded, and not meant here.              *)
(***************************************************************************)
EXTENDS Integers, Sequences, FiniteSets

CONSTANTS
    MaxRetries,       \* m_num_of_retries
    TicksPerTimeout,  \* most EmitTime calls between a (re)send and its timeout
    MaxTick,          \* bound: how many times EmitTime runs
    MaxPlc,           \* bound: how many states the controller goes through
    MaxAnswers        \* bound: how many answers are under way at a time

ASSUME PollerAssumption ==
    /\ MaxRetries \in Nat
    /\ TicksPerTimeout \in Nat \ {0}
    /\ MaxTick \in Nat
    /\ MaxPlc \in Nat \ {0}
    /\ MaxAnswers \in Nat \ {0}

VARIABLES
    link,     \* state() of m_modbusClient, "gone" once that is deleted
    ticks,    \* EmitTime calls so far; also the number of the newest request
    status,   \* request number -> how far it got
    left,     \* request number -> retries it still has
    age,      \* request number -> EmitTime calls since it was last (re)sent
    toPlc,    \* request numbers on their way to the controller
    fromPlc,  \* answers on their way back, [tid, ver]
    plc,      \* number of the controller's current register state
    first,    \* number of the register state the analogs show
    sig,      \* number of the register state of the latest reply decoded, which
              \* integers, qualities and the last word's discretes show
    shown,    \* first and sig as placeIn_PPD last offered them
    heldAt,   \* value of ticks when a reply was last decoded
    faulty,   \* a read was refused or ended in an error since then
    logged    \* request numbers for whose error a message was printed

wires == <<toPlc, fromPlc>>
timers == <<left, age>>
signals == <<first, sig, heldAt>>
vars == <<link, ticks, status, left, age, toPlc, fromPlc, plc, first, sig,
          shown, heldAt, faulty, logged>>

Tids == 1 .. MaxTick
Ended == {"applied", "failed", "refused", "aborted"}
Pending == {t \in Tids : status[t] = "pending"}

\* An exception response carries no registers; no register state has number 0.
ModbusException == 0

\* The response timers of the requests in T are gone.
NoTimer(timer, T) == [t \in Tids |-> IF t \in T THEN 0 ELSE timer[t]]

-----------------------------------------------------------------------------
(* Plausible mistakes in the code below; the runs must notice each of them. *)

\* The error of a reply is not looked at.
MutHasRegisters(m) == TRUE

\* Any answer that carries a known number is decoded.
MutIsAwaited(t) == status[t] # "none"

\* One retry too many.
MutResendOnceMore(t) ==
    /\ left' = [left EXCEPT ![t] = @ - 1]
    /\ toPlc' = Append(toPlc, t)
    /\ UNCHANGED <<status, faulty>>

\* The retry counter is not decremented.
MutResendForever(t) ==
    /\ left[t] > 0
    /\ toPlc' = Append(toPlc, t)
    /\ UNCHANGED <<left, status, faulty>>

\* The outstanding requests survive the loss of the link.
MutLinkDown ==
    /\ link \in {"connecting", "connected"}
    /\ link' = "unconnected"
    /\ UNCHANGED <<ticks, status, timers, wires, plc, signals, shown, faulty,
                   logged>>

\* prepareRead returns silently when the link is not connected.
MutPrepareRead ==
    \/ /\ link = "connected"
       /\ status' = [status EXCEPT ![ticks + 1] = "pending"]
       /\ left' = [left EXCEPT ![ticks + 1] = MaxRetries]
       /\ toPlc' = Append(toPlc, ticks + 1)
       /\ UNCHANGED <<faulty, logged>>
    \/ /\ link # "connected"
       /\ UNCHANGED <<status, left, toPlc, faulty, logged>>

-----------------------------------------------------------------------------
\* The oldest answer is read first, and counts only while its request waits.
NextAnswer == Head(fromPlc)
IsAwaited(t) == status[t] = "pending"

\* reply->error() is NoError: the answer is not an exception.
HasRegisters(m) == m.ver # ModbusException

\* What the analogs show after a reply with register state v: readMessage puts
\* the reply behind what ma_a_int_value has, but reads it from the front.
Analogs(v) == IF first = 0 THEN v ELSE first

\* Request t is repeated under its own number; its timer starts again.
Resend(t) ==
    /\ left[t] > 0
    /\ left' = [left EXCEPT ![t] = @ - 1]
    /\ toPlc' = Append(toPlc, t)
    /\ UNCHANGED <<status, faulty>>

-----------------------------------------------------------------------------
\* Init and connectOn: connectDevice is asynchronous, or fails at once, so the
\* read at the end of connectOn always finds the link not connected and is
\* refused.  The signals are still the zeros of the WS_signal constructor.
Init ==
    /\ link \in {"connecting", "unconnected"}
    /\ ticks = 0
    /\ status = [t \in Tids |-> "none"]
    /\ left = [t \in Tids |-> 0]
    /\ age = [t \in Tids |-> 0]
    /\ toPlc = <<>> /\ fromPlc = <<>>
    /\ plc = 1
    /\ first = 0 /\ sig = 0 /\ shown = <<0, 0>> /\ heldAt = 0
    /\ faulty = TRUE
    /\ logged = {}

\* The TCP connection is established; onStateChanged only logs.
Connected ==
    /\ link = "connecting"
    /\ link' = "connected"
    /\ UNCHANGED <<ticks, status, timers, wires, plc, signals, shown, faulty,
                   logged>>

\* QModbusTcpClient finishes every outstanding request with an error, for which
\* readReady does nothing.
FinishAll(outcome) ==
    /\ status' = [t \in Tids |-> IF t \in Pending THEN outcome ELSE status[t]]
    /\ faulty' = (faulty \/ Pending # {})
    /\ toPlc' = <<>> /\ fromPlc' = <<>>
    /\ left' = NoTimer(left, Pending) /\ age' = NoTimer(age, Pending)

\* The connection fails or breaks: the client's errorOccurred prints a message,
\* onStateChanged only logs, and nothing calls connectOn again.
LinkDown ==
    /\ link \in {"connecting", "connected"}
    /\ link' = "unconnected"
    /\ FinishAll("failed")
    /\ logged' = logged \cup Pending
    /\ UNCHANGED <<ticks, plc, signals, shown>>

\* ~PLC_connector disconnects, which is no error, and deletes the client; the
\* timer goes with the object.
Destruct ==
    /\ link # "gone"
    /\ link' = "gone"
    /\ FinishAll("aborted")
    /\ UNCHANGED <<ticks, plc, signals, shown, logged>>

\* prepareRead puts a new request on the link; sendReadRequest returns null when
\* the link is not connected, and only the log tells.
PrepareRead ==
    \/ /\ link = "connected"
       /\ status' = [status EXCEPT ![ticks + 1] = "pending"]
       /\ left' = [left EXCEPT ![ticks + 1] = MaxRetries]
       /\ toPlc' = Append(toPlc, ticks + 1)
       /\ UNCHANGED <<faulty, logged>>
    \/ /\ link # "connected"
       /\ status' = [status EXCEPT ![ticks + 1] = "refused"]
       /\ faulty' = TRUE
       /\ logged' = logged \cup {ticks + 1}
       /\ UNCHANGED <<left, toPlc>>

\* EmitTime: prepareRead, then, in the same handler, placeIn_PPD offers what the
\* signals hold already, whatever became of the read.  Qt serves expired timers
\* in the order of their deadlines, so no response timer can be overdue by more
\* than TicksPerTimeout calls: with a response time of D ms that is D/1000
\* rounded up, plus one for the call that is due while placeIn_PPD sleeps.
EmitTime ==
    /\ ticks < MaxTick /\ link # "gone"
    /\ \A t \in Pending : age[t] < TicksPerTimeout
    /\ ticks' = ticks + 1
    /\ age' = [t \in Tids |-> IF t \in Pending THEN age[t] + 1 ELSE age[t]]
    /\ PrepareRead
    /\ shown' = <<first, sig>>
    /\ UNCHANGED <<link, fromPlc, plc, signals>>

\* The response timer of request t fires: repeat it while retries are left,
\* otherwise finish it with TimeoutError, for which readReady does nothing.
ResponseTimeout(t) ==
    /\ IsAwaited(t)
    /\ \/ Resend(t)
       \/ /\ left[t] = 0
          /\ status' = [status EXCEPT ![t] = "failed"]
          /\ faulty' = TRUE
          /\ UNCHANGED <<left, toPlc>>
    /\ age' = [age EXCEPT ![t] = 0]
    /\ UNCHANGED <<link, ticks, fromPlc, plc, signals, shown, logged>>

\* readReady for the next answer: readMessage decodes the registers of a good
\* reply into the signals, though not into analogs that were decoded before, an
\* exception response changes nothing, and an answer to a request that is no
\* longer outstanding never gets this far.
ReadReady ==
    /\ fromPlc # <<>>
    /\ fromPlc' = Tail(fromPlc)
    /\ LET m == NextAnswer IN
       /\ \/ /\ IsAwaited(m.tid) /\ HasRegisters(m)
             /\ status' = [status EXCEPT ![m.tid] = "applied"]
             /\ sig' = m.ver
             /\ first' = Analogs(m.ver)
             /\ heldAt' = ticks
             /\ faulty' = FALSE
          \/ /\ IsAwaited(m.tid) /\ ~HasRegisters(m)
             /\ status' = [status EXCEPT ![m.tid] = "failed"]
             /\ faulty' = TRUE
             /\ UNCHANGED signals
          \/ /\ ~IsAwaited(m.tid)
             /\ UNCHANGED <<status, signals, faulty>>
       /\ left' = NoTimer(left, {m.tid}) /\ age' = NoTimer(age, {m.tid})
    /\ UNCHANGED <<link, ticks, toPlc, plc, shown, logged>>

-----------------------------------------------------------------------------
\* The controller serves requests in the order they arrive; it answers with
\* the registers of that moment, answers with an exception, or not at all.
PlcAnswer ==
    /\ toPlc # <<>> /\ Len(fromPlc) < MaxAnswers
    /\ toPlc' = Tail(toPlc)
    /\ \E v \in {plc, ModbusException} :
          fromPlc' = Append(fromPlc, [tid |-> Head(toPlc), ver |-> v])
    /\ UNCHANGED <<link, ticks, status, timers, plc, signals, shown, faulty,
                   logged>>

PlcIgnore ==
    /\ toPlc # <<>>
    /\ toPlc' = Tail(toPlc)
    /\ UNCHANGED <<link, ticks, status, timers, fromPlc, plc, signals, shown,
                   faulty, logged>>

PlcChange ==
    /\ plc < MaxPlc
    /\ plc' = plc + 1
    /\ UNCHANGED <<link, ticks, status, timers, wires, signals, shown, faulty,
                   logged>>

\* The bound on ticks is reached: the model, not the gateway, stops here; or the
\* object is gone, and only the controller is left.
Horizon == (ticks = MaxTick \/ link = "gone") /\ UNCHANGED vars

Next ==
    \/ Connected \/ LinkDown \/ Destruct
    \/ EmitTime
    \/ \E t \in Tids : ResponseTimeout(t)
    \/ ReadReady
    \/ PlcAnswer \/ PlcIgnore \/ PlcChange
    \/ Horizon

Spec == Init /\ [][Next]_vars

\* A started response timer does fire (Qt's event loop keeps running); nothing
\* is assumed of the controller, of the link or of EmitTime.
FairSpec == Spec /\ \A t \in Tids : WF_vars(ResponseTimeout(t))

-----------------------------------------------------------------------------
TypeOK ==
    /\ link \in {"connecting", "connected", "unconnected", "gone"}
    /\ ticks \in 0 .. MaxTick
    /\ status \in [Tids -> {"none", "pending"} \cup Ended]
    /\ left \in [Tids -> 0 .. MaxRetries]
    /\ age \in [Tids -> 0 .. TicksPerTimeout]
    /\ toPlc \in Seq(Tids)
    /\ fromPlc \in Seq([tid : Tids, ver : 0 .. MaxPlc])
    /\ plc \in 1 .. MaxPlc
    /\ first \in 0 .. MaxPlc /\ sig \in 0 .. MaxPlc
    /\ shown \in (0 .. MaxPlc) \X (0 .. MaxPlc)
    /\ heldAt \in 0 .. MaxTick
    /\ faulty \in BOOLEAN
    /\ logged \subseteq Tids

\* How many EmitTime calls a request can stay outstanding.
Lifetime == (MaxRetries + 1) * TicksPerTimeout

\* EmitTime sends a new request every second whether or not the earlier ones
\* were answered (prepareRead never looks): their number is bounded only by
\* the retries and the timeout together.
OutstandingBounded == Cardinality(Pending) <= Lifetime + 1

\* If no reply was decoded for longer than a request can live, a read was refused
\* or failed in between: there is an error that could have told the channel that
\* the values are stale, however the timers, the retries and the late answers
\* interleave.  (The analogs are stale from the second reply on, without one.)
StaleHasAnError == ticks - heldAt > Lifetime + 1 => faulty

\* A request ends once: an answer to an earlier copy of it that comes after
\* its last timeout, after the link was lost or after another answer is not
\* decoded into the signals and revives nothing.
OutcomeIsFinal ==
    [][\A t \in Tids : status[t] \in Ended => status'[t] = status[t]]_vars

\* Neither connected nor about to be.
LinkLost == link \in {"unconnected", "gone"}

\* Once the link is lost nothing that happens changes the signals or the link
\* again: no timer, no retry and no answer still under way (onStateChanged
\* logs, and connectOn is called from Init only).
LinkLossIsFinal ==
    [][LinkLost => LinkLost' /\ UNCHANGED signals]_vars

\* Every request that is sent ends, whatever the controller and the link do.
EveryRequestEnds ==
    \A t \in Tids : status[t] = "pending" ~> status[t] \in Ended

\* readReady's comments say that it outputs a message for a protocol error and
\* one for every other error of a reply.  (For a link that fails the client prints
\* one itself, and a read that ends with the object is not counted.)
ErrorsAreLogged == \A t \in Tids : status[t] = "failed" => t \in logged

\* What is decoded never goes back to an older state of the controller and never
\* is one it was not in, while the analogs keep the first one; a placement offers
\* what the signals hold, which from the second reply on is a mix of the two.
Cache == INSTANCE SignalCache
           WITH world <- plc, kept <- first, held <- sig, offered <- shown
ImplementsSignalCache == Cache!Spec
=============================================================================
