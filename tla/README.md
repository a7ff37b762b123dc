# gate_rasu_v3 in TLA+

gate_rasu_v3 is a gateway: it polls the holding registers of a controller over
Modbus TCP and puts the decoded signals into a channel of the DTS data bus
("ППД"). The repository holds the gateway class `PLC_connector`
(`src/plc_connector.cpp`), a test program (`main.cpp`) that feeds the channel
with random values, and the DTS client library as a binary (`libs/libdts`).
`CMakeLists.txt` builds the test program only; the gateway class has no `main`
in the repository.

## The system

| part | state | operations |
|---|---|---|
| Polling | the Modbus client's link and outstanding requests, the one second timer | `connectOn`, `onStateChanged`, `EmitTime`, `prepareRead`, `readReady` |
| Register decoding | values and qualities of the signals, `ma_a_int_value` | `readMessage`, `readBit`, `readQualityReg` |
| Start-up and placement | `m_params`, the timer, the member client, the static `value` | constructor, `Init`, `placeIn_PPD` |
| DTS client (external) | one library state per process, one state per object | `DTSClient()`, copy, `~DTSClient()`, `put`, check thread |
| signals.ini | signal lists, settings, the current section | `readSignalsFile`, `readIniSection`, `FindTypeSignal`, `PrepareDiffSigLists` |
| Test feed | two vectors, the loop variable | `main` |
| Logging | none | `printLogs` |
| Signal and value objects | fields only | `WS_signal`, `WS_gr_signal` (empty), `make...Value` (external) |

How they meet. The constructor runs `Init`, which reads signals.ini, constructs
a second client of its own and then either places test values once (`--SIMUL`)
or opens the link and starts the timer. From then on everything runs on one Qt
event loop: `EmitTime` sends a read and, before any answer can come, places
what the signals hold; `readReady` decodes an answer into the signals. The
controller, the network, the channel and the check thread of the DTS library
act between and beside those handlers.

What is hard here:

- *Polling*: requests are sent every second whether or not the earlier ones were
  answered; timers, retries with the same transaction number, late answers,
  exceptions and the loss of the link interleave; nobody reconnects; errors
  vanish. It is correct if a request has one outcome, if no reply is decoded that
  is older than the one before, if requests do not pile up without bound, and
  if the end of replies leaves a trace.
- *Decoding*: counts, widths and offsets of registers, of which some round up
  and some down; a buffer that survives from reply to reply. It is correct if
  each signal shows its own registers in the latest reply.
- *Placement*: client objects that are copied and destroyed around one library
  state; values that are put one by one with an early return. It is correct if
  the channel gets each signal of a placement, in order, from a live client.
- *signals.ini*: titles, section names and signals are looked for anywhere in
  every line, in what earlier searches left of it; fields are taken without
  counting them. It is correct if a setting is what its line says, a signal is
  filed in its section and gets one index, and no line takes the process down.
- *Gateway*: all of this shares one thread. It is correct if the parts keep
  their promises on it, reads end although placements block it, and what was
  read reaches the channel.
- *Test feed*: an index one past a vector, pairs of values put one after another,
  an error path that parks the program.

The full list of hazards, with their lines, is in `PROJECT.json`.

## The modules

| module | models | kind |
|---|---|---|
| `SignalCache` | what polling promises to the rest of the gateway | abstract specification |
| `Poller` | polling, with controller and network | detailed specification, implements `SignalCache` |
| `Freshness` | `Poller` with a record of the controller's past | history variable, the runs of the polling side |
| `PollerProofs`, `FreshnessProofs` | theorems about `Poller` and `Freshness` | TLAPS |
| `RegisterMap`, `MCRegisterMap` | decoding of replies | one step per register |
| `RegisterMapProofs` | theorems about `RegisterMap` | TLAPS |
| `DtsClient` | client objects and the library's state (external) | operators and invariants |
| `Placement`, `MCPlacement` | start-up and `placeIn_PPD`, composed with `DtsClient` | one step per put |
| `PlacementProofs` | theorems about `Placement` and `DtsClient` | TLAPS |
| `Gateway`, `MCGateway` | `Poller` and `Placement` on one event loop | composition, implements `Placement` |
| `GatewayProofs` | theorems about `Gateway` | TLAPS, uses the proofs of both parts |
| `SignalsIni`, `MCSignalsIni` | reading of signals.ini | one step per line |
| `SignalsIniProofs` | theorems about `SignalsIni` | TLAPS |
| `MainFeed` | `main.cpp` | one step per put |
| `MainFeedProofs` | theorems about `MainFeed` | TLAPS |

### Poller

`link` is `m_modbusClient->state()`; `status`, `left` and `age` are the
client's outstanding requests with retries and response timers; `toPlc` and
`fromPlc` are the two directions of the TCP stream. Register contents are
abstracted to the number of the controller state they show: `plc` is the
controller's own, `sig` that of the latest reply decoded, which integers, qualities
and the last word's discretes show, and `first` that of the first reply, at which the analogs stay
(`Analogs`; `RegisterMap` shows why, and that the discretes of other words are
never decoded at all). `shown` is the two as the last placement
offered them. `heldAt` and `faulty` record when a reply was last decoded and
whether a read was refused or failed since, and `logged` for which reads' errors
a message was printed.

`EmitTime` is the whole handler: `prepareRead`, then the placement.
`ResponseTimeout` is the expiry of one response timer, `ReadReady` the handler
for one answer, `Connected` and `LinkDown` the two state changes that
`onStateChanged` only logs; a link that fails also makes the handler print that
`connectOn` gave to `errorOccurred`, so `LinkDown` logs every read it ends.
`Destruct` is the destructor: it disconnects, which ends the outstanding
requests ("aborted") without an error, and deletes the client ("gone").
`PlcAnswer` (registers of that moment, or an
exception), `PlcIgnore` and `PlcChange` are the environment. `Init` covers the
two results of `connectDevice`; `connectOn`'s own read is always refused because
connecting is asynchronous.

What is taken of `QModbusTcpClient`: a number for each request, several
outstanding at a time, a timer and a retry counter for each, retries under the
same number, answers to unknown numbers dropped, and all outstanding requests
finished with an error when the link is lost.

`TicksPerTimeout` is the largest number of `EmitTime` calls between the start of
a response timer and its expiry. For a response time of D ms it is
ceil(D/1000) + 1: Qt serves due timers in the order of their deadlines, and
because `placeIn_PPD` sleeps two seconds one call may be overdue already when
the response timer becomes due. The default of 500 ms gives 2.

### Freshness

`Freshness` extends `Poller` by `plcAt`, the controller's state at each call of
`EmitTime`, and nothing else: its steps are those of `Poller`. With it two
properties about age can be stated. `DecodedIsRecent`: what is decoded is no
older than a request can live, although answers may be delayed and copies of one
request answered twice. `ReadComesToSomething`: each read either brings
integers, qualities and the last word's discretes up to its own time or is refused, failed or
aborted. Both, and `StaleHasAnError`, are about replies: the analogs ignore all but
the first and grow older without any error.

### RegisterMap

`a`, `d`, `n` and `aQ`, `dQ`, `nQ` are the value and quality fields of the three
signal lists, `buf` is `ma_a_int_value`, `unit` is `readReady`'s loop variable.
A step runs `readMessage` for one register; properties speak of the states
between replies, because the code decodes a reply without returning to the event
loop. A float is kept as the pair of registers its bits come from. The constants
that signals.ini gives are a record `conf`.

### DtsClient and Placement

`lib` is the library's own flag, `obj` the state of each client object: the
member, the local one of `Init`, and the parameter of `placeIn_PPD`. The library
has no source here; `DtsClient` says what the code in `src/` meets: the second
object constructed while the library is up is refused (`NotInit`), the implicit
copy constructor copies a state and nothing else, and the destructor of an
object that was not refused takes the library down.

`Placement` composes it with the constructor, the destructor, `Init` and
`placeIn_PPD`. `pc` says
where the thread is, `next` which signal is put next, `chan` from which
placement the channel has each signal. `bad` are signals that `makeAValue`
rejects (the float in the registers is not a number). `outage` records that
something outside the gateway stood in the way of a placement, so that
`PlacementPlaces` blames the code only.

### Gateway

`Gateway` instantiates both sides and says which handler may run when. A call of
`EmitTime` is one step of both; `readReady`, the response timers and the state
changes of the link run only between handlers, that is while `pc` is "idle" and
the timer was started; the controller acts at any time. A reply is a step of
`Poller` and, if it is the first that is decoded, settles `bad`, since the analogs
keep it for good. A placement therefore carries the analogs of the first reply
and the rest of the latest (`Carried`). `sent` is the register state each
value in the channel was decoded from. `Poller`'s initial choice of `link` stands
for what `connectDevice` will return; no handler acts on it before `Init` has
started the timer, and in `--SIMUL` mode none ever does. `Destruct` is the
destructor: it disconnects, ends what is outstanding, and destroys the member
client.

`ImplementsPlacement` shows that `Placement`'s own guess of when the first reply
can come is right. That the gateway polls as `Poller` says is proved
(`ImplementsPolling`), and with it everything `Poller` promises (`PollingHolds`).

### SignalsIni

A line is a sequence of tokens: words the code searches for, digits, commas and
other text; `eq` says that "=" follows a word. What the searches leave of it is
the same function on fewer positions, since they only take tokens out. They leave
no gap: `Port=502 Num_rgstr=66` becomes `50266`, and that is what `ToUInt` reads
(`Joined`). `ReadLine` is the whole of
`readIniSection`: the host (whose commas become dots), the seven titles in the
order of the code, each searched in what the earlier ones left (`Left`), then
`FindTypeSignal`, then `PrepareDiffSigLists`. `settings`, `host`, `kind` and
`signals` are the members it sets; a signal is the number of its line, because
its name, register numbers and simulation value are stored and never read. A
field that is not there is undefined behaviour: the process ends or the signal is
filed all the same. A file that cannot be opened returns 0 without a line, a
stream error returns -1 with what was read (`state` "returned" and "failed"). `kind` starts with any value, since
`m_type_sig` is not initialised.

`UIntSize` is the number of values of C++'s `uint`; `toUInt` returns 0 for digits
beyond it. What stays out is text: it is taken not to join, across what a search
took out, to a word the code looks for, and not to be one of the few things
`toUInt` skips (a plus sign, white space other than blanks).

### MainFeed

`pc`, `i`, `round` follow `main`'s loops; `analog`, `binary`, `integer` are what
the channel took last. Writing past the vector is undefined behaviour: from
then on the process may abort at any step or carry on.

## What is checked

| run | bounds | shows |
|---|---|---|
| `poller` | 1 retry, timeout of 1 call, 3 calls, 2 controller states, 2 answers under way | requests end, one outcome per request, each is decoded or fails; link loss is final; implements `SignalCache` |
| `poller_bounds` | 1 retry, 5 calls, 2 controller states, 1 answer under way | bound on outstanding requests, a long time without a reply implies an error, bound on the age of what is decoded |
| `placement` | both modes, four signal lists, 3 placements | what the channel gets, in which order and from which placement |
| `register_map` | eight configurations, 3 replies of two images | what the signals hold after each reply |
| `signals_ini` | files of up to 4 lines out of 17 | settings, sections, indices, short lines |
| `gateway` | both modes, no signals or an analog and a discrete, 3 calls, 1 retry, 2 controller states, 1 answer under way | nothing read reaches the channel, implements `Placement`, reads end |
| `main_feed` | loops of 3, 3 and 2 instead of 17, 8 and 5, two rounds | torn pairs, the write past the vector, each round ends or the program stops |

Why the bounds are enough. With one retry a request lives for two timeouts, so
three calls let an old request be answered while newer ones wait, two
controller states tell an old answer from a new one, and two answers under way
let an exception and a good reply, or two answers to one request, follow each
other. `poller_bounds` needs more calls than `Lifetime` + 2 (4) so that
requests can pile up to the bound, the last reply can become older than a request, and
a request sent later than the one decoded can be that old;
one answer at a time suffices, since these properties are about missing and late
answers. Three placements are one more than the
first that can differ from its predecessor. Two replies tell the first from the
latest, the third shows that the buffer goes on growing. In
`gateway` the first placement may succeed, the second ends the process or finds
nothing it can put, and the third shows that the loop goes on in the latter case.
Four lines of signals.ini hold a section title, a stray line that mentions
another kind or a title, a signal, and a second title after it. The
lines are the well-formed ones and one of each way to go wrong: numbers too large
for the member, two titles in a line with one number or with two, two whose joined
digits are just too many for `toUInt`, a remark, signals called after a kind, a
title or the host, a short signal, a title with the word Signal in it. `UIntSize`
is 2^26 instead of 2^32, because TLC's integers have 32 bits: still wider than any
setting and a multiple of their widths. The configurations of
`MCRegisterMap` are the deployed one and those at the edges of the layout: more
analogs than registers for them, full and multiple words of discretes, one
signal more than a quality register holds, fewer registers than the layout,
qualities before the values. For every safety property of a passing run the
theorems below remove these bounds; the liveness properties rest on them.

Five properties state what a comment says and are violated by the code:

| run | comment | what happens |
|---|---|---|
| `poller_errors` | `plc_connector.cpp:458,462` | a timeout or an exception response is not output by anyone |
| `placement_work` | `plc_connector.cpp:683` | the second placement of a run does not reach the channel: the first one's copy of the client took the library down |
| `placement_simul` | `plc_connector.h:70` | `--SIMUL` places nothing: `Init`'s second client is refused |
| `register_analog` | `ws_signal.h:19` | analogs keep the first reply |
| `register_discrete` | `ws_signal.h:20` | with more than 15 discretes the first word is never decoded |

Several passing properties describe the same behaviour from the other side:
`OnlyFirstPlacementReaches`, `LaterReturnsAreIdle`, `SimulNeedsFailure`,
`AnalogsKeepFirstReply`, `OnlyLastWordIsRead`, `NoIntegerWithoutOverrun` say
exactly how far the damage goes, and that it has no other source.
`ChannelHasNoReading` is their sum for the whole gateway: of everything the
controller ever sends, nothing reaches the channel.

Deadlock is checked in `Poller`, whose only stop is the bound on calls
(`Horizon`). It is not checked in `Placement` (the process may crash, or sit in
an event loop without a timer) and `Gateway` (for the same reasons),
`RegisterMap` (a bounded number of replies), `SignalsIni` (the file ends) and
`MainFeed` (the program exits or parks).

### Fairness

`Poller` and `Freshness`: weak fairness of `ResponseTimeout(t)`, because Qt's event loop goes on
serving expired timers as long as the process lives; none of the controller,
the network or `EmitTime`. `Placement`: weak fairness of `PutNext`, `Finish` and
`Return`, which are successive statements of one function on a running thread
(`put` itself does not block on a full channel, it warns). `Gateway`: weak
fairness of the thread's own steps and of each response timer; a timer that is
due is served as soon as the placement returns, because Qt serves timers in the
order of their deadlines and `EmitTime` cannot overtake one that is overdue. `MainFeed`: weak
fairness of the program's own steps, for the same reason; not of `Abort`.

## What is proved

Every safety property of every passing run is a theorem, for all values of the
constants that the named assumption of its module allows: any number of retries,
calls, placements, replies, lines and rounds, any signal list, register layout
and register contents. The bounds (`MaxTick`, `MaxPlc`, `MaxAnswers`,
`MaxCycle`, `MaxReplies`, `MaxLines`, `MaxRound`) are arbitrary naturals in the
proofs. Each inductive invariant, and not only the property it was found for, was
checked with TLC on the instance of the module's run before it was proved.

| module | theorem | states |
|---|---|---|
| `PollerProofs` | `TypeCorrect` | `TypeOK` |
| | `Invariance` | the inductive invariant `IndInv` |
| | `OutstandingIsBounded` | `OutstandingBounded` |
| | `StalenessHasAnError` | `StaleHasAnError` |
| | `OutcomesAreFinal`, `LinkLossFreezes` | the action properties `OutcomeIsFinal`, `LinkLossIsFinal` |
| | `Refinement` | `ImplementsSignalCache` |
| `FreshnessProofs` | `RepliesAreRecent` | `DecodedIsRecent` |
| `RegisterMapProofs` | `Invariance` | the inductive invariant |
| | `AnalogsAreFrozen`, `IntegersFollow`, `LastWordAlone`, `QualitiesFollow` | `AnalogsKeepFirstReply`, `IntegersAreLatest`, `OnlyLastWordIsRead`, `QualityIsLatestOrGood` |
| `PlacementProofs` | `TypeCorrect`, `Invariance` | `TypeOK`, the inductive invariant |
| | `OneOwner`, `OnlyTheFirstReaches`, `TheFirstIsSafe` | `SingleOwner`, `OnlyFirstPlacementReaches`, `FirstPlacementIsSafe` |
| | `PlacementsAreInOrder`, `LaterReturnsHadNothing`, `SimulationNeedsFailure` | `PlacedInOrder`, `LaterReturnsAreIdle`, `SimulNeedsFailure` |
| `GatewayProofs` | `ImplementsPolling`, `PlacementRefinement` | `Gateway` implements `Poller` and `Placement` |
| | `PollingHolds`, `PlacementsHold` | what the two parts promise holds of the whole |
| | `NoReadingReachesTheChannel` | `ChannelHasNoReading` |
| `SignalsIniProofs` | `TypeCorrect`, `Invariance` | `TypeOK`, the inductive invariant |
| | `SettingsAreTheirLastLines`, `SectionsAreKept` | `SettingIsItsLastLine`, `SectionsHold` |
| | `PlacesAreUnique`, `CrashesAreShort` | `EverySignalHasOnePlace`, `CrashNeedsShortLine` |
| `MainFeedProofs` | `BinaryFollowsInteger`, `IntegersFollowTheOverrun` | `BinaryIsParity`, `NoIntegerWithoutOverrun` |

### Polling

None of the properties is inductive alone. The invariant has five parts
beside `TypeOK`:

- `NumberInv`: request t is sent by the t-th call of `EmitTime`, so that the
  numbers above `ticks` are unused.
- `TimerInv`: the calls since t was sent are accounted for by the retries it
  spent and the age of its timer, so that a pending request is at most
  `Lifetime` calls old.
- `FreshInv`: without an error since the last reply every request sent after it
  is still waiting, so that a long silence without an error would need a
  pending request older than `Lifetime`.
- `LinkInv`: nothing is pending unless the link is connected.
- `OrderInv`: answers under way carry controller states in ascending order, none
  newer than the controller and, exceptions aside, none older than the
  latest reply decoded.

`TimerInv` gives `OutstandingBounded` by counting the interval of pending
numbers; `TimerInv` and `FreshInv` give `StaleHasAnError`; `NumberInv` keeps an
ended request from being sent anew; `LinkInv` makes link loss final; `OrderInv` gives the
refinement, with `world <- plc`, `kept <- first`, `held <- sig`,
`offered <- shown`. `LinkDown` and `Destruct` end everything pending in the same
way; `AllFinished` says once what that leaves.

`FreshnessProofs` adds to it that the marks `plcAt` ascend and are no newer than
the controller (`MarkInv`) and that an answer under way is no older than the
mark of its request (`WireInv`), retries included. When a pending request is
answered, the answer is no older than its mark, and by `TimerInv` the request is at
most `Lifetime` calls old; what was refused or dropped decodes nothing.

### Decoding

The properties of `RegisterMap` speak of the states between replies; in the middle
of a reply they hold of the registers that were read so far (`IsRead`), and
that is inductive. Each register writes only its own signals, so that
`IntegerInv`, `DiscreteInv` and `QualityInv` need the shape of the lists
(`ShapeInv`) and the arithmetic of words and bits only. The analogs need
`BufferInv`: how long the buffer is after each register of each reply, and that
its beginning is the first reply's. An analog reads the buffer at the number of its
register, which from the second reply on lies in the first reply's part, so that
it stays what it was.

### Placement

All properties come from who believes to own the library. `PhaseInv` says at
which times each place of the thread is reached, `MemberInv` and `OwnerInv`
which of the originals owns the library, `FirstInv` that until the first
placement returns a client that is Ok really has it, `DownInv` that afterwards
it is down for good. `ArgInv` and `LateInv` follow the copy of a later placement,
`PolledInv` orders replies and placements, `PrefixInv` relates the channel to
`next`, and `SimulInv` does for `--SIMUL` what `FirstInv` does for polling.

### Gateway

A step of `Gateway` is a step of `Poller` or leaves its variables alone, hence
`PollerProofs` applies. The other side is not free: `Placement` takes for
granted that the first reply comes after the first placement, and here that has
to follow from the polling. `SettledInv` says that a request was sent only if a
placement was made, that `sig` is not zero exactly once a reply was decoded, and
`first` not before; with `NumberInv` of
`Poller`, a reply to a pending request implies a request, thus a placement.
Then `PlacementProofs` applies, and its `DownInv` and `PolledInv` together show
that a put that reaches the channel comes before the first reply.

### signals.ini

The properties speak of the last line with a title, the last line up to a signal's
own that names a kind (`Naming`), the place of a line in a list. Each step adds one line, so the proof carries a
witness of the last one along (`IsLast`) instead of an induction over the lines.
`SettingInv`, `SectionInv` and `PlaceInv` state the properties with that
witness; `KindInv` says under which kind the next signal would be filed, and
`OrphanInv` that as long as no line named a kind all signals have the present one,
whatever it was at the start. The lemma that makes
the step go through is `SettingFacts`: although each search sees what the
earlier ones left, what a title sets is a function of the line alone
(`Meant`). The lines are any sequences of tokens.

### Test feed

`BinaryIsParity` says nothing of the pass under way; `PassInv` adds that the
binary put in it is the parity of the sample that the integer will get. For
`IntegersFollowTheOverrun` the hypothesis `FloatVector < AnalogLoop` is the code's
own: `main` declares 16 elements and loops over 17. `IntactInv` says that as
long as nothing was overwritten the program is still in its first analog loop.

### Assumptions

`PollerAssumption`, `PlacementAssumption`, `RegisterMapAssumption`,
`SignalsIniAssumption` and `MainFeedAssumption` give the constants their types
and say what the code says of them: a timeout lasts at least one call, the
signals of a list are of the four kinds, an image has a word for each register that
is requested, an integer loop is no shorter than the part of it that puts
binaries. `GatewayAssumption` is the first two together. TLC evaluates each of
them on the module's run.

### Only model-checked

- Liveness: `EveryRequestEnds`, `ReadComesToSomething`, `PlacementEnds`,
  `ReadEndsOrProcessDies`, `RoundEnds`. They rest on fairness, that is on when
  actions are enabled, which the proof system does not handle.
- The five properties that the code violates. Their counterexamples are behaviours
  of an instance; the theorems say what holds in their place for all constants.

## Not modelled

- signals.ini and the rest are not composed: what the file says is a constant of
  `RegisterMap` and `Placement` (the empty list included).
- Titles as parts of longer words: a token stands for a text that contains the
  title, whatever surrounds it.
- `testSignals`: fills in fixed values that can all be put; part of
  `ConstructLocal`.
- The receive side of the DTS client, `rcvFunc` (decodes and drops), stop, start
  and trans operations: unused by the code.
- Groups all carry index 0, and every write of one group replaces the other:
  visible only to the consumer of the channel.
- `printSingnals`, `EmitTimeDiag`, `placeIn_PPD_2_manual`,
  `placeIn_PPD_4_manual`: output only, or never called.
- Logging, time stamps, and the text of messages.

## Plan

1. `Poller` with `SignalCache`, checked and proved (done).
2. `RegisterMap`, `DtsClient` with `Placement`, `MainFeed`, checked (done).
3. `SignalsIni`, checked (done).
4. `Gateway`, checked (done).
5. `Freshness` with `FreshnessProofs`, checked and proved (done).
6. `RegisterMapProofs`, `PlacementProofs`, `MainFeedProofs`, `SignalsIniProofs`
   (done).
7. `GatewayProofs`: both refinements and what the parts promise, carried over to
   the whole (done).
8. Action properties of `Placement` and `SignalsIni` (what a placement or a line may
   never take back), each with a run, a mutant and a theorem.
