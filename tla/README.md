# A model of tbot

tbot is a Django program that runs trading bots on Binance. Algorithms place
orders; one process per exchange connection listens to Binance and runs a
callback of the algorithm when an order ends; operators stop bots and cancel
orders with management commands. These parts are separate processes. They share
the MySQL tables and the exchange, nothing else: no transaction spans two
statements and no lock is taken. This directory models that sharing in TLA+,
checks it with TLC on small instances and proves its safety properties with
TLAPS for any number of orders and commands, most of them for any number of
workers too. Every safety property a passing run checks is also a theorem, under
conditions named below where it needs them.

## Inventory

| part | source (under `src/`) | state it keeps | operations |
|---|---|---|---|
| order and bot rows | `tbot/models.py` | `tbot_order`, `Bot.status` | ORM statements, each its own transaction |
| placing orders | `tbot/exchanges/exchanges.py` 15-18, 74-350, 380-507 | the object(s) just inserted | `new_order_*`, `on_error_order` |
| cancelling orders | `exchanges.py` 353-370, `algorithms/algorithm.py` 59-73, `commands/order_cancel.py` | objects read earlier | `cancel_order`, `cancel_open_orders` |
| order callbacks | `exchanges.py` 556-611, `services.py` 32-75, `algorithm.py` 18-36, `algorithms/DCA1.py` | the order, its peer, the bot as read | `_callback_order`, `execute_order_callback`, `disable_on_cancel`, `stop` |
| Binance adapter | `exchanges/binance.py` | client, socket, queue of reports | create, cancel, history, `execution_report` |
| user data stream supervisor | `user_data_streams.py` | `_processes`, threads, processes | START, STOP, restart, emergency end |
| commands queue | `lib/rabbitmq.py` | RabbitMQ queue | `send`, `listen` |
| `bot_stop` | `commands/bot_stop.py` | bot and orders read before its prompt | freeze, keep, revert |
| `bot_create`, `order_callback` | `commands/` | none | validation and start; forced callback |
| fake exchange | `exchanges/fake.py`, `commands/fake_*` | none | calls `_callback_order` in the caller |
| database wrapper | `db/connection/base.py` | connection | reruns a statement after a lost connection |
| arithmetic | `binance.py` 263-280, `lib/lib.py` | none | rounding, percent parsing |
| function cache | `lib/cache.py` | the key in a closure | `cached` |
| reference data | `binance_symbols_load.py`, `user_*` | symbols, users | load, list |

How they interact. An algorithm inserts a row (NEW), calls the exchange, and
learns the rest from reports. The worker of the connection opens its socket,
compares `get_all_orders` with the table, then handles reports one by one on
one thread; both ways end in `_callback_order`, which writes the status and, if
the bot is ON, starts the callback of the order or of its OCO peer. A callback
may place orders or stop the bot, which cancels the ACTIVE orders. Commands do
the same from other processes. The supervisor starts a worker again whenever it
ends; a worker ends itself after 23 hours.

What is hard here: objects are read, kept across calls to the exchange, prompts
and whole callbacks, and then saved with *every* column; a call may raise
although the exchange did what was asked; reports are lost while the socket is
closed and may be older than what a synchronisation has written; a process may
die between any two statements, and nothing but the next comparison repairs
what it left; two workers may serve one connection. `PROJECT.json` lists each
of these under "hazards" at the line where it bites.

What makes each part correct: the table never claims an end that did not happen
(rows); a lost answer does not lose the order (placing); cancelling never
undoes what the worker recorded and leaves no listed order behind (cancelling,
`bot_stop`); a callback comes after the end of its order, once, for one leg of
an OCO, and is never dropped without a reason one can name (callbacks); the
table converges to the exchange (adapter); one worker at a time per connection
(supervisor).

## Modules

From `OrderStore` to `OrderFlow` each module extends the one before it.

- `OrderStore`: the rows and the statements on them. `row[o]` keeps `status`,
  `callback_status` and whether the executed quantities are there; prices,
  sizes and the pickled callback are left out because no step decides on them.
  `updated_at` is compared in one place only, `updated_at < time_start`, so it
  is kept as `fresh[w]`: the rows nobody has written since the `time_start` of
  worker `w`'s synchronisation. The time a statement is given and its execution
  are one step. Of Bot.Statuses only the three the program ever writes are kept.
- `Binance`: the exchange as the adapter uses it (external): an order goes live,
  may be partially executed, and ends; the legs of an OCO end together and
  their reports come in either order; each open socket gets every report in
  order, a closed one gets none. PARTIALLY_FILLED has no case in the handler
  nor in the synchronisation, so it is a status without a report. `old` holds
  the orders that `get_all_orders` leaves out: without a limit it answers with
  the last 500 orders of the symbol (`binance.py:46-47`), those of anybody on
  the account. `PushOut` takes an order out of them at any time and in any
  order, since others decide how fast 500 newer ones come.
- `OrderPlacement`: `new_order_*`. `place[p]` is where a process is: the rows
  are inserted, the call is accepted, rejected, or raises although it was
  accepted (`late` remembers those), and `on_error_order` saves the inserted
  object whole, ERROR and WAITING included. The three statements that insert
  and link the legs of an OCO are one step: nobody can look the rows up before
  the call.
- `OrderCancel`: `cancel_order` and the loops around it. `cancel[p].snap` holds
  the objects as they were when the list was evaluated; `Reload` looks at the
  row now, `FetchPeer`/`SavePeer` and `SaveOwn` write old objects whole,
  `CancelCall` and `CancelRaises` are the call.
- `OrderCallback`: one worker. `wk[w]` is where it is in socket opening,
  synchronisation, `_callback_order` or a callback, with the objects it holds.
  One action per ORM statement or exchange call; two reads with no write of the
  same process between them are merged where the second decides nothing new
  (the comparison's read with `_callback_order`'s own, `disable_on_cancel`'s
  look at the peer with `bot.save()`). Synchronisation and reports share one
  thread, so they do not overlap inside one worker. The callback of an order is
  a method of an algorithm (none is in the repository): it may place one order
  or OCO, do nothing, or raise; it is assumed to be decorated with
  `disable_on_cancel`, as DCA1 provides for. `Compared` is what a
  synchronisation sees: accepted orders that are not in `old`.
- `OrderFlow`: the commands (`StartPlacement` for `Algorithm.start`,
  `order_cancel`, `bot_stop` freeze and keep), faults, the whole system's
  `Next`, and the properties. A `bot_stop` that finds no order at all may also
  end with an exception before its prompt: a bot without a round
  (`bot_stop.py:41`).
- `MCOrderFlow`: the small instances. `OrderFlowProofs`, `CallbackProofs`,
  `ContractProofs`, `ListedProofs`: the proofs.

`CallbackContract` is the abstract specification: what an algorithm may rely on
when its callbacks are started. Its state is which orders are over, how often
each callback was started, and which orders are outside the promise; a step may
start callbacks of orders that are over, that were not called, and whose peer
was not. `OrderFlow` implements it with `over` the orders ended at the
*exchange* (not in the table), `calls` its history `runs`, `void` the orders in
`late`; `FakeExchange` with `over` the orders whose *row* is final, which is all
the end a fake order has, and `void` what `order_callback` was used on. In both
it is the property `KeepsContract`.

`FakeExchange` is the second exchange the code can be run on. There is no
stream and no worker: the operator's commands report fills, cancellations and
expiries, and `_callback_order`, the callback and whatever that places or
cancels run inside the caller. One operator types the commands, so a command is
one action; `fake_order_fill` and `bot_stop` ask first and are two, holding
across the prompt what they read before it. What a command does is computed as
the set of worlds (tables and history) it can end in, by operators that call
each other as the methods do: `Report` is a report of the operator, which
`CallbackOrder` writes and passes on; `Follow` runs the callback it came to, a
`Method` that may place and cancel. The program's own placements and
cancellations are reported too (`OwnReport`), and could start a callback inside
the callback under way. `nested` records that one did, and the model does not
follow it; `NeverNested` says, and a theorem proves, that it never happens, so
this cut leaves nothing out, and no operator needs to call itself. It has the
whole of `bot_stop`, the sale of `revert` included:
orders trade one unit, all of them are in the last round, and the sale is the
order `Sale`. `order_callback` is used once per order, which bounds the history.
`CreateBot` stands for `bot_create` with the algorithm's `start`, placing one or
two orders or pairs. `MCFakeExchange` holds its instance, `FakeExchangeProofs`
its proofs.

`BotCreate` is the other end: `bot_create` checks its options against one
reading of the price, asks, saves the bot OFF, sends START and starts the
algorithm, while the price moves. An option is the text Python has of a float,
digits before and after the point, because `percent_to_float` moves the point in
that text; `Value` is its integer at `Places + 2` decimals, and a price is a
number of `Units`-ths, so that a price of 4.5 and the default `min_step` of
0.001 (`models.py:96`) are instances like any other. The command multiplies
floats: a `Product` is the exact product and `Rounding`, how many floats the
product fell beside it. That is all rounding can decide: numbers of up to 15
digits are told apart by doubles, so two that differ are never exchanged, and
two that are the same parse to the same float, but a product may miss it. At
price 9 the default least step is 0.001 * 9 = 0.009000000000000001; a step of
"0.009" is refused and one of "0.1%", which is the same product, accepted.
`FormsAgree` leaves out this one value, the step that means exactly `min_step`,
and holds everywhere else. Left out: texts with an exponent or a sign, and the
two options stored unchecked (`delay`, `step_down_delta`). The model keeps what
the code does where its text says otherwise: `lot_multiplier_down` is refused at
0 only ("should be grater than 0", `bot_create.py:62-63`), and no step is
compared with the price limit ("User.Min_step <= Step <= price_limit", the
comments at 98 and 115 and the help texts at 244 and 256). `MCBotCreate` holds
its instance, `BotCreateProofs` its proofs.

`StreamManager` stands beside them: `user_data_streams.py`, the program whose
processes are the workers of `OrderFlow`. `main` is the main thread (listening,
between the statements of STOP, in the sweep of `exception_handler`, or gone and
waiting for its threads), `slot[c]` is `_processes[c]`, `thread[t]` a
`ProcessWorker`, `alive` the threads whose process runs. A process object is
named by its thread: a slot holds a thread's latest process, and what main has
in hand becomes `"joined"` when that thread replaces it. Reading the slot,
marking it and `terminate()` are three steps, as are creating, starting and
joining a process; `terminate()` raises on the string `'stopped'` and on a
process not started. Commands of different connections are not ordered, and how
many delivered messages a crash takes along (`auto_ack`) is chosen when it
happens. `StreamManagerProofs` holds its proofs. The two halves meet in one
assumption each way: `OrderFlow` starts a worker again after every end
(`ServedRuns` says when that is so), and claims that hold for one worker only
rest on `AtMostOneStream`, which the supervisor does not keep.

One bot, one symbol and one connection are modelled: orders of different bots
share no row and no decision.

## Runs

The runs of `MCOrderFlow` and `MCFakeExchange` check deadlock; those systems
never stop, since a worker can always be started or stopped and an operator can
always cancel once more. `sm_streams` does not: a supervisor without connections
waits for a command. Nor does `bc_create`, whose command ends. In `OrderFlow`
every command runs once and every order id is used once, which bounds the
state. The one constraint is `Answered` in `of_oco`: no placement raises after
the exchange took its orders. The orders of such a placement are exempt from
`OneLegCalled` anyway; `of_oco_crash` has them, and `CallbackAfterTheEnd` is
proved with them. `MaxFaults` bounds the kills of a worker or a command, the
lost reports and the rerun statements together; `MaxOld` bounds the orders that
leave the last 500 of their symbol. It is 0 where no property depends on it.

| run | instance | what it shows |
|---|---|---|
| `of_commands` | two orders, one with a callback; one worker, a placing command, and a command that is `order_cancel` or `bot_stop` | full saves of old objects against reports, synchronisation and callbacks: `DbTerminalIsTrue`, `ResultsRecorded`, `CallbackOnce`, `NeverWaitingAgain`; and `ListedAreGone`: what was listed before the prompt cannot trade when the command ends |
| `of_oco` | an OCO, both legs with callbacks; `order_cancel`, one fault; every placement answered | `OneLegCalled`, `CallbackAfterTheEnd` for both orders of the reports |
| `of_oco_crash` | an OCO, one fault and one order that leaves the last 500, lost answers included | the inductive invariant `Truthful`, and the refinement `KeepsContract`, which contains `CallbackOnce`, `OneLegCalled` and `CallbackAfterTheEnd` |
| `of_live` | one order, which may leave the last 500, worker, `order_cancel`, two faults; fair | through kills, lost reports and reruns: `WaitingIsExplained`, `KeepsContract`; and at last `EventuallyAgrees`, `FillIsAnswered` |
| `of_new_means` | one order, `order_cancel`, no fault | violated: see below |
| `of_after_stop` | two orders, `bot_stop` | violated: see below |
| `sm_streams` | two connections, three threads, one command beside those sent at boot, one fault; fair | `SlotIsServed`, `ServedRuns`, `MarkEndsThreads`, `MarkedMeansExit` through STOPs, restarts, failed forks and the emergency end |
| `sm_if_needed` | one connection, START only | violated: see below |
| `fk_commands` | the fake exchange: an OCO of sells, a buy, the sale of `revert`, all commands | the same `KeepsContract`; `FillIsCalled`: of a filled OCO the filled leg is called although the first report skips both; `NeverNested`, `CancelledIsSilent`, `QuietWhenStopped`, `ListedAreCancelled` across the prompts |
| `fk_revert` | the same | violated: see below |
| `fk_callback` | the same | violated: see below |
| `bc_create` | limits and steps in percent and as prices, at and around their bounds; prices 9 and 4.5, the default `min_step`, products rounded as doubles are | `PercentIsHundredth`, `FormsAgree`, `PercentsNeverGoStale`, `ServedBeforeOn` |

Why the bounds are enough for what is asked: a stale save needs one saver and
one worker; a doubled callback needs two dispatches, which one kill or one
report left over from before a synchronisation gives; two orders let one be
placed by the other's callback while a loop is under way; a pair is the largest
group of orders the code ever links. `of_oco`, `of_oco_crash` and `fk_commands` use the
symmetry of the two legs, which the definitions treat alike. In `sm_streams` two
connections are needed for a sweep that stops half way or meets a new key;
three threads serve the two STARTs of the boot and one more; one STOP after a
START reaches every window of a thread's loop. On the fake exchange a pair and a
single order let a callback place, cancel and be cancelled across a prompt; a
buy, a sell that follows it and `Sale` are what it takes to sell too much. In
`bc_create` the texts 0.009 to 100 at prices 9 and 4.5 contain the bounds
themselves (100% and the price, 0.1% and the least step) and percentages and
amounts that come to the same price; `DoubleRounding` is what doubles do with
exactly these numbers, products rounded up, down and not at all among them.

With two workers a callback can be started twice and both legs of an OCO be
called: each worker decides on its own copy of the row. `CallbackOnce`,
`OneLegCalled` and `KeepsContract` are therefore claimed, and proved, for one
worker only (`OneWorker`), which makes the supervisor's one-worker promise part
of what the program rests on. The other safety properties are proved for any
number of workers, so no run repeats them with two. The orders in `late`
(accepted, but the call raised) are exempted from the callback properties,
because `on_error_order` puts WAITING back on a row whose callback may have run.

### Where code and text part

- `of_new_means`: `models.py:204` says NEW "means, that is not placed on
  exchange". `cancel_order` tests a reloaded row but saves the object it was
  given (`exchanges.py:356-365`). If that object was read while the order was
  being placed, NEW is written over ACTIVE; when the exchange call then fails,
  the order stays live and unlisted by `bot_stop` and `cancel_open_orders`
  until the next synchronisation, at rest and with every report handled.
- `of_after_stop`: `bot_stop` freeze announces that no new orders will be
  placed (`bot_stop.py:69`). A worker reads the bot's status before it runs a
  callback, and the callback may place its order after OFF was saved.
- `sm_if_needed`: `bot_create.py:161` says "Starting user_data_stream if
  needed...". `command_received` decides by `_processes`, which the new thread
  fills later (`user_data_streams.py:59`, `:48`). The START of `bot_create` and
  the one sent at boot, both in the queue, give one connection two workers.

- `fk_revert`: `bot_stop` of type revert says that "bought base asset will be
  sold" (`bot_stop.py:77`, also 16). What it sells is the sum of
  `result_filled_quantity` over the orders of the last round, sells included
  (81-82): a buy, the sell its callback placed, both filled, and two units are
  sold that the bot no longer has.
- `fk_callback`: `order_callback` is to "Call order callback"
  (`order_callback.py:6`). It goes through `execute_order_callback`, which takes
  the order it is given for a report of one leg of an OCO (`services.py:57-73`):
  it saves that leg as OCO_CANCELED and calls the *peer*, or nobody while the
  peer is ACTIVE. A leg's own callback cannot be started this way.
Three more things the supervisor model shows, which no text of the repository
denies: a STOP that falls between a thread's look at its slot and its next store
is lost; an exception inside `exception_handler`, or such a lost mark, leaves a
program without a main thread that its other threads keep alive, so that the
container is not restarted; a START delivered and not handled when the program
is killed is gone.

## Fairness

`FairSpec` assumes weak fairness of each worker's own steps: a process that
runs goes on, `ProcessWorker.run` starts it again after every end, and its
23-hour timer stops it at last, which leads to a new synchronisation. Nothing is
assumed of the operator, the exchange or faults; these are bounded, not fair.
`EventuallyAgrees` needs exactly this restart: a lost report is repaired by no
other step. The repair reaches the last 500 orders of the symbol only: an order
that is older when its report is lost stays ACTIVE in the table for ever, so
both properties are claimed for the orders that have not left these 500 (`old`).
`EventuallyAgrees` also leaves out orders that stay partially executed, for
which neither the handler nor the synchronisation has a case. `FillIsAnswered`
excludes what the code gives up on: a callback already cancelled, a dispatch cut
off by a kill, by a rerun UPDATE or by a bot that is not ON (`lost`), and orders
in `late`. What these exclusions stand for is therefore not caught by the two
properties but bounded: nothing else can keep a fill from its callback.

`StreamManager!FairSpec` assumes that the main thread handles what is queued,
that threads run, that a process ends (its timer, 23 hours at the latest) and
that the container starts an ended program again (`restart: always`).

## Proofs

`OrderFlowProofs` proves, from the assumptions on the constants only (`None` is
not an order; `Oco` pairs orders; callbacks belong to orders; commands are not
workers; `MaxFaults` and `MaxOld` are natural numbers), for every instance:

- `EveryCopyIsTruthful`: `Spec => []Truthful`
- `TypeIsCorrect`: `Spec => []TypeOK`
- `TheTableNeverLies`: `Spec => []DbTerminalIsTrue`
- `FilledHasResults`: `Spec => []ResultsRecorded`
- `CallbacksComeAfterTheEnd`: `Spec => []CallbackAfterTheEnd`

`CallbackProofs` proves from the same assumptions

- `EverythingIsAccounted`: `Spec => [](Truthful /\ Accounted)`
- `WaitingHasAReason`: `Spec => []WaitingIsExplained`
- `CallbacksLeaveWaitingOnce`: `Spec => NeverWaitingAgain`

and `ContractProofs`, under `OneWorker` (there is one worker),

- `TheOnlyWorkerCallsOnce`: `Spec => [](Truthful /\ Accounted /\ CalledOnce)`
- `CallbacksStartOnce`: `Spec => []CallbackOnce`
- `LegsAreCalledOnce`: `Spec => []OneLegCalled`
- `OrderFlowKeepsContract`: `Spec => KeepsContract`, the refinement

The argument. `DbTerminalIsTrue` is not inductive: a row may be overwritten with
an object some process has held for any length of time. `Truthful` says of
*every* copy - rows, reports in queues, entries of a synchronisation, objects
in a worker's hand, in a snapshot of a cancel loop, of a fetched peer - that a
final status in it is the exchange's, and that FILLED comes with quantities. The
exchange never takes a final status back (`ExGrows`), so an old honest copy
stays honest, and saving it, however late, writes nothing false. For
`CallbackAfterTheEnd` the invariant adds that a worker about to pass the peer's
callback has a FILLED or CANCELED report in hand, which for a linked leg implies
the peer's end (`LegsEndTogether`); this is where ignoring EXPIRED for legs
matters. Each action is treated in a lemma of its component: the part it writes
is shown sound, and the others are carried over by the `...Keeps` lemmas.

`Accounted` follows the word WAITING. Only an insert and `on_error_order` write
it new; every other save writes back an object that was WAITING when it was
read. So what has to be shown is that whoever holds such an object still may
save it: an order under placement belongs to one process (`PlacingInv`), an
object read from a row says no more than the row does (`RowsInv`, `ObjectOK`),
and a finished order that waits, without peer, is in a dispatch under way or in
`lost` (`Explained`). `CalledOnce` adds, for one worker: a callback that was
started left WAITING for good, in the row and in whatever the worker still holds
(`Spent`); the peer's likewise (`PeerSpent`); and what the worker is about to
start was not started before (`FirstCall`). With a second worker `FirstCall` is
false. For the refinement, the step that saves STARTED is `Contract!Call({o})`
of the order in hand, where `FirstCall` and `CallbackAfterTheEnd`'s
strengthening give what `MayCall` asks; every other step calls nobody, and
`over` and `void` only grow.

`StreamManagerProofs` proves, for any number of connections, threads, commands
and faults, `StreamTypeIsCorrect` and `SlotsAreServed`:
`Spec => []SlotIsServed`. `StreamInv` adds to the two that what the sweep has
still to visit are keys (so that what it takes from a slot is a process or the
mark). The one step that could break `SlotIsServed` is a thread's end: it ends
only when its connection's slot holds the mark, and no other slot ever held it.

`ListedProofs` proves what `bot_stop` leaves behind, from the assumptions above
and with pairs, any number of workers and of commands:

- `ListedOrdersAreGone`: `Spec /\ []NothingNewBeside => []ListedAreGone`
- `ListedAreGoneWithoutCancelers`: `Spec => []ListedAreGone`, when no order has a
  peer and no other command cancels beside a `bot_stop`

`ListedAreGone` is not true of every instance: `order_cancel` can write an old
NEW over ACTIVE (`of_new_means`), whereupon a `bot_stop` beside it skips the
order. `NothingNewBeside` says just that this does not happen: no process beside
a `bot_stop` holds an object read while its order was NEW. The second theorem
shows a case in which the hypothesis holds by itself, the one `of_commands`
checks. `ListedInv` follows a listed order through the loop: as long as nobody
writes NEW, its row stays ACTIVE or final (`Settled`), and once the loop has
dropped the order it has ended at the exchange. It rests on `ObjectsKnown`: what
any copy of a row says is NEW, confirmed by the exchange, or ERROR of an order
whose placement raised; so a row that the loop passes over because it is not
ACTIVE is of an order that is over.

`BotCreateProofs` proves, for every set of option texts (of any length, with any
number `Places` of decimals), every `min_step`, all prices in any `Units`, all
lots and every `Rounding`:

- `CreateInvariant`: `Spec => []CreateInv`
- `BotsAreServedFirst`: `Spec => []ServedBeforeOn`
- `PercentsAreHundredths`: `Spec => []PercentIsHundredth`
- `BothFormsAreTreatedAlike`: `Spec => []FormsAgree`
- `PercentsStayTrue`: `Spec => []PercentsNeverGoStale`

The core is arithmetic on texts: moving the point two places divides the number
by 100. `Reading` gives the number the first digits of a text write, as a
recursive function; the lemmas show that it exists (`ReadingExists`), that
a leading zero does not change it (`SameDigitsReadTheSame`) and that two zeros
at the end multiply it by 100 (`TwoZeros`).
`FormsAgree` and `PercentsNeverGoStale` then follow by comparing exact products;
only where these are the same does the rounding decide, which is the value
`FormsAgree` leaves out. `PercentsNeverGoStale` needs no such exception: a step
in percent accepted at the bound is at the bound exactly.

`FakeExchangeProofs` proves, when `Orders` is finite, `Sale` is a sell without
callback and peer, and there is no worker:

- `FakeExchangeInvariant`: `Spec => []FakeInv`
- `FakeTypeIsCorrect`: `Spec => []TypeOK`
- `CallbacksNeverNest`: `Spec => []NeverNested`
- `CancelledOrdersAreSilent`: `Spec => CancelledIsSilent`
- `StoppedBotsAreQuiet`: `Spec => QuietWhenStopped`
- `ListedOrdersAreCancelled`: `Spec => ListedAreCancelled`
- `FillsAreCalled`: `Spec => FillIsCalled`
- `FakeExchangeKeepsContract`: `Spec => KeepsContract`, the refinement

Here a step is a whole command, with the callbacks and loops in it, so the
invariant is stated of a world (`WorldOK`) and every operator is shown to lead
from such a world to another: a write, a cancellation, the loop over a list, a
placement, a method, a callback, a report, the peer's report after it. `WorldOK`
says that no order is left NEW, that the legs of a pair are in the table
together, that a cancelled callback leaves none to start for the peer (`LegsOK`)
and that a started one is spent together with the peer's (`SpentCall`).
`cancel_order` writes CANCELED into both callbacks *before* the exchange is
asked; `CanceledReport` is the lemma that this is what keeps the report, which
comes back inside the same call, from starting anything. `Reported` says what a
report may lead to: one callback at most, of the order or its peer, WAITING
before and not after, and none for a bot that is not ON; `FillCalls` is the
converse, that a fill of an ACTIVE order does lead to its callback. For the
refinement, that callback is `Contract!Call({d})`; `FirstCall` gives `MayCall`
from `SpentCall`. The loop of `CancelListed` is a recursive function on the sets
of orders done; `LoopExists` builds it by the size of the sets, which is where
`Orders` has to be finite.

The induction theorems of the library, which take a predicate, are not usable
with the provers installed; both modules derive an induction principle for sets
of numbers (`SetInduction`) from the well-foundedness of `<` and put the
statement to be shown into the set.

Model-checked only: the liveness properties `EventuallyAgrees`, `FillIsAnswered`,
`ServedRuns`, `MarkEndsThreads` and `MarkedMeansExit`. They hold under weak
fairness, and fairness speaks of enabledness, which is outside the prover.

## Not modelled

- Rounding (`_round_price`, `_round_lot`, `_round_quote_qty`), prices and sizes:
  arithmetic on floats without state that no later step decides on. That
  `tick_size` 0 divides by zero is left to a unit test.
- Quantities of partial executions: PARTIALLY_FILLED has no case in the code, so
  a cancelled order's executed part is recorded nowhere; the models count whole
  orders.
- `lib/cache.py`: its only caller calls it once in a process.
- The order-id codec: `OrderStore` uses the id as a name, which is all the rest
  of the program does with it.
- `order_callback` against a worker: it breaks the one-call promise by
  intention, and is modelled where it can be told apart, on the fake exchange.
- Reference-data commands, migrations, settings, containers (no state that later
  steps race on), and the content of algorithms beyond what `Algorithm` and
  `DCA1` fix.

What remains worth doing: the counterpart of `WaitingIsExplained` for the legs
of a pair, `ListedAreGone` with pairs and no cancelling command beside, where
the peer a loop fetches may still be NEW, and quantities in `OrderStore` should
the code come to handle partial executions.
