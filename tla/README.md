# TLA+ models of the trading execution platform

The platform runs a two-stock strategy with an S&P 500 crash overlay on a
Trading212 demo account. A timer starts `sp1exec cycle` every 15 minutes; each
cycle does one step of whatever the SQLite database says is unfinished, and no
cycle remembers anything but the database. These modules model that durable
protocol: what cycles, crashes, races and the broker can make of the database
and of the orders in the account. A second engine under `recovery/` executes the
overlay with a fixed delay and a fixed hold, from a database of its own; its
state machine is modelled too.

Paths below are under `src/src/sp1execution/` unless they start with `src/`.

## 1. The system

| component | state it keeps | operations | what makes it correct |
|---|---|---|---|
| two-phase workflow, `execution/workflow_v04.py` | `execution_workflows`, `execution_legs`, `machine_state.execution_state` | create, start, record intent, record acceptance, mark SELL, install BUYs, mark BUY, fail closed | SELLs fill before BUYs; a status never claims more than the broker did |
| broker executor, `execution/broker_executor_v04.py` | the submission flock | submit a phase, reconcile a phase, replan BUYs | each leg is sent at most once; BUYs one at a time from booked cash; completion agrees with the account |
| restart recovery, `execution/recovery_v04.py` | none | classify the durable state | every reachable state has one next action; an unknown POST is never retried |
| cycle, `execution/cycle_v04.py` | none | promote, recover, prepare the membership, plan | control state follows the executed target, never precedes it |
| control transitions, `state/transitions_v04.py` | `machine_state` (entry, strategy, membership, overlay, mix, revision), `state_transitions` | transition, begin / classify month end, commit rebalance | legal moves only, once per event key, only while nothing executes |
| capital ledger, `state/capital_v04.py` | `capital_ledger`, strategy cash, external debt | normalize, apply fill | a fill is booked once, with its real wallet impact |
| history, `broker/history_v04.py`, `engine/reconciliation_v04.py` | none | merge pages, canonical state, reconcile attempts | an order known by ID is never lost |
| store, `state/v04_store.py` | the schema | create, validate, migrate | migration keeps the legacy rows |
| strategy, `strategy/robust.py`, `engine/` | none (replayed from closes) | observe a close, event, target mix, orders, freeze a month | one move per close; orders reach the target within tolerance |
| runner, `src/scripts/sp1_demo_forward_runner_v04.py` | the cycle flock | one locked cycle per tick | timer cycles never overlap |
| recovery compiler, `recovery/causal_compiler_v01.py`, `core_return_v01.py` | none (replayed from closes) | source cycles, D40/H378 schedule, guard audit | the schedule is what the frozen rules say for the closes so far |
| recovery dispatcher, `recovery/durable_dispatcher_v01.py`, `state_v01.py` | its own database: singleton state, delayed events, transition journal, reserve ledger | execute a session, ingest a source event, observe a close | trades exactly the compiled schedule; a delayed event applies once, on its session or never |
| recovery targets, `recovery/physical_target_v01.py`, `demo_physical_plan_v01.py`, `current_core_return_runtime_target_v01.py`, `causal_runtime_inputs_v01.py` | none | replay evidence, runtime target, physical plan | the plan reaches the weight that the schedule asks for, out of the sleeve's own money |
| legacy v0.3.3, `cli.py`, `state/journal.py`, `engine/reconciliation.py` | journal and key-value rows, in commits of their own and under no lock | plan, execute-demo, reconcile | an order once, the initial capital once, active means bought |

**Interactions.** The runner starts a cycle as a child under the cycle flock; by
hand the same command runs without it. The cycle reads the database, calls
`classify_recovery`, and from it one of the executor's functions. The executor
writes through the workflow functions (each one `BEGIN IMMEDIATE` transaction),
calls the broker between them, and books fills through the capital ledger. A
COMPLETE workflow is promoted into control state by the next cycle. The recovery
engine shares no state with any of these: it takes closes, compiles them into
source events and drives its own database with them, session by session, in the order of
`replay_compiled_history_to_store`. Only tests call that loop so far.

**What is hard here.** Two processes over one database with only the submission
under a lock; broker reads that are old when they are written down; a POST whose
outcome nobody knows; a crash between any two transactions; a history page that
lags; event keys that make a second write silent; control state that is promoted
in two transactions after the execution; a signal and a month that move on
while a workflow is under way. In the recovery engine: several transactions per
session with deaths between them; entry, exit, scale-up and old ATH on one session;
a session that nobody ran; a compiler and a dispatcher that must agree. In the history:
pages fetched one by one from an account that goes on trading, fills that are
restated, cents. In the legacy commands: three writes that belong together, and no
lock.

## 2. Modules

| module | about | extends / uses |
|---|---|---|
| `RebalanceContract` | abstract: what the account may see of one rebalance | - |
| `TwoPhaseWorkflow` | one rebalance, any number of cycle processes, broker, crashes | an instance of `RebalanceContract` |
| `MCTwoPhaseWorkflow` | instances, fairness | `TwoPhaseWorkflow` |
| `TwoPhaseWorkflow_proofs` | types, one order per leg, SELLs before BUYs; the books agree and the workflow implements the contract; what holds of one process at a time | `TwoPhaseWorkflow`, `FiniteSums` |
| `FillBooking` | history pages, merged fills and the ledger, under one phase | - |
| `MCFillBooking`, `FillBooking_proofs` | instance and fairness; theorems | `FillBooking`, `FiniteSums` |
| `ControlCycle` | control state, planning, promotion, the cycle flock | - |
| `MCControlCycle`, `ControlCycle_proofs` | instances and fairness; theorems | `ControlCycle` |
| `CausalCompiler` | the overlay, the schedule and the guard audit as operators on closes | - |
| `RecoveryDispatch` | the recovery database driven session by session, crashes, missed sessions | `CausalCompiler` |
| `RuntimeTarget` | what a finished session tells the rest of the system | `RecoveryDispatch` |
| `MCRecoveryDispatch` | instances | `RuntimeTarget` |
| `RecoveryDispatch_proofs` | types, events and journal, nothing late, left behind or refused | `RecoveryDispatch`, `TLAPS` |
| `RecoverySchedule_proofs` | what is traded, refused and handed on is what the compiler schedules | `RecoveryDispatch_proofs`, `RuntimeTarget`, `FiniteSums` |
| `PhysicalPlan` | the reserve ledger and the physical plan | - |
| `MCPhysicalPlan`, `PhysicalPlan_proofs` | instance; theorems | `PhysicalPlan`, `FiniteSums` |
| `LegacyJournal`, `LegacyJournal_proofs` | the v0.3.3 commands; theorems | - |
| `FiniteSums` | lemmas: least and greatest numbers, sums over finite sets | the library's theorems |

The modules meet at narrow places. `TwoPhaseWorkflow` has one workflow in full and
no control state; `ControlCycle` has any number of workflows one after another, each
only as ACTIVE, STOPPED (FAILED or RECONCILIATION_REQUIRED) or COMPLETE.
`FillBooking` is the inside of `ReadHistory`, `ApplyFill` and the mark of
`TwoPhaseWorkflow`, with the requests, pages and cents that are one step and exact
there. `RuntimeTarget` reads the state of `RecoveryDispatch`, and the weight it
hands on is the `target` that `PhysicalPlan` is asked for.

### TwoPhaseWorkflow

One action is one SQLite transaction, one broker call or one lock call, and
every process may die between two of them.

| variables | code |
|---|---|
| `status`, `phase`, `leg` | the workflow row and the status of each leg row |
| `exec`, `keys` | `execution_state`, and the event keys of EXECUTION rows, which decide whether a write happens at all |
| `cash`, `ledger` | strategy cash, and the fills that have a ledger row; a negative cash is external debt |
| `posts`, `order`, `filled`, `price`, `hist` | the broker's books and what its history shows of them |
| `stale` | whether the latest IVV close still is the decision's signal |
| `pc`, `cand`, `cur`, `seen`, `lock` | locals of each process and the flock |

A cycle is `Classify`, then one of: `CreateWorkflow` and `StartWorkflow`;
`AcquireLock`, `ReadSubmission`, then `RecordIntent`, a POST and
`RecordAcceptance` per leg; `BeginReconcile`, `ReadHistory`, `ApplyFill`, `Judge`
and a mark; `InstallBuys`; `PersistAmbiguous`. A POST has four outcomes: an ID,
an order without an ID or a reply, no order, and the process dead before or
after it. `RecoveryError` is the set of states in which `classify_recovery` raises.

Abstracted: a leg is its index, its quantity is `Qty` equal fills, the estimate
of a fill is `Estimate` and its real wallet impact any member of `Price`. The
replan may install any plan whose estimates fit. Session, confirmation, quote
age and foreign orders are the nondeterministic `Refuse`. An exception of a
broker read is a `Crash`. The tolerances of one cent and of a fractional share
are exact comparisons. The reads inside `ReadSubmission` are one step: they are
under the flock, and what is stale after it stays stale in the model too.

### ControlCycle

`strategy`, `overlay`, `member`, `mstate`, `mix` and `revision` are the columns of
`machine_state`; `keys` and `candidate` what `state_transitions` is asked for;
`flows` the workflows by decision. A decision is a record of its seed fields, so
equal seeds are the same decision, as with the hash in the code: a true hold
has no revision in its seed. `signal` is the latest IVV close with its replayed
overlay, `frozen` the latest frozen month. `done` is the target the positions
implement and `near` another one they have drifted within tolerance of.

`Start` takes the cycle flock for processes in `Timer` and nothing for others.
`Pending` is `_pending_complete_workflow`, `Promote` one transition of
`_apply_control_target` per step. Submission and reconciliation are `Submit`,
`Complete` and `Stop`; a workflow needs a number of guarded submissions out of
`Batches`, and each asks for the decision's own signal. The membership branch of
`Promote` is written out although no run reaches it: see section 5.

### CausalCompiler and RecoveryDispatch

`CausalCompiler` has `RobustState.observe_close` as `ObserveClose` (a drawdown ladder
of four rungs, a handoff at 55% of the way back, a rearm at the peak), and
`compile_final_schedule` and `compile_guard_audit` as `FinalSchedule` and `Reentries`.
It is the abstract specification here: a pure function of the closes.

`RecoveryDispatch` is the stateful half. `rec`, `events` and `journal` are the three
tables; `closes` and `source` the rows so far and the overlay's state after them;
`pc` says where in the loop the process is, `error` which exception it left with.
`Transition` and `SetStatus` are `transition_recovery_state` and
`set_delayed_event_status` with their replays, refusals and validation; every other
action is one call of them, or one read that calls none. Execution, ingestion and
observation of a session come in the order of the loop. `Restart` is a process that
died, raised or is run again: it starts with the session it had reached, as
`src/tests/test_durable_dispatcher_v01.py:499` and `:575` do. `Miss` is a session at
which nothing, or after a crash nothing more, is run.

Abstracted: a session is its position, and the calendar reaches past every one
named; a cycle's id and an event's key are the signal sessions they are made of;
prices and targets are integers, percentages for the fractions, and the tolerance of
the price comparison is exact. There is one process: the dispatcher takes no lock
and the code starts it in one place.

### RuntimeTarget

`Evidence` is `CurrentCoreReturnReplayEvidence` of the rows of `RecoveryDispatch`,
`Consistent` what its constructor demands of each phase, `Directive` and `Coherent`
the way to a `RuntimeRecoveryTarget`. These are pure; `TargetIsScheduled` asks them of
every finished session.

### FillBooking

A reconciliation is `Begin` (pending orders), `FetchPage` per request, `ApplyFill` per
booked fill or `ConflictingReplay` where a booked fill comes back with another
payload, and `Mark`. `log` is the account's history, `Execute`, `Kill` and
`OtherExecutes` what extends it between two requests, `Amend` a restatement. Two
things the code cannot know are chosen once: whether an item carries its order as of
the fill or as of the request, and whether the next page goes by cursor or by
offset (`api`). `Money` is `_money`, ROUND_HALF_UP; the broker moves tenths of a
cent. An order counts its fills; quantity, price and rate are part of a fill's
payload. Items of other orders are `Other`.

### LegacyJournal

`decision`, `accepted`, `intents` and `kv` are the tables of `state/journal.py`. `Plan`
and `Execute` followed by an intent, a POST and an answer per order are `plan` and
`execute-demo`; `Reconcile` reads the accepted attempts, then pending orders, then
history, classifies each order (`State`) and writes membership, overlay, mix and
status one by one. `Executable` and `BrokerIsClear` are the checks before a
submission. A decision stands for its signal; all are of one frozen month.

### PhysicalPlan

`ReserveEvent` is `apply_reserve_ledger_event`, with its replays and refusals; the
account is rebuilt position by position. `Construct` is `construct_physical_target`:
it allocates, and funds the target from the reserve and sales of SP2. `Build` is
`build_demo_physical_plan`: it scopes the account to the strategy, refuses, and calls
the other. Their divisions round down to the unit where the code has 28 digits.

### RebalanceContract

A set of SELLs is decided; each order is sent at most once; a BUY is sent only
when every SELL of the plan has filled, no other BUY works, everything executed
is booked and the estimate fits the booked cash; the account executes or cancels
working orders; a booked unit moves cash by some price. It has no processes,
locks, statuses or histories. `TwoPhaseWorkflow` maps `plan` to the SELL rows,
`sent` to `posts`, `booked` to `ledger` and `closed` to the orders the broker has
finished with.

## 3. Runs

| run | instance | shows |
|---|---|---|
| `race` | 2 processes, 2 SELL and 2 BUY legs, one fill each, lagging history, 1 crash; symmetric in the processes | no order twice, SELLs first, nothing sent past an orphaned intent, the contract, and the invariants the proofs use |
| `serial` | 1 process, fills in two parts at price 1 or 3 against an estimate of 1, lagging history, 1 crash | every state is classified by recovery; COMPLETE means filled, booked once and summed; an ended workflow is left alone; an open order is never lost between the two reads; the contract with uncertain prices; under weak fairness a workflow ends, is wedged in one of two named ways, or is refused for ever at the submission or the replan |
| `fills` | 1 process, 2 orders of 2 fills, one item of another order, pages of 2, 2 pages, 1 crash or restatement, a debt of 2 cents at the start | no page loses an older fill, a fill is booked once and in cents that balance, FILLED means booked; under fairness every fill is booked unless a named stop is reached |
| `control_timer` | 2 locked processes, 2 Top2 sets, 3 overlay targets, 2 closes, 2 months, 1 crash | control state matches the positions, one promotion at a time, plans are fresh when stored; under weak fairness control state catches up, is in a named wedge, or waits for a workflow that never ends or a trade that is never planned |
| `recovery_session` | delay 2, hold 4, every history of 11 closes out of 3, 1 crash | the trades in the journal are the compiled schedule; events agree with the journal and none is left behind; no refused transition; an overlap is refused only where the audit sees a reentry; the runtime adapter accepts every finished session and hands on the scheduled weight |
| `recovery_missed` | delay 2, hold 2, 8 sessions, closes that leap, 1 crash, 2 missed sessions | late is never: a trade enters the journal on its own session, and no finished session holds past the exit |
| `physical` | 3 names of value up to 3, cash up to 3, a weight in quarters, 2 ledger keys, amounts -2, 1 and 3 | the reserve is the sum of its distinct events; every plan is funded by the sleeve alone, loses nothing, and is stable when asked for again |
| `legacy` | 1 submitter, 1 reconciler, 2 decisions of up to 2 orders, 1 crash | no order twice, one bootstrap, what is active is filled, what is RECONCILED_FILLED is active |
| `control_rebalance`, `recovery_orphan`, `recovery_late`, `legacy_activation` | one property each | the code disagrees with what it says of itself, section 5 |

**Bounds and why they are enough.** Two processes give every pairwise race; the
theorems cover the rest. Two legs a side are the least for a batch with a later
leg and for a BUY after a BUY. Two fills are the least for a partial one and a
cancellation after it, two prices for a BUY above its estimate, and 3 so that one
BUY alone can use up more than the cash planned for both. One crash per
behaviour reaches every crash point from every state without one, and the safety
theorems hold for any number. `OpeningCash` is 0, so that SELL proceeds decide.
Two closes give every pair of consecutive signals from the start, with three
overlay targets a deepening crash. Two months
are one month end. One quote snapshot in `ControlCycle`: two decisions of the
same revision differ in no other field that the properties see.

The recovery engine's 40 and 378 intervals are shrunk to 2 and 4 with their order
kept (the delay is shorter than the hold), which leaves room for a cycle that is
cancelled before its entry, a scale-up before and one during the hold, one on and
one past the exit, and a second cycle before and after the first is over. 11
sessions are an entry, its exit and what follows. Three closes are enough for two
rungs, a handoff and the old ATH (see `MCRecoveryDispatch`). A close that leaps from
CRASH to the old ATH in one day is in `recovery_missed` only (`Leaps`): source and
dispatcher then disagree on the end of the cycle, section 5. `recovery_missed` takes
a hold as short as the delay, so that `TrimAfterEntry` has something to cancel; with
the code's constants it never has.

`fills`: two fills are the least for an order whose snapshot runs ahead of its fill,
pages of two items split an order over pages, and the item of another order makes
the history longer than two pages, which is the limit. The impacts have a
fraction rounded down, a tie and a cost, and the first fills repay the debt of two
cents. One reconciler suffices for these properties, because a second one meets only
the ledger; the theorems hold for any number. `physical`: three names are one SP2 name
beside another and a stranger, and quarters leave a remainder for the last name to take. `legacy`:
two decisions are the least for a bootstrap and a later one, two orders for a death
between them.

**Fairness** is weak everywhere. *serial*: of each process's own steps, its refusals among
them (the timer starts a cycle every 15 minutes, a started one runs on unless it
dies), and of the broker's orders and history pages. *control_timer*: of a cycle's
steps, refusals included. *fills*: of a reconciliation's steps and of the broker's
trades. No crash, new close, frozen month or price move is fair, nor is a
step that a guard of the code can refuse: a submission, a replan, a plan, the end of a
workflow. What is assumed of the outside is that an order is worked off in the end, that
its history page catches up, and that reads of the broker and of the market do not
fail for ever (a read that raises is a `Crash`, and those are bounded).

**What can stop the machine** is therefore named in the liveness properties themselves, and
what they say is that nothing else does. TLC finds a counterexample when one of the
alternatives of `Settles` or `Converges` is left out, except for the executed signal that the
strategy cannot follow: that one takes more closes than the two of `control_timer`.

- `Settles` (`serial`), of a workflow. Two wedges, where it is let through and still does not
  end: an order cancelled after a partial fill, which reads PARTIAL for ever, and a BUY
  that no longer fits the cash. `SubmissionsRefused`: every later cycle is turned away before
  the POST, because the signal is no longer the latest close (which it never becomes
  again), the broker's `availableToTrade` stays below the next BUY
  (`cycle_v04.py:536`), a foreign order stays pending, or session and quotes never fit.
  `ReplansRefused`: prices stay where the plan wants another SELL (`FreshSellRequired`,
  `broker_executor_v04.py:1064`), or its BUYs ask for more than the durable cash. The two
  are about actions (`<>[][...]_vars`): they excuse a workflow only when not one of
  the cycles gets through, so a bug that keeps an admitted cycle from going on still
  violates `Settles`, and so does a workflow that waits for anything else.
- `Converges` (`control_timer`), of the control state. Wedges: a stopped workflow;
  REBALANCE_PENDING; a strategy move, to the latest or to an executed signal, that the
  transition table does not have. `NeverEnds`: the
  workflow stays ACTIVE for ever; an old signal is one reason, and `Settles` has the others,
  which this model does not tell apart. `NeverPlanned`: the overlay asks for a trade and no
  cycle gets as far as its orders (session, quotes, or a strategy NAV of at most 1 EUR,
  `cycle_v04.py:625`).
- `FillsGetBooked` (`fills`): a phase that has ended, a booked fill that was restated, a
  history longer than a read follows.

Deadlock is checked in the workflow and control runs: a cycle can always be
started. It is not in the others: a recovery run ends with the last session or with a
process that raised and is not run again, a phase of `fills` ends, the
decisions of `legacy` run out, and an account of `physical` is full. The recovery runs state no liveness: a raised
dispatcher stays where it is on purpose ("fail closed").

## 4. Proofs

All theorems hold for every value of the constants that the module's assumption
admits: those say that numbers are numbers, that absent rows are no rows, that SELL
indexes lie below BUY indexes (`install_buy_legs` numbers them so), and that a hold is
not empty. Where a theorem needs more, the hypothesis is in its statement.

**The workflow**, for any processes, legs, order sizes, prices, opening cash and
crashes, with or without history lag. `TwoPhaseWorkflow_proofs`:

- `TypeCorrect`: `Spec => []TypeOK`;
- `NoDuplicateSubmission`: `Spec => []AtMostOneOrderPerLeg`;
- `SellsBeforeBuys`: `Spec => []SellsFillBeforeBuys`;
- `SubmissionProtocol` and `BooksAgree`: `SubmissionInv` and `ContractInv`, the two
  invariants the others rest on;
- `NeverPastAnOrphan`: nothing is sent while an intent of another is unresolved;
- `KnownOrdersAreRead`: an order is not lost between the two reads;
- `Implementation`: `Spec => ImplementsContract`;
- `CashIsBooked`: the ledger's cash is the opening cash and every booked fill at its
  order's price;
- for one process at a time (`OneProcess`), as under the runner's lock:
  `RecoveryNeverFails` (`RecoveryIsDefined`), `NothingAfterTheEnd`
  (`StoppedStaysStopped`) and `CompletedAgrees` (`CompleteIsReconciled`).

*Types.* `TypeOK` is not inductive: `filled` stays below `Qty` only because a
working order is unfinished (`OpenIsUnfinished`), and a status written from a
reading is a leg status only because the reading has been made by then
(`ReadBeforeJudged`). `TypeInv` is the three together.

*One order per leg.* `SubmissionInv` adds what makes a second POST impossible:
whoever is in the submission path holds the flock (`LockExcludes`); its remaining
batch is still PLANNED although reconcilers run without the flock
(`BatchIsPlanned`); at the POST the leg is INTENT_RECORDED and unsent
(`IntentPrecedesPost`); an unsent status means no order (`UnsentHasNoOrder`); and a
reconciler has only read legs that were accepted, so its late write cannot make
one PLANNED again (`SeenWasAccepted`). The step lemmas split the actions into those
outside the flock, which advance leg statuses only (`LegsAdvance`), and those
inside it.

*SELLs before BUYs.* `FillInv` adds that FILLED is evidence: a SELL leg, a history
record or a process's reading says FILLED only if the broker's order is filled,
and a filled order stays so. BUY rows appear only in `InstallBuys`, which requires
FILLED SELL rows.

*The contract.* `ContractInv` says that nobody's books claim more than the broker
has done: a reading is behind the broker, and booked before it is judged
(`ReadingIsTrue`); the ledger has executed fills only (`LedgerIsTrue`); a FILLED row
is filled and booked (`FilledIsBooked`, with the exception of a COMPLETE workflow,
see section 5); a row that was accepted has its order (`AcceptedIsPosted`). The
BUY is what makes the refinement hard. The contract wants every order sent before
it filled and booked and the cash to cover it, at the POST; the code checks that
once, in `ReadSubmission`, and sends two transactions later, while reconcilers
go on booking. `SubmitterIsRight` says that it stays so: under the flock nobody else
sends, so no order is open and no fill is missing from the ledger, and a
reconciler has nothing to book that could move the cash (`ReadyStays`). Then every step is a step of
the contract or leaves it alone.

*One process at a time.* Dead processes may have left anything behind, at any step, but
nothing moves while the living one works. `SerialInv` adds three things. The execution
state goes with the workflow row (`ExecInv`): the write that opens a phase or ends the
workflow is never dropped for an event key used before, because the keys used so far are
those of the phases so far (`KeysOf`). The leg rows go with it too (`LegsInv`): an ACTIVE
phase has a leg to work on and none UNKNOWN or FAILED, cash is below zero only with a BUY
in flight or intended, and the legs of a COMPLETE workflow are filled and booked. What a
handler has read is what it still finds when it writes (`HandlerOf`): the workflow is
ACTIVE, the legs read are those of the phase, and the verdict is the one it would reach
now. Each branch of `classify_recovery` that raises contradicts one of the first two.
`CompletedAgrees` needs the cash as well: `CashIsLedger` holds for any number of
processes, a booked fill adding its impact to the sum, and a new order's price touching
none, since an unsent leg has no fill. With processes that overlap the three are false of the
code (section 5).

**The history.** `FillBooking_proofs`, for any processes, orders, page sizes and
impacts: `TypeCorrect`; `NoFillTwice` (`BookedOnce`); `CompleteReads`
(`ReadIsComplete`); `FilledLegs` (`FilledIsBooked`). `LogIsTrue` relates the account's
history to its orders: each fill is in it once and after the ones before it. The
invariant of a read is that it has every item up to some age that was there when it
began (`NoGap`). It survives an offset read, because new items push old ones to
later pages only, where they are read twice. `BooksAreBalanced` (`BooksBalance`): each
fill is rounded once, so the books stray from the broker's sums by half a cent a fill at
most and never from each other.

*Sums.* `BooksBalance`, `CompleteIsReconciled` and `PlanIsSound` speak of sums over sets, which the community
modules define by a recursion on subsets, taking whatever member CHOOSE picks first.
`FiniteSums` proves what a reader takes for granted: that the recursion has a
solution and one only, that any member may be taken first (`SumTakes`), that a sum depends
on its summands only (`SumAgrees`), grows by a new one (`SumAdds`), ignores zeros
(`SumOverMore`) and is additive (`SumOfBoth`). An induction over subsets would need a
lemma with an operator parameter; instead each proof looks at the least
counterexample, which exists because sizes are naturals (`SmallestSet`).

**Control state.** `ControlCycle_proofs`: `TypeCorrect` in general; and when every
invocation takes the runner's lock (`UnderLock`) `ControlIsTrue`
(`ControlMatchesHoldings`), `PromotionIsDefined` (`OneUnpromoted`) and `FreshPlans`
(`PlansAreFresh`). The invariant `LockInv`: who is not idle holds the lock (`Mutex`); what
it has read is still so (`Local`); a workflow's revision is older than the present one, its
transitions are not recorded before it completes, and a completed one is where the
positions are (`FlowsAgree`); no decision that rebalances has been promoted
(`KeysAgree`). The last part holds because of the defect that `control_rebalance`
shows; the proof says so, and has to be made again when that is repaired.

**The recovery engine.** `RecoveryDispatch_proofs`, for any number of sessions, delay,
hold, closes (leaping ones too), crashes and missed sessions:

- `TypeCorrect`: `Spec => []TypeOK`. The row of the state table always passes
  `_validate_state_dict`;
- `JournalIsAuthority`: `Spec => []EventsMatchJournal`;
- `NoLateExposure` and `NothingIsLate`: `ExposureEnds` and `TradesAreOnTime`.
- `NoEventLeftBehind`: `Spec => []OpenEventsAreCurrent`;
- `NothingRefused`: `MissBudget = 0 => (Spec => []LegalMoves)`.

`JournalIsAuthority` is the invariant `BookInv`. A recorded apply key belongs to an
event that exists and whose cycle is in the key (`KeysHaveEvents`), so a later event
cannot find its key taken; APPLIED implies recorded; a recorded event that is not yet
APPLIED is MATURED, of the running cycle and before its exit, and its session's
execution is not over (`HalfApplied`, with `DueInv`), so that no exit, trim or
cancellation can reach it. The last part is where a missed session breaks the
theorem, and the code: when the process dies half-way through an event and the
next session run is the fixed exit, the exit cancels an event whose transition is
in the journal. That property and the last two are of runs in which no session is
missed.

Nothing is late even with missed sessions: a session that comes past the exit's
check ends before the exit (`HoldInv`). That nothing is refused needs the whole history
of a cycle (`MoveInv`). Its events are the source's signals and ask for more each time
(`EventsAreSignals`), so a scale-up is one; open ones are of the running cycle and to
come (`OpenInv`), so none is orphaned or overdue; the rows of a start, a recovery and an
exit carry their session, so a rerun finds its own and a later session none
(`StartInv`, `ExitInv`); what is held is less than any event to come (`TargetInv`).

**The schedule.** `RecoverySchedule_proofs`, for every history of closes without a leap
from CRASH to the old ATH, any delay and hold, and any number of crashes:

- `TradesFollowSchedule`: `Leaps = FALSE => (Spec => []FollowsSchedule)`;
- `TargetFollowsSchedule`: `Leaps = FALSE => (Spec => []TargetIsScheduled)`;
- `RefusalIsReentry`: `MissBudget = 0 /\ Leaps = FALSE => (Spec => []RefusesOnlyReentry)`.

A leap is left out because with one the property is false of the code (section 5). The
dispatcher sees one close at a time and keeps no history but its own database; the
compiler replays all closes at once. What joins them is what `SourceCycles`, a
recursion over the closes, gives for the closes so far: `RowsInv` says that the source row
of a session is what that recursion has after as many closes, and how its states
follow one another, and each new close adds one state and leaves the earlier ones
alone, so that the induction is the invariant's. `LinkInv` then relates each part of the database to this history: which
cycle is open (`CycleInv`), what a waiting and a held cycle have behind and before them
(`WaitInv`, `HeldInv`), which events are the source's signals and which
of them are cancelled (`SignalInv`), what each row of the journal was written for
(`RowInv`), that a cycle before the current one was cancelled in time or has taken its exit
(`OverInv`), and that what is held is the target of the last entry (`LastInv`). `ScheduleInv` is these with the invariants
above. Both sides being sets of trades, the theorem shows each inclusion for the trades
of a signal, of a fixed exit and of an early rearm.

**The plan and the legacy commands.** `PhysicalPlan_proofs`: `ReserveIsItsLedger` and
`PlansHold` (`PlanIsSound`), for any names, holdings, weights, amounts and grid. An
allocation gives its last name what the others leave, so it divides exactly what it
is given (`AllocateIsExact`); of two names neither sells more than it has
(`NoOversale`), the one place where the number of names matters; and what is moved
leaves the worth of the strategy alone (`AfterTotal`), so that the same weight asks for the same
sleeve again and finds it there. `LegacyJournal_proofs`:
`TypeCorrect`; with one execute-demo at a time (`OneExecutor`) `NoOrderTwice`,
`OneBootstrap` and `WhatIsActiveWasBought`; with one reconcile at a time
(`OneReconciler`) `ActivationIsWhole`. The legacy commands take no lock, so these are what a
user who runs them one by one may rely on; section 5 has what two at once can do.

**Model-checked only.** Liveness (`Settles`, `Converges`, `FillsGetBooked`), which is out
of the prover's reach.

## 5. Where the code differs from what it says

With a run that shows it:

- `control_rebalance`: the strategy transition of a rebalance carries the new
  set's mix while the old membership is still active, and is refused. A changed
  Top2 set is traded in full and never promoted, and every later cycle fails.
- `recovery_orphan`: an event is stored before its cycle is started so that a replay
  repairs it; but a replayed session is executed first, and finds the event to be an
  orphan. It raises at every later session.
- `recovery_late`: a rung that is reached after the fixed exit while the source still is
  in CRASH raises instead of being discarded, and leaves its event PENDING.
- `legacy_activation`: reconcile during a submission, or after it died, activates
  a decision of which only the first orders were sent and filled.

Seen while modelling and described here without a run of their own:

- Completion marks every BUY leg FILLED, read or not (`broker_executor_v04.py:970`).
  With two reconcilers and a lagging history a workflow completes with an unfilled
  order. The runner's lock excludes this between timer cycles; a manual cycle beside
  the timer does not.
- An execution-state write whose event key was used before is dropped. One SELL is
  PARTIAL, then FILLED while the next is PENDING; when the next becomes PARTIAL too,
  its write is dropped (`execution/workflow_v04.py:134`).
- `_persist_buy_progress` does not look at the workflow status: a slow reconciler
  turns RECONCILIATION_REQUIRED back into ACTIVE (`broker_executor_v04.py:264`). The
  ACTIVE check of a submitter precedes its batch, so later legs are sent although a
  reconciler has stopped the workflow (`workflow_v04.py:359`). Both need processes
  that overlap.
- A signal that is two ROBUST moves ahead (CRASH to NORMAL after a pause) is planned
  and executed, and its promotion is refused for ever (`transitions_v04.py:328`).
- A manual cycle overtaken by a whole rebalance commits an old decision over a newer
  one (`cycle_v04.py:654`).
- Where a history item carries its order as of the request, a leg can be marked
  FILLED from a page fetched after a fill that is on none of the pages read; that fill
  is booked by a later reconciliation of the phase, or never if there is none
  (`history_v04.py:161`). A fill restated after it was booked raises in every later
  reconciliation (`capital_v04.py:250`), and a history longer than 20 pages does too
  (`history_v04.py:233`).
- A close that leaps from CRASH to the old ATH is a HANDOFF to the overlay, which
  rearms at a later close there; the dispatcher ends a waiting cycle at once. When the
  rearm comes no earlier than the first entry, the schedule has a trade that the
  dispatcher has cancelled (`strategy/robust.py:97`, `causal_compiler_v01.py:520`).
- `replay_compiled_history_to_store` over a store that is already past the first
  sessions replays their closes against today's state.
- When the D40 session before the fixed exit is missed, the exit cancels the event
  without reporting the missed session (`durable_dispatcher_v01.py:829`).
- Legacy: two execute-demo at once can both pass the checks and both submit; a death
  after SUBMITTING and before the first intent leaves a decision that no command
  moves on (`cli.py:580`); reconcile overwrites an AMBIGUOUS status, and reconcile of
  an old decision makes it the active one again (`cli.py:337`); two reconcile at once,
  or one that dies, leave the three keys of different decisions (`cli.py:308`).

## 6. Not modelled, and the plan

What would come next, in this order:

1. **Planner** (`engine/planner.py`, `engine/capital.py`): orders from target weights
   reach the target within tolerance and within the cash.
2. **Migration** (`migrate_database` in `state/v04_store.py`): the legacy keys become
   `machine_state`, once, or not at all.
3. A membership that changes while `LegacyJournal` plans: its decisions are of one
   frozen month, so that the bootstrap check by positions always sees the same names.

Left out, and why:

- the ENTRY dimension of the transitions, which only tests drive;
- `current_sp2_provider_v01.py` and `current_ivv_total_return_provider_v01.py`: pure
  functions of downloaded bytes that parse, hash and compare, and keep no state;
- in the runtime target and the compiler's inputs: hashes, dates, and the SP2
  composition, which is validated and handed through;
- the broker client, the market data and the demo adapter: HTTP and parsing. The
  account they talk to is the environment of the models;
- revision counters of the recovery database and timestamps: one writer, and no
  decision reads them;
- archives, environment variables and the JSONL log.
