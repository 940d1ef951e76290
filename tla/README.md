# A verification development for L.C.

L.C. is the life-cycle program of a firm's trading desk: it accepts an approved
intent, gates the orders made of it, applies the venue's reports to them, and
carries the executed trade through capture, allocation, matching, affirmation
and clearing to a settlement obligation that is handed to another system,
Atreides. Everything it decides is an event in a hash-chained register, and
what an order *is* at any time is replayed from that register. Beside it stand
COP, a web page that shows operators the state of everything L.C. touches, and
a harness that checks the evidence which passes between programs.

This directory holds TLA+ modules that model the program, TLC configurations
that check them on small instances, and proofs, checked by TLAPS, of the
properties that matter most. The modules are translated from the Python source
under `src/`; `PROJECT.json` maps every definition to the lines it models.

## 1. Inventory

| Part | State it keeps | Operations | How others use it |
|---|---|---|---|
| Lifecycle register (`lc/events.py`, `lc/lifecycle.py`) | `events`, a chain of sealed order events | `append`, `replay`, `accept_intent`, `authorize_strategy`, `activate_parent`, `split_parent`, `transition`, `record_not_reached` | every other part of `lc` takes a register and returns a new one |
| Market access gate (`lc/market_access.py`) | `_seen` (duplicate window), `_locate_used`, `decisions`; the journal of limit changes | `evaluate`, `record_decision`, `record_limit_change` | reads a register and the halts; its decision is recorded by a second call |
| Execution policy and fills (`lc/policy.py`) | none; works on a register | `evaluate_policy`, `apply_execution` | called with the venue's reports; asks for one or two transitions |
| Order management (`lc/oms.py`) | `FirmControlJournal` of halts | `cancel_order`, `expire_day_orders`, `engage_halt`, `release_halt`, `replace_order` | composes register, gate and policy |
| OMS publication (`lc/oms_publication.py`, `lc/execution_received.py`) | none | projections of a register | read by COP |
| Trade (`lc/trade.py`) | none | `capture`, `allocate`, `record_match`, `affirm` | four moves of the register, and the trade and allocation records |
| Clearing (`lc/clearing.py`, `lc/ficc.py`, `lc/repo.py`) | none | `clear_gross`, netted results from an attested document | one obligation per trade |
| Obligation (`lc/obligation.py`, `lc/asset_profile.py`) | none | `form_obligation`, `record_atreides_handoff` | three moves, then Atreides' answer |
| Options (`lc/options.py`, `lc/option_*.py`, `lc/occ_*.py`) | none | validators, exercise, the assignment wheel, rule tables | an option's own road to an obligation |
| Fixtures (`lc/institutional.py`, `lc/counterfactual.py`, `lc/metamorphic.py`) | none | constructions and comparisons of finished lifecycles | tests and Thifur-H |
| Emulators (`emulators/`) | the OCC emulator's pending reports, results and positions; the others none | build a response; submit a trade report | stand in for venue, matching, settlement, OCC |
| COP refresher (`cop/refresher.py`, `cop/state.py`) | the published snapshot, the last good value of every source, the last comparable Aureon reading, the pending drop, one thread, the start lock and the stop event | `start`, `stop`, `refresh_once`, `load_program_now` | web routes start it and read its snapshot |
| COP web (`cop/app.py`, `cop/auth.py`) | `LoginLimiter._failures` | login, pages | concurrent requests |
| COP sources and views (the rest of `cop/`) | none | parse one document, summarise it, render it | called by the refresher and the routes |
| Harness (`harness_c2/`) | transcripts as immutable values | issue and admit a handoff, assemble a lineage, append a crossing, perturb, replay | between programs |
| Thifur-H (`thifur_h/`) | none | project and evaluate recorded lifecycles | offline |

Registers are immutable values: an operation that loses a race does not corrupt
one, it fails in `append`. What is hard is the *order* of calls. Every operation
decides on the register it was given; evaluating a control and recording its
outcome are two calls; the venue's reports arrive when they do; halts, cancels,
expiries and replacements fall between any two of them. And a request the
transition table does not allow is not refused but *recorded*, as the state
`NOT_REACHED`, from which no order returns. What makes each part correct:

- *Register*: one chain, no event decided on a head other than the one it
  extends; an order fills only when gated, never beyond its quantity; every
  checkpoint on the way to Atreides once and in order; a split conserves.
- *Gate and halts*: limits hold over all orders together, not one by one; a halt
  is final for what it covers; a pass is good only for what was passed; no
  duplicate release, no locate used twice.
- *Fills*: time in force, limit and approved notional honoured over any
  sequence of reports.
- *Trade, clearing, obligation*: shares and cents conserved; a record only for a
  move that happened; Atreides' answer binds what was handed over.
- *OCC emulator and exercise*: novate once, positions balance, assignments
  conserve.
- *COP*: one refresh thread; a failing source costs neither the other sources
  nor its own last good value; what is computed from two sources is computed
  from one refresh; nothing stale looks green; a dropped approval is noticed
  and stays noticed; the page recovers when the sources do.
- *Harness*: exactly the unbroken chain of records passes; a replay finds what
  was altered; nobody is admitted to work without a decision behind it.

`PROJECT.json` lists the hazards with their lines and the properties that cover
them.

## 2. The modules

```
OrderStates            the states and the transition table
  OrderBook            what one event does to the replayed snapshots
    Lifecycle          the register as a journal              MCLifecycle
    MarketAccess       the gate, on the replayed register
      Execution        the venue's reports
        OrderManagement   cancels, expiries, halts, replacement   MCOrderManagement
OrderLife              what a client is promised about an order (abstract)
  PostTrade            executed orders until their trade is affirmed
    Settlement         clearing, obligation, Atreides' answer  MCSettlement
Allocation             the arithmetic of an allocation (used by PostTrade)
OccEmulator            the options counterparty             MCOccEmulator
ClearingHouse          what it promises its members (abstract)
CopReaders             what a source's answer is read as
  CopRules             what is computed from readings
    CopView            what the page shows of a snapshot
      CopRefresher     the refresh thread and its memory    MCCop
Lineage                the records of one lifecycle, assembled
Transcript             what crossed between programs, and its replay
Handoff                who may work on what                 MCHarness (all three)
OrderBookProofs, LifecycleProofs, OrderManagementProofs, SettlementProofs,
OccEmulatorProofs, CopRefresherProofs, HarnessProofs        the theorems
Sums                   what a sum over a finite set is, for the proofs
```

**OrderStates** is `LifecycleState` and `_ALLOWED`. `Reached(state, target)` is
what `transition` records.

**OrderBook** holds the snapshots `replay` rebuilds: a function from order ids
to records, with the state `UNSEEN` for an id the register does not hold.
`Snapshot` is the body of `replay`'s loop; `Moved`, `Retermed` and `Executed`
are the three ways callers use `transition`. They act on books as values, so
that a handler that appends several events is one action.

**Lifecycle** keeps the journal itself. An event carries the id of the event it
was sealed against in place of that event's digest. One action per operation:
`AcceptIntent`, `AuthorizeStrategy`, `ActivateParent`, `SplitParent`,
`Transition`, `RecordFill` (the transition `apply_execution` asks for),
`RecordNotReached`, and `SealOrder`/`AppendSealed`, the two halves of
`seal_order_event` followed by `append`, which other callers may interleave.
`ReplayEach` is `replay` of every prefix of a journal, so that a property can
speak of the book an event was decided on.

**MarketAccess** has the register as a book (`orders`), the clock, the halts in
force, and what the gate remembers (`seen`, `locateUsed`, and `passes`, the
decisions that passed). `Evaluate` is `evaluate`; `RecordPass` and `RecordHold`
are `record_decision` at any later time, any number of times. `Controls` is the
conjunction of its checks.

**Execution** is `apply_execution`: `LateFill`, `FillAfterClose`,
`KillPartialFill`, `FillRemainder`, `FillPart`, `FillPartImmediate`. Each is one
way through the function that changes the register. A report states when the
fill happened, now or earlier.

**OrderManagement** adds `Cancel`, `ExpireDayOrders`, `EngageHalt`,
`ReleaseHalt`, `ReplaceOrder`, the entry of new orders and the passing of time;
its `Next` is every interleaving of all of these.

**OrderLife** is the abstract specification: per order a phase, a quantity and
a filled quantity, and the five things that may happen to them. `Lifecycle` and
`OrderManagement` each implement it through `LifeOf`, which maps the lifecycle
states to phases. In `Lifecycle` the promise has one exception: `split_parent`
asks of its children that they differ from one another and from the parent, not
that they are new, so a split that names an order the register holds already
starts that order again, a closed one too (`NamedAgain`). Every other step of every order keeps the promise.

**Allocation** is what `allocate` computes: `Shares` divides the executed shares
over the targets of a plan, `Allocated` prices them at the average and gives the
odd cents to the `Recipient`. It has no variables. Under `PRO_RATA` the shares that
rounding leaves over go to the largest remainders; under `ROTATION` they go by
place (`rounding_order`), so that a target whose part is exact may get one more.
`SharesFair` says what each rule promises. The last check of `allocate`, that the
accounts pay what was executed to the cent, is not in `Recordable`: it cannot fail
(`CentsConserved`).

**PostTrade** is `lc/trade.py` on a register of executed orders: `Capture`,
`Allocate`, `RecordMatch`, `Affirm`, and `CancelTrade`, the one call of
`lc/oms.py` that may reach such an order. Each call returns a record as well as a
register, and callers keep both: `captures`, `allocations` and `outcomes` are
those records, `holder` says which of them contains the latest register.
`allocate` takes captures of any orders, and asks neither whether they are
distinct nor whether they were allocated before; it goes by the plan and the
terms of the first, whose order it moves, and leaves the others where they are
(trade.py:228-240, 340-342). `Allocate` therefore takes any `Batches`. As the
record is made before the move is asked for, `allocations` grows also when the
order does not move.

**Settlement** adds `lc/obligation.py` and gross clearing. A clearing result is
a value that nothing keeps, so `Clearings` is the set of those a caller can have
made of its captures, and `FormObligation` takes any obligation of any of them,
with any legs. `Readied` is the three moves that follow when every check passed.
`RecordHandoff` records an answer, to any envelope Atreides was given, on the
formed obligation of one order for whichever order the caller names: a
`FormedObligation` does not say whose it is, and `record_atreides_handoff` does not
ask (obligation.py:336-368). `affirm` likewise takes its order apart from the
outcome it works on, and so does `Affirm`. `answered` keeps the answer and whose
obligation it was recorded on.

**OccEmulator** is the counterparty's `submit`, for any reports in any order:
`AwaitCounterpart`, `RejectLate`, `RejectMismatch` and `Novate` are its ways to
an answer it keeps. Its state is the five dictionaries of `OccEmulator`; a
missing key is the absent report, or no contracts. A novation's payload and
events are functions of the two reports it binds, so a result holds that pair.
The answers `submit` does not keep (a resubmission, an id reused under other
content) change nothing and are no step.

**ClearingHouse** is its abstract specification. The only state is which pair
of reports each trade was novated with; positions are sums over those pairs.
`OccEmulator` implements it with the pair read off its results.

**CopReaders** is what the readers of `cop/` make of an answer: `Read` is the
order in which transport, shape and content fail, and each reader is `Read` with
the set of flaws it refuses. The pages' sources differ in exactly these sets:
one refuses a document without a version, another takes it.

**CopRules** is `Observation` and what is computed from observations: the state
of a repository's CI, the latest tag, the deploy drift (`ComputeDrift`), the
marker of a dropped approval (`DetectPendingDrop`), the rows of the lifecycle
board, and the dispositions of exceptions, controls and risks.

**CopView** is the page, the list of stale sources, the blind spots and the
health answer, each a function of one snapshot, as in the code: `Tile` is a
source's tile, `Overall` the state at the top, `Rail` one badge per section.
`HealthGroups` are the entries of `/healthz` with the observations each is asked
of (app.py:410-456): `github` is five readings of every repository together, the
drift and the marker have no entry. `OverallKeys` are the observations `_overall`
looks at, which are not all of them (section 5).

**CopRefresher** is the thread. `refresh_once` is four actions,
`RefreshGithub`, `RefreshAureon`, `RefreshFeeds` and `Publish`, because time
passes between its fetches and requests are served meanwhile; `AbortRefresh` is
the way in which it ends early. `Wake` is the loop of `_run`, `Request`,
`TakeStartLock`, `MakeThread` and `LaunchThread` are the steps of `start` at
which another request may run, `Stop` is `stop`, and `Init` is
`load_program_now`. In each of its steps the sources answer as usual, are all
down, or one of them answers in an unusual way. `Observed` is `_observe`.

**Lineage** is `assemble_lineage` with its link checks and `package_escalation`.
Its state is what a caller has supplied so far, in any order, repeated or of
another lifecycle, and what was escalated of it. `Kept` is what the filter by
lifecycle leaves, `GapsOf` what the checks find in that.

**Transcript** is one scenario: identifiers linked to it, crossings appended to
its transcript, a reference-data outage applied, conditions recorded, and the
gates that `replay_transcript` recomputes. `Edit` is the one step nobody in the
code takes: the stored transcript is altered, which is what replay exists for.
`received` is history, what each crossing was received as.

**Handoff** is `issue_handoff` and `admits`, with the authority records they
rest on. All times are the caller's, so a record may be of any date.

### What is abstracted

Data is reduced to what the properties tell apart. An order's terms are a record
of account, strategy, issue, side, time in force, control price, whether that
price is a limit, approved notional, expiry and session flag; digests are identities; actors,
reasons and provenance are left out. Times are small numbers. The attested
capacity document is its contents and one flag per call for whether it is fresh
and readable. The halts handed to the gate are the journal's active halts, and
the gate evaluates the order's latest sealed terms at its full quantity, which
is what the code's entry points hand it. `SHORT` stands for short and
short-exempt. The two marks differ in no control. Calls that raise or only
return HOLD leave the state as it was and are no step.

After execution, a quantity is a number of units (`Unit` to a share), a unit
being the last digit a Decimal division keeps; a price is a number of steps
(`PerCent` to a cent). Rounding is therefore modelled, in both places where
the code rounds, at a coarser digit. Days are business days of one calendar.
Accrued interest is a constant operator of quantity and day, and principal is
that of an equity. An envelope's
digest is the envelope; the other trades of its clearing result are left out of
it. `affirm` and `record_atreides_handoff`
work on the register inside the record they are given. The model lets them do so
while that is the latest register, which is how every caller uses them; used
later they would fork it. Only deliveries with a security and a cash leg are
modelled. What the utility said of an order (`told`) is dropped once the order is
`NOT_REACHED`, from where nothing leads on.

In COP, a time is the age it has: what the code computes from times is only ever
an age, and ages stop growing at `OldestAge`, past every limit. A body is its
first flaw and what it carries; hashes are compared whole, where the code
accepts a prefix; risk limits are positive; every exposure is a whole number.
Left out are the last good values a pull request's own row keeps, the counter
of Aureon comparisons, and boards whose documents all lack a time zone.
In a refresh at most one source is unusual, or all that are fetched in one step
are down. In the harness a digest is the record it is computed from, artifacts
and payloads are model values, and the perturbations of an event stream
(`apply_injections`), whose result nothing reads, are left out. A crossing whose
bytes agree is given PASS: the disposition and reason a caller may state instead
(`accepted_disposition`, transcript.py:147-159) are collapsed to that one.

Things the model shows and the code promises nothing about: a matching fact
names a trade that `record_match` does not compare with the order;
`form_obligation` does not ask that the clearing obligation comes from the
order's own trade, so that two orders of equal value can be obliged by one
capture; `allocate` takes the same capture twice over, or again beside others, so
that the same shares can stand in two allocation records, of two orders on their
way too; and an order that is a settlement candidate can be handed over or
refused by the answer to another order's obligation, which then closes no other.

## 3. What is checked

Each run's cfg sets `CHECK_DEADLOCK FALSE`: a register may be left alone for
ever, once its orders are closed or the bounds are reached.

| Run | Instance | What it shows |
|---|---|---|
| `lifecycle` | three interchangeable orders: one followed to Atreides' answer, or split into two children, or events sealed side by side; one refused move, one event sealed outside | `TypeOK`, `OneChain`, `GatePrecedesFill`, `HandedInOrder`, `KeepsPromise` |
| `oms_controls` | two interchangeable orders that may be a purchase for account A or a sale for account B, long or short, one halt engaged for account A or for the firm, one locate, clock to 2 with a window of 1 | `TypeOK`, `HaltedScopeInert`, `TradesOnGatedTerms`, `PendingPassesValid`, `ExposureWithinLimits`, `NoDuplicateRelease`, `ShortSalesCovered` |
| `oms_execution` | one order of five kinds of terms, fills of 1 to 3 at two prices, clock to 2 | `FillsHonourTerms`, `KeepsPromise` |
| `occ_emulator` | two trades reported by both sides, one or two contracts, to open or to close, and a stray fifth report of the first trade | `TypeOK`, `WaitingAgrees`, `NovatedOnce`, `Balanced`, `PositionsAddUp`, `ActsAsHouse` |
| `settlement` | one order of 1 to 5 shares in one fill or two, at four prices, on one day or two, under five plans over three accounts; or two orders of equal value, on the same or opposite sides, one in two fills that may fall on two days | `TypeOK`, `LeadsOneAllocation`, `SharesFair`, `OddCentsSmall`, `NeverDoubted`, `SettlesWhatWasFilled`, `AnswerBinds` |
| `cop` | one repository, eight connected feeds, two web workers; limits of one tick, refreshes of up to one tick, a sleep of one tick; fourteen kinds of trouble | `TypeOK`, `OneRefresher`, `CleanMeansAnswered`, `DriftOfOneRefresh`, `LastGoodKept`, `HealthAgrees`, `FailsClosed`, `DropSeen`, `PanelsRecover` |
| `harness` | the records of two lifecycles, up to six in hand; up to three crossings and one alteration; two authority records and one handoff among two agents, works and stages | `VerdictsFitTheRecords`, `ReplayNamesFirstTouched`, `AdmissionsAuthorised` |
| `resplit`, `late_fill`, `cancel_executed`, `cop_never_raises`, `cop_overall` | | five disagreements between a text and the code (section 5) |

Bounds. In `lifecycle`, `MaxChain` (11) bounds the journal of a single order: it
is the length of the longest life, from the intent to Atreides' answer, so that
no life is cut short. `MaxEvents` (5) bounds a journal of several orders, which
is enough for an activated parent, its two children and a move of each kind.
`MaxNotReached` (1) bounds the one event that is possible everywhere. A child
that a second split reopens after it was gated or closed takes seven events or
more and is past these bounds; the theorem `LifecycleProofs.PromiseKept` covers
it. In
`oms_controls` the firm's threshold (7) admits one order of two at a price of
two (notional 4) and not two, so the limit is met and exceeded by interleaving
alone; a fill of one leaves an exposure of 2, which lets a second order in. The
clock passes the duplicate window; the locate of 3 covers one short sale and not
two, and is not yet expired when the window is over and a like sale may follow.
(That an expired locate covers nothing is left to `LocatesSuffice`.) In `oms_execution` an order of 3 can take three
fills, so a notional of 5 or 7 is reached by the second or third. In
`occ_emulator` the two trades may close in one what they opened in the other, with either
account on either side, even one account on both. The fifth report takes the
waiting place of a trade, or arrives when it is novated. Each id may be used by
every report of its side, so reuse under other content is met as well.

In `settlement` a share is 20 units and a cent 2 price steps, so that thirds and
sixths of an execution do not come out even and averages fall between steps; the
plans leave a share over, tie, divide exactly, take fractions of a share, and
price in coarse steps; the rotation starts with the account of the largest part,
which gets a share more than its exact part when two are divided. The module
states `DigitsSuffice` of its plans as an assumption, which TLC evaluates.
`MaxAllocations` of 2, in all, and `MaxCaptures` of 2 let `allocate` be called
again for the same capture, for a capture twice over, and for two orders' captures
together and then for one of them. Captures may state another price, obligations another day, the
parties may be the firm or another on each of the four places, and the two
orders may be cleared under the same obligation id, so each check of
`form_obligation` is met by a value that fails it.

In `cop`, `OldestAge` of 2 lies past every limit of 1, so a value can be fresh,
at its limit and stale; a refresh and a sleep of one tick each let a value
outlive two refreshes. Two workers are enough to race for the start. One unusual
answer in a refresh combines with any other in the next, and with what was
remembered. In `harness` six records are one more than a full chain with two
fills needs, so a chain may be complete, short by one, or have one too many or a
stranger in it. The three parts of the harness share no state, and a behaviour
of the run is a behaviour of one of them (`part`).

Fairness. Nothing in `lc`, the emulators or the harness schedules their
operations, callers do: those runs assume none. `cop` assumes what its thread
and its page rely on, and `PanelsRecover` is checked under it alone: a daemon
thread that can run does (`WF_thread(ThreadStep)`; its fetches end because every
request has a timeout), a sleep ends (`WF_elapsed(SleepStep)`, `_stop.wait` with a
timeout), and requests go on arriving at `start` (`WF_workers(Launch)`: every
page reloads itself). Nothing is assumed of the sources: that they answer as
usual from some time on is the property's premise, and that `stop` is not called.

## 4. What is proved

Every property the runs check is a theorem for all values of the constants,
except `PanelsRecover` (last paragraph) and the disagreements of section 5;
`SharesFair` has a hypothesis about the digits of a division. The inductive invariants of order management and of settlement were
model-checked over the runs' instances before they were proved.

**Assumptions.** Each constant has the ones its proofs need, named where it is
declared, and TLC evaluates them in every run. Absent values are not members of
the sets they are absent from. Order quantities, fills, control prices, the
firm's threshold, targets of a plan, prices in a report: positive, by the
`Field(gt=0)` of their records. A locate's quantity has no validator, so it is
any number. Orders, accounts and trades are finitely many. Every answer a source
gives COP is dated and, where its reader refuses what is not a disposition, made
of dispositions; the refresher sleeps for a tick at least; every source of the
programme section but its file goes stale.

**Sums.** Exposure, locates, positions and allocations are sums over sets that
change by one element at a time. `Sums` proves the laws of the library's
`SumFunctionOnSet`: that it unfolds (`SumSteps`), that any element may be taken
out first (`SumWithout`), that it depends on nothing but the terms (`SumSame`),
changes by what one term changes by (`SumChange`), grows with its set and its
terms (`SumMonotone`), leaves out what adds nothing (`SumSupport`), that multiples
of two sums stay near when their terms do (`SumsNear`), and that one leads the
other by a step for every term that leads, at most (`SumsLead`). Each is an induction over the size of the set, done as a
descent: of the subsets for which the law fails, one is smallest (`LeastNat`),
and it has no element to take out. The same way of arguing, over the length of a
journal or a prefix (`Least`, `LastDay`), stands in for the induction theorems
with an operator parameter, which no installed prover can use.

**The register** (`LifecycleProofs`): `TypeCorrect`, `JournalIsOneChain`,
`GateComesFirst`, `CheckpointsInOrder`, `PromiseKept`. The inductive invariant
`IInv` says that each event was lawful on the book its prefix replays to
(`LawfulJournal`), that each names the one before (`Chained`), that ids are
places or come from outside (`IdsByPlace`), that the intent is the parent
(`IntentIsParent`), and that an event sealed outside was sealed on some earlier
head on which its order was unknown (`SealedAhead`): this is why a stale sealing is refused
by `append` rather than by luck. Appending leaves the books of the prefixes
alone, so a step adds one lawful event. What a lawful journal implies is then
proved of journals, without steps: an order that can be filled was gated and not
replaced since, and an order at the n-th checkpoint passed the n before it, each
once and in order.

**Order management** (`OrderManagementProofs`):
- `TypeCorrect`: `WellFormed` is the part that needs an argument: every known
  order has a positive quantity and an unknown one no state, which each way of
  appending an event preserves (`OrderBookProofs`).
- `HaltsHold`, `TradesGated`, `PassesStayValid` are not inductive one by one.
  That a late recording of a pass cannot release a halted order needs that the
  pass is about the order's present terms and that these are not halted; that a
  pass is about the present terms needs that no order rests in `REPLACED`, and
  that a replacement consumes the order's `PARENT_ACTIVE` state. `Safe` is their
  conjunction, inductive over `TypeOK`; most steps reduce to one that only
  withdraws orders (`QuietStep`).
- `NoDuplicates`: the window is checked against the last pass alone; `Remembered`
  says that what the gate remembers of a key is at least as late as each of its
  passes.
- `LocatesSuffice`: `Charged`, that what the passes under a locate lend never
  exceeds what the gate charged it with. The two are not equal: the gate also
  charges a purchase that is marked short, which lends nothing.
- `ExposureHolds`: the limits hold of released orders because they hold of all
  live orders that have a pass, recorded or not (`Committed`). A pass that is
  recorded long after it was evaluated releases an order that every evaluation
  in between has counted already; without the unrecorded passes the invariant
  would not be inductive. It also needs that nothing is filled beyond its
  quantity, or an open notional would be negative.
- `TermsHonoured`: an action property; only a report of the venue adds to what is
  executed, and each of the ways in which it may do so honours the terms it adds under.
- `PromiseKept`: order management implements `OrderLife`. Each action maps to a
  lawful step of every order it touches. The invariant says that what an order
  has executed never exceeds its quantity, equals it in the filled phases, and is
  less while the order is released.

**The counterparty** (`OccEmulatorProofs`): `EmulatorTyped` (no position below
zero, because `CloseCovered` asks for the contracts a novation takes away),
`WaitingHolds` and `NovationsHold` (that a novation overwrites no answer but that
of the waiting report needs that the waiting report's answer is `UNMATCHED`);
`LongEqualsShort` and `IncrementsAddUp`, where one novation moves up to two of
four positions and adds one trade to the sums, also when buyer and seller are one
account (`NovateBalances`, `NovateAddsUp`); and `EmulatorClears`, the refinement
of `ClearingHouse`: a novation is a `Clear` of its pair, whose guard holds because
the positions kept by increments are the sums the abstract house reads
(`PositionsAddUp`), and every other step is a stutter.

**From execution to settlement** (`SettlementProofs`): `LeadersAllocateOnce`,
`AffirmedUndoubted`, `FillsSettled`, `FirmTakesSealedSide`, `AnswersBound` and the
type invariant (`SettlementTyped`). `IInv` says of each order what its state
implies about every record kept of it: no allocation and nothing told before the
states that allow them, a capture only of an order that is no longer `EXECUTED`,
a holder only in the state its record was made in. `OneOrder` reduces each step
to the order it deals with. `LeadersAllocateOnce` holds for any captures named,
distinct or not (`BatchFilled` is what they add up to): a second call takes the
order it asks for out of its way. `AnswersBound` holds whichever order a caller
names: an answer is recorded while the obligation's register is the latest, and
is not any more once an order was closed by it (`AnswersHeld`).
`FirmTakesSealedSide`, that the attested firm has the sealed side's duties on both
legs, is one check of one call and has no run. `OddCentsBounded` is about the arithmetic of
`allocate`: rounding half to even is half a divisor off at most (`HalfEvenNear`),
for each account's money, the average and the sum, and `SumsNear` adds them up.

Three checks of `allocate` are left uncovered by tests as ones that cannot fail
(`# pragma: no cover`, trade.py:280, 291 and 320). The last two cannot:
`CentsConserved` shows that some target has shares, that the order among targets
has a first (`AheadOrders`, `NextInOrder`), and that the accounts therefore pay the
executed money to the cent. The first, that the shares add up to what was executed,
cannot fail for a plan in whole shares (`WholeSharesConserved`: as many targets are
`Lucky` as shares are left over, by `LeftOver` and `FirstFewCounted`). For a plan in
fractions it can: the rounded parts of one share over three equal targets do not
add up, and `allocate` refuses it. `Recordable` keeps that check.

`SharesWithinOne` needs nothing of the digits: no account is short of its part by a
share, or over it by more than a share and half the last digit (`DivisionNear`).
`SharesDividedFairly` states `SharesFair` under `DigitsSuffice`: in every plan for
whole shares the targets are multiples of some grain, of which `Unit` (the units
the last digit of a division makes of a share) are more than all the targets. Of
targets in tenthousandths of a share, 28 digits suffice for any quantity met in
practice. Without it `SharesFair` is false: when parts are finer than the last
digit, equal rounded remainders go by place, and a share may end with the account
that was a trace further off (ten units to a share, targets of 0.1, 0.7 and 2.3
shares that get two). The argument: a target is `Short` of its `Rest` to within
half a unit (`PartNear`); as shortages are multiples of the grain, none is too
small to show in the rest, and the order of the rests is that of the shortages
(`ShortRanked`). So no more shares are left over than there are targets with a
rest (`LeftOver`), the lucky ones have one (`LuckRanked`), and a share given to
another target brings the division no nearer (`MoveNoNearer`).

**COP** (`CopRefresherProofs`): `StartedOnce`, from who holds the start lock at
each place of the thread; `LastGoodPublished`, because a reading and what is kept
of it change and age together; `DropIsSeen`, because what is compared against is
the last reading that can be compared, also when readings that cannot came
between (`SeenInv`); `DriftIsOfOneRefresh`, where the drift may disagree with the
readings beside it only between the first two steps of a refresh (`DriftInv`);
`PageAgreesWithHealth`, entry by entry of `/healthz`, from what it means that one
is configured (`ConfiguredMeans`). `ObservationsWellFormed` follows the
contents of every source's value through the readers (`PictureInv`: every kept
reading is a well formed observation of its source); on it rests
`StaleIsNeverGreen`, about every picture so formed: the sections that rest on a
tile (`SectionsFailClosed`), and the overall state for the sources it is found
from (`OverallUnknown`); of the others it says nothing, which is the last
disagreement of section 5.
`CleanIsAnswered` needs to know, at each step of a refresh, which sources were
already asked and whether one of those failed (`CleanInv`, `AskedBefore`), and
that no earlier refresh of the same tick can be taken for the present one: that
is where the sleep of at least one tick is used.

**The harness** (`HarnessProofs`): `AdmittedWithAuthority`, for records and
handoffs made in any order and of any date; `ReplayVouches`, for any crossings,
links, outages and alterations, where every crossing keeps the scenario record it
was received under (`TranscriptInv`) and `ChangedWhen` says exactly when a gate
differs from what was recorded; and `VerdictsFit`, for any hand of records. Its
heart is not about steps: the gaps of a hand have no hole exactly when the hand
is the beginning of one chain made from everything in it (`VerdictIs`), in one
direction check by check (`SoundWithoutHoles`), in the other by putting the chain
together from what the checks left (`SoundIsWhole`).

**Not proved, only model-checked.** `PanelsRecover` is liveness under fairness, which is
left to TLC altogether. So are the five disagreements of section 5, which TLC
refutes.


## 5. Where the code and its texts disagree

- `split_parent` promises a conserved split. A second split of the same parent
  is accepted, since the register's last event, a child's, is taken for the
  parent (`resplit`).
- `apply_execution` reports that a late fill "opened an exception". For an order
  still at the venue it records `NOT_REACHED` instead (`late_fill`).
- `cancel_order` promises to cancel only the unfilled remainder. Cancelling an
  executed order takes it out of `EXECUTED`, and its trade can no longer be
  captured (`cancel_executed`).
- `refresh_once` is documented as never raising and publishing at its end. The
  time of the lifecycle documents is computed outside its error handling, and
  times with and without a zone cannot be compared, so a board that mixes them
  ends the refresh, and nothing is published until it is gone
  (`cop_never_raises`).
- The overall state "is never PASS while any source is unknown" (view.py:7-8) and
  is the worst of "every source tile" (view.py:1296). `_overall` looks at the
  programme, the repositories, Aureon, the agents, the advisories and the
  lifecycles only, and answers "All sources current; nothing failing" while the
  escalations, say, have failed (`cop_overall`). `FailsClosed` says what is true:
  no source it does look at, once failed or stale, leaves it greener than unknown.

Observations without a run of their own, where the code does one thing and no
text of the repository promises another:

- A replay reports an untouched crossing that was refused on receipt as changed:
  its gate compares with what the producer asserted, not with what was recorded.
- The reference-data outage is written over the disposition of whatever crossed
  to Atreides first, also over a refusal, since the copy is not validated.
- A crossing removed from the end of a transcript is not seen by its replay.
- One authority record serves any number of handoffs of any work, since it names
  none.
- An acceptance of another lifecycle's obligation is escalated, where any other
  record of another lifecycle is refused.
- An advisory that blocks has no entry in the page's ordering of badges.
- The limits of the gate see one register; orders of the same account in another
  register are not added (`lc/oms.py`, `engage_halt` likewise).
- `replace_order` runs the gate whatever the strategy said, and hands it neither a
  sell mark nor a locate, so the replacement of a sale is refused and one the
  strategy holds still occupies the duplicate window. Both are modelled.
- `affirm` and `record_atreides_handoff` extend the journal in the outcome they
  are given; with another branch of the journal they would extend that.
- The gate holds every child of a split parent that stays live without terms.

## 6. Not modelled

- **OMS publication, execution records, layer clock**: pure projections and
  declarations; no state between calls.
- **Options**: records and validators, quoted rule tables, exercise and
  assignment and the obligations formed of them. Each is a pure function of one
  day's inputs; what is stateful about options, the counterparty, is modelled.
- **COP**: the login limiter and its sessions, routes, the rendering of pages,
  the demonstration data; field parsing inside one answer.
- **Harness**: the lifecycle document (a projection of a transcript) and the
  perturbations of event streams.
- **FICC netting and repos**: readings of an attested document.
- **Thifur-H**: offline arithmetic over finished lifecycles.

## 7. Where to go on

The assignment wheel and exercise by exception as functions over bounded sizes,
fed by the positions of the counterparty; the login limiter, whose check and
record are two steps; netting beside gross clearing.
