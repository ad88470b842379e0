# A TLA+ model of run-farm

run-farm rents machines one per piece of work ("leg") from Vast.ai or RunPod,
runs a command on each, brings the files home and destroys the machine, with a
ledger and an external reaper behind it so that nothing keeps billing unseen.
This directory models the parts in which the order of events matters, checks
them with TLC on small instances and proves what it can for every instance.

Source paths below are relative to `src/run_farm/` of the repository.

Contents: [components](#components) · [how they interact](#how-they-interact) ·
[what is hard](#what-is-hard) · [modules](#modules) · [runs](#runs) ·
[bounds](#bounds) · [fairness](#fairness) · [assumptions](#assumptions) ·
[disagreements](#disagreements-with-the-code) · [proofs](#proofs) ·
[not modelled](#not-modelled) · [plan](#plan)

## Components

| Component | Source | State | Operations | What makes it correct | Modelled by |
|---|---|---|---|---|---|
| Rental adapters and their clouds | `vast.py`, `runpod.py`, `protocols.py` | the locals of one `rent()`; the cloud's instances and its listing | create with resends, wait_running, the with-block, destroy loop, verify listing, ledger rows | at most one box per `rent()`; no box left billing without LeakRisk; every call returns | `RentContract`, `Rental` |
| Rental ledger | `ledger.py`, `reap.py` (`leaked_ids`) | an append-only file of rows | record, leaked_ids, summary | what bills can be found from the rows | `Rental`, `Reap`, `Budget` |
| Reaper | `reap.py` | flags, a listing, the targets, what it killed | main's gates, scopes, destroy with retries, closing rows | never closes a row of a live box, closes every stale one, spares other sessions | `Reap` |
| FleetExecutor | `fleet.py` | a leg per thread, offer pool, `_live`, futures, signal guard | `_run_leg`, `run`, halt on budget, reconcile, relaunch | each leg reported once and truthfully; no leg running after `run()`; it ends | `Fleet` |
| A leg's files | `fleet.py`, `arrival.py` | remote tree, staging directories, local directory, marker | mid-run fetch, final fetch, publish, restore, validate, skip | marker after payload; banked work is not lost; OK means undamaged | `LegFetch` |
| ProviderExecutor | `provider_exec.py` | offers, the host in hand, records, one deadline | failover walk, readiness, run worker, reattach, probe, bring home | one worker per config and host; a bounded time per config; records of one host | `ProviderExec` |
| Preflight gauntlet | `gauntlet.py`, `payload.py` | a list of checks, a report | run, require, the two kinds of skip, the operator's next pass | what is let through is known to the operator | `Gauntlet` |
| The launch | the two above | | a green light, then a slice | a refused key is met only if bypassed | `Launch` |
| Budget | `budget.py`, `ledger.py` | sums over the ledger's rows | two readings and a gate before `rent()` | the overshoot is bounded; the gate answers | `Budget` |
| Multi-provider campaign | `multi.py` | a split, a pool of threads, results, duplicates | split_configs, stream_multi, run_multi | the harvest is the merge; nothing rents on; it ends | `Multi` |
| Campaign driver, registries, sinks | `driver.py`, `reference.py`, `store.py`, `config.py` | config, manifest, checkpoint, events, DONE | execute_config: register, skip, load, emit, checkpoint, finish | preemption loses nothing and repeats nothing that counts | `Campaign` |
| Farm policy | `farm.py` | cut-flow, plan, gate, corpus, registry | plan, gate_launch, execute_leg, execute_fleet | no leg disappears without a reason; only gated legs fly; first content stays | `Farm` |
| Local and Modal executors | `local_exec.py`, `modal_exec.py` | none | run tasks | as the driver | a thread of `Multi` |
| Diagnostics, status, progress | `diagnostics.py`, `status.py` | none | collect text | – | – |
| Sweep, testing | `sweep.py`, `testing.py` | none | build configs, test doubles | – | – |

## How they interact

- A **driver** process runs `FleetExecutor.run` or `ProviderExecutor.run`, the
  second after the **gauntlet** has passed. Each leg's thread takes an offer and
  enters the adapter's `rent()`, a context manager; with a budget,
  `CappedProvider.rent` looks at the ledger first.
- `rent()` calls the cloud's HTTP API and appends rows to the **ledger** file,
  which the **reaper**, another process on the same machine, reads and appends
  to. The ledger and the cloud are all that survives a kill of the driver.
- Inside the with-block the leg ships its payload and runs the command over
  ssh, while a fetcher thread pulls the files every so often; both that thread
  and the final fetch publish into the leg's **local directory**, whose marker
  is what a relaunch looks at.
- A command is often a **campaign worker**, which executes one config over a
  registry and a sink and can be preempted.
- `run_multi` puts several executors side by side, each in a thread; those that
  rent may share one ledger and one cap.
- `FarmCampaign` stands above all this: it plans legs, hands them to a dispatch
  (an executor's `run`) and governs the records it gets back.

Signals arrive in the main thread of the driver, SIGKILL anywhere.

## What is hard

`PROJECT.json` lists each hazard at its line with the properties that cover it.
In short: kills between an API call and its ledger row; replies lost after the
server acted; a listing that lags; a destroy that half succeeds; a reaper beside
live drivers; results, refusals and signals reaching the main thread in any
order; an offer pool that could be refilled for ever; two publishers of one
directory; transfers cut half way; files overwritten in place; a dropped ssh
channel whose worker lives on; several renters past one gate; checks that hide
each other's findings; slices that land in any order or raise; a cut-flow whose
rows are dropped, recovered and dropped again.

## Modules

```
RentContract <=== Rental <==== Reap         Rental implements RentContract; Reap EXTENDS
                     ^           ^          Rental and, as its drivers see it, implements it
             RentalProofs <-- ReapProofs
Fleet        <---- FleetProofs              uses what Rental shows of rent() as one step each
LegFetch     <---- LegFetchProofs           one leg's files
Gauntlet --+
           +-> Launch <---- LaunchProofs    the gauntlet, then a slice on a rented host
ProviderExec
Budget ----> Multi <------- MultiProofs     executors side by side behind one cap
Campaign     <---- CampaignProofs           one run's registry
Farm         <---- FarmProofs               the policy above the executors
MC*                                         the instances TLC checks
```

### RentContract

The promise of `Provider.rent` with none of its steps: a caller is inside or
not, has acquired at most one instance, and leaves with a fate that says whether
that instance may still bill. `KeepsContract` in Rental is `ContractSpec` under
the mapping `Contract`: `alive` is what bills in `cloud`, `reapable` is
`LeakedIds(ledger)`, and a call's `Fate` is read off its result, its verdict and
whether its instance was ever written down.

### Rental

`pc[r]` is where caller `r` is inside `rent()`; `box`, `torn`, `verify`,
`outcome` are its locals `instance_id`, `destroyed`, `verify`, `outcome`, and
`tries` counts the turns of whichever retry loop it is in. `cloud` and `listed`
are the provider's side, `ledger` is a set of rows (order and repetition of rows
mean nothing to `leaked_ids`). `vendor` chooses between the two adapters, which
differ in the create: which replies are sent again (`Resent`) and what a failure
becomes (`CreateFailure`). `faults` says which misbehaviours the cloud may show:
`lie` (a DELETE accepted and not carried out), `lost_reply` (a create carried
out whose answer never comes), `lag` (an instance surfaces in the listing late).

`BeginRent`, `CreateSucceeds/Fails/ReplyLost`, `RecordRented`, `HostComesUp`,
`WaitFails`, `UseEnds`, `DestroyAttempt`, `VerifyTeardown` and `RecordDestroyed`
are the function from top to bottom; `FailBeforeTry` is an exception between
create's return and the `try`; `Kill` and `KillInFlight` are SIGKILL. `made` and
`blind` are history.

### Reap

`StartReap` is `main` with its gates (`SomethingToDo`, `Refused`), `Scope` the
choice of targets, `DestroyTarget` one attempt of `_destroy_with_retry`,
`TargetsDone`, `ReadOpenRows` and `CloseRows` the end of `reap()`, with the two
reads of the ledger and the write kept apart, for a driver may append between
them. `theirs` are another session's instances. Time is one bit per row: `old`.
A command line is a record of the flags that matter to scopes.

`Drivers` is an INSTANCE of Rental in which the cloud, the listing and the ledger
are what the drivers have to do with: their own instances and their own rows.
`DriversUnaware` says that this view goes through a behaviour of Rental, so that
the reaper, its kills and the other session are to a driver nothing but a cloud
that evicts an instance now and then.

### Fleet

`pc[l]` is where leg `l` is in `_run_leg`. `rent()` appears as `Create`,
`BootEnds` and `Teardown`, with the outcomes Rental establishes for them: a box
or none; yielded or failed inside the `try`; gone and confirmed, LeakRisk
(whether or not it is gone), or not checkable. `GetOffer` is `_OfferPool.get`
under its lock, `BudgetGate` the look at the ledger. `main` is where `run()` is:
collecting futures, halting, waiting in the thread pool's `__exit__`, and
reconciling. `SignalArrives`, `DestroyLive` and `SignalUnwinds` are the signal
guard. `Launch` starts the next `run()` over the artifacts of the last: `art`,
which survives. `capped` says whether the provider is a `CappedProvider`; that
class has a `rent` and nothing else the executor looks for with `getattr`.

### LegFetch

A file is `absent`, `part` or `full`, on the box (`remote`), in each fetch's
staging directory (`stage`) and in the leg's directory (`local`). A path is the
sequence of the ranks of its components in sorted order, which is all that
`publish` depends on: `Before` is its order, `PartAt` the component at which two
paths go different ways. Two fetches exist, `midrun` (the thread) and `final`.
`BeginLeg` covers the relaunch that skips, the first box and a replacement with
its restore.

### Gauntlet

What is wrong with a launch is a set of facts, `wrong`. A check is a sequence of
stages, the sets of facts it returns at in order; `Named` is the first stage
that finds anything, so what a later stage would have found stays hidden. A
check that raises names what it raised on. `Warnings` do not block. `dropped` are
the checks `standard_gauntlet(skip=)` leaves out without a trace, `skip` those
`require_gauntlet(skip=)` records. `Drift` lets a fact come true at any time;
`late` is history: what came true after the last check that could have seen it.
`StandardChecks` is the list of `standard_gauntlet` with the two checks its
callers append (`RemoteEnvPinned`, `CapClearsWorstCase`); `RegistryChecks` that
of `registry_gauntlet`.

### ProviderExec

`pe` is where `run()` is: walking the offers (`plan` counts those left), in
`_wait_engine_ready`, in `_run_worker` for config `cfg` (`invoking`, `attached`,
`probing`, `napping`), judging its record, on the way home. `elapsed` counts
from `_run_worker`'s entry, the one deadline all its attempts share; `patience`
is what `_worker_gone` may still wait. `strays[c]` are workers of config `c` that
run on the host without a channel, `finished` what its disk has complete.
`sees` says whether the provider has a `dead_reason` to ask.

### Launch

Gauntlet, then ProviderExec: `Go` is the green light, after which of the facts
only the key's remain of interest, `Call` is `run_campaign` calling the executor,
and an engine is reachable only where no host refuses the key.

### Budget and Multi

`Budget` has `CappedProvider`'s gate in its two readings of the ledger
(`ReadBooked`, then `Passes`, which reads what is in flight), the rented and
destroyed rows of each renter with the bill made out before the destroy loop, and
one row left open by an earlier campaign, which `reap` may close at its price or
as vanished. `Multi` runs executors in the pool of `stream_multi`: a renter goes
through gate, create, use and close with failover, another executor works and
answers or raises. `Land` is one `ProviderRun` taken by `run_multi` with the
duplicates it finds, `OnResultRaises` an observer's exception, `Unwind` the pool's
`__exit__`. `RoundRobin`, `Counts` and `Apportioned` are `split_configs`.

### Campaign

A worker's `pc` walks `execute_config`. On the file backend a file is opened and
filled in two steps, between which a kill leaves it in `torn`; on the object
store a put is one step. The physics is reduced to: emit the next step's record,
checkpoint, and so on to `LastStep`.

### Farm

`cf` is the cut-flow, with `Enter`, `Drop` and `Pass` for `enter` and the two
branches of `mark`. `Plan`, `GateLaunch`, `ExecuteLeg` (in process),
`ExecuteElsewhere` (through a thunk) and `execute_fleet` as
`StartFleet` / `FleetRecord` / `FleetDuplicate` / `FleetUnplanned` /
`FleetReturns` are the calls of one process. `done` is the registry and survives
a `Restart`; the corpus `ingested` does not. A shipment is one of `Contents` or
has a defect, and the defects differ in the stage that catches them.

## Runs

| Run | Instance | What it shows |
|---|---|---|
| `rental` | 2 callers, 2 ids, both vendors, lies and lost replies or a lagging listing, 2 create and 2 destroy attempts | `LedgerCoversBilling` and `NoSilentLeak` in every interleaving, `KeepsContract` (the refinement of RentContract), and `EveryRentEnds` |
| `reap` | 1 driver, 2 ids, a stranger, 5 command lines, a lagging listing, 1 kill of the reaper | `DriversUnaware` (the refinement of Rental), `ClosedByReapIsGone`, `NoPhantomSurvives`, `StrangersNeedAll`, and `EveryOpenRowCloses`: a recorded box nobody drives is destroyed and its row closed |
| `fleet` | 2 legs, 2 threads, 1 refill of 1 offer, 1 signal, capped or not | `ReturnReportsEveryLeg`, `NoStragglers`, `LeakIsReported`, `HaltStopsTheQueue`, `EveryRunEnds` |
| `fleet_signal` | as `fleet`, capped | **violated**: `SignalReachesTracked` |
| `fetch` | 2 layouts of 3 files, atomic or plain writers, whole or cut transfers | `MarkerLast`, `OkIsNotTorn`, `BankedSurvives`, `ReportedIsStill` |
| `fetch_cut` | the same | **violated**: `MarkerMeansPayload` |
| `campaign` | 2 workers, 3 steps, 3 kills, both backends | `DoneIsFullyRecorded`, `ProgressIsKept`, `ObjectRunFinishes` |
| `campaign_torn` | the same, file backend | **violated**: `PreemptedRunFinishes` |
| `farm` | 2 legs, 2 contents, 3 defects, 4 calls per process, 1 exception or restart | `EveryDropHasReason`, `ReportMatchesCutFlow`, `OnlyClearedLegsAreDispatched` |
| `launch` | 14 facts, 2 of them true at a time, 1 bypass; 3 configs, 2 offers, 2 reattachments, a deadline of 4 ticks | `NothingUnreported`, `MendingLeadsToGreen`; `WorkersAreAccounted`, `WithinRunTimeout`, `RecordsAreThisHosts`, `EverySliceEnds`; `RefusalIsNoSurprise` across the two |
| `multi` | 3 executors (2 rent) on 2 workers, 3 configs, every split and an overlapping one, a cap of 2 ticks, an old open row | `OvershootIsBounded`, `HarvestIsWhole`, `NothingRunsOn`, `EveryCampaignEnds` |
| `budget_null` | the same | **violated**: `GateAnswers` |

Most passing runs also check their module's type invariant, which carries the
loop bounds; those of Reap, LegFetch and Farm are proved instead. Every property has a
mutant, a definition named `<definition>_<what is wrong>` beside the one it
replaces, that makes the run fail: a create resent as if idempotent, a destroy
believed without looking, a reaper without its grace period, a queue not
cancelled, a sorted publish, a checkpoint saved in place, a deadline per attempt,
a probe that guesses, a check that swallows its exception, a pool not waited for.

Two of the five command lines of `reap` are for the gates: a bare `--yes`, which
`main` refuses, and a label without `--older-than`. The label scopes show that
another session's box is spared even when ids are recycled between the listing
and the destroy.

The modules state a few properties that no run is spent on, because a theorem
has them or because the code breaks them: `OneBoxPerRent`,
`LeakRiskStaysReapable`, `SkipMeansDone`, `OneManifestLine`, `SkipIsWhole`,
`FleetAnswersForAll` and `FirstContentStays` are proved;
`UnavailableMeansNothingPlaced`, `DamagedIsNotOk` and `InUseIsSpared` do not hold
and are discussed below.

## Bounds

Two of everything that can race: two callers, two legs in two threads, two
fetches, two workers, two renters. The checked properties speak of one box, leg
or file beside what the others do to shared state (the ledger, the offer pool, the
main thread, one directory), so a third actor adds no new kind of step; what holds
of any number is what the proofs are for.

- `MaxCreateTries`, `MaxDestroyTries`, `ReapRetries`, `MaxAttempts`, `Reattach`
  = 2 or fewer: a first turn and a last one of the loop. The code's are 4 to 6.
- `MaxRefills` = 1 of `MaxOffers` = 1 in `fleet`: an offer before the refill, one
  from it, and none after it.
- `MaxSignals` = 1: a second signal is a hazard of its own, see below.
- `MaxKills`, `MaxReapKills`, `MaxFailures`: from 1 to 3; after a kill the state
  is that of a fresh process, so more kills only repeat it.
- `RunTimeout` = 4 and `Backoff` = 1 tick: a probe may take three pauses, so four
  ticks hold a whole probe and a rest, and are used up by two attempts.
- `MaxFacts` = 2: a fact and the one that hides it. `MaxBypass` = 1: one check
  dropped or skipped. `MCWorld` has one fact for each stage of each check that
  behaves in a way of its own; the others only repeat them.
- `Cap` = 2 and `MaxRun` = 2: two renters can pass the gate at one tick below
  the cap and both run their whole length, so the bound of `OvershootIsBounded`
  is met exactly.
- `NExecutors` = 3 on `MaxWorkers` = 2: one slice has to wait. The weightings of
  `MCMulti` have a last place to give out and an executor left without any.
- `MaxCalls` = 4 in `farm`: plan, gate and dispatch, and one more call on top of
  what they left, and any other four calls.
- The layouts of `fetch`: marker first or last in sorted order, a subdirectory
  before or after it, a file elsewhere with the marker's name.

`farm`, `campaign`, `launch` and `multi` are over when their calls, their run,
their slice or their campaign is, hence no deadlock check there.

## Fairness

- `FairRentalSpec`: weak fairness of a caller's steps inside `rent()`. Every call
  in it has a timeout and every loop a bound, so a live process gets on. Nobody
  has to begin a rental, and the cloud owes nothing.
- `FairReapSpec`: the same for drivers and reaper; an operator who keeps running
  a ledger-scoped `--yes` reap (strong, since the gates open and close); a DELETE
  that is carried out if sent over and over (strong); the listing catches up and
  rows age. The last three are what the backstop presumes of the world.
- `FairSpec` of Fleet: threads are scheduled and calls time out. Hosts may die
  for ever, spend may or may not reach the cap, `Launch` is not fair.
- `FairSpec` of Campaign: workers that are not killed proceed, and the executor
  hands an unfinished run out again; kills are bounded by `MaxKills`.
- `FairLaunchSpec`: the operator goes on with the gauntlet (`Operate`) and `run()`
  takes its steps (`Run`): every wait in it has a timeout. Hosts and stray workers
  owe nothing. `MendingLeadsToGreen` presumes that at some time nothing new goes
  wrong, and says so in its own antecedent.
- `MultiSpec`: the pool's threads and the main thread are scheduled. Time owes no
  tick and the reaper nothing.

## Assumptions

What the models take for granted, and where it comes from:

- An append of a ledger row, and an emitted record, is one write. In the
  `finally` of `rent()` the append succeeds; an interrupt there is as a `Kill`.
- An instance surfaces in the listing before its row passes the reaper's grace
  period, and (`SlowReap` = FALSE) a reap is over within that period. With
  `SlowReap` = TRUE `ClosedByReapIsGone` fails: the reaper's listing is then
  older than the grace period it compares against (`reap.py:363`).
- scp lists the tree when it starts and copies in any order.
- The fetcher of a dead host is over before the replacement's starts, and
  `fetcher.join(timeout=30)` does not time out (`JoinTimesOut` = FALSE); with
  TRUE, `ReportedIsStill` fails, as it must.
- On a file base one worker at a time has a run; `ProviderExecutor` declines to
  start a second one (`WorkersAreAccounted`).
- The copy of `_live` under its lock is one step. (A second signal while the
  handler holds that lock would block on itself; one signal is modelled.)
- A leg has a `done_when` marker that names a file, at most two components deep
  (`ShallowMarkers` in the proofs). With a marker three deep, `publish` compares
  only names below the top level and `MarkerMeansPayload` fails without any cut
  transfer (`arrival.py:336`).
- A box that came up is torn down within `MaxRun` ticks of its row: everything
  `rent()` and its user wait for is under a timeout. Every box costs one unit per
  tick.
- `LegFetchAssumption`, `RowAssumption`, `MultiAssumption` and the other named
  assumptions say that the constants are sets and numbers of the right kind:
  finitely many files of which none is the directory of another, an empty row that
  is none with marks, at least one executor with a positive weight.

`rent()` verifies its teardown against the listing. Where the listing lags, a box
whose DELETE failed before it surfaced is recorded as gone, so the contract's
promises about what bills, and three of Rental's properties, say what they say
under `PromptListing` ("lag" not among the faults); one box per rent and the end
of every call hold without it.

## Disagreements with the code

Four runs end in a counterexample to what a comment or a docstring says; the
exact lines are under "findings" in `PROJECT.json`.

1. `fleet_signal`: behind a budget cap a signal destroys nothing, because
   `CappedProvider` passes neither `destroy` nor `dead_reason` through.
2. `fetch_cut`: a transfer cut after the marker publishes the marker alone, since
   the exit code of scp is not looked at.
3. `campaign_torn`: a worker killed while it overwrites the checkpoint leaves a
   run no later worker can load.
4. `budget_null`: a row that `reap` closes as vanished has no `billed_s`
   (`reap.py:182`), and the sum over the ledger raises on it (`ledger.py:80`), so
   the gate of every later rent on that ledger raises.

Met while modelling, with no run of their own:

- A create whose answer is lost is reported as RentUnavailable although the
  instance exists, and nothing records it (`vast.py:395`; `protocols.py:405`).
  `UnavailableMeansNothingPlaced` in Rental fails; the contract calls such a call
  `unrecorded` and promises nothing.
- A leg reported BAD_ARTIFACTS, or RUN_FAIL with its marker there, is SKIP, and
  ok, at the next launch (`fleet.py:720`; `fleet.py:179`). `DamagedIsNotOk` in
  Fleet fails.
- A ledger-scoped reap beside a live driver takes the boxes the driver uses
  (`reap.py:330`). `InUseIsSpared` in Reap fails; no line of the code promises
  otherwise. What is left to the driver is `DriversUnaware`: the loss looks like an
  eviction, and nothing rent() promises is broken by it.
- A kill between `config.json` and the manifest line leaves a run that is never
  listed, because a relaunch finds the config and does not register again
  (`config.py:104`).
- Two captures number themselves by counting the files that exist
  (`reference.py:93`).
- After a config's call has timed out, and after a probe that ends in a refusal to
  start a second worker, the first one lives on and the next config starts beside
  it, while the comment at `provider_exec.py:257` speaks of at most one worker.
  `WorkersAreAccounted` says what is true: one per config.
- A fresh host has no copy of the work directory, so nothing resumes there
  (`provider_exec.py:385`, `:422`); a worker whose result line was lost and who is
  reattached to reports `skipped` with no result.
- A LeakRisk at the teardown, or a directory that cannot be made for the way home,
  discards every record of the slice (`provider_exec.py:372`, `:400`); an executor
  that raises in `run_multi` loses its finished records with it.
- One local run of the gauntlet does not surface every blocker (`gauntlet.py:95`):
  a check returns at the first thing it finds. `MendingLeadsToGreen` says what is
  left: each pass shows something to mend. `standard_gauntlet(skip=)` leaves no
  trace in the report; a registry keyed by directory without `.base` is not looked
  into, as its comment says.
- `spent_usd` reads the ledger twice (`budget.py:118`); a row closed in between is
  in neither sum. With N renters on one ledger the overshoot is up to N rentals,
  where `budget.py:101` speaks of one host. The bill is made out before the destroy
  loop, and a row counts as closed whatever the verification said.
- An observer that raises in `run_multi` is heard only after every thread has
  ended, the queued ones included (`multi.py:164`).

## Proofs

Eight modules of theorems, all checked by TLAPS from nothing but the named
assumptions on the constants. Each property was checked by a run before it was
proved. In each the argument is the same: an inductive invariant, one lemma or
step per action, and the properties as consequences.

**RentalProofs**, for any number of callers, ids and attempts. None of the
properties is inductive by itself: `LedgerCoversBilling` needs that a row saying
"gone" is true, which needs that a verdict in hand is true (`VerdictInv`), which
needs that the listing shows what bills (`RowsInv`); `NoSilentLeak` and
`LeakRiskStaysReapable` need what a finished call left behind (`FinishedInv`).
`HoldersInv` ties a caller's phase to the cloud and the ledger, and `FaultsStay`
carries the condition on the listing along. From `RentalInvariant`:
`LedgerCovers`, `NoLeakIsSilent`, `LeakRiskReapable`; from `PlacedInv` (a call
still asking was given nothing, because what may have reached the server is not
resent) `AtMostOneBox`, whatever the listing shows.
The last part is the refinement: `RentKeepsItsContract` maps every step of Rental
to a step of RentContract or to none. The invariants above do not suffice for it:
`OwnersInv` adds that what a call made is its own and is the box it holds, and
`RowOwnersInv` that no row is yet about a box just created, so that leaving with a
fate changes no other call's instance on the list. `RentIsBounded` is the
first of four theorems about how long things take, see below.

**ReapProofs** carries Rental's types into the larger system: a step of a driver
there is one of Rental's, and the reaper's touch the cloud and the ledger only
(`DriverStep`). `AccountInv` says whose an instance is, `ReaperInv` what a scope
may aim at, `PhantomInv` which old rows a reap under way is bound to close, and
`GoneInv`, for a DELETE that does not lie and a reap within the grace period, that
what it killed or missed is gone for good. From them `ClosedIsGone`, under exactly
these two conditions, and without them `PhantomsGo` and `StrangersSpared`.
The second part is the refinement `ReapIsTheCloud`: in the drivers' view a DELETE
of the reaper or of the other session is an eviction or nothing, a row reap writes
is no row, and a step of a driver is the same step of Rental, whose creates cannot
be given a foreign id (`AccountInv`). `InView` then takes RentalProofs itself through
the same substitution, and its theorems come over as they stand:
`NoLeakIsSilentBesideReap` and `ContractBesideReap`, both of them also for a reaper
that takes boxes in use. What Rental's ledger invariant says of the drivers' own
rows, `LedgerCoversBesideReap` says of the whole file: the rows reap adds hide
nothing that bills, by `GoneInv`, and hence where the listing is prompt, no DELETE
lies and a reap is over within the grace period. The run's listing lags, so that
last one is proved only.

**FleetProofs**, for any number of legs, threads, refills and signals. `MainInv`
is the heart: the main thread goes on collecting only as long as every future it
saw had a result, so it leaves with nothing to raise over a full report only, and
with a budget halt over an empty queue only. The bound on the thread pool
needs a cardinality argument of its own (`PoolBound`). From it `EveryLegIsReported`, `NobodyStraggles`,
`AlarmsAreReported`, `HaltIsFinal`.

**LegFetchProofs**, for every finite tree. The first half is about the order of
`publish`: `Before` is a strict total order (paths part at some component, and at
each component the marker's name is the greatest), so a nonempty staging directory
has a first file: the one with the fewest before it, which exists because numbers
are well-ordered. A marker at most two components deep comes after every other
file (`MarkerIsLast`). The second half follows the marker back: in the leg's
directory it has its payload beside it; in a staging directory, beside it or
already at home (`PublishInv`); in a transfer, beside it or on the list
(`PullInv`); on the box, beside it (`SourceInv`). `WholeInv` does the same for
torn files. `MarkerComesLast`, `BankedIsKept`, `OkIsIntact`, `DoneStaysStill` and
`SkippedIsWhole` state their conditions (`ShallowMarkers`, joins that do not time
out) in the theorem.

**LaunchProofs**. `SliceInvariant` for ProviderExec: records in step with the
configs, probe and elapsed time within one deadline (`DeadlineShared`: a probe's
patience is part of what is left), one stray per config, none between hosts. For
the gauntlet, `NothingUnreported` must hold at every point of a pass before it can
hold at the end: what is wrong came late, is looked for by a check still ahead,
was bypassed, or stands in the report or behind something fatal that does
(`GauntletInv`). `KeyInv` carries the key's trouble from one to the other.

**MultiProofs** begins with sums. `MapThenSumSet` is a fold, and what a fold does
cannot be proved by the library's induction theorems, which take an operator; so
the subsets for which a statement holds are put into a set, and `SubsetInduction`
shows that the whole is among them (the least counterexample by size). The
lemmas `Added...` are what follows: any summand may be taken first, sums compare
and scale term by term, a bounded sum is within so many bounds.
With them `split_configs`: the whole shares leave over fewer places than there are
executors (`OverIsSmall`), the executors with the largest remainders get one each
since their ranks are distinct, so the counts add up to the configs
(`CountsAddUp`) and the intervals laid end to end give every config to one executor
(`SplitLosesNothing`) and each executor its proportion to less than one config
(`SplitIsFair`); `DealingLosesNothing` for round robin.
`NothingIsLeftRunning` comes from `QuietInv` (an open row has a thread between its
two rows, and the end has no such thread). `OvershootIsOneRentalEach` needs more
than what is spent: a renter past its reading may still add a whole rental to it.
`Staked` are the renters that may, and `SpendInv` counts each of them as one
`MaxRun`; a reading below the cap leaves room for the reader's own stake, whatever
was booked since, because what was booked was staked before.
`HarvestIsWholeAlways` rests on `LandingInv` (a slice lands once, after its thread
is over and its outcome settled) and `MergeInv` (each config's record and list of
providers are those of the landings so far), which hold in every order of landing.

**CampaignProofs**, for any number of workers, steps and preemptions on both
backends. `RecordsInv` is the heart of it: the records reach at least as far as
the checkpoint and as every worker, a killed one included, so a run resumed from
any checkpoint cannot finish with a gap. `OneWorkerInv` and `ManifestInv` say who
may still write the manifest line, and `ProgressInv` that the one worker of a file
base is not behind its checkpoint.

**FarmProofs**, for any legs, contents, defects and calls. `CutOK` is what makes
`EveryDropHasReason` inductive: a stage that says no has a reason on record, its own
or that of a stage before it, and only stages that say no have one; so a pass may
give back what a drop forced with its reason and leaves no orphan. `ReportInv` ties each leg's outcome to its row and the corpus (`Agrees`),
`GateInv` says that the plan the gate cleared is the plan, and `StrayInv` that of a
leg it did not dispatch a call can only have rejected a record, which is why an
unplanned record disturbs nobody.

**How long things take.** Liveness cannot be proved here, but the part of it that
does not speak of fairness can: `RentIsBounded`, `SliceIsBounded`, `RunIsBounded`
and `CampaignIsBounded` give a call of `rent()`, a `ProviderExecutor.run`, a
`FleetExecutor.run` and a `run_multi` a rank, a number within a bound made of the
constants. Every step of the process itself lowers it, and nothing around it (the
cloud, a host, a kill, a signal, the reaper, another caller) raises it. The ranks
are counters nested as the loops are: in ProviderExec the ticks of a probe within
the attempts within the configs within the offers; in Fleet ten steps for every
offer the pool can still hand out, each refill counted at its largest, and the
legs' own steps as the size of the set `Todo`. A loop without its bound, such as a
pool refilled for ever, has no such rank. What the liveness runs add is that
each of these processes is scheduled and never stuck before its end.

Only model-checked: the liveness properties themselves (`EveryRentEnds`,
`EveryOpenRowCloses`, `EveryRunEnds`, `ObjectRunFinishes`, `MendingLeadsToGreen`,
`EverySliceEnds`, `EveryCampaignEnds`), since fairness and ENABLED are out of the
prover's reach. Every other property of a passing run is proved.

## Not modelled

- Offer search and filters, prices, ssh coordinates, log tails, diagnostics,
  status, progress: they read and print. `Sweep` builds data.
- The byte checks of `arrival.py`: a file is whole or torn, and the verifier sees
  which. `validate=False` and a leg whose `done_when` is its fetch directory
  switch off what LegFetch is about.
- `trigger` captures, manifest readers, the remote worker's command line and
  `remote.run_one`.
- `SshHandshake`, which is in neither list of checks; `estimate()`, which is
  arithmetic on a spec.
- The Modal service and its own retries: `ModalExecutor.run` is a thread that
  answers or raises.
- Reattachment in `FleetExecutor._run_command`, whose loop is the one of
  `_run_worker`: in Fleet the command is one step.

## Plan

What would come next:

1. A reattachment module of its own that both executors instantiate, so that Fleet
   shows what an unattended command does to its leg's files.
2. Two signals, with the lock of `_live` as a variable: the deadlock at
   `fleet.py:696` as a run.
3. Fleet with Rental under it instead of the outcomes of `rent()`, by way of
   RentContract: Fleet's box variables refine a set of contract callers.
