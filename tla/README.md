# The Anti-Demo, in TLA+

Lakebase: The Anti-Demo is a live show. A FastAPI server (`server/`, `app.py`) runs six
rounds of a bout between Lakebase and an AWS or Azure opponent, a React page shows it, and
cloud resources cost money while they run. Several people may press buttons at once,
several server processes may serve the same deployment, any of them may be restarted, and
operators run commands beside them. What must not go wrong is therefore small and hard: two
bouts must never work on the same round at once, what a bout started must be stopped, and a
restart must find what its predecessor left.

This directory models that core. TLC checks it on small instances, and TLAPS proves much
of it for every value of the constants.

## Inventory

Paths are relative to the repository's root. "Hard" says what a unit test hardly reaches.

| Part (source) | State | Operations | Hard | What makes it correct | Here |
|---|---|---|---|---|---|
| Bout lease store (`server/coordination.py`) | one row per ring: owner, phase, fencing token, expiry | claim, transition, renew, release, current | statements that are dropped, sent twice or served long after the caller left | one owner per token; an answered lease stands until it expires; a confirmed release ended an unbroken tenure | `BoutLease`, `FencedRing` |
| Holding the ring (`server/manager.py`, `RunManager` and `SessionRecord`) | the session's copy of the lease, its local proof, heartbeat task, stage of the bout | claim, arm, bell, converge, run, heartbeat, lose, release, probe, retry | late answers, a heartbeat beside a bout, work that outlives its ring | a running bout is inside a live lease of its own | `RingHolder` |
| Round 4 pipeline and its power history (`pipeline_power.py`, `round4_race_live.py`, `round4_race.py`, `manager.py`) | running update, append-only rows, a lane per card, start keys, the one settlement a process remembers | claim, wait, park, mint a key, start, give back, schedule, settle, append, crash, close | rows appended in the background, a wall clock that steps back, a settlement scheduled after the ring was given back | a start on record is owed a stop until it has one; a race is stopped by nothing its Prepare could wait for | `PipelinePower` |
| Inherited stop recovery (`round4_stop_recovery.py`, started by `app.py`) | its debt, its ring, its signals | wait until due, claim, read, stop, append | a debt and signals read before they are acted on | a debt is repaid; a race is never stopped | `PipelinePower` |
| Round 2's isolated environments (`safe_change*.py`, `manager.py`, `towel.py`) | the card, the lanes, one environment per lane, calls on threads | arm, create, verify, towel, lose, settle, remove, claim again | a create whose caller was cancelled; a towel against a lost lease against the run's own end | what was made is removed; a bout's tasks act only inside its ring; the ring comes back | `IsolatedBout` |
| Round 5 card (`manager.py`, `connection_spike*.py`) | the card, its two rings, its jobs, the sealed authority | claim, ring, run, publish, hand off, clean, release | an answer that is lost between sealing a verdict and publishing it | no job outlives its bout unfenced; the rings outlast the cleanup they owe | `SpikeBout` |
| Round 5 warm slot (`round5_warm.py`) | the row, its leader's lease, capsules, cleanup tasks | lead, warm, claim, arm, ring, abandon, clean, close | coordinators that crash and come back, a bout that is armed while it is fenced | a generation is rung for one bout; a claim is in the row while cleanup is owed | `Round5Warm`, `WarmSlot` |
| Round 5 resident control (`round5_control.py`, `runner/connection_spike_runner.py`) | outbox, FIFO queue, dead letters, agent and its files | stage, dispatch, deliver, obey, recover, settle | redelivery, restarts of the agent, jobs of earlier attempts | a settled job never works again; a stale message stops nobody | `ResidentControl` |
| Round 5 creation journal (`connection_spike_journal.py`, `round5_cleanup_owed.py`) | intents and outcomes of a bout's resources | intend, create, complete, delete, discover | a provider that acts after its caller has gone | whatever exists is owed by the journal | `CreationJournal` |
| Round 6 (`round6_race.py`, `round6_race_live.py`, `round6_dms.py`, `manager.py`) | the bout, the parts of the AWS pipeline, calls on the wire, the settlement | prepare, purge, ring, start, commit, settle, repeat | starts still on the wire when the race has ended; a settlement after the ring was given back | no part a bell issued keeps running | `Round6Race` |
| Verdicts of Rounds 4 and 6 (`round4_race.py`, `round6_race.py`) | a verifier's notes: last negative read, first exact read | read, resolve | slow and failing reads | a named winner really was first | `LaneRace` |
| Maintenance commands (`lifecycle.py`: renew, reset, runner refresh, setup) | rings, the copies of the sealed expiry, the renew journal | claim, heartbeat, work on a thread, give back | a step that raises, a kill, a heartbeat that fails under work that goes on | an interrupted renew is on record until every copy names its target; nothing made for a bout loses its tag | `Maintenance` |
| Deployment lifecycle (`lifecycle.py`, `manifest.py`, `bootstrap.sh`'s app) | manifest, Terraform's state, what exists, the record of the app's creation | setup, resume, cleanup; create, record and adjudicate the app | any step raising; a cleanup that is killed; an app that is made before there is a manifest | seals stand on what they were made over; a removed installation bills nothing of its own | `Installation` |
| Generation lock (`generation_lock.py`, `bootstrap.sh`) | an flock on an open file description, a record | take, join, refuse, record, clear, probe | residue of a dead holder, a command that outlives its shell | one operation at a time mutates a deployment | `GenerationLock` |
| Session registry, event log, control calls (`manager.py`, `api.py`) | sessions, a bounded log, subscribers | create, publish, resume | a subscriber slower than the log's cap | gaps are announced | not modelled |
| Rounds 1 and 3 (`targets.py`, `capacity.py`, `recovery*.py`) | polling, an environment per lane | wake, recover | timeouts | what was made is removed | not modelled; Round 3's lanes have the shape of Round 2's |
| Self-heal, server launch (`selfheal.py`, `server_launch.py`) | an attempt journal, a spawned command | offer, spawn, report | an offer built from an older look than the spawn acts on | no second attempt beside one that runs | not modelled, but for the lock the command takes |
| Readiness, instance lease, reaper, cost (`readiness.py`, `lease.py`, `reap.py`, `cost_*.py`) | caches, cloud leases, cost windows | sweep, renew, reap, open, seal | a cached answer that is stale when used | | not modelled |
| Adapters, runners, frontend, infrastructure | cloud resources | vendor calls | | | not modelled: I/O, rendering, declarations |

The parts meet in three places. Every bout, the inherited stop recovery and the maintenance
commands hold a ring of the lease store while they work, so the store is shared state
between processes. A bout's settlement may run after its ring was given back (Rounds 4 and
6), so pipeline and history are shared too, guarded by a task handle inside one process
only. And a process that starts reads what the one before it left: the history's unmatched
stop, the creation journal, the warm slot's row, the agent's files, the lock's payload.

## Modules

One module per component. `X.tla` is the model; `MCX.tla` and the `.cfg` files are its
instances; `XProofs.tla` its theorems. No definition of a model is replaced in a `.cfg`, so
what TLC checks is what the proofs are about. PROJECT.json's `map` names the source lines
of every definition.

| Module | What its state and actions are in the code |
|---|---|
| `FencedRing` | What the lease store promises: tenures, at most one open, none revived. |
| `BoutLease` | `coordination.py`. The row, the statements of claim, transition, renew, release and current as `Request`s that a caller issues, the wire runs and answers, drops, repeats or leaves behind (`stray`), `_run`'s second try, the clock. |
| `RingHolder` | EXTENDS `BoutLease`. `RunManager`'s calls of one card: a main task and a heartbeat, each a `Caller` of the store; the local proof (`_lease_proof`), the bell whose answer is lost and its convergence, release, probe and retry. |
| `PipelinePower` | Round 4's update, the rows of its history as they arrive, the cards of each process and the inherited stop recovery with its debt. A card goes from its claim over the wait for the settlement it found (`heeds`), Prepare, bell and race to "ended", where the ring is given back and its settlement not yet scheduled, and to its settlement; a slot is a card a process has in hand, and is used again. A start key is a number that mints increase. |
| `IsolatedBout` | Round 2 from claim to removal: the card of `SessionRecord`, the lanes of `safe_change.py`, one environment per lane and its writer, calls left on threads (`flight`). |
| `Round6Race` | Round 6 from Prepare to the end of its settlement: card, parts of the AWS pipeline, starts and commits on the wire, rows left in the sources. |
| `SpikeBout` | Round 5's card: its two rings, jobs, sealed authority, handoff to cleanup, towel, failure, loss, retry, on two processes. |
| `WarmSlot` | What the warm slot promises: a generation is lent to one claim at a time and rung for one bout at most. |
| `Round5Warm` | `round5_warm.py`: the slot's row with every guarded update of its store, and each process's coordinator cycle, capsule, probes and cleanup tasks. |
| `ResidentControl` | `round5_control.py` and the resident agent: outbox rows, FIFO queue with visibility and dead letters, the agent's memory and files, terminal events. |
| `CreationJournal` | `connection_spike_journal.py`: rows of intent and identity, a provider that acts late, a bout's launch, its own cleanup and the recovery's. |
| `LaneRace` | A verifier's reads, its notes L and U and `resolve`, over what really happened at the lanes. |
| `Maintenance` | renew, reset, runner refresh and setup of `lifecycle.py`: rings, heartbeat and worker thread, the copies of the expiry, the renew journal. |
| `Installation` | setup, resume and cleanup: one action per step, over manifest, Terraform's state and what exists; and what `bootstrap.json` says of the app (`app`), which `bootstrap.sh` creates before setup first writes a manifest. |
| `GenerationLock` | The flock, its payload and the processes that take, join, probe and lose it. |

What composes what: `RingHolder` EXTENDS `BoutLease`, which implements `FencedRing`
(`INSTANCE ... WITH fate <- Fate`); `Round5Warm` implements `WarmSlot`; `MCRounds` EXTENDS
`IsolatedBout` and instances `Round6Race`, with the ring's first claim deciding which round
is played, since two rounds share nothing but the ring; `MCInstallation` EXTENDS
`Installation` and `GenerationLock`, whose states share nothing, and the first step decides
which of the two goes on. The other models keep of the ring what they need of it: who is in
the row, and that a lease may be lost at any time. That a lost lease's owner knows before
the row is free is `RingHolder`'s theorem, not theirs.

Abstractions that matter:

- A call a coroutine waits for takes effect in one step with its answer, except where the
  code itself treats the answer as unknown: the store's statements, the calls of Round 2
  left on a thread, Round 6's starts and commits, Round 5's authority and jobs, the
  provider in the creation journal.
- Time is a counter only in `BoutLease`, `RingHolder` and `LaneRace`. Elsewhere a lease, a
  timer or a window ends when a step says so, at any moment.
- `IsolatedBout`: an ended bout's lanes go back to "idle"; the towel's stopping is part of
  its cleaning; the proof of a migration is one step. Round 1's idle watch and the bell's
  ambiguous handoff are not in it.
- `Round6Race`: the lag of a DMS status and its confirmation are not modelled, the wake's
  read is one step with the bell, a lost lease frees the row at once, a crash decides what
  was on the wire. The order of `_guard`'s refusals is not in the small instance, and what
  verifiers read is in `LaneRace`.
- `PipelinePower`: a card that waits gives up at any moment (the code after
  `_ROUND4_SETTLEMENT_WAIT_SECONDS`); a release whose answer is unknown is one that comes
  later; what a Prepare went past is noted in `past`, and `overlap` says whether two lanes
  of one process were ever at work side by side. Both are history.
- `Installation`: "created" stands for client ids that match (`_owned_app`); with "none" on
  record an app of that name may appear at any time, which is another's or made by hand.
  Its creation is answered, or ends in an error or a kill ("pending", or "none" if
  `bootstrap.sh` saw that there is no app). What the operator settles by hand leaves the
  app or deletes it. An owned app replaced by hand is not modelled.
- `SpikeBout`: a look at the slot and the loop that acts on it are one step; a process that
  is suspended loses both rows together; a bout after the bound of bells does not ring; the
  first leader of the slot is given.

## Runs

| Run | Instance | What it shows |
|---|---|---|
| `bout_lease` | 2 sessions, clock to 3, 2 claims, 1 fault of the wire; symmetric sessions | `FenceHasOneOwner`, `StampHolds`, `TrueReleaseIsUnbroken`, and that the store implements `FencedRing` |
| `ring_faults` | 1 card, clock to 6, 2 faults | `ProofHolds`, `RunIsFenced`: a heartbeat, a bell and a release with late and repeated statements |
| `power` | 1 process with 1 card at a time, 2 starts, 1 exit, 1 fault | `StartOnRecordIsOwed`, `SettledStaysSettled`, `DebtIsRepaid` |
| `power_again` | 1 process with 2 cards, 2 starts, 1 exit, 1 fault, appends prompt; symmetric cards | `NoRaceIsStopped`: no recovery stops a race, and no park but of a settlement its Prepare went past |
| `maintenance` | one round ring with the two of the commands, 2 expiries | `HalfMovedIsJournaled`, `NothingStranded`, `FenceFrees` |
| `warm` | 2 processes, one of a newer contract, 1 claim at a time, 2 generations, 3 fences | `ClaimIsDebt`, `OneLauncher`, `NoStrandedResident`, `KeepsPromise` |
| `resident` | 2 servers, 2 attempts, 1 bout, 2 boots; symmetric servers | `SettledIsQuiet`, `OpenIsOwned`, `CurrentPoolStands` |
| `journal` | 3 resources, 3 faults, one recovery | `ExistingIsOwed`, `CleanedInTheEnd` |
| `installation` | Round 4 sealed up to twice, 3 stops, kills of cleanup at 4 steps, an app before or beside the manifest; or, by the first step, the lock of 2 shells, 3 commands and 1 probe | `SealsAgree`, `NothingBillsAfter`, `SetupFinishes`, `CleanupFinishes`; `OneOperationMutates`, `HolderOnRecord`, `FreeMeansAbandoned` |
| `rounds` | 2 bouts, 1 fault; a branch and a clone lane, or one order, 2 sources and 2 parts | `ReadyLeavesNothing`, `WorkIsFenced`, `SettledLeavesNothing`, `RingComesBack`, `NoRaceIsParked`, `EveryBellIsSettled` |
| `spike` | 2 processes, 2 bouts of which 1 rings, 1 fault of any kind | `NoStrayJob`, `OutcomeStands`, `RingOutlastsCleanup`, `OthersClaimStands`, `EndedIsCleared` |
| `race_read` | 2 lanes, 1 lost read, ticks to 2 | a counterexample: `NoReadGivesAWin` |

Why the bounds are enough to mean something. Each hazard needs a number of actors and
faults, and the instances are chosen at that number: a second claim (two sessions, two
bouts), a debt of an earlier start (two starts and an exit), a settlement beside the next
bout (two cards), a heartbeat that spans a TTL (clock to 6 with TTLs of three heartbeats), a
newer contract that fences an older leader, an agent that reboots twice. Where a bound could
hide something a theorem takes it away: everything listed as proved below holds for every
value of the constants. For what is only checked, larger instances were run once:
`SpikeBout` with one bout and two faults (`MCSpikeFaults.cfg`, 153,074 states), the pipeline
of one card with three keys, `Round6Race` by itself with three bouts, two faults, one lane
and one part (765,410 states).

`power_again` is of `PromptSpec`: a row is appended, or lost, before anything else happens.
How late rows meet each other one card at a time shows (`power`), and with two cards they
would only multiply the two million states. A card slot is used again, so two slots see any
number of bouts, two of them side by side; what a third beside them adds is in the theorems,
which are of `Spec` and any number of cards.

`CHECK_DEADLOCK FALSE` is in every `.cfg`: the bounds on claims, faults and the clock stop
each instance somewhere. Symmetry is used for sessions, cards and servers only, in
instances without liveness properties.

Every property is paired in PROJECT.json with a mutant, one operator written above the
definition it replaces ("Mutant:" in the modules), under which the run fails.

Cfgs that are no run of PROJECT.json each show one thing that is not so, and stay for who
wants the trace: `MCRingLateClaim` (`OneWorkPerReplica`), `MCPowerClose`
(`CloseStopsWhatItStarted`), `MCPowerSettled` (`PreviousBoutIsSettled`),
`MCMaintenanceFence` (`ExpiryStandsUnderBout`), `MCJournalTwice` (`OrphanIsReclaimable`),
`MCWarmWedge` (`NeverWedged`), `MCResidentQuarantine` (`CleanupCanSettle`), `MCInstallOwned`
(`NothingOwnedAfter`), `MCInstallSpend` (`SpendCanBeStopped`; both of `Installation`),
`MCIsolatedStray` (`NoStrayDelete`, of `IsolatedBout`), `MCSpikeLeak` (`VerdictIsSealed`),
`MCSpikeSilent` (`RunLeavesOutcome`). Some modules also define properties that no run lists:
some that hold on the same instances (`OneTimelyWorkPerReplica`, `ReadyHasPool`,
`RoleOutlives`, `MintedAboveHistory`, `ResetIsAlone`, `ResultStands`, `WinIsFirst`),
theorems (`NeverAhead`, `TargetStands`, `LaneIsRecorded`, `OwedIsAttended`,
`VerdictIsProved`), and more that are not so (`CreditIsOwn`, `HeldReleaseSurvives`,
`ProbeBlocksNobody`, `CrashLeavesStopOnRecord`, `NoWarmOverStaged`, `ReadyIsProved`).

## Where the code and its words disagree

Listed as a finding (`race_read`, `NoReadGivesAWin`): `_poll` of `round6_race.py` (561-574,
589), like Round 4's (`round4_race.py:746-758`), takes a read that raised for one that
found nothing and notes its start as the last negative one. The lane's L passes an arrival
nobody saw, and `resolve` may name the other lane the winner.
`docs/design/v1.1-rounds-4-6-aws.md:333-335` says a slow read never gives a win.

The other counterexamples are kept as cfgs (above) or as properties of the modules, with
what contradicts them:

- `PreviousBoutIsSettled`: a bout of Round 4 gives its ring back (`manager.py:12914`,
  12968) before its settlement is scheduled (12937; on the failing path 13006, after an
  awaited publish). A Prepare that looks in between (9322) finds nothing to wait for,
  against its docstring (9314-9319): "Let the previous Round 4 bout finish settling before
  this Prepare looks." The settlement it went past can park its race, or a later one of the
  process, since only the settlement scheduled last is remembered (8221). `NoRaceIsStopped`
  says that there is no other way for a process to park its own race.
- `SpendCanBeStopped`: `bootstrap.sh` creates the app (3102) before setup (3253) writes the
  first manifest. If provision raises before that (`lifecycle.py:12013-12034`) the app is
  there, and the command printed to "Stop the spend" (`bootstrap.sh:3270`) ends in "No owned
  demo manifest exists" (`manifest.py:1840-1841`).
- `NeverWedged`: a process that led the slot, lost it and leads again has forgotten the
  first fence of a cleanup it began and refuses to finish it (`round5_warm.py:5103`
  against 3989-3992).
- `CleanupCanSettle`: a quarantined job (`round5_control.py:1641`) is what the cleanup
  waits for (1475-1482).
- `OrphanIsReclaimable`: after two recoveries die in turn an expired cleanup row may name a
  journal that nobody can claim (`coordination.py:908` against
  `connection_spike_journal.py:616-618`, 478-479).
- `NoWarmOverStaged`: a slot is warmed over a resident staged by a claim that was fenced
  between its ARM and its STAGE (`round5_control.py:1465-1483`,
  `connection_spike_live.py:8026`, against the comment at `round5_warm.py:4049-4055`).
- `HeldReleaseSurvives`: the janitor reaps a release that a live holder still needs
  (`round5_control.py:1213`, 982, against 1449-1454).
- `VerdictIsSealed`: `_commit_round5_proof_authority_to_cleanup` (`manager.py:10842-10850`)
  catches `InvalidStateError` only and `_transition_bout_to_cleanup` (8073-8088)
  `LeaseLostError` only. A connection that drops under the compare-and-set
  (`coordination.py:930-942`) leaves the card VERIFIED, not published, with heartbeats and
  neither towel nor retry, against the comment at 11483-11487.
- `RunLeavesOutcome`: `on_lane_result` closes the ingestion and then raises; the run sees
  it closed and returns, and the card is RUNNING with no task until a towel.
- `ReadyIsProved`: `lifecycle.py:12155-12193` against 7206-7207 and 7225-7227.
- `NothingOwnedAfter`: what cleanup never removes: Round 4's repair job
  (`_delete_round4_resources`, 14499) and Round 6's destination schema when the manifest has
  no `round6` (`_commit_round4_reseal`, 9971), against `docs/BOOTSTRAP.md:275-278`.
- `ExpiryStandsUnderBout`: reset claims the ring `main` (`lifecycle.py:12844-12852`), which
  no bout of this version holds (11768, 11817-11819).
- `CloseStopsWhatItStarted`, `CrashLeavesStopOnRecord`: a process that is closed or dies
  between a start and its row leaves an update running that the record does not name.
- `OneWorkPerReplica`: a claim can be won while work that lost the same ring still winds
  down (its true form, with timely cancellation, is `OneTimelyWorkPerReplica`).
- `ProbeBlocksNobody`: `app.py:183` says a mutation is never blocked by the server that
  probes for it; a command that tries the lock while a probe has it is refused.
- `CreditIsOwn`, `NoStrayDelete`: an engine of Round 2 is new for each arm and knows
  nothing of the calls an earlier one left on its threads. One that lands late makes an
  environment the next bout is credited with, or deletes what it made.

Seen while modelling, with no run of their own:

- Two processes that serve one deployment can hide a running start: a settle whose ring was
  given back at the end of the race holds a reserved key 2 while another process mints,
  starts and parks 3; the first then starts 2, and the stop of 3 on record hides it from the
  recovery. The same settle parks the other process's race. `AloneRecordIsOwed` and
  `AloneNoRaceIsStopped` are therefore about a process that serves alone.
- Two lanes of one process hide a start in the same way, if a settlement is passed over and
  its lane mints beside the next one's. `StartOnRecordIsOwed` therefore asks that no two
  lanes of a process were at work side by side (`overlap`). Besides the window of the
  counterexample `PreviousBoutIsSettled` there is one more way there: a card that loses its
  ring while it waits for the settlement before it has its own settlement scheduled at once,
  beside that one, and is what the process remembers from then on (`manager.py:7012-7017`).
- The app: an adoption by clearing `databricks_app_creation_pending`, which `bootstrap.sh`
  offers (2506-2512), is refused by the next run's preflight (2434-2449) unless
  `DATABRICKS_APP_CLIENT_ID` is given. An app that no record calls the installation's
  survives its cleanup and the unlinked manifest, on purpose (`lifecycle.py:15170-15182`);
  `NothingBillsAfter` excepts it. While a creation is pending every cleanup raises
  (14631-14636) with a message that names the app but not the record to be edited.
- A renew that fails in its reseal after `lifecycle.py:7210` leaves the status `seeding`;
  the advice "re-run renew" (12711-12718) is then refused (12764-12768). A failed heartbeat
  cancels the wait and not the work on its thread (against 12884-12897). A failure in
  "apply" is reported as one that moved nothing (12663-12672, 1860).
- `lifecycle.py:2697-2700` says to run resume first, but resume never applies the base past
  `provisioning`. A cleanup killed after the removal of the runtime role from Terraform's
  state leaves status `ready` with a role that setup cannot make again (against
  14820-14822).
- Round 6: the settlement is scheduled after the ring was given back, so the next bout may
  look before it exists (the field `early`), and the process remembers the one it scheduled
  last (`manager.py:8223`). One that was passed over so, or by the loss of a ring during
  Prepare, parks whichever race it meets, against `manager.py:9680` ("Let the previous
  Round 6 bout finish settling before this Prepare looks"). With two bouts it can only meet
  the race of the bout that looked early; with three it meets a later one, whose own
  Prepare did wait: `NoRaceIsParked` therefore asks that no bout so far was early. Round 4
  has the same lines (8221, 9322); there `NoRaceIsStopped` names the settlements that were
  passed over (`past`) and allows those only.
- Round 6's settlement is known to one process only, and is not repeated after its last try
  until a Prepare. A LOWER_BOUND verdict names a winner without comparing intervals, and
  `skew_within_bound` (`round6_race.py:213`) is recorded where
  `v1.1-rounds-4-6-aws.md:332` requires it. A towel whose lease is lost is cancelled with
  no settlement.
- Round 2: `_handle_lost_lease` sets FAILED over a published VERIFIED and leaves the
  cooldown WATCHING with no task; after a towel that lost its lease no retry and no
  cooldown is allowed, so its environments stay until the next arm.
- Round 5's worker, when it tries a cleanup again, adopts the claim it reads in the slot
  (`manager.py:11757`), by then perhaps another bout's, and may fence it. `NoStrayJob`
  therefore excepts a bout that another's cleanup fenced, and `OthersClaimStands` a process
  that lost the slot's lead meanwhile: a stale worker takes the other's cleanup ring, which
  that one lost, and fences its claim while it runs (1 process, 2 bouts, 2 bells, 2
  faults); a process that was suspended until its rows ran out leads again, and the
  cleanup lease its worker remembers fences another's claim (2 processes, 2 faults).
- Round 5's card: a refused bell sets FAILED with no terminal event; a read-back that fails
  after the compare-and-set publishes FAILED though the authority moved; a competitor's
  STAGE is not fenced by the slot's state; convergence adopts whatever slot it reads.
- The warm slot and control: a claim and its bell may fall between `ensure_warming`'s read
  and its acquire; a CANCEL of a job that a restarted agent settled answers 'quarantined'
  after 'settled'; a CANCEL that was dead-lettered is never sent again.
- The creation journal: a create that lands after DELETED; a stale DELETE_FAILED that only
  `seal_absent_cleanup_journals` (`app.py:660`) heals.

## Fairness

Liveness is stated under the least that the scheduler gives: an asyncio task or a thread
that can take its step takes it in the end, a provider acts on what it was asked, a lease
or row nobody renews runs out. Nothing is assumed of people who press buttons, of faults,
exits and kills.

- `PipelinePower`: weak for carrying rows and each card, recoveries, their due times and
  lapses; strong
  for a recovery's claim of its ring and the end of a settle, which other bouts can keep
  taking the ring from.
- `CreationJournal`: weak for launches, the provider, releases and each cleanup.
- `Maintenance`: weak for work, exits, and the claim, return and lapse of each ring.
- `Installation`: steps end and accidents are bounded by MaxStops; the operator runs setup
  again until it is installed or no longer wanted, then cleanup and what it advises; an app's
  creation is answered or given up, and a pending one is settled by hand, as `bootstrap.sh`
  tells the operator to; the resources of bouts are cleaned.
- `IsolatedBout`, `Round6Race`, `SpikeBout`: weak for the provider or the pipeline's parts,
  calls that land or are served, the tasks of a live card, lanes, heartbeats that see
  another's row, unrenewed rows, the coordinator, and a leaderless slot finding a leader.

## Proofs

`tlapm` checks every theorem below to its last leaf, for every value of the constants under
the named assumptions of the model's module, which TLC evaluates on every run. An invariant
of a run is seldom inductive. Each proof rests on a strengthening that TLC checked first,
on the run's instance or a larger one, and that says why the property holds.

| Module | Theorems (property of a run) | The invariant, and why it is needed |
|---|---|---|
| `RingHolderProofs`, store | `TypeCorrect`; `TokenNamesOneOwner` (`FenceHasOneOwner`); `UnexpiredLeaseFences` (`StampHolds`); `TrueReleaseProves` (`TrueReleaseIsUnbroken`); `Implements` (`RefinesFencedRing`); `AtMostOneTenure`, `NoTenureIsRevived` | `IInv`: what is said of the row must be said of every copy of it too, in answers on the wire and in callers' hands. Tokens are at most the counter, a token that left the row is in the history, no stamp reaches further than a write made now would. |
| `RingHolderProofs`, manager | `HolderUsesStore`, `HolderStamps`, `HolderImplements`, `HolderTypeCorrect`; `ProofIsHonest` (`ProofHolds`); `RunsAreFenced` (`RunIsFenced`) | `FenceInv`: for every card, `Local`. A proof is ahead of the row only by less than the renewal on its way adds; a grant is fresh while its owner does not know it; every TTL is at least three heartbeats (`CadenceAssumption`, as in the code), so a heartbeat that is answered late cancels in time. |
| `PipelinePowerProofs` | `PowerTypeCorrect`; `ParkIsFinal` (`SettledStaysSettled`); `RingSerialises`; `RingShieldsRaces`; `AloneNoRaceIsStopped` (`NoRaceIsStopped`); `AloneRecordIsOwed` (`StartOnRecordIsOwed`) | `Fences`: who is up to its race, settles for a Prepare or is in a recovery's attempt has the ring, and `NoneUnknown`: a card on its way to its race knows, in `past`, every settlement of its process that is ahead or under way beside it. `Solo`: of a process that serves alone, the keys it knows, the mints and reservations, which row can still arrive, which debt a recovery repays; and that only one lane is at work (`OneBusy`) as long as lanes never overlapped. With two processes both properties are false (above), so the last two theorems assume one process, with any number of cards; `RingShieldsRaces` says for any number of both what can stop a race: a settlement that goes on after its ring was given back, of the race's own process only one its Prepare went past. |
| `MaintenanceProofs` | `MaintTypeCorrect`; `StoppedRenewIsKnown` (`HalfMovedIsJournaled`); `NothingIsStranded` (`NothingStranded`); `ManifestIsNeverAhead`; `RerunsConverge` | The copies of the expiry move in an order (`Ordered`), a renew at each step has moved just the copies before it (`Renewing`), and its ring keeps resources with the old tag away (`Held`, `Clear`). |
| `ProviderProofs`, journal | `JournalTypeCorrect`; `WhateverExistsIsOwed` (`ExistingIsOwed`) | `Owed`: an intent precedes each create, rows agree with each other, and what a row says is absent is absent and no call of it is late. The reverse order of a cleanup takes a well-founded induction. |
| `Round5WarmProofs` | `WarmTypeCorrect`; `DebtIsInTheRow` (`ClaimIsDebt`); `OneCanLaunch` (`OneLauncher`); `NothingStaysStaged` (`NoStrandedResident`); `SlotKeepsPromise` (`KeepsPromise`) | `WarmInv`: fences and generations only rise, what each process remembers of the slot is at most the row, an answer to a lapsed leader is refused by its fence. |
| `ProviderProofs`, control | `ControlTypeCorrect`; `SettledJobsAreQuiet` (`SettledIsQuiet`); `OpenJobsAreOwned` (`OpenIsOwned`); `CurrentPoolStays` (`CurrentPoolStands`) | `ControlInv`: a message of an attempt the slot has passed (`Passed`) finds its job over, a job the agent's hand is at is not settled (`HandIsUnsettled`), a pool that runs is one the agent's files know (`Managed`). |
| `SpikeBoutProofs` | `SpikeTypeCorrect`; `JobsAreSettled` (`NoStrayJob`); `RingsOutlastCleanup` (`RingOutlastsCleanup`); `OutcomesStand` (`OutcomeStands`); `OthersClaimsStand` (`OthersClaimStands`); `CleanupIsAttended`, `VerdictsAreProved` | `SpikeInv`: what a record says of itself (`Ends`), that whoever owes cleanup has something that attends to it (`Attends`), that no lane is at work where the slot has moved on (`BoutFits`, `Quiet`, `LanesFit`), that a worker about to fence a claim that is not its bout's holds its cleanup ring or finds that bout over (`Adopts`), and that such a claim is of its own process (`Akin`). Without the last two the invariant is not inductive; TLC found both. |
| `LifecycleProofs`, installation | `InstallTypeCorrect`; `SealsAgreeAlways` (`SealsAgree`); `LaneIsAlwaysRecorded`; `NothingBillsAfterRemoval` (`NothingBillsAfter`); `OnlyBoutsOutliveIt` | `SealInv`: a later round's seal, ready or not, is over the Round 4 sealed now. `RemovalInv`: what each kind of run may hold and in which order (`FirstApply`, `WholeApply`, `LaneProved`), Terraform's state and the account agree (`Tracked`), a cleanup under way still has a step for all that bills (`Owes`), and with a proxy about the state is complete, so that its cleanup looks at the baseline before it takes anything down (`Sturdy`, `ProxyStands`). Of the app: a cleanup past its delete has either removed it or left one that no record calls ours, and no creation is pending then (`Settled`), for none is begun while the lock is held or once the installation is to be removed. |
| `LifecycleProofs`, lock | `LockTypeCorrect`; `LockExcludes` (`OneOperationMutates`); `RecordIsHolders` (`HolderOnRecord`); `FreeIsAbandoned` (`FreeMeansAbandoned`) | Whoever mutates holds the descriptor or was handed it by its shell, which waits; the record is written before and cleared after. |
| `RoundsProofs`, Round 6 | `SettlementIsComplete` (`SettledLeavesNothing`); `RacesAreNotParked` (`NoRaceIsParked`) | `RaceInv`: a call on the wire is of a bout that rang and has not drained it, a row in a source is of a bout not settled, and a part that is not at rest is one that a bout which rang and is unsettled has yet to see at rest (`Owes`). `SettleInv`: a settlement at work is the one the process remembers, a towel's that holds the ring, or of a card that lost it, which every claim waits for; a bout that has looked meets none. |
| `RoundsProofs`, Round 2 | `LostWorkIsFenced` (`WorkIsFenced`); `CleanedLeavesNothing` (`ReadyLeavesNothing`) | `IsolatedInv`: a bout that holds the ring, by its card, is in the row and the last to claim it, and work without the ring is marked lost, which every claim waits for (`Fenced`); the lanes stand together at what the card is doing (`Grouped`); nothing is inspected for removal before the bout's own creates have landed, so a lane that is gone stays gone (`Emptied`). |

The shape is the same throughout: a lemma per operation (or group of operations) that keeps
the invariant, most of them about one card, claim, process or attempt alone with a frame
lemma for the others (`Bystander`, `OneBout`, `OneCard`, `OthersStep`), an invariance lemma
that puts them together, and a temporal step. Constants: `BoutLease` asks that TTLs are
natural numbers and that a claim's phase is a phase; `RingHolder` adds the cadence;
`MaxBout`, `MaxFaults` and the other bounds may be any natural numbers; `IsolatedBout` asks
for at least one lane; `SpikeBout` for at least one process and lanes that differ; `MCRounds` that "start" is no order's name; the others that model
values differ from each other and from `None`, and `Installation` that `None` is no manifest.

One hypothesis is not about the size of an instance. `NothingBillsAfterRemoval` assumes
`Meanwhile = FALSE`, as the run does: a bout begins only while no command runs and before
the operator decides to remove the installation. Cleanup claims no ring (it
reads for environments and proxies once, before it takes anything down), so a bout that
rings in between can leave what it made. `OnlyBoutsOutliveIt` drops the hypothesis and says
that nothing else is left. Both except an app that no record calls this installation's. Unlike the run, both allow a kill at any step of a cleanup and
either advice.

Checked by TLC only:

- Every liveness property (`DebtIsRepaid`, `FenceFrees`, `CleanedInTheEnd`, `SetupFinishes`,
  `CleanupFinishes`, `RingComesBack`, `EveryBellIsSettled`, `EndedIsCleared`): fairness and
  ENABLED are beyond the prover.
- Every counterexample, those of the cfgs above among them.

No model uses a RECURSIVE operator.

## Not modelled

The map covers less than a third of the repository's lines. Most of the 130,000 lines are
clients of vendor APIs, the text of prompts, checks and reports, arithmetic on prices,
rendering, SQL and Terraform: they hold no state that steps of two actors could disturb.
Of what does have such state, these are left out: the event log and its subscribers
(`manager.py`, one list behind one event loop); Round 1's wake and its idle watch; Round 3,
whose lanes have the shape of Round 2's; Round 4's abandoned mints
(`round4_race_live.py:770`), rebase ledger and MERGE; self-heal's attempt journal
(`selfheal.py:1025`), beside the lock its command takes; `lease.py`'s renewals, which read
and write without a compare; the cost windows; the Azure edition.

Hazards listed in PROJECT.json without a property: the close or crash of a process in a
race, for which the code promises nothing (`manager.py:3004`); self-heal's stale offer; and
the leader that refuses to finish a cleanup (`round5_warm.py:5103`), which `MCWarmWedge.cfg`
shows.

## Plan

Every safety property a run checks is a theorem. Next in line would be what the models leave
out: Round 3, and Round 4's abandoned mints.
