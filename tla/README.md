# ApexChainx SLA calculator: specifications and proofs

TLA+ models of the SLA calculator contract (`apexchainx_calculator/src`), the TLC
runs that check them, and TLAPS proofs of what matters most for every value of
the constants. Paths below are relative to `src/`.

## 1. The system

One Soroban contract keeps all its state in instance storage and answers calls
from three kinds of caller: an admin, an operator, and anybody (reads). Off
chain, indexers rebuild its state from its events and backends cache its
configuration. The host executes calls one at a time; each is atomic, and **a
call that returns `Err` leaves no trace**: every storage write and every event
before the error is discarded. Several calls can share one ledger, so one
timestamp.

| Component | State (storage keys) | Operations | Interacts with |
|---|---|---|---|
| Governance (`governance.rs`, `config_freeze.rs`, parts of `lib.rs`) | admin, operator, renounced marker, two pending slots with their times, pause flag and metadata, freeze flag, storage version | `initialize`, `propose/accept/cancel` for each role, `set_operator`, `renounce_admin`, `pause`, `unpause`, `freeze_config`, `unfreeze_config` | gates every other component (`require_admin`, `require_operator`, `require_not_paused`, `require_not_frozen`); told to indexers by events |
| Configuration (`lib.rs`, `config_metadata.rs`) | four canonical tiers, custom severities, registry of snapshots by version hash, stamp of the last update | `set_config`, `set_custom_severity`, `remove_custom_severity` | prices every calculation; its hash separates generations of decisions; cached by backends |
| Decision history (`history.rs`) | an entry key per index, an index vector per outage, head, tail, cached length, retention limit | append (from `calculate_sla`), `prune_history`, `prune_history_by_age`, `set_retention_limit`, reads | the duplicate policy of `calculate_sla` reads it |
| Telemetry (`lib.rs`) | per severity lane: two u32 counters, two u32 times; the four tiers packed into four words, the custom lane under a key of its own | recorded by `calculate_sla` | read by dashboards |
| Calculation (`lib.rs`) | cumulative statistics | `calculate_sla` | uses all of the above |
| Migration (`lib.rs::migrate`) | version, all keys | `migrate` | rewrites the history layout |
| Version negotiation (`version_negotiation.rs`) | none on chain; the coordinator keeps the answers it has collected and the verdict so far | `get_version_negotiation_info`, `negotiate_contract_versions` | lets upgrades of a fleet of contracts through, and workflows begin |
| Cross-contract call safety (`cross_contract_safety.rs`) | the stack of registered compensations, for one transaction | safe invocation, `register`, `rollback_all`, `finalize` | calls other contracts |
| Views and paging (`lib.rs`, `config_metadata.rs`, `contract_info.rs`) | none | lookups, `get_history_page*`, snapshots, probes, audit state, `calculate_sla_view`, `replay_calculate_sla` | read the keys of every other component |
| Storage and rent estimation (`storage_estimation.rs`) | none | footprint, rent | the same |
| API, policies, error tables | none | `get_public_api`, `get_failure_schema`, ... | describe the entry points |
| Second copies (`calculation.rs`, `calculation_helpers.rs`, `config.rs`, `prune_core.rs`, ...) | none | the settlement and the configuration rules once more | called by nothing that runs; tests hold the contract to them |
| Executable specification (`spec.rs`, `fuzz_spec.rs`) | none | the oracle of fuzz targets and parity tests | – |
| Event schema, correlation; off-chain tooling | none | names, encodings; mirrors, scripts | – |

What is hard about it:

* **Interleaving.** Any address calls any entry point at any time: an accept
  races a cancel, a re-proposal, a freeze, the end of the window; an admin
  changes the configuration or prunes between two submissions of an outage.
* **Layout kept by hand.** Five pieces of history storage are tied together by
  nothing but the code of four operations.
* **Rollback.** A handler that writes and then returns an error has written
  nothing.
* **Time.** Lapsing proposals, weekly resets on two independent times, u32 times.
* **Retries.** An operator that lost an answer submits again; the only memory of
  a settlement is a history that is trimmed.
* **Limits.** Retention, recalculation cap, saturating counters and totals.
* **Moving targets.** A consumer pages by offset through a history that grows,
  is trimmed and pruned between two pages; a coordinator holds answers of
  contracts that go on being migrated and paused.
* **Copies.** The same question is answered by several pieces of code: two views
  beside the settlement, probes beside the audit state, a baseline and an
  oracle beside both, and counters packed four to a word beside what they count.
* **A second life.** `initialize` works again after `renounce_admin`.

`history.rs` and several methods of `lib.rs` contain two versions of a body, one
of the old single-vector layout and one of the sharded (v3) layout, left by a
merge (for instance a pager inside `append_entry`, lines 181–256). The models
follow the sharded bodies: they are the ones the module comment describes, that
the version stamp 3 and `initialize` belong to, and that the recorded test
snapshots show. The mapped line ranges contain the stray text.

## 2. Modules

| Module | Models | Corresponds to |
|---|---|---|
| `HostClock` | the clock of the ledger | `env.ledger()` |
| `VecOps` | the filter loop, sums and small vector idioms | the `push_back` loops of `history.rs` |
| `ContractState` | roles, guards, version stamp; the checks `CheckVersion`, `RequireAdmin`, ..., and how a call answers | `check_version`, `require_*` |
| `Governance` | every governance entry point, and `view`: what an indexer that applies the events believes; its specification is `GovernanceSpec` | `governance.rs`, `initialize`, `pause`, `freeze_config` |
| `ConfigStore` | the configuration keys, validation, hashes, registry, stamp, and the three entry points | `validate_*`, `set_config`, ... |
| `ConfigAdmin` | the configuration under any admin, with an indexer (`told`) and a caching backend (`backend`) | the rule in `config_metadata.rs` lines 9–12 |
| `ConfigViews` | every reader of the configuration, and `config.rs` as the second copy of its rules, with what its writers leave out | `build_config_snapshot`, `get_config_*`, `config.rs` |
| `HistoryStore` | the sharded storage layer and the bodies of its callers | `history.rs`, `prune_*`, `set_retention_limit` |
| `RetainedLog` | **abstract**: what the history promises, without a layout | – |
| `HistoryReaders` | `HistoryStore` with a consumer that walks pages and a backend that mirrors the history from events, by the removed and by the kept count | `get_history_page*`, `page_slice`, the paging loop of `HISTORY_PAGINATION_POLICY` |
| `Telemetry` | the lanes | `record_severity_telemetry` |
| `PackedTelemetry` | the words the lanes are packed in, and the rows computed from them; extends `Telemetry`, which is what the words ought to hold | `calculation_helpers.rs`, `get_severity_telemetry` |
| `SlaCalculator` | `calculate_sla` and the admin calls beside it; composes `HistoryStore` and `Telemetry` (INSTANCE) with `ConfigStore` | `calculate_sla`, `compute_result`, `increment_stats` |
| `ExecutableSpec` | the rules of the settlement restated | `spec.rs`, `fuzz_spec.rs` |
| `Calculation` | **abstract** for `SlaCalculator`: the settlement over one vector scanned from its oldest element | `calculation.rs`, `prune_core.rs` |
| `SecondCopies` | the two views of `lib.rs`; says that contract, views, baseline and oracle tell the same | `calculate_sla_view`, `replay_calculate_sla` |
| `Contract` | the life of a deployment: `initialize` or older storage and `migrate`, everything of `SlaCalculator`, `renounce_admin`, `initialize` again; extends `SlaCalculator` and takes the roles from `Governance` (INSTANCE); its specification is `LifeSpec` | `initialize`, `migrate`, `init_missing_storage_defaults` |
| `ContractViews` | probes, audit state, fingerprint, footprint and rent, method table, failure schema, in any state of `Contract` | `healthcheck`, `get_full_audit_state`, `storage_estimation.rs`, `contract_info.rs` |
| `VersionNegotiation` | a handshake, one answer and one peer at a time, in a fleet that moves along a train of releases | `negotiate_contract_versions` |
| `CallSafety` | a workflow of calls with its compensation stack, rolled back one compensation at a time | `cross_contract_safety.rs` |
| `Coordination` | both together: upgrades between workflows, workflows across the fleet | the two modules as the tests of `coordination_harness.rs` use them |
| `*Proofs` | theorems | – |
| `MC*` | instances for TLC | – |

Conventions. The variables are the storage keys, under the names of the code.
An entry point is one action: it *answers* with the first error of its chain of
checks (joined by `??`, the `?` of the source, in source order) and then either
changes nothing or does all it does, trailing writes, stamps and events
included. `reply` is what the caller learns. A view keeps no state: it is a
definition of the state it is read in, and an invariant that mentions it asks it
in every reachable state. History variables (`recorded`,
`lifeStart`, `decided`, `view`, `told`, `backend`, `mirror`, `undone`, `writes`)
are read by no check of a handler, but for the bounds listed below. Operators
named in a comment `Mutant:` are deliberately wrong variants of the definition
that follows them; they take part in no specification and show that the
properties can fail.

`HistoryStore` leaves its callers free: what holds there holds however the
contract is used. `SlaCalculator` adds who may call.

Abstractions: `Telemetry` has a lane per function argument, `PackedTelemetry` has
the words; the hash is a parameter of the configurations folded into it; a pause
reason is "fits" or not; amounts, ratings and thresholds are the real integers;
names are model values; a call to another contract ends in one of the two ways
`try_invoke_contract::<Val, Val>` can end in: it answered, or it failed.

Some code has no caller in the contract: `version_negotiation.rs` and
`cross_contract_safety.rs` are libraries. The coordinator that collects answers,
proposes and migrates, and the caller that makes a workflow, are modelled from
how the tests and the usage notes of the two modules use them, and their
definitions are marked external in `PROJECT.json`; the loops of the modules
themselves (`CheckPeer`, `Concluded`, `Call`, `RollbackNext`, `Finalize`, ...) are
not. The page loop of `HistoryReaders` is external too: it is the one
`docs/HISTORY_PAGINATION_POLICY.md` gives to consumers.

## 3. Runs

| Run | Asks | Distinct states |
|---|---|---|
| `HistoryStore` | do the five pieces of storage stay one history (`CountersTellEntries`, `IndexExact`), in order (`Chronological`), and keep the promises of the abstract log (`ImplementsRetainedLog`)? | 33,791 |
| `HistoryReaders` | do three ways of cutting a page agree at every edge (`PagesExact`); what can a walk miss while the history moves (`SkipsAtMostDropped`), does it end (`WalkTerminates`); can the history be mirrored from events, by the removed as by the kept count (`MirrorMatches`)? | 55,832 |
| `Governance` | `StreamTellsState`, `ConsentedHandoff`, `FreezeHoldsRoles`, `RenounceIsForGood` | 53,202 |
| `ConfigAdmin` | is each tier read back legal (`ReadsBackValid`), do events, stamp and registry tell the truth (`StreamTellsConfig`, `StaleCacheShows`, `RegistryTellsTruth`), do all readers and the oracle agree, and does the second copy differ in what is listed and nothing else (`ViewsAgree`)? | 38,488 |
| `Telemetry` | `RateAtMostOne`, `BurstCounts` (what a counter counts), `WordsHoldLanes` (no lane touches its neighbour), `RateNeverOverstated` | 654,143 |
| `SlaCalculator` | across history, configuration, statistics and telemetry: `StatsMatchStream`, `GenerationsAlternate`, `TelemetryWithinStats`, `StoredDecisionReproducible`, `ViewsTellDecision`, and the refinement `ImplementsCalculation` | 53,916 |
| `Contract` | over the lives of a deployment: `MigrationKeepsDecisions`, `FirstLifeIsExact`, `NothingBeforeMigration`, `ShowsThisLife`, `LockedForGood`, `ReadersAgree`, `ApiAsDescribed` | 124,809 |
| `Coordination` | `VerdictExact`, `FleetInterops`, `NothingHalfDone` (call by call and through every turn of a rollback), and that a rollout ends: `RolloutCompletes` | 52,304 |

Four runs end in a violation on purpose: each checks one sentence of a comment or
a document against what the code does.

| Run | The text | The code |
|---|---|---|
| `SecondLife` | `get_latest_by_outage` returns an entry of the outage asked for (`lib.rs:3951`) | after a renounce and a second `initialize` (`lib.rs:1384`) the indices of the first life point to entries that were overwritten; `calculate_sla` answers from them too |
| `GovernanceExpiry` | the first accept that finds a lapsed proposal clears it (`governance.rs:89`) | it returns `Err`, so the host undoes the clearing and the event |
| `SlaRestated` | a stored decision is never restated (`lib.rs:2885`) | only the newest decision's generation is compared |
| `StarNegotiation` | the negotiation determines whether a set of contracts is mutually compatible (`version_negotiation.rs:11`) | it compares one contract with the others and no two others with each other (`version_negotiation.rs:165`) |

Other places where text and code differ, found while modelling and without a run:

* `lib.rs:1775` says no admin will exist after `renounce_admin`; `initialize`
  succeeds again. In that second life with an admin `healthcheck` still says
  `noadmin`, and on a contract of version 0 that has an admin it says `noinit`.
* `config_freeze.rs:17` says pause blocks configuration writes; no configuration
  entry point asks whether the contract is paused.
* `README.md:46` speaks of counters over a rolling 7-day window; they start again
  only after a week without activity.
* `history.rs:18` calls head and tail monotonic; an age prune moves the tail back.
* `config.rs:17` says its `set_config` enforces the order of penalties across
  severities; it compares thresholds only (and no admin, which its caller would).
* `lib.rs:2938` publishes `dup_input` in a call that returns `Err`: never committed.
* `lib.rs:3857` says a page shorter than the limit signals the end of the history;
  a full page is shorter than a limit above the page cap.
  `docs/HISTORY_PAGINATION_POLICY.md:50` calls pagination stable across calls;
  offsets count from the oldest retained entry, which trims and prunes move.
* `set_custom_severity` says custom severities do not enter the version hash
  (`lib.rs:1953`); `compute_config_version_hash` folds them in. The ratio of
  penalty and reward is not checked for them, and their removal publishes `cfg_rem`.
* The method table gives `set_retention_limit` no event; it publishes `ret_lim`.
* `docs/AUDIT_TRAIL.md:573` tells a backend that mirrors the history to take the
  `kept_count` of a prune for its new cap, and line 558 that `kept_count` rows
  remain. No prune moves the cap, and `prune_history` publishes what it was asked
  to keep (`lib.rs:3792`), which a history that is already shorter does not reach.
  A mirror with that cap would forget decisions the contract keeps.
  `MirrorMatches` is about backends that take their cap from `ret_lim` and use
  either count for the rows alone.
* `storage_estimation.rs:47` says the footprint is the sum of all keys that exist.
  `CUSTOM_TELEMETRY_KEY`, there after any decision on a custom severity
  (`lib.rs:3684`), has no line in the sum; and after a second `initialize` the
  sub-keys of the first life have none either. `ReadersAgree` therefore compares
  the rows and outages that are charged for with the sub-keys in storage, and
  says nothing of the rest of the sum.
* `initialize` empties the four packed words (`lib.rs:1380`) and not
  `CUSTOM_TELEMETRY_KEY`: the custom row of `get_severity_telemetry` goes on over
  a second `initialize`. `ShowsThisLife` bounds the canonical lanes by the present
  life and the custom lane by the life of the deployment.
* The writers of `config.rs` register no snapshot, where `lib.rs:1928` and
  `lib.rs:1996` do, and its `set_custom_severity` does not stamp the update, where
  `lib.rs:1994` does. `ViewsAgree` states both differences. No entry point calls
  them.
* `get_failure_schema` builds symbols with blanks in them, which the host refuses.
* `DispatchFailed` and `Compensated` are produced by no code, and `RecoverableError`
  is never met: an answer is taken as a `Val`, which every answer is.
* `call` does not negotiate, and nothing obliges a caller to roll back: a tracker
  that is dropped with compensations on its stack leaves them uninvoked
  (`cross_contract_safety.rs:142` only advises). What is checked is a caller that
  follows the advice.
* A contract migrated ahead of the others wedges every later handshake, since
  storage versions must match exactly (`RolloutCompletes` assumes it away).

### Bounds, and why they are enough

* `HistoryStore`: 2 outages, a limit of up to 3, 5 decisions, 3 ledger times.
  An append drops its own and another outage's oldest entry; prunes and trims
  leave 0 to 3 entries; 5 decisions let an age prune renumber and later appends
  reuse the indices. The same properties, refinement included, are proved
  without bounds.
* `HistoryReaders`: one outage, a history of 4, 5 decisions, 2 times, a page cap
  of 2, u32 up to 7. Page inputs are 0 to one past each cap and the largest u32;
  consumers walk with limits 0, 1 and 2, so a walk takes up to four pages and
  every write fits between two of them.
* `Governance`: 3 addresses (admin, candidate, competitor), a window of one
  ledger, 4 ledgers: a proposal can be opened, lapse, and be opened again.
  Symmetry over addresses is sound: no constant tells two apart, and no temporal
  property but action properties is checked.
* `ConfigAdmin`: 4 configurations chosen so that each is legal for some tiers,
  that tiers can meet, and that low can rise above medium; 3 granted writes, 2
  ledgers so that writes share one or not. `ViewsAgree` probes configurations on
  both sides of every bound of every tier. `VIEW` leaves `reply` out: no action
  reads it.
* `Telemetry`: two canonical lanes next to each other in the same words and the
  custom one, a week of 2 ledgers, counters and times up to 3, a percent scaled
  down to 2, 5 decisions, 6 ledgers: counters saturate within a burst, products
  saturate in the rate, and the times fall out of their width. Time starts at 1:
  a ledger at time 0 does not exist, and the lanes use 0 for never. The run stops
  at the bounds on time and decisions, hence `CHECK_DEADLOCK FALSE`.
* `SlaCalculator`: 2 outages, one canonical and one custom severity that can get
  the same parameters, mttrs that meet both, one, none or are out of range, a
  history of 2, a cap of 2 recalculations, counters up to 2 and totals up to
  1600, so that each saturates alone; 3 decisions, one configuration write, a
  week of one ledger. `VIEW` leaves out what no action and no property of the run
  depends on. Once the bounds are reached no call may be left, so it also says
  `CHECK_DEADLOCK FALSE`. `SlaRestated` uses a history and cap of 3.
* `Contract`: 2 outages, one tier and one custom severity of which one can be
  repriced once, a history and cap of 2, 3 decisions in all, of which up to 2 come
  from an older version (`MCLegacyHistories`: none, one, two of two outages, two of
  one, any oldest part of them already pruned), 2 addresses. The ledger of the run
  stands still at time 1 and older decisions are of times 0 and 1, so an age prune
  has something to forget and lanes are never stale; weeks that pass are the
  subject of `Telemetry` and `SlaCalculator`. An older version leaves any of paused,
  frozen and renounced, one tier repriced or one custom severity registered, and
  any limit in force. Narrower than what `migrate` accepts: the pause metadata is
  there exactly when the contract is paused, the statistics are complete (they
  count what was pruned too, and all of it together is no more than the history
  cap), rewards are positive and penalties negative, and lanes, stamp and registry
  start empty. There are never more than two lives: a
  renounced contract that is initialized again counts as renounced. `VIEW` leaves
  out what nothing here reads: the stamp, the registry, the times of the lanes, the
  empty handoff slots. The run ends at the bounds, hence `CHECK_DEADLOCK FALSE`.
  `SecondLife` is the same instance.
* `Coordination`: the calculator, an escrow and a settlement contract; a workflow
  of 3 calls, one contract called twice; a train of 5 releases that introduces a
  protocol, raises the minimum with a new storage layout, and then changes the
  layout of events or of results, which no handshake may let through. One
  contract can be paused, any call and any compensation can fail. A workflow
  starts between handshakes (a bound: neither could tell the other is there) and
  without asking for a verdict. `StarNegotiation` differs in who decides.

Names of all bounds: `MaxLedger` (`CloseLedger`), `MaxRecorded` (`Record`),
`MaxDecisions` (`Decide`), `MaxWrites` (`Observed`, `Configured`), `Pausable`
(`SetPaused`), and the length of `Train`.

### Fairness

Nothing in a contract is scheduled: no call is ever guaranteed to be made, so the
contract's own modules state no fairness and promise no liveness. A lapsed
proposal is noticed only if somebody accepts, a counter starts again only if
somebody calculates. Fairness is stated where a loop or a coordinator runs:

* `HistoryReaders`: weak fairness of `ReadPage`. The consumer's loop asks for the
  next page until it stops. Everything else stays free, so `WalkTerminates` says
  that no stream of appends can keep a walk going.
* `Coordination`: weak fairness of a handshake step (who started to negotiate goes
  through with it), weak fairness of a workflow step (the host bounds what a
  transaction may spend, so it does not stay open), and strong fairness, per
  contract, of proposing its next release: a handshake of another contract
  disables it again and again, and an upgrade that was blocked is tried again.
  Starting a workflow, migrating and pausing are never obliged. The fairness of a
  workflow is there for the fleet to get its turn: no property says how a workflow
  ends by it, for a caller may end its transaction without rolling back.
  `RolloutCompletes` holds if from some time on nothing is rolled back, and no
  contract is migrated to a storage version another's binary does not know.

## 4. Proofs

| Module | Proved for all constants |
|---|---|
| `VecOpsProofs` | `KeepProperties`: the filter loop returns exactly the members of its input that pass, in order, and the whole input when none is dropped; `SumGrows`, `SumReplaces`: what an append and a changed element do to a sum |
| `HistoryStoreProofs` | `TypeCorrect`, `NoOrphansAndBounded`, `IndexAlwaysExact`, `AlwaysChronological`, and `ImplementsLog`: the sharded store implements `RetainedLog` |
| `HistoryReadersProofs` | `PagesAlwaysExact`, `MirrorAlwaysMatches`, `WalkAlwaysHonest` (a walk skips at most what was dropped), `WalkRunsDown` |
| `AdminProofs` | of the roles (`GovernanceSpec`): `TypeCorrect`, `RoleStreamAlwaysTells`, `PauseInfoAlwaysMatches`, `RenouncedAlwaysInert`, and the step properties `HandoffAlwaysConsented`, `FreezeAlwaysHolds`, `RenounceAlwaysForGood`; of the configuration: `LadderAlways`, `ReadsBackAlwaysValid`, `StreamAlwaysTells`, `StaleCacheAlwaysShows`, `RegistryAlwaysTells`, `ViewsAlwaysAgree` |
| `TelemetryProofs` | `TypeCorrect`, `RateNeverExceedsOne`, `BurstAlwaysCounts`; of the words: `WordsImplementLanes`, `WordsAlwaysHoldLanes`, `RateIsNeverOverstated` |
| `CoordinationProofs` | `NeverHalfDone`, `VerdictAlwaysExact`, `VerdictMeans`, `FleetAlwaysInterops`, `HandshakeRunsDown` |
| `SlaCalculatorProofs` | `GenerationsAlwaysAlternate`, `DecisionsAlwaysReproducible`, `StatsAlwaysMatchStream`, `TelemetryAlwaysWithinStats`, `ViewsAlwaysTellDecision`, and `ContractImplementsCalculation`: the contract implements `Calculation` |
| `ContractProofs` | of `LifeSpec`: `FirstLifeAlwaysExact`, `LifeIsAlwaysShown`, `ReadersAlwaysAgree`, `AmountsAlwaysSound`, `FirstLifeLookupTells`, and the step properties `MigrationAlwaysKeeps`, `NothingRunsBeforeMigration`, `RenouncedIsLocked`, `ApiIsAsDescribed` |

*History.* None of the layout properties is inductive alone: an append keeps the
index exact only because no entry lives at `tail`, a trim keeps the cached
length right only because `head <= tail`, an age prune keeps the order only
because what it reads back is in order. `StoreInv` is their conjunction. Append,
prune to a count and rebuild have a lemma each; `LayoutKept` turns "entries and
index vectors look like this" into the invariant; all rest on
`KeepProperties`, which is proved through the loop's defining equation and
induction over the set of positions where the claim holds (`SetInduction`).

*History as a log.* Under `StoreInv` the refinement mapping of `ImplementsLog` needs
no filter (`ReadAllEntries` is the run of entries from head to tail, `Window`; an
outage's index is the filter of it), and each write leaves a newest part of what
it found, after the new decision if there is one (`WindowMoves`, which the two
modules that build on the store start from). For the age prune,
whose filter could drop anything, this is where `Chronological` is needed: what
is too old in an ordered window is a prefix of it.

*Following the history.* `HistoryReaders` adds a walk and a copy to the store, and
the proofs add three facts to its invariant. `Numbered`: the window is the end of
the stream, its k-th decision being number *forgotten + k*. `Copied`: both sets of
rows of the copy are the window, and its cap is the limit; each kind of event does
to a sequence of rows what `WindowMoves` says the call does to the window, and an
append of the contract trims exactly when the copy does. A lowered limit and the
prune it makes reach the copy as two events: rows kept by the kept count are right
after the first already, rows dropped by the removed count only after the second.
`WalkOK`: what the walk has seen runs ahead of its own positions by amounts that
never decrease along the walk, differ by at most `dropped`, and do not exceed what
the history has forgotten by now. A page taken at offset `Len(seen)` is ahead by
exactly that (`PageFollows`), a write moves both counts alike (`DropsFollow`), and a
stretch whose ends have drifted apart by *d* has *d* gaps (`FewGaps`, through the
cardinality of an interval). `PagesAlwaysExact` needs only that a range of keys
inside the window reads it (`RangeOfWindow`), and that the history is shorter than
the largest u32.

*Governance.* `GovernanceInv` joins the type invariant, "a slot has a time exactly when it
has a candidate", the life cycle (no role without version stamp, a freeze only
while there is an admin), "a renounced contract has empty slots", and the two
invariants about the indexer and the pause metadata. One lemma per entry point.
The step properties do not need a second pass over the handlers:
`StepsAreRoleSteps` and `StepsAreGuardSteps` classify what any step can do to
roles and guards, and the properties follow from that and `GovernanceInv`.
`HandoffAlwaysConsented` needs `StreamTellsState`: it speaks of the proposal *an
indexer* saw, and the handler knows only the slot.

*Configuration.* `set_config` checks one tier against its neighbours at that moment;
`Ladder` compares each pair once, and is what a sequence of such updates preserves.
From it each tier's own validation follows again. The backend's rule needs that the
stamp it holds is that of a closed ledger (`CacheInv`): a write in a later ledger
then always moves the stamp. `RegistryAlwaysTells` assumes `NoCollisions`: the hash
tells two sets of tiers apart. The registry's invariant says which configuration a
hash was of, so a rewrite under a known hash writes what is there, and that a
stamped ladder is among those registered. `ViewsAlwaysAgree` compares chains of
checks: `RulesInOrder` lists what each link demands in the order of the source, and
`SameVerdict` finds that contract and oracle break off at the same link for every
submitted configuration, legal or not. The bound on what a tier pays comes from its
own bounds (`AcceptedComputes`) and needs an argument about products
(`WithinExposure`). The second copy is held to what it does: same verdict but for
the neighbours' penalties, same ladder, same custom severities, the stamp moved by
tiers alone, no snapshot.

*Telemetry.* The stale test on a lane's calculations implies the one on its
violations because `lastViolations <= lastCalculations`; that and
`violations <= calculations` are inductive together. `BurstCounts` counts a set
of positions in the sequence of a lane's decisions; appending one decision
either extends the burst by its position or, after a week, leaves that position
alone (`BurstGrows`), and the counters' reset decides the same way.
The packed words are numbers in base `U32MAX + 1`: `LanesOfWord` says what
`count_lane` cuts out of four digits, `OneLaneSet` that `set_count_lane` replaces one
of them, and `CountBumps` carries this through reset and increment. `PackedInv`
says that the digits are the lanes. `RateBounds` brackets the rounded rate between
two multiples of the calculations, saturated product included.

*Coordination.* `NothingHalfDone` contains the strengthening it needs:
`OwedIsRegistered` says what the stack holds at each call and at each turn of a
rollback, which compensations were invoked by then and in which order, and which
calls still stand; only with it is the end of the loop the end of what was owed. The
verdict over the peers seen so far is proved turn by turn of the loop.
`FleetAlwaysInterops` needs that answers collected earlier are still true when the
upgrade is made: only one handshake runs at a time, and nothing but its own end
changes a release. It assumes `SelfDecided`: the view that decides is the upgraded
contract's, and every release accepts itself; `StarNegotiation` shows that the first
is needed. `VerdictMeans` says what the verdict of the loop is worth for any number
of peers.

*Calculation.* Every step of `SlaCalculator` is a step of `HistoryStore` or leaves
it alone (`StepKinds`, `StoreStep`), so the history's invariant and its refinement
carry over: what is retained loses its oldest part, after the new decision has
joined it (`WindowMoves`). Neither property is inductive as it stands, and neither
can be stated of the indices, which an age prune renumbers; so `Inv` says of the
window, as a sequence, what survives a suffix and an append: every decision is
what some configuration gives under its own hash, two decisions on an outage with
none between them have different hashes, and no outage has more than the cap.
`LatestTells` and `IndexCountsPlaces` turn what `calculate_sla` looks at, the last
index and the length of the index, into the newest decision of the window and the
number of places.

*Statistics and telemetry.* `Counted` says that each statistic is the saturated
sum of a column of the published decisions, and that amounts have the sign of
their column: then adding and saturating commute (`SaturatedSum`). `Within` says
that the lanes together hold no more than the stream; a decision adds to one lane
what it adds to the stream (`SumReplaces`), and a weekly reset only takes away.
Equality needs more than the statistics not to be saturated: a lane's own u32 can
saturate first, hence the premise `Len(recorded) <= U32MAX` of the property.

*Two settlements.* `Calculation` scans one vector from its oldest element, where the
contract asks an index; its vector is the window. `ScanTells` and `PolicyAgrees`
say that scan and index find the same decision and the same number of
recalculations, `SameAnswer` that the two chains of checks end alike,
`EndIsTrim` that dropping one entry and trimming the vector leave the same rows.
`ViewsAlwaysTellDecision` compares formulas, but needs the invariant where a view
is asked about a decision of the past: `AllPriced` says what it was priced with.

*A deployment.* `LifeSpec` has steps the invariants above do not survive: `migrate`
replaces the history, a second `initialize` empties the counters of the canonical
tiers and leaves the entries and the custom lane. `LifeInv` says which of three
shapes the storage has. While no version is stamped there is nothing in the new
layout (`Untouched`). In a first life the store is exact and its window is the end
of everything recorded (`FirstShape`, which contains `StoreInv`). In a second life
indices are used again over keys that still hold the old entries, the outage indices
may point anywhere, and nobody can prune, being renounced; what remains true is that
from head to tail each key holds the decision of its position in this life, and how
far apart the two are (`SecondShape`). `SecondReads` shows that the readers need no
more. The statistics are those of a list of decisions (`TotalsOf`, `TotalsGrow`),
which `initialize` empties and `migrate` takes over. A lane is bounded by the same
list, but for the custom one, whose list `initialize` does not empty
(`LanesMatchLife`). `GateOpens` and its neighbours turn a granted call into "the
version is current and nobody has renounced"; the two properties of what may not
happen follow from that, action by action.

*The readers of a deployment.* What probes, audit state and the history part of the
footprint say needs four facts more, `ReaderInv`: the admin key holds an address or
nothing; in a first life the pause metadata is there exactly while the contract is
paused; nothing is paused where there is no admin and nobody has renounced; the
custom severities are finitely many; in a second life every key between the counters
is listed under its outage (`Indexes`), whatever else the outage indices list.
`FootprintTells` counts: in a first life the counters count the entry keys and the
non-empty indices (`ExactIndexes`, from the store's own invariant), in a second one
they count no more than exist (`SecondIndexesKept`).

*The method table.* `StepDescribed` goes through the entry points once. Each answers from
the statuses its checks can give (`Statuses`), which the failure schema lists;
refused, it leaves storage alone; granted, it has passed the check of the party the
table names (`GateTells` and its neighbours). The property also speaks of the
steps in between, when a ledger closes and the last reply stands, so it needs an
invariant of its own: what was answered last is a status (`ReplyKnown`).

*Amounts.* `Bounded` says that every severity of a current contract is in the general
bounds, in a second life and after a migration too: `set_config` and
`set_custom_severity` check them (`AcceptedIsBounded`, `CustomIsBounded`), defaults
and what `migrate` puts in satisfy them. `AmountsBounded` turns bounds on factors into
bounds on products and on the rounded quotient.

*What runs out.* Each liveness property rests on a natural number that the steps of
the process in question use up and no one else gives back: the pages a walk can
still read (`PagesLeft`; a walk that goes on is below the cap, `OffsetBelowCap`),
the answers to collect and to judge in a handshake (`HandshakeRank`). That they are
positive exactly while the process runs, and fall with each of its steps, is proved.

Assumptions: those named in the modules (`AddressAssumption`,
`GovernanceAssumption`, `HistoryAssumption`, `PagingAssumption`, `ConfigAssumption`,
`TelemetryAssumption`, `TrainAssumption`, `MaxLedgerAssumption`, ...): sentinels
differ from values, bounds are naturals, results carry an outage and a time, the
history cap fits a u32, a word packs at most four lanes and no severity twice, the
configurations the readers are probed with are integers of the right sign;
`ContractAssumption` describes what an older version can have recorded: decisions of
`Results` in the order of their times and before the upgrade, at most the history
cap of them, with rewards positive and penalties negative; `DecisionAssumption` says
that `Results` holds every decision the configurations of the instance can give. TLC
evaluates them on the instances. Three premises are stated in the theorems that need
them: `NoCollisions` (`RegistryAlwaysTells`, `DecisionsAlwaysReproducible`,
`ViewsAlwaysTellDecision`), `SelfDecided` (`FleetAlwaysInterops`) and a finite fleet
(`HandshakeRunsDown`, which counts it).

A loop of the code (a filter, a sum, the verdict over the peers, the events of a
call, the fold of a hash) is a recursive function: its defining equation is proved
once, by induction over the set of lengths for which such a function exists
(`SetInduction`), and from then on one turn at a time.

Model-checked only: the liveness properties `WalkTerminates` and `RolloutCompletes`
as such. The provers at hand reason neither about fairness nor about ENABLED, so
from `WalkRunsDown` and `HandshakeRunsDown` the last step, that a step which is
always possible is at last taken, is TLC's. Of `RolloutCompletes` the theorem covers
one handshake; that a blocked upgrade is tried again and at last let through is
TLC's alone. Every invariant and every action property of the passing runs is stated
by a theorem.

## 5. Correctness properties by component

* **Governance**: a role passes only on the new holder's own call while the
  latest proposal names it and is in time; freeze holds roles and slots;
  renounce is final for every key; the event stream determines the state.
* **Configuration**: the ladder stays legal tier by tier; stamp, registry and
  events never lie about it; its readers agree, and the second copy of its rules
  differs from them in known ways only.
* **History**: no leaked, dangling or duplicated key; only a prefix is ever
  forgotten; the newest decision survives its own append; per-outage answers
  equal a scan; a consumer of pages gets nothing twice or out of order and
  misses no more than was dropped; it can be mirrored from events, by the rows
  they remove or by those they keep, with the cap `ret_lim` announces.
* **Telemetry**: the violation rate is at most one and never overstated; each
  counter is the length of the last burst; a word's lanes never mix.
* **Calculation**: one generation settles an outage once in a row; statistics
  equal the sum of the published decisions; telemetry never exceeds them; every
  stored decision can be recomputed from the configuration it names; views,
  baseline and oracle tell the decision the settlement takes.
* **A deployment**: migration keeps every decision and nothing runs before it;
  statistics, full history and canonical telemetry are those of the present life;
  after a renounce only decisions are added; probes, audit state and the history
  part of the footprint tell one story; the method table is right about who
  changes what. `ApiAsDescribed` meets about half of that table: `initialize`,
  `migrate`, `renounce_admin`, `pause`, `unpause`, the writers of configuration and
  limit, the prunes and `calculate_sla`. The rows of the two handoffs, of
  `freeze_config`, `unfreeze_config` and `set_operator` are in it but their calls
  are no steps of `LifeSpec`, and no row with the party `addr` is ever asked about.
* **A fleet**: the verdict of a handshake is the rule it documents, blame
  included; single upgrades keep every two contracts interoperable; a workflow
  whose caller rolls back is done, undone newest first through every compensation
  that fails, or gone; rollouts end.

## 6. Not modelled

* Names, versions, correlation hashes and layouts of events; descriptions,
  stability levels, deployment notes: text and encoding, kept in no storage.
* The event catalogue and policy tables that are constant text.
* The per-operation cost table and the snapshot variant of the footprint.
* `metadata.rs`, `telemetry.rs`, `config_snapshot_cache.rs`: nothing calls them and
  they repeat code that is mapped.
* Off-chain tooling, but for what an indexer, a cache, a mirror and a paging
  consumer conclude.
* Hash collisions: the hash is injective in the instances and a premise in the
  proof that depends on it.
* The cached number of configured tiers, and the summary symbol of a negotiation.
* Authorisation of the host (`require_auth`): `caller` is who signed.
* A caller that ends a workflow without rolling it back, and whether contracts
  that are called are interoperable: no code asks at that moment.
* The keys of the footprint that are not the history's, but as terms of its sum.

`PROJECT.json` lists every component and every hazard, with the property that
covers it or the reason none does.

## 7. What is left

1. The per-operation cost table against the writes of each action.
2. The handoffs, `set_operator` and the freeze as steps of `LifeSpec`, so that
   `ApiAsDescribed` meets the whole method table.
3. The stamp of the last update over a second `initialize`: what a backend that
   compares stamps may believe then (the one hazard without a property).
