# A TLA+ model of anti-ddos

anti-ddos protects L3/L4 services on a scrubbing host. An XDP program filters
packets by the rows of BPF maps; a node agent writes these maps; a Control
service with a PostgreSQL database builds the policy of every user and hands it
to the agents as versioned snapshots. This directory models the path of a
policy from a change in Control to the verdict on a packet, and what surrounds
it in Control (users and sessions, feeds, alerts, security events). TLC checks
it on small instances; every safety property is also proved with TLAPS, for all
instances.

## 1. Inventory

| Component | State | Operations | Talks to |
|---|---|---|---|
| Policy rows (`control/policy_store.go`, `admin_console.go`, `policy_scope.go`) | services, forwarding policies, rules, lists, UDP blocks: a user's own, or `admin_global` | create, update, disable, expire | rebuilds the owner's snapshot in the same transaction, or every user's after it |
| Snapshot publication (`control/snapshot.go`) | `policy_snapshots(owner, version)` | rebuild, roll back, fetch | agents, by heartbeat and fetch |
| Feeds (`control/feed.go`, `scheduler.go`) | sources, runs, reputation rows, conflicts, in-process locks | sync, disable, due scan | rebuilds every active user's snapshot |
| Agents in Control (`control/agent_store.go`) | registered agents, reported version, apply status | register, heartbeat, record an apply | alerts |
| Control sync (`agent/control_client.go`) | agent id in memory and in a file | register, then every 5 s: heartbeat, fetch, apply, acknowledge | Control over HTTP |
| Policy apply (`agent/policy_apply.go`) | A/B policy maps, `tx_devmap`, `runtime_config`, `Runtime.Snapshot` | clear, populate, update devmap, flip, persist, roll back | the XDP program through pinned maps |
| Start-up (`agent/loader.go`, `snapshot.go`) | last-valid file, pinned maps and link | load or create, seed, bootstrap apply, attach, close | policy apply |
| XDP program (`bpf/xdp_data_plane.bpf.c`) | reads the policy maps; `rate_state_v2`, counters, samples | one run per packet on any CPU | the agent, other CPUs |
| Alerts (`control/alert.go`) | alerts, deliveries, policies, Telegram settings | create, dedupe, deliver with retries | Telegram |
| Events (`agent/ringbuf.go`, `event_forwarder.go`, `control/events.go`) | ring buffer, bounded queue, batch, stored events | enqueue, flush, ingest | Control |
| Forwarding resolver (`agent/forwarding_resolver.go`) | none | route and neighbour lookups, probes | kernel |
| Owners and sessions (`control/owner.go`, `store.go`, `admin_console.go`, `admin_view.go`) | users, sessions, admin view | login, logout, create, update, revoke, reset, view, bootstrap | all of Control |
| HTTP layer, schema, metrics, dashboard, web UI, commands | none of their own | routing, SQL text, read-only views | |

What is hard here:

- **Interleaving.** A packet reads `active_slot` before each lookup while the
  agent flips and rewrites slots; CPUs share token buckets; handlers of Control
  run in READ COMMITTED transactions, read in one statement what they write in
  another, and hold one connection of a bounded pool while they ask for a second.
- **Failure.** An apply has a dozen stages, each of which may fail, and whose
  rollback may fail; the process may die between any two map writes; a reboot
  empties the maps but keeps the files.
- **Ordering and loss.** Heartbeats and acknowledgements may arrive late, after
  newer ones; registration is tried once; events are dropped where a buffer is
  full or an answer is lost, and must be counted once.
- **Time.** Policy entries expire while they are saved, published or live; the
  clock of a rate limit is read outside the lock.

`PROJECT.json` lists each hazard with its line and the properties aimed at it.

## 2. Modules

| Module | Models |
|---|---|
| `PolicyTables` | the policy maps and their order, shared by agent and XDP program |
| `PolicyApply` | start-up, apply, rollback, crash and restart of the agent |
| `DurablePolicy` | abstract: one version served, one saved, each change one step that is committed or taken back |
| `XdpEntry` | one packet on its way through `xdp_entry` |
| `DataPlane` | `XdpEntry` on the maps that `PolicyApply` rewrites |
| `TokenBucket` | `apply_token_bucket` on several CPUs |
| `ControlSync` | the agent's sync loop and the handlers it calls |
| `SnapshotStore` | concurrent transactions that change rows and publish snapshots |
| `Accounts` | users, sessions and roles: requests as interleaved transactions |
| `EffectivePolicy` | operators: from the rows of the tables to a user's snapshot, and its validation |
| `PolicyRows` | every operation on rules, lists, services and forwarding policies, on top of `EffectivePolicy` |
| `FeedEntries` | operators: prefixes, parsing, deduplication and merging of feed entries |
| `FeedSync` | scheduler, synchronisation and administration of feeds, on top of `FeedEntries` |
| `AlertDelivery` | alerts, their delivery, and the connection pool |
| `EventPipeline` | security events from the kernel to the database |
| `MC...` | constants for TLC |
| `...Proofs` | theorems about the module of that name (section 4); `PolicyApplyProofs` also about `DataPlane`, `FeedSyncProofs` about `FeedEntries`, and `AgentLoopsProofs` about `ControlSync` and `EventPipeline` |

Definitions called a faulty variant in their comment are not part of a
specification: they are the mutations against which the properties are tested.

### PolicyApply

`rc`, `tbl`, `dev` and `attached` are the pinned kernel objects, `file` the
last-valid file, `pc`, `snap` and `job` the process. `pc` follows
`LoadAndAttach` (`seed`, `bootstrap`, `attach`) and `ApplyPolicySnapshot`
(`clear`, `populate`, `devmap`, `flip`, `persist`, `undo_devmap`,
`undo_clear`). Each map write is a step, and so is each error return;
errors that the code ignores (a failed rollback, a failed restore of
`runtime_config`) are alternatives of the step. A snapshot that fails
verification changes nothing and is therefore no step. The eight A/B pairs of
maps are five logical tables; entries are opaque, with the table they belong
to and, through `KeysOf`, the devmap keys their services use. The target of a
key is whatever the forwarding resolver answers.

`suspect` is a history variable. It is set when something separates the file
from the maps that no step of the agent can repair - a reboot, a lost or foreign
file, a file that stopped verifying, a failed restore - and cleared by the next
successful apply. The invariants speak about states that are not suspect;
`policy_apply_fail_closed` is about a suspect one.

### XdpEntry and DataPlane

A packet is a record of the locals of `xdp_entry`. Reading `active_slot` and
the lookup with it are two steps, because the compiled program does not join
them. Parsing is an input (`Parse`). The verdict of a rate limit is left open:
`TokenBucket` is about it. The service row stays readable after its lookup, as
RCU guarantees for the memory of a map element; that its content could be
reused by a later insert during the same run is not modelled. Which of several
matching rows an LPM lookup returns matters for counters only.

### TokenBucket

Time is in ticks, `Second` of them a second. A CPU reads the clock, looks up or
inserts, and takes the lock: three steps. The locked section is one. `elapsed`
is subtracted modulo `Word`. History variables record what a key started with,
what was taken from it, and what a continuous bucket would hold. `Divides(b)` says
that a token of bucket `b` takes a whole number of ticks: only then is a refill
exact. For other thresholds `consumed_ns` is rounded down, and the remainder keeps
up to a tick that was already used (`Rounding`).

### ControlSync

`net` holds requests that Control has not processed; a request the agent has
given up on stays there and may be processed at any later time, or be lost. An
apply is one step, with the outcomes that `PolicyApply` gives it: it succeeds, it
changes nothing that is live, or (`ApplyTears`) it can neither save nor undo its
flip. `Expire` and `Bar` make a policy one that the agent refuses every time it is
offered: an entry of it has expired, or a devmap key, an interface or the memory
budget stands against it. A restart loads the last-valid file, or replaces one that
is lost or no longer verifies by the default, version 1 in slot 0
(`LoadOrCreateSnapshot`): the active version may fall, and slot 0 may hold anything.
`mishap` and `fell` are history: what has befallen the maps since the last apply,
and whether a file was ever replaced.

### SnapshotStore

A handler is a record with its transaction. Statements see committed rows and
the transaction's own, as READ COMMITTED does. `policy_snapshots` has the
primary key (owner, version): an insert waits for a concurrent insert of the
same key and fails if that one commits. Rows are enabled or not, and one with an
`expires_at` lapses by itself, which makes `VerifyPolicySnapshot` refuse a content
that holds it, at a rollback for instance. Two rows may
have the same key, and then the higher rank wins, as in
`cidrCandidatePreferred`. `buildEffectiveSnapshot` is a sequence of queries
(`Parts`). `missed` and `skipped` are history. A build has `missed` something if,
since it began, another handler has ended with the same owner without inserting a
version: the insert of this one will not conflict, and may publish what it read
before the other's change. `skipped` are the owners whose last publication was such
a one, and those that a failed `rebuildAllActiveUserSnapshots` was not done with; the
next undisturbed publication for the owner takes it out.

### Accounts

`app_users` and `user_sessions` are the tables, `req` the requests in progress.
A request authenticates, reads the user, checks, and commits, each in a step of
its own; between them others commit. A password is an `epoch`, counted up when
it is replaced or when all sessions are ended, and a session remembers the
epoch it was opened with. `raced` and `stale` are history: they mark the
sessions and requests whose reads were overtaken, which the properties except by
name. `seeded` counts the calls of `seedDefaultUDPSourcePortBlocks`.

### EffectivePolicy and PolicyRows

`EffectivePolicy` has no state. `BuildEffectiveSnapshot(db, u)` is what the
snapshot queries and the preferences between rows make of the tables for user
`u`; `ValidatePolicyEntries` is the agent's validation, which Control runs
before it publishes; `BuildFails` holds where the build itself returns an error.
Thresholds, texts and addresses are reduced to what decides a key, a preference
or an error. `ByKey` is declarative; the loop of the source is `Fold`, and
`OrderIrrelevant` compares the two for every order of the rows.

In `PolicyRows` a request is one step: a user's change is taken back with its
rebuild, an admin's is committed and then published user by user up to the first
that fails (`left`). A user may also ask for a rebuild without a change, or roll back
to any content it has published before (`past`), after which it is in `left` until its
next rebuild. `seq` are the sequences behind `ebpf_id`, which a rollback
does not take back, and begin at `InitSeq`. Interleavings of such requests are the subject of
`SnapshotStore`, which in turn knows rows only as enabled or not.

### FeedEntries and FeedSync

Addresses have `AddrBits` bits; `MaskedPrefixes` are the prefixes that `parseCIDR`
returns. `AggregateFeedEntries` is the set of results of the loop of
`aggregateFeedEntries`, over the orders that its sort by CIDR text and score may
have. It and `PowersOf2` are recursive functions, not recursive operators, so that
they can be proved about.

A synchronisation of `FeedSync` is: lock and start a run, download and parse,
read the whitelist and merge, replace the entries, rebuild, finish. Each is a
transaction or a download, and may fail; a manual one may also be cancelled by
its client, after which not even `finishFeedRun` gets through. Where `startFeedRun`
or `finishFeedRun` fails, the run and the source stay as they were (`StartFails`,
`FinishFails`). Edits read the source, write it, and rebuild.

`published` is the part of each feed in the snapshot of one user, who stands for all
of them, as a rebuild does each in a transaction of its own. A rebuild reads the
latest version, reads the entries, and inserts or returns early, in three steps;
those of synchronisations, edits and the user interleave, and an insert makes the
others that read the same latest version fail (`fresh`). The user also rolls back.
`missed` are the sources that have changed since a build read them; `excused` those
whose last change the latest version may not show, for a reason the property
`DisabledFeedWithdrawn` names. Fields of a source that only the dashboard shows are
left out, and so are the alerts of a failed synchronisation, which `AlertDelivery` has.

### AlertDelivery

All alerts have one owner and one dedupe key. Each transaction is a step that
needs a free connection; `RecordAgentApply` and `ListAlerts` hold one for their
whole length. `SendMessage` may deliver the message and lose the answer.
`Cancel` is the end of a request's context, which the agent's 10 second timeout
brings about for applies.

### EventPipeline

`ring`, `queue` and `batch` are the buffers of the kernel, of the forwarder and
of its loop. A request to Control is answered, fails before anything is stored,
or times out, and then Control may still commit it later (`late`). `Exit` is
the end of `Agent.Run`, which waits for nobody. Sampling decides which packets
emit an event and is the choice of `EmitEvent`.

## 3. Runs

| Run | Question | Result |
|---|---|---|
| `policy_apply` | every failure and crash around an apply and a start-up, with and without a bootstrap file | live slot, saved slot, records, devmap targets and refinement hold, and every apply ends |
| `policy_apply_fail_closed` | does an attached program only forward under a whole policy? | no: section 5 |
| `data_plane` | a packet during an apply that does not flip | gets the one policy's verdict |
| `token_bucket` | two CPUs, two keys, a full map, a threshold that does not divide a second | tokens bounded, refill exact where it can be, state created once, rate kept up to rounding while the clock values come in order |
| `control_sync` | loss, delay, crash, reboot, files that are replaced, policies that are refused, applies that are torn | Control's view of an agent is one the agent had, and the maps hold what the agent says unless one of the mishaps named separated them; an agent converges from version 2 on to any policy it accepts, after a fallback to the default too |
| `snapshot_store` | users and one admin at once, rebuilds, rollbacks, failing statements, a row that lapses | snapshots up to date, versions published one on top of the other |
| `accounts` | two requests at a time on users and sessions | sessions end with their password, revocations stay, the last admin is kept, up to the races named |
| `accounts_last_admin` | is the last active admin always kept? | no: section 5 |
| `policy_rows` | sequences of requests, rebuilds, rollbacks and expiries on all kinds of rows | a user cannot lock itself out of rebuilds; what is withdrawn is not published, short of a rollback; shared changes reach all; row order is irrelevant |
| `feed_sync` | scheduler, manual sync, edits, a user's requests and rollbacks, rebuilds that interleave, failures, crashes | no older list returns; merging is exact; conflicts are real; locks and runs have their owner; disabled feeds are withdrawn up to the races named; due feeds are synchronised |
| `alert_delivery` | concurrent alerts and listings on a small pool | every request ends; the log explains the status; dedupe holds after the first recorded delivery |
| `event_pipeline` | full buffers, lost answers, late commits, exit | every event counted once, stored at most once and in order up to timed out batches; none stays with a running forwarder |

### Bounds

- PolicyApply: four versions, so that two successive policies of the same slot
  differ and the third shares entries and a devmap key with the first; version
  1 collides with the default; two interfaces, so that a key can be contested.
- DataPlane: two policies that differ in every table, and a packet for every
  way through `xdp_entry`. A packet sees at most two flips.
- TokenBucket: `Second = 4` is the smallest unit with fractions of a token at
  the rates used; 2 packets and 1 SYN per second divide it, 7 bytes do not; five ticks exceed a second, the cut-off of a refill (the other
  cut-off, a remainder of two seconds, cannot be met: a remainder stays below a
  second). `Word` is 2^16 in place of 2^64; what matters is that it exceeds
  every clock value and two seconds, which `BucketAssumption` states.
- ControlSync: two versions, so that a late request meets a newer one, and two
  crashes or reboots at any point. One policy can expire and the other come to be
  refused, so that either may be the latest, and the file may hold the expired one.
- SnapshotStore: two handlers, two owners, two rows of one owner and a shared
  one, two versions of each owner. A conflict needs two handlers, a partial
  rebuildAll two owners. The shared row shadows one of the owner's, so that a change
  of either decides about the other. One handler serves a user and an admin, the other
  a user with all requests; only the owner of the two rows asks for rebuilds and
  rollbacks (`Asking`), the other owner is there for rebuildAll. What the bounds leave
  out (two admins at once, more handlers, rows and versions) the proofs cover.
- Accounts: three names (two admins and a user, or an empty installation), three
  tokens, two transactions besides logins and logouts. Every race here is between
  two requests; founders, tokens and requests are symmetric.
- PolicyRows: two users, one of which was an admin before, an admin, and three
  requests besides expiry: a service, a row on it and a change of it, two rows
  that compete and the withdrawal of one, or a row, its withdrawal and a rollback. The initial tables hold a feed row and a
  shared rule. Capacities of 1 to 3 and two devmap keys are reached.
- FeedSync: two sources, one manual request at a time beside the scheduler, two
  editors, three events from outside, which are
  enough for a feed that is created and disabled while the rebuild of its
  synchronisation is under way, and for a rollback or a crash on top; two-bit addresses are enough for two
  levels of merging, a parent that exists already, and a whitelisted neighbour.
- AlertDelivery: two connections and two applies, so that the pool can be
  exhausted; two attempts, so that one is retried; two alerts of one key.
- EventPipeline: buffers and batches of two, five events: each buffer fills up
  and a batch can time out between two others.

`CHECK_DEADLOCK FALSE` stands in the configurations whose runs end by the bound
on requests or events, or because the agent has stopped.

### Fairness

- `PolicyApply!FairSpec`: an apply that has begun takes its next step. Each loop
  is over a finite list, and no step waits for another process.
- `ControlSync!SFairness`: the loop goes on (weak fairness of its own steps, and
  of the 10 s client timeout), and a request repeated forever is answered at
  last, a snapshot that is tried forever and passes the agent's checks applied at last
  (strong fairness of `ApplySucceeds`, which a refused snapshot never enables). Nothing
  is assumed of registration, which the code does not repeat, nor of late requests.
- `FeedSync!FsSpec`: the scheduler ticks (every 30 s), takes the next source of its
  list, and each step of a synchronisation ends, a download by its timeout. Downloads and
  the transactions in between may fail every time; those of `startFeedRun` and
  `finishFeedRun` fail finitely often (`MaxEvents`), since a database that never accepts
  them keeps every source due.
- `AlertDelivery!AdSpec`: a step of a request that is possible again and again is
  taken (the pool serves waiters in turn; Telegram answers or times out), and the
  agent's client gives up after 10 seconds. No other client is assumed to, and
  `AlertAssumption` says that listings alone do not fill the pool.
- `EventPipeline!EpSpec`: the consumer and the forwarder go on; a tick comes every
  second, and a request is answered or times out.

## 4. Proofs

Each theorem is about every value of the constants that satisfies the assumption of
the component's module. These are weak: bounds are naturals, special values are none
of the others. Beyond that, `PolicyTables` and `PolicyApply` say that versions are
positive, policies are sets of entries and 0 is no interface; `BucketAssumption` that
the clock does not come near 2^64 ns; `PipelineAssumption` that Control takes at least
as many events as the agent puts into a batch; `AlertAssumption` that a request is an
apply, a listing or another creator; `StoreAssumption` that rebuildAll goes through a
list of the owners; `SyncAssumption` that policies are not the empty one;
`FeedSyncAssumption` that there are finitely many sources, and that requests, editors
and the user are different;
`PayloadsAssumption` that a body has finitely many lines, which are masked prefixes or
malformed; `RowsAssumption` of `DataPlane` that a policy has one rule of each id, which
`ValidatePolicyEntries` checks; the assumptions of `PolicyRows` what the tables begin
with: ids handed out once, and rows of a user that pass its own rebuild.

None of the properties is inductive as it stands. Every proof module therefore has one
inductive invariant, a lemma for each action or group of actions that can disturb a
part of it, a step lemma that combines them, and the theorems at its end. TLC has
checked each invariant on the instance of the component's run first.

| Module | Invariant | Theorems |
|---|---|---|
| `PolicyApplyProofs` | `IInv` | `TypeCorrect`, `LiveSlotIsWhole`, `SavedSlotIsWhole`, `RecordsAlwaysAgree`, `LiveTargetsArePresent`, `LiveTargetsAreStable` (an action property), and `Refinement`: `PolicyApply` implements `DurablePolicy` |
| `PolicyApplyProofs`, of `DataPlane` | `IInv`, `PacketInv` | `VerdictIsOfOnePolicy` (an action property) |
| `PolicyRowsProofs` | `RowsInv` | `RowsTypeCorrect`, `OwnRowsNeverStopARebuild`, `WithdrawnRowsAreUnpublished`, `OrderOfRowsIsIrrelevant`, `SharedChangesAreRebuilt` (an action property) |
| `AgentLoopsProofs`, of `ControlSync` | `SyncInv` | `ReportedVersionsWereActive`, `AppliedStatusIsTrue`, `ActiveIsEnforced` |
| `AgentLoopsProofs`, of `EventPipeline` | `PipeInv` | `EventsAreCounted`, `StoredAreInOrder`, `BatchesFit` |
| `AlertDeliveryProofs` | `AlertInv` | `TokenIsNeverTheMask`, `LogIsTrue`, `LateRequestsAreDeduped` |
| `AccountsProofs` | `AccountsInv` | `RowsAreWhole`, `SessionsEndWithPassword`, `RevokedUsersStayRevoked`, `LastAdminStays` |
| `SnapshotStoreProofs` | `StoreInv` | `LatestIsUpToDate`, `VersionsFollowTheirBase` |
| `TokenBucketProofs` | `BucketInv` | `TokensAreBounded`, `RefillIsExact`, `RateIsKept`, `StateIsKept` |
| `FeedSyncProofs` | `FeedInv`, `ExactInv` | `LocksAndRunsAreOwned`, `NewestFetchWins`, `ConflictsAreReal`, `DisabledFeedsAreWithdrawn`, `AggregationNeverWidens` |

The arguments:

- **PolicyApply.** The flip needs that the inactive slot holds exactly the new policy
  (`InactiveInv`), which needs that the slot being filled is not the live one
  (`JobInv`: `runtime_config` has not changed since the apply read it, and only the
  flip changes it). A restart needs `SavedSlotWhole`, and that in turn that the slot the
  file names is the one the apply does not touch (`FileInv`). `LiveTargetsPresent` needs
  that a rollback only restores what the live policy does not use, or restores it to
  what it was (`DevmapInv`). `VersionsInv` excludes the versions 0 and 1 for a policy
  that replaces another.
- **DataPlane.** As long as a packet has met one policy, the slot it has read is the
  live one, which holds that policy whole (`LiveSlotWhole`, from `IInv`); each lookup
  adds a fact about the policy to `FoundInv`, and at the end the facts are those of one
  of its `Verdicts`. That the redirect finds its target is `LiveTargetsPresent`.
- **PolicyRows.** The preference in each list is a strict total order on the rows of one
  key, so one row per key wins: that is what the loop keeps after each row
  (`OrderIrrelevant`), and with fewer rows there is an injection from the new list into
  the old one, so that no capacity is exceeded later (`OwnRowsVerify`). Every step is a
  user's own request with its rebuild, an expiry of a user's own rules, a shared change
  with the rebuild of all, a lapse, or nothing (`Shape`), which is why what is withdrawn
  leaves the snapshots. A rollback publishes what its user has published before
  (`PastOK`: rows of that user and shared ones) and puts the user into `left`.
- **ControlSync.** What Control may learn late must hold of the requests under way:
  a heartbeat in the network names a version that was applied or the default, an
  acknowledgement only one that was applied (`NetInv`). Both stay true however late the
  request is, also where the active version has fallen to the default since; as long as
  it has not (`~fell`), no heartbeat is above it. What is live agrees with what is active
  unless `mishap` says otherwise, and the snapshot being applied is one that Control has.
- **EventPipeline.** Ring, queue and batch are ascending and each is behind the next
  (`BufferInv`); whatever Control has or may still get is older than what the agent
  holds (`SentInv`). Hence no event is counted twice, and a batch is stored before or
  after another as a whole.
- **AlertDelivery.** An alert belongs to the one request that created it (`OwnerInv`),
  and where that request is tells what the log of the alert looks like (`JobInv`). A
  request that began in the window is on its way to being deduped (`LateInv`).
- **Accounts.** A request that is not `stale` holds what the tables say, and at its commit
  has counted the admins that there are (`Fresh`). So whoever writes back what it read
  changes only what it means to, and removing an admin leaves one.
- **SnapshotStore.** A handler that builds either holds what its transaction sees
  (`Faithful`), or has lost its version to another, is marked `missed`, or another
  handler's rebuildAll will yet come to its owner (`Excused`). The latest snapshot of an
  owner that is not in `skipped` is up to date, or a rebuildAll will yet come
  (`PublishedInv`); at rest none is left. For any number of handlers, admins and rows.
- **TokenBucket.** `RefillBound` and `RefillExact` are about `refill_bucket` alone: in
  units of a tick's worth, the new bucket is at most the old one, what flowed in, and one
  rounding; and exactly the old one and the inflow, cut at the burst, if the rate divides
  a second. `BucketInv` carries that over the locked sections: what a bucket holds and
  what was spent never exceed what it began with and what has flowed in since, as long
  as `last_refill_ns` does not go back. `elapsed` is at most the time between the two
  clock values, whose difference does not wrap then (`ElapsedTyped`).
- **FeedSync.** A synchronisation holds the lock of its source (`LockInv`), so nobody else
  changes the number of its source's download, and the one it has in hand stays the
  newer (`FetchInv`). For the withdrawal of disabled feeds, the invariant says of every
  rebuild under way (`BuildInv`) what it holds: a build that may still insert has, of each
  source it did not miss, what the database says, and what it read as the latest version
  is that still, unless another was inserted since. Hence each insert or early return leaves a disabled source in the
  snapshot only if it was missed; an edit that has not yet rebuilt is not overtaken, or
  the one that overtook it has settled its source.
- **FeedEntries.** The quotient of an address by the size of a parent is half of that by
  the size of its children (`HalfDivision`), so a prefix and its sibling are the two
  halves of their parent (`SiblingsCover`). Hence a round of `aggregateFeedEntries` keeps
  the set of blocked addresses, and what it puts in covers no whitelisted start
  (`Exact`); so do all rounds, of any number, and `ExactInv` carries that from the
  download to what is about to be stored.

The library's induction theorems take an operator as a parameter, which the provers
cannot instantiate. Where a proof needs induction (`PowersOf2`, the rounds of merging,
the loop over the rows, finite sets of rows) it takes the least counterexample instead,
which exists because `<` is well-founded on the naturals (`LeastOf`, from `WFMin`), and a
recursive function is shown to exist before its equation is used (`Iterates`).

Left to TLC is liveness under fairness (`ApplyEnds`, `ConvergesFromSecond`, `DueIsSynced`,
`RequestsEnd`, `EventsMoveOn`), which is out of the prover's reach. The violations of the
two runs of section 5 are counterexamples, which TLC finds.

## 5. Where the code and its documents differ

Two runs show a statement of the documents that the code does not keep;
`PROJECT.json` quotes them:

- `policy_apply_fail_closed`: an expired last-valid policy makes a restart point
  a program that is still attached at whatever slot 0 holds.
- `accounts_last_admin`: two concurrent removals, or the creation of a user with
  the name of the last admin, leave no active admin.

The other properties are stated with the exceptions the code needs. What lies in
those exceptions, for a reader who wants to know:

- A packet in flight during a flip may use the service of one policy and the
  lists of the other (`SinglePolicyVerdict` is about the other packets).
- A clock value read before the lock may be older than `last_refill_ns`; the
  subtraction wraps and refills a whole second (`RateConformsInOrder`).
- The first snapshot of an owner has the version of the built-in policy and is not
  fetched; a rebooted agent reports the version of its file over empty maps. A policy
  that the agent refuses is offered and refused every five seconds; the agent stays with
  the one it has. After an apply that could neither be saved nor undone, the version in
  `runtime_config` is ahead of the one reported, and the same snapshot is refused until
  a restart or a newer version (`ConvergesFromSecond`).
- A restart that replaces its last-valid file goes back to version 1, over whatever slot
  0 holds; Control shows the old version until the next heartbeat (`ReportedWasActive`,
  `EnforcedIsActive`).
- Of two handlers that build for one owner, one may find its content unchanged and
  commit a change without a version; the other then publishes what it read before,
  without a conflict. This takes a rollback, or a row that shadows the one changed, and
  leaves a disabled row published or an enabled one out until the next change.
  `rebuildAllActiveUserSnapshots` stops at the first user that fails, and nothing
  retries (`PublishedUpToDate`, `NothingWithdrawnIsPublished`).
- A threshold that does not divide 10^9 lets a refill keep up to a nanosecond it has
  already paid out, once per packet (`RateConformsInOrder`, `ExactRefill`).
- A login that is overtaken by a reset keeps its session; an update that read
  before a revocation writes the old status back; creating an existing user leaves
  its sessions open (`SessionsFollowPassword`, `RevocationSticks`).
- The shared rules of an admin that was downgraded may expire as that user's own,
  without a rebuild of the others (`SharedChangesReachAll`).
- Of two edits of a feed that read before either wrote, the later one may rebuild
  nothing. A version that a synchronisation or a request built before a feed was disabled
  may be inserted after it, and the rebuild of the edit loses by the primary key, or has
  found nothing to do before (`DisabledFeedWithdrawn`). A rebuild that fails after the entries were
  replaced marks run and source as failed although the entries are new; a body
  that does not parse empties the feed and counts as a success.
- A rollback brings back what was withdrawn since, disabled feeds too, until the next
  rebuild (`NothingWithdrawnIsPublished`, `DisabledFeedWithdrawn`).
- Two alerts side by side may both be sent (`DedupeHolds`); listings have no
  timeout, and enough of them can hold the whole pool (`RequestsEnd`).
- A batch whose answer is lost is counted as dropped although it is stored,
  possibly after later ones (`StoredInOrder`).

## 6. Coverage of the properties

Modelled and checked: every component that changes state which the policy, its
users or its operators depend on. Proved: every safety property that a passing run
checks, invariants and action properties alike, and the refinement of
`DurablePolicy`. A change of the code that a module models should be followed by its
run first and its proof module then; the constants of a run can be raised without
touching the proofs.

## 7. Not modelled

- Forwarding resolver: it asks the kernel for routes and neighbours and keeps no
  state; `PolicyApply` takes its answer as an input. Renumbered interfaces, which
  make a pinned devmap key stale, would need a model of the host.
- Of the agent's validation: the memory budget, `sample_denom`, and that an unresolved
  service has an output interface. Of the XDP program: the test of a blacklist entry's
  action, which Control always publishes as drop. No property depends on them.
- Header parsing, per-CPU counters, checksum and signature of snapshots: pure
  functions of their input, taken as an input or as a guard.
- JSON, cookies, routing of read-only handlers, the text of the migrations,
  metrics, dashboard queries, the web UI, configuration, ids, redaction and the
  entry points: they hold no state that the properties could speak about. This is
  the greater part of what the map leaves out.
