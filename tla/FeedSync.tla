------------------------------ MODULE FeedSync ------------------------------
(***************************************************************************)
(* Threat feeds of Control: the scheduler, manual synchronisation, the     *)
(* administration of feed sources, and what gets into the snapshots        *)
(* (internal/control/feed.go, scheduler.go, CreateFeedSource in            *)
(* policy_store.go and DisableFeedSource in admin_console.go).             *)
(*                                                                         *)
(* A synchronisation is several transactions with a download between them, *)
(* under a lock of the process for its source, and works with the source   *)
(* as it was read at the start. Administrators edit sources meanwhile: an  *)
(* edit reads the source, writes it back, and rebuilds the snapshots if    *)
(* enabled has changed against what it read. A rebuild reads the latest     *)
(* version, then the entries, and then inserts their successor, while       *)
(* other rebuilds, the requests of the users and rollbacks do the same.     *)
(***************************************************************************)
EXTENDS FeedEntries, SequencesExt

CONSTANTS
  Sources,    \* feed sources
  Manual,     \* requests that synchronise a source
  Editors,    \* requests that edit a source
  Payloads,   \* what a download may contain: sequences of lines
  Whitelists, \* prefixes that users may whitelist
  MaxEvents   \* bound on requests, edits, elapsed intervals, crashes and failing bookkeeping

\* A body has finitely many lines, and a line is an entry of a prefix or malformed.
ASSUME PayloadsAssumption ==
  \A lines \in Payloads :
    /\ IsFiniteSet(DOMAIN lines)
    /\ \A i \in DOMAIN lines : lines[i] # Malformed =>
         LET e == lines[i] IN
         e.cidr \in MaskedPrefixes /\ e = [cidr |-> e.cidr, class |-> e.class, reason |-> e.reason]

Scheduler == "scheduler"
Callers == Manual \cup {Scheduler}

\* Who rebuilds the snapshot that is looked at: that of one of the users.
User == "user"
Rebuilders == Callers \cup Editors \cup {User}

ASSUME FeedSyncAssumption ==
  /\ MaxEvents \in Nat /\ IsFiniteSet(Sources) /\ "free" \notin Manual
  /\ Callers \cap Editors = {} /\ User \notin Callers \cup Editors

VARIABLES
  source,     \* [Sources -> [enabled, status, next]], next_run_at: "null", "due" or "later"
  active,     \* [Sources -> active reputation_entries]
  conflicts,  \* [Sources -> active feed_conflicts, <<entry, whitelisted prefix>>]
  runs,       \* feed_runs, in the order of their start
  whitelist,  \* the enabled whitelist prefixes of all users
  published,  \* [Sources -> entries of it in the latest snapshot of the user]
  past,       \* what his snapshots have been, for RollbackSnapshot
  build,      \* [Rebuilders -> the rebuild of his snapshot it is in]
  lock,       \* [Sources -> the caller that holds feedLocks[s], or "free"]
  job,        \* [Callers -> the synchronisation it is in]
  queue,      \* the sources that SyncDueFeeds has yet to do
  edit,       \* [Editors -> the edit it is in]
  events,     \* history: what has happened from outside
  fetches,    \* history: downloads so far
  applied,    \* history: [Sources -> the number of the download behind active]
  excused     \* history: sources whose last change of enabled the snapshot may have missed

snapvars == <<published, past, build, excused>>
dbvars == <<source, active, conflicts, applied>>
fsvars == <<dbvars, snapvars, runs, whitelist, lock, job, queue, edit, events, fetches>>

NoJob == [pc |-> "idle"]
NoBuild == [at |-> "none"]
NoEdit == [pc |-> "idle"]

Event == events < MaxEvents /\ events' = events + 1

-----------------------------------------------------------------------------
(* Snapshots *)

\* The entries of enabled sources, as snapshotBlacklist selects them.
InSnapshots == [s \in Sources |-> IF source[s].enabled THEN active[s] ELSE {}]

\* rebuildSnapshotInTx: latestSnapshot gives the version to succeed, then
\* buildEffectiveSnapshot reads the entries. Under READ COMMITTED either may be
\* out of date when the transaction goes on: another version is inserted
\* (fresh is FALSE then), or a change of enabled or of entries is committed.
ReadLatest(r) ==
  /\ build[r] = NoBuild
  /\ build' = [build EXCEPT ![r] = [at |-> "latest", latest |-> published, fresh |-> TRUE]]

BuildEffectiveSnapshot(r) ==
  /\ build[r].at = "latest"
  /\ build' = [build EXCEPT ![r] = [at |-> "rows", latest |-> build[r].latest,
                 fresh |-> build[r].fresh, entries |-> InSnapshots, missed |-> {}]]

RebuildReads(r) ==
  /\ ReadLatest(r) \/ BuildEffectiveSnapshot(r)
  /\ UNCHANGED <<published, past, excused>>

\* A commit changes what the builds that have read no longer see.
MissedByBuilds ==
  build' = [r \in Rebuilders |->
    IF build[r].at = "rows"
    THEN [build[r] EXCEPT !.missed = @ \cup {s \in Sources : InSnapshots'[s] # InSnapshots[s]}]
    ELSE build[r]]

\* A version is inserted by those whose transaction ends with it. By the primary
\* key, the others that read the same latest version will not insert theirs.
Insert(ending, entries) ==
  /\ published' = entries /\ past' = past \cup {entries}
  /\ build' = [r \in Rebuilders |->
       IF r \in ending \/ build[r] = NoBuild THEN NoBuild ELSE [build[r] EXCEPT !.fresh = FALSE]]

\* The transaction inserts what it has built and commits.
RebuildInserts(r) ==
  /\ build[r].at = "rows" /\ build[r].fresh
  /\ Insert({r}, build[r].entries)
  /\ excused' = build[r].missed

\* It returns early, as what it has built is what it has read as latest.
RebuildUnchanged(r) ==
  /\ build[r].at = "rows" /\ build[r].entries = build[r].latest
  /\ build' = [build EXCEPT ![r] = NoBuild]
  /\ excused' = IF build[r].fresh THEN build[r].missed ELSE excused
  /\ UNCHANGED <<published, past>>

\* rebuildAllActiveUserSnapshots is done with the user, or stops at him or before.
RebuildDone(r) == RebuildInserts(r) \/ RebuildUnchanged(r)
RebuildStops(r) == build' = [build EXCEPT ![r] = NoBuild] /\ UNCHANGED <<published, past>>

\* A version has been inserted since r read the latest one.
Overtaken(r) == build[r] # NoBuild /\ ~build[r].fresh

-----------------------------------------------------------------------------
(* SyncFeedSource *)

\* Faulty variant: the lock is not tried.
AlwaysLock(s) == TRUE

TryLock(s) == lock[s] = "free"

\* TryLock, GetFeedSource and startFeedRun.
StartSync(c, s) ==
  /\ TryLock(s)
  /\ lock' = [lock EXCEPT ![s] = c]
  /\ runs' = Append(runs, [source |-> s, status |-> "running"])
  /\ job' = [job EXCEPT ![c] = [pc |-> "fetch", source |-> s, run |-> Len(runs) + 1,
               entries |-> {}, parsed |-> {}, whitelist |-> {}, fetch |-> 0, ok |-> TRUE]]

\* POST /v1/feed-sources/{id}/sync, of enabled and disabled sources. (If
\* GetFeedSource or startFeedRun fails, the request has no effect.)
SyncRequest(c, s) ==
  /\ c \in Manual /\ job[c] = NoJob /\ source[s].status # "absent"
  /\ Event /\ StartSync(c, s)
  /\ UNCHANGED <<dbvars, snapvars, whitelist, queue, edit, fetches>>

\* fetchFeed and parseFeedPayload: whatever the body, that is no error.
FetchFeed(c) ==
  /\ job[c].pc = "fetch"
  /\ fetches' = fetches + 1
  /\ \E lines \in Payloads :
       job' = [job EXCEPT ![c].pc = "load", ![c].fetch = fetches + 1,
                          ![c].parsed = DedupeFeedEntries(ParseFeedPayload(lines).entries)]
  /\ UNCHANGED <<dbvars, snapvars, runs, whitelist, lock, queue, edit, events>>

\* loadFeedWhitelist, and aggregateFeedEntries with what it has read.
LoadFeedWhitelist(c) ==
  /\ job[c].pc = "load"
  /\ \E entries \in AggregateFeedEntries(job[c].parsed, whitelist) :
       job' = [job EXCEPT ![c].pc = "replace", ![c].whitelist = whitelist, ![c].entries = entries]
  /\ UNCHANGED <<dbvars, snapvars, runs, whitelist, lock, queue, edit, events, fetches>>

Conflicting(E, wl) ==
  UNION {{<<e, w>> : w \in MatchingWhitelists(e.cidr, wl)} : e \in E}

\* Faulty variant: the conflicts of the last synchronisation are kept.
KeptConflicts(s) == conflicts[s]

\* The conflicts of before that stay active: they are all resolved first.
UnresolvedConflicts(s) == {}

\* replaceFeedEntries up to its commit.
ReplaceFeedEntries(c) ==
  LET s == job[c].source IN
  /\ job[c].pc = "replace"
  /\ \E rows \in Upserts(job[c].entries) : active' = [active EXCEPT ![s] = rows]
  /\ conflicts' = [conflicts EXCEPT ![s] =
       UnresolvedConflicts(s) \cup Conflicting(active'[s], job[c].whitelist)]
  /\ source' = [source EXCEPT ![s].status = "healthy", ![s].next = "later"]
  /\ applied' = [applied EXCEPT ![s] = job[c].fetch]
  /\ job' = [job EXCEPT ![c].pc = "rebuild"]
  /\ UNCHANGED <<published, past, excused, runs, whitelist, lock, queue, edit, events, fetches>>
  /\ MissedByBuilds

\* Its rebuild, after the commit. It may have an error of a later user.
SyncRebuild(c) ==
  /\ job[c].pc = "rebuild"
  /\ \/ RebuildReads(c) /\ UNCHANGED job
     \/ RebuildDone(c) /\ \E ok \in BOOLEAN : job' = [job EXCEPT ![c].pc = "finish", ![c].ok = ok]
     \/ /\ RebuildStops(c) /\ UNCHANGED excused
        /\ job' = [job EXCEPT ![c].pc = "finish", ![c].ok = FALSE]
  /\ UNCHANGED <<dbvars, runs, whitelist, lock, queue, edit, events, fetches>>

\* A step fails before the commit: no download, or an error of the database.
SyncFails(c) ==
  /\ job[c].pc \in {"fetch", "load", "replace"}
  /\ job' = [job EXCEPT ![c].pc = "finish", ![c].ok = FALSE]
  /\ UNCHANGED <<dbvars, snapvars, runs, whitelist, lock, queue, edit, events, fetches>>

RunStatus(ok) == IF ok THEN "success" ELSE "error"

\* Faulty variant: an error return leaves the lock held.
UnlockIfOk(s, ok) == lock' = IF ok THEN [lock EXCEPT ![s] = "free"] ELSE lock

\* The deferred Unlock.
Unlock(s, ok) == lock' = [lock EXCEPT ![s] = "free"]

\* finishFeedRun. (The alerts for a failure, after its commit, are AlertDelivery's.)
FinishFeedRun(c) ==
  LET s == job[c].source
      ok == job[c].ok IN
  /\ job[c].pc = "finish"
  /\ runs' = [runs EXCEPT ![job[c].run].status = RunStatus(ok)]
  /\ source' = [source EXCEPT ![s].status = IF ok THEN "healthy" ELSE "error", ![s].next = "later"]
  /\ Unlock(s, ok)
  /\ job' = [job EXCEPT ![c] = NoJob]
  /\ UNCHANGED <<active, conflicts, applied, snapvars, whitelist, queue, edit, events, fetches>>

\* finishFeedRun fails: run and source stay as they are, the run for good.
FinishFails(c) ==
  /\ job[c].pc = "finish" /\ Event
  /\ Unlock(job[c].source, FALSE)
  /\ job' = [job EXCEPT ![c] = NoJob]
  /\ UNCHANGED <<dbvars, snapvars, runs, whitelist, queue, edit, fetches>>

\* The client of a manual request goes away: with its context every statement
\* fails, that of finishFeedRun too.
CancelSync(c) ==
  /\ c \in Manual /\ job[c] # NoJob
  /\ lock' = [lock EXCEPT ![job[c].source] = "free"]
  /\ job' = [job EXCEPT ![c] = NoJob]
  /\ RebuildStops(c)
  /\ UNCHANGED <<dbvars, excused, runs, whitelist, queue, edit, events, fetches>>

SyncStep(c) ==
  \/ FetchFeed(c) \/ LoadFeedWhitelist(c)
  \/ ReplaceFeedEntries(c) \/ SyncRebuild(c) \/ SyncFails(c) \/ FinishFeedRun(c)

-----------------------------------------------------------------------------
(* The scheduler *)

\* Faulty variant: a source that was never scheduled is not due.
DueIfSet(s) == source[s].enabled /\ source[s].next = "due"

\* A next_run_at that is not set counts as passed.
Due(s) == source[s].enabled /\ source[s].next \in {"null", "due"}

\* A tick of runFeedScheduler: SyncDueFeeds reads the list, in some order.
SchedulerTick ==
  /\ job[Scheduler] = NoJob /\ queue = <<>> /\ \E s \in Sources : Due(s)
  /\ queue' \in SetToSeqs({s \in Sources : Due(s)})
  /\ UNCHANGED <<dbvars, snapvars, runs, whitelist, lock, job, edit, events, fetches>>

\* The next of the list. It may have been disabled or done meanwhile; it is
\* passed over only if it is being synchronised.
SyncNext ==
  /\ job[Scheduler] = NoJob /\ queue # <<>>
  /\ queue' = Tail(queue)
  /\ IF lock[Head(queue)] = "free" THEN StartSync(Scheduler, Head(queue))
     ELSE UNCHANGED <<lock, runs, job>>
  /\ UNCHANGED <<dbvars, snapvars, whitelist, edit, events, fetches>>

\* GetFeedSource or startFeedRun fails: the lock is released, there is no run,
\* the source stays due, and the scheduler goes on with the next one.
StartFails ==
  /\ job[Scheduler] = NoJob /\ queue # <<>> /\ TryLock(Head(queue)) /\ Event
  /\ queue' = Tail(queue)
  /\ UNCHANGED <<dbvars, snapvars, runs, whitelist, lock, job, edit, fetches>>

-----------------------------------------------------------------------------
(* Administration *)

CreateFeedSource(s, enabled) ==
  /\ source[s].status = "absent" /\ Event
  /\ source' = [source EXCEPT ![s] = [enabled |-> enabled, status |-> "placeholder", next |-> "null"]]
  /\ UNCHANGED <<active, conflicts, applied, snapvars, runs, whitelist, lock, job, queue, edit,
                 fetches>>

\* UpdateFeedSource with enabled given or left out, and DisableFeedSource. The
\* source is read first, in a transaction of its own. (A status given with the
\* request, which nothing but the dashboard reads, is left out.)
Edits == {"enable", "turn_off", "touch", "disable"}
ReadForEdit(e, s, kind) ==
  /\ edit[e] = NoEdit /\ source[s].status # "absent" /\ Event
  /\ edit' = [edit EXCEPT ![e] = [pc |-> "commit", source |-> s, kind |-> kind, before |-> source[s]]]
  /\ UNCHANGED <<dbvars, snapvars, runs, whitelist, lock, job, queue, fetches>>

Edited(kind, before) ==
  IF kind = "disable" THEN [enabled |-> FALSE, status |-> "disabled", next |-> "null"]
  ELSE [enabled |-> IF kind = "touch" THEN before.enabled ELSE kind = "enable",
        status |-> before.status, next |-> "later"]

\* Faulty variant: no edit rebuilds.
NeedsRebuildNever(kind, before) == FALSE

\* enabled is compared with what was read, which may be out of date.
NeedsRebuild(kind, before) ==
  IF kind = "disable" THEN before.enabled ELSE Edited(kind, before).enabled # before.enabled

CommitEdit(e) ==
  LET s == edit[e].source
      before == edit[e].before
      new == Edited(edit[e].kind, before) IN
  /\ edit[e].pc = "commit"
  /\ source' = [source EXCEPT ![s] = new]
  /\ edit' = [edit EXCEPT ![e] = IF NeedsRebuild(edit[e].kind, before)
                                 THEN [@ EXCEPT !.pc = "rebuild"] ELSE NoEdit]
  /\ excused' = IF source[s].enabled # before.enabled THEN excused \cup {s} ELSE excused
  /\ UNCHANGED <<active, conflicts, applied, published, past, runs, whitelist, lock, job, queue,
                 events, fetches>>
  /\ MissedByBuilds

\* The rebuild of an edit. If it fails, the edit stays committed, and its source
\* as it was published; unless another version has been inserted meanwhile.
EditRebuild(e) ==
  /\ edit[e].pc = "rebuild"
  /\ \/ RebuildReads(e) /\ UNCHANGED edit
     \/ RebuildDone(e) /\ edit' = [edit EXCEPT ![e] = NoEdit]
     \/ /\ RebuildStops(e) /\ edit' = [edit EXCEPT ![e] = NoEdit]
        /\ excused' = IF Overtaken(e) THEN excused ELSE excused \cup {edit[e].source}
  /\ UNCHANGED <<dbvars, runs, whitelist, lock, job, queue, events, fetches>>

-----------------------------------------------------------------------------
(* The user, time and crashes *)

Toggled(w) == IF w \in whitelist THEN whitelist \ {w} ELSE whitelist \cup {w}

\* A whitelist entry of another user or of an admin is changed, or expires.
ChangeWhitelist(w) ==
  /\ Event
  /\ whitelist' = Toggled(w)
  /\ UNCHANGED <<dbvars, snapvars, runs, lock, job, queue, edit, fetches>>

\* The user changes his own rows, or asks for a rebuild: one transaction, of
\* which the whitelist is what matters here (PolicyRows). Any error undoes it.
UserRequest ==
  /\ Event /\ ReadLatest(User)
  /\ UNCHANGED <<dbvars, published, past, excused, runs, whitelist, lock, job, queue, edit, fetches>>

UserRebuild ==
  /\ \/ BuildEffectiveSnapshot(User) /\ UNCHANGED <<published, past, excused, whitelist>>
     \/ RebuildInserts(User) /\ whitelist' \in {whitelist} \cup {Toggled(w) : w \in Whitelists}
     \/ RebuildUnchanged(User) /\ UNCHANGED whitelist
     \/ build[User] # NoBuild /\ RebuildStops(User) /\ UNCHANGED <<excused, whitelist>>
  /\ UNCHANGED <<dbvars, runs, lock, job, queue, edit, events, fetches>>

\* RollbackSnapshot: an older content becomes the latest version.
RollbackSnapshot(entries) ==
  /\ Event /\ entries \in past
  /\ Insert({}, entries)
  /\ excused' = {s \in Sources : entries[s] # {}}
  /\ UNCHANGED <<dbvars, runs, whitelist, lock, job, queue, edit, fetches>>

Elapse(s) ==
  /\ source[s].next = "later" /\ Event
  /\ source' = [source EXCEPT ![s].next = "due"]
  /\ UNCHANGED <<active, conflicts, applied, snapvars, runs, whitelist, lock, job, queue, edit,
                 fetches>>

\* An edit is committed and may still insert the version that shows it.
RebuildAhead(e) == edit[e].pc = "rebuild" /\ ~Overtaken(e)

\* The process ends and is started again.
Crash ==
  /\ Event
  /\ job' = [c \in Callers |-> NoJob] /\ queue' = <<>> /\ edit' = [e \in Editors |-> NoEdit]
  /\ lock' = [s \in Sources |-> "free"]
  /\ build' = [r \in Rebuilders |-> NoBuild]
  /\ excused' = excused \cup {edit[e].source : e \in {x \in Editors : RebuildAhead(x)}}
  /\ UNCHANGED <<dbvars, published, past, runs, whitelist, fetches>>

-----------------------------------------------------------------------------

FsInit ==
  /\ source = [s \in Sources |-> [enabled |-> FALSE, status |-> "absent", next |-> "null"]]
  /\ active = [s \in Sources |-> {}] /\ conflicts = [s \in Sources |-> {}]
  /\ published = [s \in Sources |-> {}] /\ past = {published}
  /\ build = [r \in Rebuilders |-> NoBuild] /\ applied = [s \in Sources |-> 0]
  /\ runs = <<>> /\ whitelist = {}
  /\ lock = [s \in Sources |-> "free"] /\ job = [c \in Callers |-> NoJob]
  /\ queue = <<>> /\ edit = [e \in Editors |-> NoEdit]
  /\ excused = {} /\ events = 0 /\ fetches = 0

FsNext ==
  \/ \E c \in Callers :
       SyncStep(c) \/ FinishFails(c) \/ CancelSync(c) \/ \E s \in Sources : SyncRequest(c, s)
  \/ SchedulerTick \/ SyncNext \/ StartFails
  \/ \E s \in Sources :
       \/ Elapse(s) \/ \E enabled \in BOOLEAN : CreateFeedSource(s, enabled)
       \/ \E e \in Editors, kind \in Edits : ReadForEdit(e, s, kind)
  \/ \E e \in Editors : CommitEdit(e) \/ EditRebuild(e)
  \/ \E w \in Whitelists : ChangeWhitelist(w)
  \/ UserRequest \/ UserRebuild \/ \E entries \in past : RollbackSnapshot(entries)
  \/ Crash

\* The scheduler ticks every 30 seconds, and every step of a synchronisation
\* ends, the download by its timeout. Nobody has to make a request. The
\* statements of startFeedRun and finishFeedRun fail finitely often (MaxEvents);
\* a database that refuses them for ever keeps every source due.
FsSpec ==
  /\ FsInit /\ [][FsNext]_fsvars
  /\ WF_fsvars(SchedulerTick) /\ WF_fsvars(SyncNext)
  /\ \A c \in Callers : WF_fsvars(SyncStep(c))

-----------------------------------------------------------------------------
(* Properties *)

\* The variables have their types. The lock of a source is held by a caller
\* that is in a synchronisation of it (the deferred Unlock of SyncFeedSource).
\* Callers work on runs of their own, which nobody has finished yet.
FsTypeOK ==
  /\ source \in [Sources -> [enabled : BOOLEAN, next : {"null", "due", "later"},
       status : {"absent", "placeholder", "healthy", "error", "disabled"}]]
  /\ \A c \in Callers : job[c] # NoJob => source[job[c].source].status # "absent"
  /\ \A s \in Sources : lock[s] # "free" => job[lock[s]] # NoJob /\ job[lock[s]].source = s
  /\ \A c \in Callers : job[c] # NoJob =>
       /\ runs[job[c].run] = [source |-> job[c].source, status |-> "running"]
       /\ \A d \in Callers \ {c} : job[d] # NoJob => job[d].run # job[c].run

\* feedLock: what a synchronisation stores was downloaded after what it
\* replaces, so that a slow download never brings back an older list, in
\* whatever order scheduler and requests get on.
NewestFetchStays == [][\A s \in Sources : applied'[s] >= applied[s]]_fsvars

\* The feed_conflicts that are reported are between entries that are active
\* and prefixes that overlap with them.
ConflictsOfActiveEntries ==
  \A s \in Sources : \A k \in conflicts[s] : k[1] \in active[s] /\ PrefixesOverlap(k[1].cidr, k[2])

\* What aggregateFeedEntries returns blocks the addresses of the feed and no
\* other, and an entry of it that covers the start of a whitelisted prefix is one
\* of the feed's own, so that the conflict with it is real.
Blocked(E) == UNION {Addresses(e.cidr) : e \in E}
AggregationIsExact ==
  \A c \in Callers : job[c].pc = "replace" =>
    LET E == job[c].entries IN
    /\ Blocked(E) = Blocked(job[c].parsed)
    /\ \A e \in E : (\E w \in job[c].whitelist : w.addr \in Addresses(e.cidr)) => e \in job[c].parsed

\* The entries of a disabled source are not in the user's snapshot, in whatever
\* order syncs, edits, users and the scheduler rebuild it, unless the edit that
\* disabled it still has its rebuild ahead. Left out are (excused) the edits
\* whose rebuild failed or was interrupted; two edits that read the source
\* before either wrote it, of which the later writes back the enabled it has
\* read and sees no reason to rebuild; a version that was built before the
\* source was disabled and inserted after it, so that the rebuild of the edit
\* loses by the primary key, or returned early before; and a rollback to a
\* version that has the entries.
DisabledFeedWithdrawn ==
  \A s \in Sources : published[s] # {} /\ ~source[s].enabled =>
    s \in excused \/ \E e \in Editors : RebuildAhead(e) /\ edit[e].source = s

\* SyncDueFeeds: a source that is enabled and due, or never was scheduled, is
\* synchronised or no longer both, whatever the other sources, requests, edits
\* and crashes do.
Waiting(s) == source[s].enabled /\ source[s].next # "later"
DueIsSynced == \A s \in Sources : Waiting(s) ~> ~Waiting(s)
=============================================================================
