--------------------------- MODULE FeedSyncProofs ---------------------------
(***************************************************************************)
(* Proofs about the synchronisation of feeds, for any number of sources,   *)
(* requests and editors, any downloads and any whitelists: locks and runs, *)
(* the order of downloads, conflicts and withdrawal; and at the end, for   *)
(* any width of addresses, what merging makes of a download.               *)
(***************************************************************************)
EXTENDS FeedSync, FiniteSetTheorems, SequenceTheorems, WellFoundedInduction, TLAPS

SourceRecord ==
  [enabled : BOOLEAN, next : {"null", "due", "later"},
   status : {"absent", "placeholder", "healthy", "error", "disabled"}]
RunRecord == [source : Sources, status : {"running", "success", "error"}]
EditRecord ==
  [pc : {"commit", "rebuild"}, source : Sources, kind : Edits, before : SourceRecord]

\* A synchronisation in progress. Nothing is said of what it has downloaded.
IsJob(j) ==
  j \in [pc : {"fetch", "load", "replace", "rebuild", "finish"}, source : Sources, run : Nat,
         entries : {j.entries}, parsed : {j.parsed}, whitelist : {j.whitelist},
         fetch : Nat, ok : BOOLEAN]

RowTypes ==
  /\ source \in [Sources -> SourceRecord]
  /\ active = [s \in Sources |-> active[s]]
  /\ conflicts = [s \in Sources |-> conflicts[s]]
  /\ applied \in [Sources -> Nat] /\ fetches \in Nat
  /\ queue \in Seq(Sources)
  /\ edit \in [Editors -> EditRecord \cup {NoEdit}]

JobTypes ==
  /\ lock \in [Sources -> Callers \cup {"free"}]
  /\ runs \in Seq(RunRecord)
  /\ job = [c \in Callers |-> job[c]]
  /\ \A c \in Callers : job[c] = NoJob \/ IsJob(job[c])

FeedTypes == RowTypes /\ JobTypes

\* A synchronisation has the lock of its source, and only synchronisations have one.
LockInv ==
  /\ \A c \in Callers : job[c] # NoJob => lock[job[c].source] = c
  /\ \A s \in Sources : lock[s] # "free" => job[lock[s]] # NoJob /\ job[lock[s]].source = s

\* The run of a synchronisation in progress is one of its source, and running.
RunInv ==
  \A c \in Callers : job[c] # NoJob =>
    /\ job[c].run \in DOMAIN runs
    /\ runs[job[c].run].source = job[c].source /\ runs[job[c].run].status = "running"

\* Nobody works on a source that does not exist; and it is neither enabled nor scheduled.
SourceInv ==
  /\ \A s \in Sources : source[s].status = "absent" => ~source[s].enabled /\ source[s].next = "null"
  /\ \A c \in Callers : job[c] # NoJob => source[job[c].source].status # "absent"
  /\ \A i \in DOMAIN queue : source[queue[i]].status # "absent"
  /\ \A e \in Editors : edit[e] # NoEdit =>
       edit[e].before.status # "absent" /\ source[edit[e].source].status # "absent"

\* A download that is yet to be stored is newer than what its source holds.
FetchInv ==
  /\ \A s \in Sources : applied[s] <= fetches
  /\ \A c \in Callers : job[c].pc \in {"load", "replace"} =>
       applied[job[c].source] < job[c].fetch /\ job[c].fetch <= fetches

\* A rebuild in progress. Nothing is said of the entries of the latest version.
IsBuild(b) ==
  \/ b \in [at : {"latest"}, latest : {b.latest}, fresh : BOOLEAN]
  \/ b \in [at : {"rows"}, latest : {b.latest}, fresh : BOOLEAN, entries : {b.entries},
            missed : SUBSET Sources]

\* What a rebuild has read of a source is what would be read now, unless a change of it
\* has been committed since.
UpToDate(b) == b.at = "rows" => \A s \in Sources : s \in b.missed \/ b.entries[s] = InSnapshots[s]

\* What it has read as latest still is, if it is fresh.
GoodBuild(b) ==
  /\ b = NoBuild \/ IsBuild(b)
  /\ UpToDate(b)
  /\ b # NoBuild /\ b.fresh => b.latest = published

\* An editor rebuilds after its commit only; a source that does not exist has no entries.
BuildInv ==
  /\ build = [r \in Rebuilders |-> build[r]]
  /\ \A r \in Rebuilders : GoodBuild(build[r])
  /\ \A e \in Editors : edit[e].pc # "rebuild" => build[e] = NoBuild
  /\ \A s \in Sources : source[s].status = "absent" => active[s] = {}

FeedInv ==
  /\ FeedTypes /\ LockInv /\ RunInv /\ SourceInv /\ FetchInv /\ BuildInv
  /\ ConflictsOfActiveEntries /\ DisabledFeedWithdrawn

-----------------------------------------------------------------------------
(* Jobs *)

LEMMA Jobs ==
  ASSUME FeedTypes, NEW c \in Callers
  PROVE  /\ job[c] = NoJob <=> job[c].pc = "idle"
         /\ job[c] # NoJob => /\ IsJob(job[c]) /\ job[c].source \in Sources /\ job[c].run \in Nat
                              /\ job[c].fetch \in Nat
  BY DEF FeedTypes, JobTypes, IsJob, NoJob

\* The steps of a synchronisation before its end.
Working(c) ==
  FetchFeed(c) \/ LoadFeedWhitelist(c) \/ ReplaceFeedEntries(c) \/ SyncRebuild(c) \/ SyncFails(c)

\* They keep its source and its run.
LEMMA JobGoesOn ==
  ASSUME FeedTypes, NEW c \in Callers, Working(c)
  PROVE  \E j : /\ IsJob(j) /\ job' = [job EXCEPT ![c] = j] /\ job[c] # NoJob
                /\ j.source = job[c].source /\ j.run = job[c].run
                /\ j.pc = "load" => FetchFeed(c) /\ j.fetch = fetches + 1
                /\ j.pc = "replace" => job[c].pc = "load" /\ j.fetch = job[c].fetch
                /\ j.pc # "fetch"
<1>1. job[c].pc # "idle"
  BY DEF Working, FetchFeed, LoadFeedWhitelist, ReplaceFeedEntries, SyncRebuild, SyncFails
<1>2. job[c] # NoJob /\ IsJob(job[c]) /\ fetches \in Nat
  BY <1>1, Jobs DEF FeedTypes, RowTypes
<1>3. PICK o : o = job[c] /\ IsJob(o)
  BY <1>2
<1>4. job = [d \in Callers |-> job[d]]
  BY DEF FeedTypes, JobTypes
<1>5. CASE FetchFeed(c)
  <2>1. PICK parsed : job' = [job EXCEPT ![c].pc = "load", ![c].fetch = fetches + 1,
                                         ![c].parsed = parsed]
    BY <1>5 DEF FetchFeed
  <2>2. PICK n \in Nat : n = fetches + 1
    BY <1>2
  <2>3. PICK j : j = [o EXCEPT !.pc = "load", !.fetch = n, !.parsed = parsed]
    OBVIOUS
  <2>4. job' = [job EXCEPT ![c] = j]
    BY <2>1, <2>2, <2>3, <1>3, <1>4
  <2>5. IsJob(j) /\ j.source = o.source /\ j.run = o.run /\ j.pc = "load" /\ j.fetch = n
    BY <2>3, <1>3 DEF IsJob
  <2> QED
    BY <2>2, <2>4, <2>5, <1>2, <1>3, <1>5
<1>6. CASE LoadFeedWhitelist(c)
  <2>1. PICK entries : job' = [job EXCEPT ![c].pc = "replace", ![c].whitelist = whitelist,
                                          ![c].entries = entries]
    BY <1>6 DEF LoadFeedWhitelist
  <2>2. PICK j : j = [o EXCEPT !.pc = "replace", !.whitelist = whitelist, !.entries = entries]
    OBVIOUS
  <2>3. job' = [job EXCEPT ![c] = j]
    BY <2>1, <2>2, <1>3, <1>4
  <2>4. IsJob(j) /\ j.source = o.source /\ j.run = o.run /\ j.pc = "replace" /\ j.fetch = o.fetch
    BY <2>2, <1>2, <1>3 DEF IsJob
  <2> QED
    BY <2>3, <2>4, <1>2, <1>3, <1>6 DEF LoadFeedWhitelist
<1>7. CASE ReplaceFeedEntries(c)
  <2>1. PICK j : j = [o EXCEPT !.pc = "rebuild"]
    OBVIOUS
  <2>2. job' = [job EXCEPT ![c] = j]
    BY <2>1, <1>3, <1>4, <1>7 DEF ReplaceFeedEntries
  <2>3. IsJob(j) /\ j.source = o.source /\ j.run = o.run /\ j.pc = "rebuild"
    BY <2>1, <1>3 DEF IsJob
  <2> QED
    BY <2>2, <2>3, <1>2, <1>3
<1>9. CASE SyncRebuild(c) /\ UNCHANGED job
  <2>1. job' = [job EXCEPT ![c] = o]
    BY <1>3, <1>4, <1>9
  <2> QED
    BY <2>1, <1>2, <1>3, <1>9 DEF SyncRebuild
<1>8. CASE SyncFails(c) \/ (SyncRebuild(c) /\ ~UNCHANGED job)
  <2>1. PICK ok \in BOOLEAN : job' = [job EXCEPT ![c].pc = "finish", ![c].ok = ok]
    BY <1>8 DEF SyncRebuild, SyncFails
  <2>2. PICK j : j = [o EXCEPT !.pc = "finish", !.ok = ok]
    OBVIOUS
  <2>3. job' = [job EXCEPT ![c] = j]
    BY <2>1, <2>2, <1>3, <1>4
  <2>4. IsJob(j) /\ j.source = o.source /\ j.run = o.run /\ j.pc = "finish"
    BY <2>2, <1>3 DEF IsJob
  <2> QED
    BY <2>3, <2>4, <1>2, <1>3
<1> QED
  BY <1>5, <1>6, <1>7, <1>8, <1>9 DEF Working

\* A synchronisation begins.
LEMMA JobStarts ==
  ASSUME FeedTypes, NEW c \in Callers, NEW s \in Sources, StartSync(c, s)
  PROVE  \E j : /\ IsJob(j) /\ job' = [job EXCEPT ![c] = j]
                /\ j.source = s /\ j.run = Len(runs) + 1 /\ j.pc = "fetch" /\ Len(runs) \in Nat
<1>1. PICK n \in Nat : n = Len(runs) + 1 /\ Len(runs) \in Nat
  BY DEF FeedTypes, JobTypes
<1>2. PICK j : j = [pc |-> "fetch", source |-> s, run |-> n, entries |-> {}, parsed |-> {},
                    whitelist |-> {}, fetch |-> 0, ok |-> TRUE]
  OBVIOUS
<1>3. IsJob(j) /\ j.source = s /\ j.run = n /\ j.pc = "fetch"
  BY <1>2 DEF IsJob
<1>4. job' = [job EXCEPT ![c] = j]
  BY <1>1, <1>2 DEF StartSync
<1> QED
  BY <1>1, <1>3, <1>4

Starting(c, s) ==
  /\ job[c] = NoJob /\ source[s].status # "absent" /\ StartSync(c, s)
  /\ queue' = queue \/ (queue # <<>> /\ queue' = Tail(queue))
  /\ UNCHANGED <<dbvars, snapvars, whitelist, edit, fetches>>
Ending(c) == FinishFeedRun(c) \/ FinishFails(c) \/ CancelSync(c)

UserStep == UserRequest \/ UserRebuild \/ \E entries \in past : RollbackSnapshot(entries)
Whitelisting == \E w \in Whitelists : ChangeWhitelist(w)

\* What has nothing to do with jobs, and steps of the scheduler between them.
Others ==
  \/ SchedulerTick \/ StartFails \/ Whitelisting \/ UNCHANGED fsvars
  \/ SyncNext /\ UNCHANGED <<lock, runs, job>>
  \/ \E s \in Sources :
       \/ Elapse(s) \/ \E enabled \in BOOLEAN : CreateFeedSource(s, enabled)
       \/ \E e \in Editors, kind \in Edits : ReadForEdit(e, s, kind)
  \/ \E e \in Editors : CommitEdit(e) \/ EditRebuild(e)
  \/ UserStep

LEMMA HeadFacts ==
  ASSUME FeedTypes, SourceInv, queue # <<>>
  PROVE  /\ Head(queue) \in Sources /\ source[Head(queue)].status # "absent"
         /\ Tail(queue) \in Seq(Sources)
         /\ \A i \in DOMAIN Tail(queue) : source[Tail(queue)[i]].status # "absent"
<1>1. queue \in Seq(Sources) /\ Len(queue) \in Nat \ {0}
  BY DEF FeedTypes, RowTypes
<1>2. Head(queue) = queue[1] /\ 1 \in DOMAIN queue
  BY <1>1
<1>3. /\ Tail(queue) \in Seq(Sources)
      /\ \A i \in DOMAIN Tail(queue) : i + 1 \in DOMAIN queue /\ Tail(queue)[i] = queue[i + 1]
  BY <1>1
<1> QED
  BY <1>1, <1>2, <1>3 DEF SourceInv

LEMMA StepKinds ==
  ASSUME FeedInv, [FsNext]_fsvars
  PROVE  \/ \E c \in Callers : Working(c) \/ Ending(c) \/ \E s \in Sources : Starting(c, s)
         \/ Crash \/ Others
<1>1. ASSUME NEW c \in Callers, SyncStep(c) PROVE Working(c) \/ Ending(c)
  BY <1>1 DEF SyncStep, Working, Ending
<1>2. ASSUME NEW c \in Callers, NEW s \in Sources, SyncRequest(c, s) PROVE Starting(c, s)
  BY <1>2 DEF SyncRequest, Starting
<1>3. ASSUME SyncNext
      PROVE  (\E s \in Sources : Starting(Scheduler, s)) \/ (SyncNext /\ UNCHANGED <<lock, runs, job>>)
  <2>1. CASE lock[Head(queue)] = "free"
    <3>1. Head(queue) \in Sources /\ source[Head(queue)].status # "absent"
      BY <1>3, HeadFacts DEF FeedInv, SyncNext
    <3>2. Starting(Scheduler, Head(queue))
      BY <3>1, <2>1, <1>3 DEF SyncNext, Starting
    <3> QED
      BY <3>1, <3>2
  <2>2. CASE lock[Head(queue)] # "free"
    BY <2>2, <1>3 DEF SyncNext
  <2> QED
    BY <2>1, <2>2
<1>4. Scheduler \in Callers
  BY DEF Callers
<1> QED
  BY <1>1, <1>2, <1>3, <1>4 DEF FsNext, Ending, Others, UserStep, Whitelisting

LEMMA OthersKeepJobs ==
  ASSUME Others PROVE UNCHANGED <<lock, runs, job>>
  BY DEF Others, SchedulerTick, StartFails,
     Whitelisting, ChangeWhitelist, fsvars, Elapse, CreateFeedSource, ReadForEdit,
     CommitEdit, EditRebuild, UserStep, UserRequest, UserRebuild, RollbackSnapshot

\* The end of a synchronisation gives the lock back, and closes the run if it can.
LEMMA Ends ==
  ASSUME FeedInv, NEW c \in Callers, Ending(c)
  PROVE  /\ job[c] # NoJob /\ IsJob(job[c]) /\ job[c].run \in DOMAIN runs
         /\ job' = [job EXCEPT ![c] = NoJob]
         /\ lock' = [lock EXCEPT ![job[c].source] = "free"]
         /\ \/ \E st \in {"success", "error"} : runs' = [runs EXCEPT ![job[c].run].status = st]
            \/ runs' = runs
<1>1. FeedTypes /\ RunInv
  BY DEF FeedInv
<1>2. job[c] # NoJob
  BY <1>1, Jobs DEF Ending, FinishFeedRun, FinishFails, CancelSync
<1>3. IsJob(job[c]) /\ job[c].run \in DOMAIN runs
  BY <1>1, <1>2, Jobs DEF RunInv
<1> QED
  BY <1>2, <1>3 DEF Ending, FinishFeedRun, FinishFails, CancelSync, Unlock, RunStatus

-----------------------------------------------------------------------------
(* Locks and runs *)

JobInv == JobTypes /\ LockInv /\ RunInv

LEMMA WorkingKeepsJobs ==
  ASSUME FeedInv, NEW c \in Callers, Working(c) PROVE JobInv'
<1>1. PICK j : /\ IsJob(j) /\ job' = [job EXCEPT ![c] = j] /\ job[c] # NoJob
               /\ j.source = job[c].source /\ j.run = job[c].run
  BY JobGoesOn DEF FeedInv
<1>2. UNCHANGED <<lock, runs>>
  BY DEF Working, FetchFeed, LoadFeedWhitelist, ReplaceFeedEntries, SyncRebuild, SyncFails
<1>3. job'[c] = j /\ (\A d \in Callers \ {c} : job'[d] = job[d]) /\ job' = [d \in Callers |-> job'[d]]
  BY <1>1 DEF FeedInv, FeedTypes, JobTypes
<1>4. j # NoJob
  BY <1>1 DEF IsJob, NoJob
<1>5. JobTypes'
  BY <1>1, <1>2, <1>3 DEF FeedInv, FeedTypes, JobTypes
<1>6. LockInv'
  <2>1. ASSUME NEW d \in Callers, job'[d] # NoJob PROVE lock'[job'[d].source] = d
    <3>1. job[d] # NoJob /\ job'[d].source = job[d].source
      BY <2>1, <1>1, <1>3
    <3> QED
      BY <3>1, <1>2 DEF FeedInv, LockInv
  <2>2. ASSUME NEW s \in Sources, lock'[s] # "free"
        PROVE  job'[lock'[s]] # NoJob /\ job'[lock'[s]].source = s
    <3>1. /\ lock'[s] = lock[s] /\ lock[s] \in Callers
          /\ job[lock[s]] # NoJob /\ job[lock[s]].source = s
      BY <2>2, <1>2 DEF FeedInv, FeedTypes, JobTypes, LockInv
    <3> QED
      BY <3>1, <1>1, <1>3, <1>4
  <2> QED
    BY <2>1, <2>2 DEF LockInv
<1>7. RunInv'
  BY <1>1, <1>2, <1>3, <1>4 DEF FeedInv, RunInv
<1> QED
  BY <1>5, <1>6, <1>7 DEF JobInv

LEMMA StartingKeepsJobs ==
  ASSUME FeedInv, NEW c \in Callers, NEW s \in Sources, Starting(c, s) PROVE JobInv'
<1>1. PICK j : /\ IsJob(j) /\ job' = [job EXCEPT ![c] = j]
               /\ j.source = s /\ j.run = Len(runs) + 1 /\ Len(runs) \in Nat
  BY JobStarts DEF FeedInv, Starting
<1>2. /\ lock' = [lock EXCEPT ![s] = c] /\ lock[s] = "free" /\ job[c] = NoJob
      /\ runs' = Append(runs, [source |-> s, status |-> "running"])
  BY DEF Starting, StartSync, TryLock
<1>3. job'[c] = j /\ (\A d \in Callers \ {c} : job'[d] = job[d]) /\ job' = [d \in Callers |-> job'[d]]
  BY <1>1 DEF FeedInv, FeedTypes, JobTypes
<1>4. j # NoJob /\ c # "free" /\ \A d \in Callers : d # "free"
  BY <1>1, FeedSyncAssumption DEF IsJob, NoJob, Callers, Scheduler, FeedSyncAssumption
<1>5. lock'[s] = c /\ \A t \in Sources \ {s} : lock'[t] = lock[t]
  BY <1>2 DEF FeedInv, FeedTypes, JobTypes
<1>6. /\ runs' \in Seq(RunRecord) /\ DOMAIN runs' = DOMAIN runs \cup {Len(runs) + 1}
      /\ \A i \in DOMAIN runs : runs'[i] = runs[i]
  <2>1. runs \in Seq(RunRecord) /\ [source |-> s, status |-> "running"] \in RunRecord
    BY DEF FeedInv, FeedTypes, JobTypes, RunRecord
  <2> QED
    BY <2>1, <1>2
<1>7. JobTypes'
  BY <1>1, <1>2, <1>3, <1>6 DEF FeedInv, FeedTypes, JobTypes
<1>8. LockInv'
  <2>1. ASSUME NEW d \in Callers, job'[d] # NoJob PROVE lock'[job'[d].source] = d
    <3>1. CASE d = c
      BY <3>1, <1>1, <1>3, <1>5
    <3>2. CASE d # c
      <4>1. job'[d] = job[d] /\ lock[job[d].source] = d /\ job[d].source \in Sources
        BY <3>2, <2>1, <1>3, Jobs DEF FeedInv, LockInv
      <4> QED
        BY <4>1, <1>2, <1>4, <1>5
    <3> QED
      BY <3>1, <3>2
  <2>2. ASSUME NEW t \in Sources, lock'[t] # "free"
        PROVE  job'[lock'[t]] # NoJob /\ job'[lock'[t]].source = t
    <3>1. CASE t = s
      BY <3>1, <1>1, <1>3, <1>4, <1>5
    <3>2. CASE t # s
      <4>1. lock'[t] = lock[t] /\ lock[t] \in Callers /\ job[lock[t]] # NoJob /\ job[lock[t]].source = t
        BY <3>2, <2>2, <1>5 DEF FeedInv, FeedTypes, JobTypes, LockInv
      <4> QED
        BY <4>1, <1>2, <1>3
    <3> QED
      BY <3>1, <3>2
  <2> QED
    BY <2>1, <2>2 DEF LockInv
<1>9. RunInv'
  BY <1>1, <1>2, <1>3, <1>4, <1>6 DEF FeedInv, RunInv
<1> QED
  BY <1>7, <1>8, <1>9 DEF JobInv

LEMMA EndingKeepsJobs ==
  ASSUME FeedInv, NEW c \in Callers, Ending(c) PROVE JobInv'
<1>1. /\ job[c] # NoJob /\ IsJob(job[c]) /\ job[c].run \in DOMAIN runs
      /\ job' = [job EXCEPT ![c] = NoJob]
      /\ lock' = [lock EXCEPT ![job[c].source] = "free"]
  BY Ends
<1>2. \/ \E st \in {"success", "error"} : runs' = [runs EXCEPT ![job[c].run].status = st]
      \/ runs' = runs
  BY Ends
<1>3. PICK s \in Sources, r \in DOMAIN runs : s = job[c].source /\ r = job[c].run
  BY <1>1 DEF IsJob
<1>4. job'[c] = NoJob /\ (\A d \in Callers \ {c} : job'[d] = job[d])
      /\ job' = [d \in Callers |-> job'[d]]
  BY <1>1 DEF FeedInv, FeedTypes, JobTypes
<1>5. lock'[s] = "free" /\ \A t \in Sources \ {s} : lock'[t] = lock[t]
  BY <1>1, <1>3 DEF FeedInv, FeedTypes, JobTypes
<1>6. /\ runs' \in Seq(RunRecord) /\ DOMAIN runs' = DOMAIN runs
      /\ \A i \in DOMAIN runs \ {r} : runs'[i] = runs[i]
  <2>1. runs \in Seq(RunRecord) /\ runs[r] \in RunRecord
    BY DEF FeedInv, FeedTypes, JobTypes
  <2>2. PICK old \in RunRecord : old = runs[r]
    BY <2>1
  <2>3. ASSUME NEW st \in {"success", "error"}, runs' = [runs EXCEPT ![job[c].run].status = st]
        PROVE  /\ runs' \in Seq(RunRecord) /\ DOMAIN runs' = DOMAIN runs
               /\ \A i \in DOMAIN runs \ {r} : runs'[i] = runs[i]
    <3>1. PICK new : new = [old EXCEPT !.status = st]
      OBVIOUS
    <3>2. new \in RunRecord
      BY <3>1 DEF RunRecord
    <3>3. runs' = [runs EXCEPT ![r] = new]
      BY <3>1, <2>2, <2>3, <1>3
    <3> QED
      BY <3>2, <3>3, <2>1
  <2> QED
    BY <2>1, <2>3, <1>2
<1>7. JobTypes'
  BY <1>1, <1>3, <1>4, <1>6 DEF FeedInv, FeedTypes, JobTypes
<1>8. LockInv'
  <2>1. ASSUME NEW d \in Callers, job'[d] # NoJob PROVE lock'[job'[d].source] = d
    <3>1. d # c /\ job'[d] = job[d] /\ lock[job[d].source] = d /\ job[d].source \in Sources
      BY <2>1, <1>4, Jobs DEF FeedInv, LockInv
    <3>2. lock[s] = c
      BY <1>1, <1>3 DEF FeedInv, LockInv
    <3> QED
      BY <3>1, <3>2, <1>5
  <2>2. ASSUME NEW t \in Sources, lock'[t] # "free"
        PROVE  job'[lock'[t]] # NoJob /\ job'[lock'[t]].source = t
    <3>1. /\ t # s /\ lock'[t] = lock[t] /\ lock[t] \in Callers
          /\ job[lock[t]] # NoJob /\ job[lock[t]].source = t
      BY <2>2, <1>5 DEF FeedInv, FeedTypes, JobTypes, LockInv
    <3> QED
      BY <3>1, <1>3, <1>4
  <2> QED
    BY <2>1, <2>2 DEF LockInv
<1>9. RunInv'
  <2>1. ASSUME NEW d \in Callers, job'[d] # NoJob
        PROVE  /\ job'[d].run \in DOMAIN runs'
               /\ runs'[job'[d].run].source = job'[d].source
               /\ runs'[job'[d].run].status = "running"
    <3>1. /\ d # c /\ job'[d] = job[d] /\ job[d].run \in DOMAIN runs
          /\ runs[job[d].run].source = job[d].source /\ runs[job[d].run].status = "running"
      BY <2>1, <1>4 DEF FeedInv, RunInv
    <3>2. job[d].run # r
      <4>1. runs[r].source = s /\ lock[s] = c /\ lock[job[d].source] = d
        BY <3>1, <2>1, <1>1, <1>3 DEF FeedInv, RunInv, LockInv
      <4> QED
        BY <4>1, <3>1
    <3> QED
      BY <3>1, <3>2, <1>6
  <2> QED
    BY <2>1 DEF RunInv
<1> QED
  BY <1>7, <1>8, <1>9 DEF JobInv

LEMMA CrashKeepsJobs ==
  ASSUME FeedInv, Crash PROVE JobInv'
<1>1. job' = [c \in Callers |-> NoJob] /\ lock' = [s \in Sources |-> "free"] /\ runs' = runs
  BY DEF Crash
<1>2. JobTypes'
  BY <1>1 DEF FeedInv, FeedTypes, JobTypes
<1> QED
  BY <1>1, <1>2 DEF JobInv, LockInv, RunInv

LEMMA JobsStep ==
  ASSUME FeedInv, [FsNext]_fsvars PROVE JobInv'
<1>1. CASE Others
  BY <1>1, OthersKeepJobs DEF FeedInv, FeedTypes, JobInv, JobTypes, LockInv, RunInv
<1> QED
  BY <1>1, StepKinds, WorkingKeepsJobs, StartingKeepsJobs, EndingKeepsJobs, CrashKeepsJobs

-----------------------------------------------------------------------------
(* Sources, the queue of the scheduler and edits *)

\* A write of a source: it is not absent afterwards.
LEMMA SourceWrite ==
  ASSUME FeedTypes, SourceInv, NEW s \in Sources, NEW x \in SourceRecord, x.status # "absent",
         source' = [source EXCEPT ![s] = x]
  PROVE  /\ source' \in [Sources -> SourceRecord]
         /\ \A t \in Sources : source[t].status # "absent" => source'[t].status # "absent"
         /\ \A t \in Sources : source'[t].status = "absent" =>
              ~source'[t].enabled /\ source'[t].next = "null"
<1>1. source \in [Sources -> SourceRecord]
  BY DEF FeedTypes, RowTypes
<1>2. source'[s] = x /\ \A t \in Sources \ {s} : source'[t] = source[t]
  BY <1>1
<1> QED
  BY <1>1, <1>2 DEF SourceInv

\* Which actions write one, and what.
LEMMA SourceWrites ==
  ASSUME FeedInv, [FsNext]_fsvars
  PROVE  \/ source' = source
         \/ \E s \in Sources, x \in SourceRecord :
              x.status # "absent" /\ source' = [source EXCEPT ![s] = x]
<1>1. /\ FeedTypes /\ SourceInv /\ source \in [Sources -> SourceRecord]
      /\ edit \in [Editors -> EditRecord \cup {NoEdit}]
  BY DEF FeedInv, FeedTypes, RowTypes
<1>2. ASSUME NEW c \in Callers, ReplaceFeedEntries(c)
      PROVE  \E s \in Sources, x \in SourceRecord :
               x.status # "absent" /\ source' = [source EXCEPT ![s] = x]
  <2>1. PICK s \in Sources : s = job[c].source
    BY <1>1, <1>2, Jobs DEF ReplaceFeedEntries
  <2>2. PICK old \in SourceRecord : old = source[s]
    BY <1>1
  <2>3. PICK x : x = [old EXCEPT !.status = "healthy", !.next = "later"]
    OBVIOUS
  <2>4. x \in SourceRecord /\ x.status # "absent"
    BY <2>3 DEF SourceRecord
  <2>5. source' = [source EXCEPT ![s] = x]
    BY <2>1, <2>2, <2>3, <1>2 DEF ReplaceFeedEntries
  <2> QED
    BY <2>4, <2>5
<1>3. ASSUME NEW c \in Callers, FinishFeedRun(c)
      PROVE  \E s \in Sources, x \in SourceRecord :
               x.status # "absent" /\ source' = [source EXCEPT ![s] = x]
  <2>1. PICK s \in Sources : s = job[c].source
    BY <1>1, <1>3, Jobs DEF FinishFeedRun
  <2>2. PICK old \in SourceRecord : old = source[s]
    BY <1>1
  <2>3. PICK st \in {"healthy", "error"} : st = IF job[c].ok THEN "healthy" ELSE "error"
    OBVIOUS
  <2>4. PICK x : x = [old EXCEPT !.status = st, !.next = "later"]
    OBVIOUS
  <2>5. x \in SourceRecord /\ x.status # "absent"
    BY <2>4 DEF SourceRecord
  <2>6. source' = [source EXCEPT ![s] = x]
    BY <2>1, <2>2, <2>3, <2>4, <1>3 DEF FinishFeedRun
  <2> QED
    BY <2>5, <2>6
<1>5. ASSUME NEW s \in Sources, NEW enabled \in BOOLEAN, CreateFeedSource(s, enabled)
      PROVE  \E x \in SourceRecord :
               x.status # "absent" /\ source' = [source EXCEPT ![s] = x]
  <2>1. PICK x : x = [enabled |-> enabled, status |-> "placeholder", next |-> "null"]
    OBVIOUS
  <2>2. x \in SourceRecord /\ x.status # "absent"
    BY <2>1 DEF SourceRecord
  <2> QED
    BY <2>1, <2>2, <1>5 DEF CreateFeedSource
<1>6. ASSUME NEW e \in Editors, CommitEdit(e)
      PROVE  \E s \in Sources, x \in SourceRecord :
               x.status # "absent" /\ source' = [source EXCEPT ![s] = x]
  <2>1. edit[e] # NoEdit /\ edit[e] \in EditRecord /\ edit[e].before.status # "absent"
    BY <1>1, <1>6 DEF CommitEdit, NoEdit, SourceInv
  <2>2. PICK s \in Sources, before \in SourceRecord, kind \in Edits :
          s = edit[e].source /\ before = edit[e].before /\ kind = edit[e].kind
    BY <2>1 DEF EditRecord
  <2>3. PICK x : x = Edited(kind, before)
    OBVIOUS
  <2>4. x \in SourceRecord /\ x.status # "absent"
    BY <2>1, <2>2, <2>3 DEF Edited, Edits, SourceRecord
  <2>5. source' = [source EXCEPT ![s] = x]
    BY <2>2, <2>3, <1>6 DEF CommitEdit
  <2> QED
    BY <2>4, <2>5
<1>7. ASSUME NEW s \in Sources, Elapse(s)
      PROVE  \E x \in SourceRecord :
               x.status # "absent" /\ source' = [source EXCEPT ![s] = x]
  <2>1. PICK old \in SourceRecord : old = source[s]
    BY <1>1
  <2>2. PICK x : x = [old EXCEPT !.next = "due"]
    OBVIOUS
  <2>3. x \in SourceRecord /\ x.status # "absent"
    BY <2>1, <2>2, <1>1, <1>7 DEF SourceRecord, SourceInv, Elapse
  <2> QED
    BY <2>1, <2>2, <2>3, <1>7 DEF Elapse
<1>8. ASSUME NEW c \in Callers, Working(c), ~ReplaceFeedEntries(c) PROVE source' = source
  BY <1>8 DEF Working, FetchFeed, LoadFeedWhitelist, SyncRebuild, SyncFails, dbvars
<1>9. ASSUME NEW c \in Callers, Ending(c), ~FinishFeedRun(c) PROVE source' = source
  BY <1>9 DEF Ending, FinishFails, CancelSync, dbvars
<1>10. ASSUME NEW c \in Callers, NEW s \in Sources, Starting(c, s) PROVE source' = source
  BY <1>10 DEF Starting, dbvars
<1>11. ASSUME Crash \/ SchedulerTick \/ SyncNext \/ StartFails \/ Whitelisting \/ UNCHANGED fsvars
       PROVE  source' = source
  BY <1>11 DEF Crash, SchedulerTick, SyncNext, StartFails,
     Whitelisting, ChangeWhitelist, fsvars, dbvars
<1>12. ASSUME NEW e \in Editors, EditRebuild(e) PROVE source' = source
  BY <1>12 DEF EditRebuild, dbvars
<1>13. ASSUME NEW e \in Editors, NEW s \in Sources, NEW kind \in Edits, ReadForEdit(e, s, kind)
       PROVE  source' = source
  BY <1>13 DEF ReadForEdit, dbvars
<1>14. ASSUME UserStep PROVE source' = source
  BY <1>14 DEF UserStep, UserRequest, UserRebuild, RollbackSnapshot, dbvars
<1>15. CASE Others
  BY <1>15, <1>5, <1>6, <1>7, <1>11, <1>12, <1>13, <1>14 DEF Others
<1> QED
  BY <1>2, <1>3, <1>8, <1>9, <1>10, <1>11, <1>15, StepKinds

LEMMA SourceStep ==
  ASSUME FeedInv, [FsNext]_fsvars
  PROVE  /\ source' \in [Sources -> SourceRecord]
         /\ \A t \in Sources : source[t].status # "absent" => source'[t].status # "absent"
         /\ \A t \in Sources : source'[t].status = "absent" =>
              ~source'[t].enabled /\ source'[t].next = "null"
<1>1. FeedTypes /\ SourceInv /\ source \in [Sources -> SourceRecord]
  BY DEF FeedInv, FeedTypes, RowTypes
<1>2. CASE source' = source
  BY <1>1, <1>2 DEF SourceInv
<1>3. CASE \E s \in Sources, x \in SourceRecord :
             x.status # "absent" /\ source' = [source EXCEPT ![s] = x]
  BY <1>1, <1>3, SourceWrite
<1> QED
  BY <1>2, <1>3, SourceWrites

\* The list of the scheduler.
LEMMA QueueStep ==
  ASSUME FeedInv, [FsNext]_fsvars
  PROVE  queue' \in Seq(Sources) /\ \A i \in DOMAIN queue' : source'[queue'[i]].status # "absent"
<1>1. FeedTypes /\ SourceInv /\ queue \in Seq(Sources)
  BY DEF FeedInv, FeedTypes, RowTypes
<1>2. SUFFICES queue' \in Seq(Sources) /\ \A i \in DOMAIN queue' : source[queue'[i]].status # "absent"
  BY SourceStep
<1>3. CASE queue' = queue
  BY <1>1, <1>3 DEF SourceInv
<1>4. CASE queue # <<>> /\ queue' = Tail(queue)
  BY <1>1, <1>4, HeadFacts
<1>5. CASE SchedulerTick
  <2> DEFINE D == {s \in Sources : Due(s)}
  <2>1. \A s \in D : source[s].status # "absent"
    BY <1>1 DEF SourceInv, Due
  <2>2. Cardinality(D) \in Nat
    <3>1. IsFiniteSet(D)
      BY FeedSyncAssumption, FS_Subset DEF FeedSyncAssumption
    <3> QED
      BY <3>1, FS_CardinalityType
  <2>3. queue' \in [1..Cardinality(D) -> D]
    BY <1>5 DEF SchedulerTick, SetToSeqs
  <2> HIDE DEF D
  <2>4. PICK n \in Nat : n = Cardinality(D)
    BY <2>2
  <2>5. queue' \in Seq(D) /\ DOMAIN queue' = 1..n
    BY <2>3, <2>4, SeqDef
  <2>6. \A i \in DOMAIN queue' : queue'[i] \in D
    BY <2>3, <2>4
  <2>7. queue' \in Seq(Sources)
    <3>1. D \subseteq Sources
      BY DEF D
    <3>2. queue' \in [1..n -> Sources]
      BY <3>1, <2>3, <2>4
    <3> QED
      BY <3>2, SeqDef
  <2> QED
    BY <2>1, <2>6, <2>7
<1>6. CASE Crash
  BY <1>6 DEF Crash
<1>7. ASSUME NEW c \in Callers, Working(c) \/ Ending(c) PROVE queue' = queue
  BY <1>7 DEF Working, FetchFeed, LoadFeedWhitelist, ReplaceFeedEntries, SyncRebuild, SyncFails,
     Ending, FinishFeedRun, FinishFails, CancelSync
<1>8. ASSUME NEW c \in Callers, NEW s \in Sources, Starting(c, s)
      PROVE  queue' = queue \/ (queue # <<>> /\ queue' = Tail(queue))
  BY <1>8 DEF Starting
<1>9. CASE Others /\ ~SchedulerTick
  BY <1>3, <1>4, <1>9 DEF Others, fsvars, SyncNext, StartFails,
     Whitelisting, ChangeWhitelist, Elapse, CreateFeedSource,
     ReadForEdit, CommitEdit, EditRebuild, UserStep, UserRequest, UserRebuild, RollbackSnapshot
<1> QED
  BY <1>3, <1>4, <1>5, <1>6, <1>7, <1>8, <1>9, StepKinds

\* Edits in progress.
LEMMA EditStep ==
  ASSUME FeedInv, [FsNext]_fsvars
  PROVE  /\ edit' \in [Editors -> EditRecord \cup {NoEdit}]
         /\ \A e \in Editors : edit'[e] # NoEdit =>
              edit'[e].before.status # "absent" /\ source'[edit'[e].source].status # "absent"
<1>1. /\ FeedTypes /\ SourceInv /\ source \in [Sources -> SourceRecord]
      /\ edit \in [Editors -> EditRecord \cup {NoEdit}]
  BY DEF FeedInv, FeedTypes, RowTypes
<1>2. SUFFICES /\ edit' \in [Editors -> EditRecord \cup {NoEdit}]
               /\ \A e \in Editors : edit'[e] # NoEdit =>
                    edit'[e].before.status # "absent" /\ source[edit'[e].source].status # "absent"
  <2>1. ASSUME NEW e \in Editors, edit' \in [Editors -> EditRecord \cup {NoEdit}], edit'[e] # NoEdit
        PROVE  edit'[e].source \in Sources
    <3>1. edit'[e] \in EditRecord
      BY <2>1
    <3> QED
      BY <3>1 DEF EditRecord
  <2> QED
    BY <2>1, SourceStep
<1>3. CASE edit' = edit
  BY <1>1, <1>3 DEF SourceInv
<1>4. ASSUME NEW e \in Editors, NEW x \in EditRecord \cup {NoEdit},
             x # NoEdit => x.before.status # "absent" /\ source[x.source].status # "absent",
             edit' = [edit EXCEPT ![e] = x]
      PROVE  /\ edit' \in [Editors -> EditRecord \cup {NoEdit}]
             /\ \A f \in Editors : edit'[f] # NoEdit =>
                  edit'[f].before.status # "absent" /\ source[edit'[f].source].status # "absent"
  <2>1. edit'[e] = x /\ \A f \in Editors \ {e} : edit'[f] = edit[f]
    BY <1>1, <1>4
  <2>2. edit' \in [Editors -> EditRecord \cup {NoEdit}]
    BY <1>1, <1>4
  <2> QED
    BY <2>1, <2>2, <1>1, <1>4 DEF SourceInv
<1>5. ASSUME NEW e \in Editors, NEW s \in Sources, NEW kind \in Edits, ReadForEdit(e, s, kind)
      PROVE  \E x \in EditRecord \cup {NoEdit} :
               /\ x # NoEdit => x.before.status # "absent" /\ source[x.source].status # "absent"
               /\ edit' = [edit EXCEPT ![e] = x]
  <2>1. PICK x : x = [pc |-> "commit", source |-> s, kind |-> kind, before |-> source[s]]
    OBVIOUS
  <2>2. x \in EditRecord /\ x.before = source[s] /\ x.source = s
    BY <2>1, <1>1 DEF EditRecord
  <2> QED
    BY <2>1, <2>2, <1>5 DEF ReadForEdit
<1>6. ASSUME NEW e \in Editors, CommitEdit(e)
      PROVE  \E x \in EditRecord \cup {NoEdit} :
               /\ x # NoEdit => x.before.status # "absent" /\ source[x.source].status # "absent"
               /\ edit' = [edit EXCEPT ![e] = x]
  <2>1. edit[e] # NoEdit /\ edit[e] \in EditRecord
    BY <1>1, <1>6 DEF CommitEdit, NoEdit
  <2>2. PICK old \in EditRecord : old = edit[e]
    BY <2>1
  <2>3. PICK x : x = [old EXCEPT !.pc = "rebuild"]
    OBVIOUS
  <2>4. x \in EditRecord /\ x.before = old.before /\ x.source = old.source
    BY <2>3 DEF EditRecord
  <2>5. edit' = [edit EXCEPT ![e] = x] \/ edit' = [edit EXCEPT ![e] = NoEdit]
    BY <2>2, <2>3, <1>6 DEF CommitEdit
  <2> QED
    BY <2>1, <2>2, <2>4, <2>5, <1>1 DEF SourceInv
<1>7. ASSUME NEW e \in Editors, EditRebuild(e)
      PROVE  edit' = edit \/ edit' = [edit EXCEPT ![e] = NoEdit]
  BY <1>7 DEF EditRebuild
<1>8. CASE Crash
  BY <1>8 DEF Crash
<1>9. ASSUME NEW c \in Callers, Working(c) \/ Ending(c) PROVE edit' = edit
  BY <1>9 DEF Working, FetchFeed, LoadFeedWhitelist, ReplaceFeedEntries, SyncRebuild, SyncFails,
     Ending, FinishFeedRun, FinishFails, CancelSync
<1>10. ASSUME NEW c \in Callers, NEW s \in Sources, Starting(c, s) PROVE edit' = edit
  BY <1>10 DEF Starting
<1>11. ASSUME NEW s \in Sources, NEW enabled \in BOOLEAN, Elapse(s) \/ CreateFeedSource(s, enabled)
       PROVE  edit' = edit
  BY <1>11 DEF Elapse, CreateFeedSource
<1>12. ASSUME SchedulerTick \/ SyncNext \/ StartFails \/ Whitelisting \/ (UNCHANGED fsvars) \/ UserStep
       PROVE  edit' = edit
  BY <1>12 DEF SchedulerTick, SyncNext, StartFails,
     Whitelisting, ChangeWhitelist, fsvars, UserStep, UserRequest, UserRebuild,
     RollbackSnapshot
<1>13. CASE Others
  BY <1>13, <1>3, <1>4, <1>5, <1>6, <1>7, <1>11, <1>12 DEF Others
<1> QED
  BY <1>3, <1>8, <1>9, <1>10, <1>13, StepKinds

LEMMA SourceInvStep ==
  ASSUME FeedInv, [FsNext]_fsvars PROVE SourceInv'
<1>1. FeedTypes /\ SourceInv /\ job = [c \in Callers |-> job[c]]
  BY DEF FeedInv, FeedTypes, JobTypes
<1>2. ASSUME NEW d \in Callers, job'[d] # NoJob PROVE source'[job'[d].source].status # "absent"
  <2>1. SUFFICES job'[d].source \in Sources /\ source[job'[d].source].status # "absent"
    BY SourceStep
  <2>2. ASSUME job'[d] = job[d]
        PROVE  job'[d].source \in Sources /\ source[job'[d].source].status # "absent"
    BY <2>2, <1>1, <1>2, Jobs DEF SourceInv
  <2>3. ASSUME NEW c \in Callers, Working(c)
        PROVE  job'[d].source \in Sources /\ source[job'[d].source].status # "absent"
    <3>1. PICK j : job' = [job EXCEPT ![c] = j] /\ job[c] # NoJob /\ j.source = job[c].source
      BY <2>3, <1>1, JobGoesOn
    <3>2. CASE d = c
      <4>1. job'[d] = j
        BY <3>1, <3>2, <1>1
      <4> QED
        BY <4>1, <3>1, <1>1, Jobs DEF SourceInv
    <3>3. CASE d # c
      BY <3>1, <3>3, <2>2, <1>1
    <3> QED
      BY <3>2, <3>3
  <2>4. ASSUME NEW c \in Callers, NEW s \in Sources, Starting(c, s)
        PROVE  job'[d].source \in Sources /\ source[job'[d].source].status # "absent"
    <3>1. PICK j : job' = [job EXCEPT ![c] = j] /\ j.source = s
      BY <2>4, <1>1, JobStarts DEF Starting
    <3>2. CASE d = c
      BY <3>1, <3>2, <2>4, <1>1 DEF Starting
    <3>3. CASE d # c
      BY <3>1, <3>3, <2>2, <1>1
    <3> QED
      BY <3>2, <3>3
  <2>5. ASSUME NEW c \in Callers, Ending(c) PROVE job'[d] = job[d]
    BY <2>5, <1>1, <1>2, Ends
  <2>6. CASE Crash
    BY <2>6, <1>2 DEF Crash
  <2>7. CASE Others
    BY <2>7, <2>2, OthersKeepJobs
  <2> QED
    BY <2>2, <2>3, <2>4, <2>5, <2>6, <2>7, StepKinds
<1> QED
  BY <1>2, SourceStep, QueueStep, EditStep DEF SourceInv

-----------------------------------------------------------------------------
(* Downloads *)

\* Entries, conflicts and the number of the download change in replaceFeedEntries only.
LEMMA EntriesKept ==
  ASSUME FeedInv, [FsNext]_fsvars, \A c \in Callers : ~ReplaceFeedEntries(c)
  PROVE  UNCHANGED <<active, conflicts, applied>>
<1>1. ASSUME NEW c \in Callers, Working(c) PROVE UNCHANGED <<active, conflicts, applied>>
  BY <1>1 DEF Working, FetchFeed, LoadFeedWhitelist, SyncRebuild, SyncFails, dbvars
<1>2. ASSUME NEW c \in Callers, Ending(c) PROVE UNCHANGED <<active, conflicts, applied>>
  BY <1>2 DEF Ending, FinishFeedRun, FinishFails, CancelSync, dbvars
<1>3. ASSUME NEW c \in Callers, NEW s \in Sources, Starting(c, s)
      PROVE  UNCHANGED <<active, conflicts, applied>>
  BY <1>3 DEF Starting, dbvars
<1>4. CASE Crash
  BY <1>4 DEF Crash, dbvars
<1>5. CASE Others
  BY <1>5 DEF Others, SchedulerTick, StartFails,
     Whitelisting, ChangeWhitelist, fsvars, dbvars, SyncNext, Elapse, CreateFeedSource,
     ReadForEdit, CommitEdit, EditRebuild, UserStep, UserRequest, UserRebuild, RollbackSnapshot
<1> QED
  BY <1>1, <1>2, <1>3, <1>4, <1>5, StepKinds

LEMMA FetchesKept ==
  ASSUME FeedInv, [FsNext]_fsvars, \A c \in Callers : ~FetchFeed(c)
  PROVE  fetches' = fetches
<1>1. ASSUME NEW c \in Callers, Working(c) PROVE fetches' = fetches
  BY <1>1 DEF Working, LoadFeedWhitelist, ReplaceFeedEntries, SyncRebuild, SyncFails
<1>2. ASSUME NEW c \in Callers, Ending(c) PROVE fetches' = fetches
  BY <1>2 DEF Ending, FinishFeedRun, FinishFails, CancelSync, dbvars
<1>3. ASSUME NEW c \in Callers, NEW s \in Sources, Starting(c, s) PROVE fetches' = fetches
  BY <1>3 DEF Starting
<1>4. CASE Crash
  BY <1>4 DEF Crash
<1>5. CASE Others
  BY <1>5 DEF Others, SchedulerTick, StartFails,
     Whitelisting, ChangeWhitelist, fsvars, SyncNext, Elapse, CreateFeedSource,
     ReadForEdit, CommitEdit, EditRebuild, UserStep, UserRequest, UserRebuild, RollbackSnapshot
<1> QED
  BY <1>1, <1>2, <1>3, <1>4, <1>5, StepKinds

\* replaceFeedEntries, by the number of the download.
LEMMA Replaces ==
  ASSUME FeedInv, NEW c \in Callers, ReplaceFeedEntries(c)
  PROVE  \E s \in Sources, n \in Nat : \E rows, wl :
           /\ s = job[c].source /\ n = job[c].fetch /\ applied[s] < n /\ n <= fetches
           /\ applied' = [applied EXCEPT ![s] = n]
           /\ active' = [active EXCEPT ![s] = rows]
           /\ conflicts' = [conflicts EXCEPT ![s] = Conflicting(rows, wl)]
<1>1. FeedTypes /\ FetchInv /\ job[c].pc = "replace" /\ active = [s \in Sources |-> active[s]]
  BY DEF FeedInv, FeedTypes, RowTypes, ReplaceFeedEntries
<1>2. PICK s \in Sources, n \in Nat : s = job[c].source /\ n = job[c].fetch
  BY <1>1, Jobs
<1>3. applied[s] < n /\ n <= fetches
  BY <1>1, <1>2 DEF FetchInv
<1>4. PICK rows : active' = [active EXCEPT ![s] = rows]
  BY <1>2 DEF ReplaceFeedEntries
<1>5. active'[s] = rows
  BY <1>1, <1>4
<1>6. conflicts' = [conflicts EXCEPT ![s] = Conflicting(rows, job[c].whitelist)]
  BY <1>2, <1>5 DEF ReplaceFeedEntries, UnresolvedConflicts
<1>7. applied' = [applied EXCEPT ![s] = n]
  BY <1>2 DEF ReplaceFeedEntries
<1> QED
  BY <1>2, <1>3, <1>4, <1>6, <1>7

LEMMA RowTypesStep ==
  ASSUME FeedInv, [FsNext]_fsvars PROVE RowTypes'
<1>1. /\ active = [s \in Sources |-> active[s]] /\ conflicts = [s \in Sources |-> conflicts[s]]
      /\ applied \in [Sources -> Nat] /\ fetches \in Nat
  BY DEF FeedInv, FeedTypes, RowTypes
<1>2. fetches' \in Nat
  <2>1. CASE \E c \in Callers : FetchFeed(c)
    BY <2>1, <1>1 DEF FetchFeed
  <2>2. CASE \A c \in Callers : ~FetchFeed(c)
    BY <2>2, <1>1, FetchesKept
  <2> QED
    BY <2>1, <2>2
<1>3. /\ active' = [s \in Sources |-> active'[s]] /\ conflicts' = [s \in Sources |-> conflicts'[s]]
      /\ applied' \in [Sources -> Nat]
  <2>1. CASE \A c \in Callers : ~ReplaceFeedEntries(c)
    BY <2>1, <1>1, EntriesKept
  <2>2. ASSUME NEW c \in Callers, ReplaceFeedEntries(c)
        PROVE  /\ active' = [s \in Sources |-> active'[s]]
               /\ conflicts' = [s \in Sources |-> conflicts'[s]]
               /\ applied' \in [Sources -> Nat]
    BY <2>2, <1>1, Replaces
  <2> QED
    BY <2>1, <2>2
<1> QED
  BY <1>2, <1>3, SourceStep, QueueStep, EditStep DEF RowTypes

LEMMA FetchStep ==
  ASSUME FeedInv, [FsNext]_fsvars PROVE FetchInv'
<1>1. /\ FeedTypes /\ LockInv /\ FetchInv /\ job = [c \in Callers |-> job[c]]
      /\ applied \in [Sources -> Nat] /\ fetches \in Nat
      /\ \A s \in Sources : applied[s] \in Nat
  BY DEF FeedInv, FeedTypes, RowTypes, JobTypes
<1>2. fetches' \in Nat /\ fetches <= fetches'
  <2>1. CASE \E c \in Callers : FetchFeed(c)
    BY <2>1, <1>1 DEF FetchFeed
  <2>2. CASE \A c \in Callers : ~FetchFeed(c)
    BY <2>2, <1>1, FetchesKept
  <2> QED
    BY <2>1, <2>2
<1>3. ASSUME NEW s \in Sources PROVE applied'[s] <= fetches'
  <2>1. applied[s] <= fetches /\ applied[s] \in Nat
    BY <1>1 DEF FetchInv
  <2>2. CASE \A c \in Callers : ~ReplaceFeedEntries(c)
    BY <2>1, <2>2, <1>1, <1>2, EntriesKept
  <2>3. ASSUME NEW c \in Callers, ReplaceFeedEntries(c) PROVE applied'[s] <= fetches'
    <3>1. PICK t \in Sources, n \in Nat : n <= fetches /\ applied' = [applied EXCEPT ![t] = n]
      BY <2>3, Replaces
    <3>2. applied'[s] \in {n, applied[s]}
      BY <3>1, <1>1
    <3> QED
      BY <3>1, <3>2, <2>1, <1>1, <1>2
  <2> QED
    BY <2>2, <2>3
<1>4. ASSUME NEW d \in Callers, job'[d].pc \in {"load", "replace"}
      PROVE  applied'[job'[d].source] < job'[d].fetch /\ job'[d].fetch <= fetches'
  <2>1. job'[d] = job[d] \/ Working(d)
    <3>1. ASSUME NEW c \in Callers, Working(c) PROVE job'[d] = job[d] \/ Working(d)
      <4>1. PICK j : job' = [job EXCEPT ![c] = j]
        BY <3>1, <1>1, JobGoesOn
      <4> QED
        BY <4>1, <3>1, <1>1
    <3>2. ASSUME NEW c \in Callers, NEW s \in Sources, Starting(c, s) PROVE job'[d] = job[d]
      <4>1. PICK j : job' = [job EXCEPT ![c] = j] /\ j.pc = "fetch"
        BY <3>2, <1>1, JobStarts DEF Starting
      <4> QED
        BY <4>1, <1>1, <1>4
    <3>3. ASSUME NEW c \in Callers, Ending(c) PROVE job'[d] = job[d]
      <4>1. job' = [job EXCEPT ![c] = NoJob]
        BY <3>3, Ends
      <4> QED
        BY <4>1, <1>1, <1>4 DEF NoJob
    <3>4. ~Crash
      BY <1>4 DEF Crash, NoJob
    <3> QED
      BY <3>1, <3>2, <3>3, <3>4, StepKinds, OthersKeepJobs
  <2>2. ASSUME NEW c \in Callers, ReplaceFeedEntries(c)
        PROVE  job'[c].pc = "rebuild" /\ (d # c => job'[d] = job[d])
    <3>1. Working(c) /\ job[c].pc = "replace"
      BY <2>2 DEF Working, ReplaceFeedEntries
    <3>2. IsJob(job[c])
      BY <3>1, <1>1, Jobs
    <3>3. job' = [job EXCEPT ![c].pc = "rebuild"]
      BY <2>2 DEF ReplaceFeedEntries
    <3> QED
      BY <3>2, <3>3, <1>1 DEF IsJob
  <2>3. CASE job'[d] = job[d]
    <3>1. /\ job[d] # NoJob /\ job[d].source \in Sources /\ job[d].fetch \in Nat
          /\ applied[job[d].source] < job[d].fetch /\ job[d].fetch <= fetches
      BY <2>3, <1>1, <1>4, Jobs DEF FetchInv
    <3>2. applied'[job[d].source] = applied[job[d].source]
      <4>1. CASE \A c \in Callers : ~ReplaceFeedEntries(c)
        BY <4>1, EntriesKept
      <4>2. ASSUME NEW c \in Callers, ReplaceFeedEntries(c)
            PROVE  applied'[job[d].source] = applied[job[d].source]
        <5>1. c # d
          BY <4>2, <2>2, <1>4
        <5>2. PICK t \in Sources, n \in Nat :
                t = job[c].source /\ applied' = [applied EXCEPT ![t] = n]
          BY <4>2, Replaces
        <5>3. lock[t] = c /\ lock[job[d].source] = d
          <6>1. job[c] # NoJob
            BY <4>2, <1>1, Jobs DEF ReplaceFeedEntries
          <6> QED
            BY <6>1, <5>2, <3>1, <1>1 DEF LockInv
        <5> QED
          BY <5>1, <5>2, <5>3, <3>1, <1>1
      <4> QED
        BY <4>1, <4>2
    <3> QED
      BY <3>1, <3>2, <2>3, <1>1, <1>2
  <2>4. CASE Working(d)
    <3>1. PICK j : /\ job' = [job EXCEPT ![d] = j] /\ job[d] # NoJob /\ j.source = job[d].source
                   /\ j.pc = "load" => FetchFeed(d) /\ j.fetch = fetches + 1
                   /\ j.pc = "replace" => job[d].pc = "load" /\ j.fetch = job[d].fetch
      BY <2>4, <1>1, JobGoesOn
    <3>2. job'[d] = j /\ job[d].source \in Sources /\ job[d].fetch \in Nat
      BY <3>1, <1>1, Jobs
    <3>3. applied' = applied
      <4>1. ASSUME NEW c \in Callers, c # d PROVE ~ReplaceFeedEntries(c)
        <5>1. ASSUME ReplaceFeedEntries(c) PROVE FALSE
          <6>1. job'[d] = job[d] /\ job'[c].pc = "rebuild" /\ job[c].pc = "replace"
            BY <5>1, <4>1, <2>2 DEF ReplaceFeedEntries
          <6>2. job'[c] = job[c]
            BY <3>1, <4>1, <1>1
          <6> QED
            BY <6>1, <6>2
        <5> QED
          BY <5>1
      <4>2. ~ReplaceFeedEntries(d)
        BY <2>2, <1>4
      <4> QED
        BY <4>1, <4>2, EntriesKept
    <3>4. CASE j.pc = "load"
      <4>1. fetches' = fetches + 1 /\ j.fetch = fetches + 1
        BY <3>1, <3>4 DEF FetchFeed
      <4>2. applied[job[d].source] <= fetches /\ applied[job[d].source] \in Nat
        BY <3>2, <1>1 DEF FetchInv
      <4> QED
        BY <4>1, <4>2, <3>1, <3>2, <3>3, <1>1
    <3>5. CASE j.pc = "replace"
      <4>1. /\ applied[job[d].source] < job[d].fetch /\ job[d].fetch <= fetches
            /\ j.fetch = job[d].fetch
        BY <3>1, <3>5, <1>1 DEF FetchInv
      <4> QED
        BY <4>1, <3>1, <3>2, <3>3, <1>1, <1>2
    <3> QED
      BY <3>2, <3>4, <3>5, <1>4
  <2> QED
    BY <2>1, <2>3, <2>4
<1> QED
  BY <1>3, <1>4 DEF FetchInv

-----------------------------------------------------------------------------
(* Conflicts, and rebuilds in progress *)

LEMMA ConflictStep ==
  ASSUME FeedInv, [FsNext]_fsvars PROVE ConflictsOfActiveEntries'
<1>1. /\ ConflictsOfActiveEntries
      /\ active = [s \in Sources |-> active[s]] /\ conflicts = [s \in Sources |-> conflicts[s]]
  BY DEF FeedInv, FeedTypes, RowTypes
<1>2. CASE \A c \in Callers : ~ReplaceFeedEntries(c)
  BY <1>1, <1>2, EntriesKept DEF ConflictsOfActiveEntries
<1>3. ASSUME NEW c \in Callers, ReplaceFeedEntries(c) PROVE ConflictsOfActiveEntries'
  <2>0. PICK s \in Sources : \E rows, wl :
          /\ active' = [active EXCEPT ![s] = rows]
          /\ conflicts' = [conflicts EXCEPT ![s] = Conflicting(rows, wl)]
    BY <1>3, Replaces
  <2>1. PICK rows, wl :
          /\ active' = [active EXCEPT ![s] = rows]
          /\ conflicts' = [conflicts EXCEPT ![s] = Conflicting(rows, wl)]
    BY <2>0
  <2>2. \A k \in Conflicting(rows, wl) : k[1] \in rows /\ PrefixesOverlap(k[1].cidr, k[2])
    BY DEF Conflicting, MatchingWhitelists
  <2>3. /\ active'[s] = rows /\ conflicts'[s] = Conflicting(rows, wl)
        /\ \A t \in Sources \ {s} : active'[t] = active[t] /\ conflicts'[t] = conflicts[t]
    BY <2>1, <1>1
  <2> QED
    BY <2>2, <2>3, <1>1 DEF ConflictsOfActiveEntries
<1> QED
  BY <1>2, <1>3

\* Which sources are enabled changes with edits only.
LEMMA EnabledKept ==
  ASSUME FeedInv, [FsNext]_fsvars, \A e \in Editors : ~CommitEdit(e), NEW s \in Sources
  PROVE  \/ source'[s].enabled = source[s].enabled
         \/ source[s].status = "absent" /\ ~source[s].enabled
<1>1. FeedTypes /\ SourceInv /\ source \in [Sources -> SourceRecord]
  BY DEF FeedInv, FeedTypes, RowTypes
<1>2. source[s] \in SourceRecord
  BY <1>1
<1>3. ASSUME NEW c \in Callers, Working(c) PROVE source'[s].enabled = source[s].enabled
  <2>1. CASE ReplaceFeedEntries(c)
    BY <2>1, <1>1, <1>2 DEF ReplaceFeedEntries, SourceRecord
  <2>2. CASE ~ReplaceFeedEntries(c)
    BY <2>2, <1>3 DEF Working, FetchFeed, LoadFeedWhitelist, SyncRebuild, SyncFails, dbvars
  <2> QED
    BY <2>1, <2>2
<1>4. ASSUME NEW c \in Callers, Ending(c) PROVE source'[s].enabled = source[s].enabled
  <2>1. CASE FinishFeedRun(c)
    BY <2>1, <1>1, <1>2 DEF FinishFeedRun, SourceRecord
  <2>2. CASE ~FinishFeedRun(c)
    BY <2>2, <1>4 DEF Ending, FinishFails, CancelSync, dbvars
  <2> QED
    BY <2>1, <2>2
<1>5. ASSUME NEW c \in Callers, NEW t \in Sources, Starting(c, t)
      PROVE  source'[s].enabled = source[s].enabled
  BY <1>5 DEF Starting, dbvars
<1>6. CASE Crash
  BY <1>6 DEF Crash, dbvars
<1>7. ASSUME NEW t \in Sources, NEW enabled \in BOOLEAN, CreateFeedSource(t, enabled)
      PROVE  \/ source'[s].enabled = source[s].enabled
             \/ source[s].status = "absent" /\ ~source[s].enabled
  BY <1>7, <1>1 DEF CreateFeedSource, SourceInv
<1>8. ASSUME NEW t \in Sources, Elapse(t) PROVE source'[s].enabled = source[s].enabled
  BY <1>8, <1>1, <1>2 DEF Elapse, SourceRecord
<1>9. CASE Others
  BY <1>7, <1>8, <1>9 DEF Others, SchedulerTick, StartFails,
     Whitelisting, ChangeWhitelist, SyncNext, fsvars, dbvars, ReadForEdit,
     EditRebuild, UserStep, UserRequest, UserRebuild, RollbackSnapshot
<1> QED
  BY <1>3, <1>4, <1>5, <1>6, <1>9, StepKinds

\* What a rebuild would read changes with replaceFeedEntries and edits only.
LEMMA SnapshotsKept ==
  ASSUME FeedInv, [FsNext]_fsvars, \A c \in Callers : ~ReplaceFeedEntries(c),
         \A e \in Editors : ~CommitEdit(e)
  PROVE  InSnapshots' = InSnapshots
<1>1. active' = active
  BY EntriesKept
<1>2. ASSUME NEW s \in Sources
      PROVE  (IF source'[s].enabled THEN active'[s] ELSE {}) = (IF source[s].enabled THEN active[s] ELSE {})
  <2>1. CASE source'[s].enabled = source[s].enabled
    BY <2>1, <1>1
  <2>2. CASE source[s].status = "absent" /\ ~source[s].enabled
    BY <2>2, <1>1 DEF FeedInv, BuildInv
  <2> QED
    BY <2>1, <2>2, EnabledKept
<1> QED
  BY <1>2 DEF InSnapshots

LEMMA Disjoint ==
  ASSUME NEW e \in Editors
  PROVE  e \in Rebuilders /\ e \notin Callers /\ e # User
  BY FeedSyncAssumption DEF FeedSyncAssumption, Rebuilders

LEMMA Rebuilder ==
  /\ User \in Rebuilders
  /\ \A c \in Callers : c \in Rebuilders
  BY DEF Rebuilders

\* How the rebuilds in progress go on.
Reads(r) == ReadLatest(r) \/ BuildEffectiveSnapshot(r)
Drops(r) == build' = [build EXCEPT ![r] = NoBuild]
OwnBuild(r) == Reads(r) \/ Drops(r)
Inserts == \E ending, entries : Insert(ending, entries)

BuildKind ==
  \/ build' = build /\ published' = published
  \/ (\E r \in Rebuilders : OwnBuild(r)) /\ published' = published
  \/ build' = [r \in Rebuilders |-> NoBuild]
  \/ Inserts

LEMMA BuildKinds ==
  ASSUME FeedInv, [FsNext]_fsvars
  PROVE  \/ InSnapshots' = InSnapshots /\ BuildKind
         \/ MissedByBuilds /\ published' = published
<1>1. ASSUME NEW c \in Callers, ReplaceFeedEntries(c) PROVE MissedByBuilds /\ published' = published
  BY <1>1 DEF ReplaceFeedEntries
<1>2. ASSUME NEW e \in Editors, CommitEdit(e) PROVE MissedByBuilds /\ published' = published
  BY <1>2 DEF CommitEdit
<1>3. ASSUME \A c \in Callers : ~ReplaceFeedEntries(c), \A e \in Editors : ~CommitEdit(e)
      PROVE  BuildKind
  <2> USE DEF BuildKind
  <2>1. ASSUME NEW r \in Rebuilders, RebuildReads(r) \/ RebuildDone(r) \/ RebuildStops(r)
        PROVE  BuildKind
    BY <2>1 DEF RebuildReads, RebuildDone, RebuildStops, RebuildInserts, RebuildUnchanged, OwnBuild,
       Reads, Drops, Inserts
  <2>2. ASSUME NEW c \in Callers, Working(c) PROVE BuildKind
    <3>1. CASE SyncRebuild(c)
      BY <3>1, <2>1, Rebuilder DEF SyncRebuild
    <3>2. CASE ~SyncRebuild(c)
      BY <3>2, <2>2, <1>3 DEF Working, FetchFeed, LoadFeedWhitelist, SyncFails, snapvars
    <3> QED
      BY <3>1, <3>2
  <2>3. ASSUME NEW c \in Callers, Ending(c) PROVE BuildKind
    BY <2>1, <2>3, Rebuilder DEF Ending, FinishFeedRun, FinishFails, CancelSync, snapvars
  <2>4. ASSUME NEW c \in Callers, NEW s \in Sources, Starting(c, s) PROVE BuildKind
    BY <2>4 DEF Starting, snapvars
  <2>5. CASE Crash
    BY <2>5 DEF Crash
  <2>6. ASSUME NEW e \in Editors, EditRebuild(e) PROVE BuildKind
    BY <2>1, <2>6, Disjoint DEF EditRebuild
  <2>7. CASE UserStep
    <3>1. CASE UserRequest
      BY <3>1, Rebuilder DEF UserRequest, OwnBuild, Reads
    <3>2. CASE UserRebuild
      BY <3>2, <2>1, Rebuilder DEF UserRebuild, RebuildDone, OwnBuild, Reads
    <3>3. CASE \E entries \in past : RollbackSnapshot(entries)
      BY <3>3 DEF RollbackSnapshot, Inserts
    <3> QED
      BY <3>1, <3>2, <3>3, <2>7 DEF UserStep
  <2>8. CASE Others
    BY <2>6, <2>7, <2>8, <1>3 DEF Others, SchedulerTick, StartFails,
       Whitelisting, ChangeWhitelist, SyncNext, fsvars, snapvars,
       Elapse, CreateFeedSource, ReadForEdit
  <2> QED
    BY <2>2, <2>3, <2>4, <2>5, <2>8, StepKinds
<1> QED
  BY <1>1, <1>2, <1>3, SnapshotsKept

GoodBuilds ==
  /\ build = [r \in Rebuilders |-> build[r]]
  /\ \A r \in Rebuilders : GoodBuild(build[r])

\* Reading, and giving up or being done.
LEMMA OwnBuildIsGood ==
  ASSUME GoodBuilds, NEW r \in Rebuilders, OwnBuild(r),
         InSnapshots' = InSnapshots, published' = published
  PROVE  GoodBuilds'
<1>1. /\ build = [x \in Rebuilders |-> build[x]]
      /\ \A x \in Rebuilders : GoodBuild(build[x])
  BY DEF GoodBuilds
<1>2. PICK b : build' = [build EXCEPT ![r] = b] /\ (b = NoBuild \/ IsBuild(b)) /\ UpToDate(b)
                 /\ (b # NoBuild /\ b.fresh => b.latest = published)
  <2>1. CASE ReadLatest(r)
    <3>1. PICK b : b = [at |-> "latest", latest |-> published, fresh |-> TRUE]
      OBVIOUS
    <3>2. IsBuild(b) /\ b.at = "latest" /\ b.latest = published
      BY <3>1 DEF IsBuild
    <3> QED
      BY <3>1, <3>2, <2>1 DEF ReadLatest, UpToDate
  <2>2. CASE BuildEffectiveSnapshot(r)
    <3>1. PICK o : o = build[r] /\ IsBuild(o) /\ o.at = "latest" /\ (o.fresh => o.latest = published)
      BY <2>2, <1>1 DEF BuildEffectiveSnapshot, GoodBuild, NoBuild
    <3>2. PICK b : b = [at |-> "rows", latest |-> o.latest, fresh |-> o.fresh,
                        entries |-> InSnapshots, missed |-> {}]
      OBVIOUS
    <3>3. o.fresh \in BOOLEAN
      BY <3>1 DEF IsBuild
    <3>4. IsBuild(b) /\ b.entries = InSnapshots /\ b.fresh = o.fresh /\ b.latest = o.latest
      BY <3>2, <3>3 DEF IsBuild
    <3>5. build' = [build EXCEPT ![r] = b]
      BY <3>1, <3>2, <2>2 DEF BuildEffectiveSnapshot
    <3> QED
      BY <3>1, <3>4, <3>5 DEF UpToDate
  <2>3. CASE Drops(r)
    BY <2>3 DEF Drops, UpToDate, NoBuild
  <2> QED
    BY <2>1, <2>2, <2>3 DEF OwnBuild, Reads
<1>3. /\ build' = [x \in Rebuilders |-> build'[x]] /\ build'[r] = b
      /\ \A x \in Rebuilders \ {r} : build'[x] = build[x]
  BY <1>1, <1>2
<1>4. ASSUME NEW x \in Rebuilders PROVE GoodBuild(build[x])'
  <2>1. CASE x = r
    BY <2>1, <1>2, <1>3 DEF GoodBuild, UpToDate
  <2>2. CASE x # r
    BY <2>2, <1>1, <1>3 DEF GoodBuild, UpToDate
  <2> QED
    BY <2>1, <2>2
<1> QED
  BY <1>3, <1>4 DEF GoodBuilds

\* Another version, of whatever content.
LEMMA InsertIsGood ==
  ASSUME GoodBuilds, Inserts, InSnapshots' = InSnapshots PROVE GoodBuilds'
<1>1. PICK ending, entries : Insert(ending, entries)
  BY DEF Inserts
<1>2. build' = [r \in Rebuilders |-> build'[r]]
  BY <1>1 DEF Insert
<1>3. ASSUME NEW r \in Rebuilders PROVE GoodBuild(build[r])'
  <2>1. CASE build'[r] = NoBuild
    BY <2>1 DEF GoodBuild, UpToDate, NoBuild
  <2>2. CASE build'[r] # NoBuild
    <3>1. PICK o : o = build[r] /\ IsBuild(o) /\ UpToDate(o)
      BY <2>2, <1>1 DEF Insert, GoodBuilds, GoodBuild
    <3>2. PICK b : b = [o EXCEPT !.fresh = FALSE]
      OBVIOUS
    <3>3. build'[r] = b
      BY <3>1, <3>2, <2>2, <1>1 DEF Insert
    <3>4. /\ IsBuild(b) /\ b.fresh = FALSE /\ b.at = o.at
          /\ b.at = "rows" => b.missed = o.missed /\ b.entries = o.entries
      BY <3>1, <3>2 DEF IsBuild
    <3>5. \A s \in Sources : b.at = "rows" => s \in b.missed \/ b.entries[s] = InSnapshots'[s]
      BY <3>1, <3>4 DEF UpToDate
    <3> QED
      BY <3>3, <3>4, <3>5 DEF GoodBuild, UpToDate
  <2> QED
    BY <2>1, <2>2
<1> QED
  BY <1>2, <1>3 DEF GoodBuilds

\* A commit that changes what is to be read.
LEMMA MissedIsGood ==
  ASSUME GoodBuilds, MissedByBuilds, published' = published PROVE GoodBuilds'
<1>1. build' = [r \in Rebuilders |-> build'[r]]
  BY DEF MissedByBuilds
<1>2. PICK D : D = {s \in Sources : InSnapshots'[s] # InSnapshots[s]}
  OBVIOUS
<1>3. ASSUME NEW r \in Rebuilders PROVE GoodBuild(build[r])'
  <2>1. GoodBuild(build[r])
    BY DEF GoodBuilds
  <2>2. CASE build[r].at # "rows"
    <3>1. build'[r] = build[r]
      BY <2>2 DEF MissedByBuilds
    <3> QED
      BY <3>1, <2>1, <2>2 DEF GoodBuild, UpToDate
  <2>3. CASE build[r].at = "rows"
    <3>1. PICK o : /\ o = build[r] /\ IsBuild(o) /\ UpToDate(o) /\ o.at = "rows"
                   /\ o.fresh => o.latest = published
      BY <2>1, <2>3 DEF GoodBuild, NoBuild
    <3>2. PICK b : b = [o EXCEPT !.missed = o.missed \cup D]
      OBVIOUS
    <3>3. build'[r] = b
      BY <3>1, <3>2, <2>3, <1>2 DEF MissedByBuilds
    <3>4. /\ IsBuild(b) /\ b.fresh = o.fresh /\ b.at = "rows" /\ b.latest = o.latest
          /\ b.missed = o.missed \cup D /\ b.entries = o.entries
      BY <3>1, <3>2, <1>2 DEF IsBuild
    <3>5. \A s \in Sources : s \in b.missed \/ b.entries[s] = InSnapshots'[s]
      BY <3>1, <3>4, <1>2 DEF UpToDate
    <3> QED
      BY <3>1, <3>3, <3>4, <3>5 DEF GoodBuild, UpToDate
  <2> QED
    BY <2>2, <2>3
<1> QED
  BY <1>1, <1>3 DEF GoodBuilds

LEMMA GoodBuildsStep ==
  ASSUME FeedInv, [FsNext]_fsvars PROVE GoodBuilds'
<1>1. GoodBuilds
  BY DEF FeedInv, BuildInv, GoodBuilds
<1>2. ASSUME InSnapshots' = InSnapshots, build' = build, published' = published PROVE GoodBuilds'
  BY <1>1, <1>2 DEF GoodBuilds, GoodBuild, UpToDate
<1>3. ASSUME build' = [r \in Rebuilders |-> NoBuild] PROVE GoodBuilds'
  BY <1>3 DEF GoodBuilds, GoodBuild, UpToDate, NoBuild
<1> QED
  BY <1>1, <1>2, <1>3, BuildKinds, OwnBuildIsGood, InsertIsGood, MissedIsGood DEF BuildKind

\* Only the rebuild of an edit makes a build of its editor.
LEMMA IdleEditors ==
  ASSUME FeedInv, [FsNext]_fsvars, NEW e \in Editors, edit'[e].pc # "rebuild"
  PROVE  build'[e] = NoBuild
<1>1. /\ FeedTypes /\ BuildInv /\ edit \in [Editors -> EditRecord \cup {NoEdit}]
      /\ build = [r \in Rebuilders |-> build[r]]
      /\ e \in Rebuilders /\ e \notin Callers /\ e # User
  BY Disjoint DEF FeedInv, FeedTypes, RowTypes, BuildInv
<1>2. ASSUME edit[e].pc # "rebuild" PROVE build[e] = NoBuild /\ build[e].at # "rows"
  BY <1>2, <1>1 DEF BuildInv, NoBuild
<1>3. ASSUME NEW r \in Rebuilders, r # e, edit[e].pc # "rebuild",
             RebuildReads(r) \/ RebuildDone(r) \/ RebuildStops(r)
      PROVE  build'[e] = NoBuild
  BY <1>1, <1>2, <1>3 DEF RebuildReads, RebuildDone, RebuildStops, RebuildInserts, RebuildUnchanged,
     ReadLatest, BuildEffectiveSnapshot, Insert
<1>4. ASSUME MissedByBuilds, edit[e].pc # "rebuild" PROVE build'[e] = NoBuild
  BY <1>1, <1>2, <1>4 DEF MissedByBuilds
<1>5. ASSUME NEW c \in Callers, Working(c) PROVE build'[e] = NoBuild
  <2>1. edit' = edit
    BY <1>5 DEF Working, FetchFeed, LoadFeedWhitelist, ReplaceFeedEntries, SyncRebuild, SyncFails
  <2>2. CASE SyncRebuild(c)
    BY <2>1, <2>2, <1>1, <1>3, Rebuilder DEF SyncRebuild
  <2>3. CASE ReplaceFeedEntries(c)
    BY <2>1, <2>3, <1>4 DEF ReplaceFeedEntries
  <2>4. CASE ~SyncRebuild(c) /\ ~ReplaceFeedEntries(c)
    BY <2>1, <2>4, <1>2, <1>5 DEF Working, FetchFeed, LoadFeedWhitelist, SyncFails, snapvars
  <2> QED
    BY <2>2, <2>3, <2>4
<1>6. ASSUME NEW c \in Callers, Ending(c) PROVE build'[e] = NoBuild
  BY <1>1, <1>2, <1>3, <1>6, Rebuilder DEF Ending, FinishFeedRun, FinishFails, CancelSync, snapvars
<1>7. ASSUME NEW c \in Callers, NEW s \in Sources, Starting(c, s) PROVE build'[e] = NoBuild
  BY <1>2, <1>7 DEF Starting, snapvars
<1>8. CASE Crash
  BY <1>1, <1>8 DEF Crash
<1>9. CASE UserStep
  <2>1. edit' = edit
    BY <1>9 DEF UserStep, UserRequest, UserRebuild, RollbackSnapshot
  <2>2. CASE UserRequest
    BY <2>1, <2>2, <1>1, <1>2 DEF UserRequest, ReadLatest
  <2>3. CASE UserRebuild
    <3>1. CASE BuildEffectiveSnapshot(User)
      BY <3>1, <2>1, <1>1, <1>2 DEF BuildEffectiveSnapshot
    <3>2. CASE ~BuildEffectiveSnapshot(User)
      BY <3>2, <2>1, <2>3, <1>1, <1>3, Rebuilder DEF UserRebuild, RebuildDone
    <3> QED
      BY <3>1, <3>2
  <2>4. CASE \E entries \in past : RollbackSnapshot(entries)
    BY <2>1, <2>4, <1>1, <1>2 DEF RollbackSnapshot, Insert
  <2> QED
    BY <2>2, <2>3, <2>4, <1>9 DEF UserStep
<1>10. ASSUME NEW f \in Editors, EditRebuild(f) PROVE build'[e] = NoBuild
  <2>1. CASE f = e
    <3>1. RebuildDone(e) \/ RebuildStops(e)
      BY <2>1, <1>10 DEF EditRebuild
    <3> QED
      BY <3>1, <1>1 DEF RebuildDone, RebuildStops, RebuildInserts, RebuildUnchanged, Insert
  <2>2. CASE f # e
    <3>1. edit'[e] = edit[e] /\ f \in Rebuilders
      BY <2>2, <1>1, <1>10, Disjoint DEF EditRebuild
    <3> QED
      BY <3>1, <2>2, <1>3, <1>10 DEF EditRebuild
  <2> QED
    BY <2>1, <2>2
<1>11. ASSUME NEW f \in Editors, CommitEdit(f) PROVE build'[e] = NoBuild
  <2>1. edit[e].pc # "rebuild"
    BY <1>1, <1>11 DEF CommitEdit
  <2> QED
    BY <2>1, <1>4, <1>11 DEF CommitEdit
<1>12. ASSUME NEW f \in Editors, NEW s \in Sources, NEW kind \in Edits, ReadForEdit(f, s, kind)
       PROVE  build'[e] = NoBuild
  BY <1>1, <1>2, <1>12 DEF ReadForEdit, NoEdit, snapvars
<1>13. CASE Others
  BY <1>2, <1>9, <1>10, <1>11, <1>12, <1>13 DEF Others, SchedulerTick, StartFails,
     Whitelisting, ChangeWhitelist, SyncNext, fsvars,
     snapvars, Elapse, CreateFeedSource
<1> QED
  BY <1>5, <1>6, <1>7, <1>8, <1>13, StepKinds

LEMMA BuildStep ==
  ASSUME FeedInv, [FsNext]_fsvars PROVE BuildInv'
<1>1. ASSUME NEW s \in Sources, source'[s].status = "absent" PROVE active'[s] = {}
  <2>1. source[s].status = "absent" /\ active[s] = {} /\ active = [t \in Sources |-> active[t]]
    BY <1>1, SourceStep DEF FeedInv, BuildInv, FeedTypes, RowTypes
  <2>2. CASE \A c \in Callers : ~ReplaceFeedEntries(c)
    BY <2>1, <2>2, EntriesKept
  <2>3. ASSUME NEW c \in Callers, ReplaceFeedEntries(c) PROVE active'[s] = {}
    <3>1. PICK t \in Sources : t = job[c].source /\ \E rows : active' = [active EXCEPT ![t] = rows]
      BY <2>3, Replaces
    <3>2. source[t].status # "absent"
      BY <3>1, <2>3, Jobs DEF FeedInv, SourceInv, ReplaceFeedEntries
    <3> QED
      BY <3>1, <3>2, <2>1
  <2> QED
    BY <2>2, <2>3
<1> QED
  BY <1>1, GoodBuildsStep, IdleEditors DEF GoodBuilds, BuildInv

-----------------------------------------------------------------------------
(* Withdrawal *)

\* A step that leaves published alone, disables nothing and takes no rebuild away.
LEMMA WithdrawnKept ==
  ASSUME FeedInv, published' = published, excused \subseteq excused',
         \A s \in Sources : ~source'[s].enabled => ~source[s].enabled,
         \A e \in Editors : RebuildAhead(e) =>
           edit[e].source \in excused' \/ (RebuildAhead(e)' /\ edit'[e].source = edit[e].source)
  PROVE  DisabledFeedWithdrawn'
  BY DEF FeedInv, DisabledFeedWithdrawn

\* A rebuild of an edit is still ahead if neither has changed, or only what was missed.
LEMMA AheadKept ==
  ASSUME NEW e \in Editors, RebuildAhead(e), edit'[e] = edit[e],
         build'[e] = build[e] \/ (build'[e] # NoBuild /\ build'[e].fresh)
  PROVE  RebuildAhead(e)'
  BY DEF RebuildAhead, Overtaken

\* What a rebuild publishes that has not been overtaken.
LEMMA FreshWithdraws ==
  ASSUME FeedInv, NEW r \in Rebuilders, build[r].at = "rows", published' = build[r].entries,
         excused' = build[r].missed, source' = source
  PROVE  DisabledFeedWithdrawn'
<1>1. UpToDate(build[r])
  BY DEF FeedInv, BuildInv, GoodBuild
<1>2. ASSUME NEW s \in Sources, ~source[s].enabled PROVE InSnapshots[s] = {}
  BY <1>2 DEF InSnapshots
<1> QED
  BY <1>1, <1>2 DEF UpToDate, DisabledFeedWithdrawn

LEMMA DoneWithdraws ==
  ASSUME FeedInv, NEW r \in Rebuilders, RebuildDone(r), source' = source,
         \A e \in Editors \ {r} : edit'[e] = edit[e]
  PROVE  DisabledFeedWithdrawn'
<1>1. build = [x \in Rebuilders |-> build[x]] /\ \A x \in Rebuilders : GoodBuild(build[x])
  BY DEF FeedInv, BuildInv
<1>2. build[r].at = "rows" /\ build[r] # NoBuild
  BY DEF RebuildDone, RebuildInserts, RebuildUnchanged, NoBuild
<1>3. CASE RebuildInserts(r)
  BY <1>2, <1>3, FreshWithdraws DEF RebuildInserts, Insert
<1>4. CASE RebuildUnchanged(r) /\ build[r].fresh
  <2>1. build[r].latest = published
    BY <1>1, <1>2, <1>4 DEF GoodBuild
  <2> QED
    BY <2>1, <1>2, <1>4, FreshWithdraws DEF RebuildUnchanged
<1>5. CASE RebuildUnchanged(r) /\ ~build[r].fresh
  <2>1. /\ published' = published /\ excused' = excused
        /\ \A x \in Rebuilders \ {r} : build'[x] = build[x]
    BY <1>1, <1>5 DEF RebuildUnchanged
  <2>2. ASSUME NEW e \in Editors, RebuildAhead(e)
        PROVE  RebuildAhead(e)' /\ edit'[e].source = edit[e].source
    <3>1. e # r
      BY <2>2, <1>2, <1>5 DEF RebuildAhead, Overtaken
    <3>2. e \in Rebuilders
      BY Disjoint
    <3> QED
      BY <3>1, <3>2, <2>1, <2>2, AheadKept
  <2> QED
    BY <2>1, <2>2, WithdrawnKept
<1> QED
  BY <1>3, <1>4, <1>5 DEF RebuildDone

\* Reading, and giving up.
LEMMA OtherBuildWithdraws ==
  ASSUME FeedInv, NEW r \in Rebuilders, OwnBuild(r), r \in Editors => Reads(r),
         published' = published, excused' = excused, source' = source, edit' = edit
  PROVE  DisabledFeedWithdrawn'
<1>1. build = [x \in Rebuilders |-> build[x]] /\ \A x \in Rebuilders : GoodBuild(build[x])
  BY DEF FeedInv, BuildInv
<1>2. \A x \in Rebuilders \ {r} : build'[x] = build[x]
  BY <1>1 DEF OwnBuild, Reads, Drops, ReadLatest, BuildEffectiveSnapshot
<1>3. ASSUME NEW e \in Editors, RebuildAhead(e) PROVE RebuildAhead(e)'
  <2>1. e \in Rebuilders
    BY Disjoint
  <2>2. CASE e # r
    BY <2>1, <2>2, <1>2, <1>3, AheadKept
  <2>3. CASE e = r /\ ReadLatest(r)
    <3>1. build'[e] = [at |-> "latest", latest |-> published, fresh |-> TRUE]
      BY <2>3, <1>1 DEF ReadLatest
    <3>2. build'[e].at = "latest" /\ build'[e].fresh
      BY <3>1
    <3> QED
      BY <3>2, <1>3, AheadKept DEF NoBuild
  <2>4. CASE e = r /\ BuildEffectiveSnapshot(r)
    <3>1. build[e] # NoBuild /\ build[e].fresh
      BY <2>4, <1>3 DEF BuildEffectiveSnapshot, NoBuild, RebuildAhead, Overtaken
    <3>2. build'[e] = [at |-> "rows", latest |-> build[e].latest, fresh |-> build[e].fresh,
                       entries |-> InSnapshots, missed |-> {}]
      BY <2>1, <2>4, <1>1 DEF BuildEffectiveSnapshot
    <3>3. build'[e].at = "rows" /\ build'[e].fresh
      BY <3>1, <3>2
    <3> QED
      BY <3>3, <1>3, AheadKept DEF NoBuild
  <2> QED
    BY <2>2, <2>3, <2>4 DEF Reads
<1> QED
  BY <1>3, WithdrawnKept

LEMMA MissedKeepsAhead ==
  ASSUME FeedInv, MissedByBuilds, NEW e \in Editors, RebuildAhead(e), edit'[e] = edit[e]
  PROVE  RebuildAhead(e)'
<1>1. e \in Rebuilders /\ GoodBuild(build[e])
  BY Disjoint DEF FeedInv, BuildInv
<1>2. CASE build[e].at # "rows"
  BY <1>1, <1>2, AheadKept DEF MissedByBuilds
<1>3. CASE build[e].at = "rows"
  <2>1. PICK o : o = build[e] /\ IsBuild(o) /\ o.at = "rows" /\ o.fresh
    BY <1>1, <1>3 DEF GoodBuild, NoBuild, RebuildAhead, Overtaken
  <2>2. PICK M : build'[e] = [o EXCEPT !.missed = M]
    BY <2>1, <1>1, <1>3 DEF MissedByBuilds
  <2>3. build'[e].at = "rows" /\ build'[e].fresh
    BY <2>1, <2>2 DEF IsBuild
  <2> QED
    BY <2>3, AheadKept DEF NoBuild
<1> QED
  BY <1>2, <1>3

LEMMA CommitWithdraws ==
  ASSUME FeedInv, NEW e \in Editors, CommitEdit(e) PROVE DisabledFeedWithdrawn'
<1>1. /\ source \in [Sources -> SourceRecord] /\ edit \in [Editors -> EditRecord \cup {NoEdit}]
  BY DEF FeedInv, FeedTypes, RowTypes
<1>2. PICK o \in EditRecord : o = edit[e] /\ o.pc = "commit"
  BY <1>1 DEF CommitEdit, NoEdit
<1>3. PICK t \in Sources, before \in SourceRecord, kind \in Edits :
        t = o.source /\ before = o.before /\ kind = o.kind
  BY DEF EditRecord
<1>4. /\ source' = [source EXCEPT ![t] = Edited(kind, before)] /\ published' = published
      /\ excused' = IF source[t].enabled # before.enabled THEN excused \cup {t} ELSE excused
      /\ NeedsRebuild(kind, before) => edit' = [edit EXCEPT ![e] = [o EXCEPT !.pc = "rebuild"]]
      /\ ~NeedsRebuild(kind, before) => edit' = [edit EXCEPT ![e] = NoEdit]
      /\ MissedByBuilds
  BY <1>2, <1>3 DEF CommitEdit
<1>5. ASSUME NEW f \in Editors, RebuildAhead(f)
      PROVE  RebuildAhead(f)' /\ edit'[f].source = edit[f].source
  <2>1. f # e
    BY <1>2, <1>5 DEF RebuildAhead
  <2>2. edit'[f] = edit[f]
    BY <2>1, <1>1, <1>4
  <2> QED
    BY <2>2, <1>4, <1>5, MissedKeepsAhead
<1>6. ASSUME NEW s \in Sources, published'[s] # {}, ~source'[s].enabled
      PROVE  s \in excused' \/ \E f \in Editors : RebuildAhead(f)' /\ edit'[f].source = s
  <2>1. CASE ~source[s].enabled
    <3>1. s \in excused \/ \E f \in Editors : RebuildAhead(f) /\ edit[f].source = s
      BY <2>1, <1>4, <1>6 DEF FeedInv, DisabledFeedWithdrawn
    <3> QED
      BY <3>1, <1>4, <1>5
  <2>2. CASE source[s].enabled
    <3>1. s = t
      BY <2>2, <1>1, <1>4, <1>6
    <3>2. source'[t] = Edited(kind, before)
      BY <1>1, <1>4
    <3>3. CASE ~before.enabled
      <4>1. source[t].enabled # before.enabled
        BY <3>1, <3>3, <2>2
      <4> QED
        BY <4>1, <3>1, <1>4
    <3>4. CASE before.enabled
      <4>1. NeedsRebuild(kind, before)
        BY <3>1, <3>2, <3>4, <1>6 DEF NeedsRebuild
      <4>2. PICK x : x = [o EXCEPT !.pc = "rebuild"]
        OBVIOUS
      <4>3. x.pc = "rebuild" /\ x.source = t
        BY <4>2, <1>3 DEF EditRecord
      <4>4. edit'[e] = x
        BY <4>1, <4>2, <1>1, <1>4
      <4>5. build'[e] = NoBuild
        <5>1. e \in Rebuilders /\ build[e] = NoBuild
          BY <1>2, Disjoint DEF FeedInv, BuildInv
        <5> QED
          BY <5>1, <1>4 DEF MissedByBuilds, NoBuild
      <4>6. RebuildAhead(e)'
        BY <4>3, <4>4, <4>5 DEF RebuildAhead, Overtaken
      <4> QED
        BY <4>3, <4>4, <4>6, <3>1
    <3> QED
      BY <3>3, <3>4
  <2> QED
    BY <2>1, <2>2
<1> QED
  BY <1>6 DEF DisabledFeedWithdrawn

LEMMA WithdrawnStep ==
  ASSUME FeedInv, [FsNext]_fsvars PROVE DisabledFeedWithdrawn'
<1>1. /\ FeedTypes /\ source \in [Sources -> SourceRecord]
      /\ edit \in [Editors -> EditRecord \cup {NoEdit}]
  BY DEF FeedInv, FeedTypes, RowTypes
<1>2. CASE \E e \in Editors : CommitEdit(e)
  BY <1>2, CommitWithdraws
<1>3. SUFFICES ASSUME \A e \in Editors : ~CommitEdit(e) PROVE DisabledFeedWithdrawn'
  BY <1>2
<1>4. \A s \in Sources : ~source'[s].enabled => ~source[s].enabled
  BY <1>3, EnabledKept
<1>5. ASSUME published' = published, excused' = excused, edit' = edit, build' = build
      PROVE  DisabledFeedWithdrawn'
  BY <1>4, <1>5, WithdrawnKept, AheadKept
<1>6. ASSUME NEW c \in Callers, Working(c) PROVE DisabledFeedWithdrawn'
  <2>1. CASE FetchFeed(c) \/ LoadFeedWhitelist(c) \/ SyncFails(c)
    BY <2>1, <1>5 DEF FetchFeed, LoadFeedWhitelist, SyncFails, snapvars
  <2>2. CASE ReplaceFeedEntries(c)
    BY <2>2, <1>4, WithdrawnKept, MissedKeepsAhead DEF ReplaceFeedEntries
  <2>3. CASE SyncRebuild(c)
    <3>1. c \in Rebuilders /\ c \notin Editors /\ source' = source /\ edit' = edit
      BY <2>3, Rebuilder, FeedSyncAssumption DEF SyncRebuild, dbvars, FeedSyncAssumption
    <3> QED
      BY <3>1, <2>3, DoneWithdraws, OtherBuildWithdraws
      DEF SyncRebuild, RebuildReads, RebuildStops, OwnBuild, Reads, Drops
  <2> QED
    BY <2>1, <2>2, <2>3, <1>6 DEF Working
<1>7. ASSUME NEW c \in Callers, Ending(c) PROVE DisabledFeedWithdrawn'
  <2>1. CASE FinishFeedRun(c) \/ FinishFails(c)
    BY <2>1, <1>5 DEF FinishFeedRun, FinishFails, snapvars
  <2>2. CASE CancelSync(c)
    <3>1. c \in Rebuilders /\ c \notin Editors /\ source' = source /\ edit' = edit
      BY <2>2, Rebuilder, FeedSyncAssumption DEF CancelSync, dbvars, FeedSyncAssumption
    <3> QED
      BY <3>1, <2>2, OtherBuildWithdraws DEF CancelSync, RebuildStops, OwnBuild, Drops
  <2> QED
    BY <2>1, <2>2, <1>7 DEF Ending
<1>8. ASSUME NEW c \in Callers, NEW s \in Sources, Starting(c, s) PROVE DisabledFeedWithdrawn'
  BY <1>8, <1>5 DEF Starting, snapvars
<1>9. CASE Crash
  <2>1. /\ published' = published /\ excused \subseteq excused'
        /\ \A e \in Editors : RebuildAhead(e) => edit[e].source \in excused'
    BY <1>9 DEF Crash
  <2> QED
    BY <2>1, <1>4, WithdrawnKept
<1>10. ASSUME NEW e \in Editors, EditRebuild(e) PROVE DisabledFeedWithdrawn'
  <2>1. e \in Rebuilders /\ source' = source /\ build = [x \in Rebuilders |-> build[x]]
    BY <1>10, Disjoint DEF EditRebuild, dbvars, FeedInv, BuildInv
  <2>2. CASE RebuildReads(e) /\ UNCHANGED edit
    BY <2>1, <2>2, OtherBuildWithdraws DEF RebuildReads, OwnBuild, Reads
  <2>3. ASSUME edit' = [edit EXCEPT ![e] = NoEdit] PROVE \A f \in Editors \ {e} : edit'[f] = edit[f]
    BY <2>3, <1>1
  <2>4. CASE RebuildDone(e) /\ edit' = [edit EXCEPT ![e] = NoEdit]
    BY <2>1, <2>3, <2>4, DoneWithdraws
  <2>5. CASE /\ RebuildStops(e) /\ edit' = [edit EXCEPT ![e] = NoEdit]
             /\ excused' = IF Overtaken(e) THEN excused ELSE excused \cup {edit[e].source}
    <3>1. published' = published /\ excused \subseteq excused'
      BY <2>5 DEF RebuildStops
    <3>2. ASSUME NEW f \in Editors, RebuildAhead(f)
          PROVE  edit[f].source \in excused' \/ (RebuildAhead(f)' /\ edit'[f].source = edit[f].source)
      <4>1. CASE f = e
        BY <4>1, <3>2, <2>5 DEF RebuildAhead
      <4>2. CASE f # e
        <5>1. edit'[f] = edit[f] /\ f \in Rebuilders
          BY <4>2, <2>3, <2>5, Disjoint
        <5>2. build'[f] = build[f]
          BY <5>1, <4>2, <2>1, <2>5 DEF RebuildStops
        <5> QED
          BY <5>1, <5>2, <3>2, AheadKept
      <4> QED
        BY <4>1, <4>2
    <3> QED
      BY <3>1, <3>2, <1>4, WithdrawnKept
  <2> QED
    BY <2>2, <2>4, <2>5, <1>10 DEF EditRebuild
<1>11. CASE UserStep
  <2>1. User \in Rebuilders /\ User \notin Editors /\ source' = source /\ edit' = edit
    BY <1>11, Rebuilder, FeedSyncAssumption
    DEF UserStep, UserRequest, UserRebuild, RollbackSnapshot, dbvars, FeedSyncAssumption
  <2>2. CASE UserRequest
    BY <2>1, <2>2, OtherBuildWithdraws DEF UserRequest, OwnBuild, Reads
  <2>3. CASE UserRebuild
    BY <2>1, <2>3, OtherBuildWithdraws, DoneWithdraws
    DEF UserRebuild, RebuildDone, RebuildStops, OwnBuild, Reads, Drops
  <2>4. CASE \E entries \in past : RollbackSnapshot(entries)
    BY <2>4 DEF RollbackSnapshot, Insert, DisabledFeedWithdrawn
  <2> QED
    BY <2>2, <2>3, <2>4, <1>11 DEF UserStep
<1>12. ASSUME NEW e \in Editors, NEW s \in Sources, NEW kind \in Edits, ReadForEdit(e, s, kind)
       PROVE  DisabledFeedWithdrawn'
  <2>1. /\ published' = published /\ excused' = excused /\ build' = build
        /\ edit[e] = NoEdit /\ \A f \in Editors \ {e} : edit'[f] = edit[f]
    BY <1>1, <1>12 DEF ReadForEdit, snapvars
  <2>2. ASSUME NEW f \in Editors, RebuildAhead(f) PROVE RebuildAhead(f)' /\ edit'[f] = edit[f]
    <3>1. f # e
      BY <2>1, <2>2 DEF RebuildAhead, NoEdit
    <3> QED
      BY <3>1, <2>1, <2>2, AheadKept
  <2> QED
    BY <2>1, <2>2, <1>4, WithdrawnKept
<1>13. CASE Others
  BY <1>3, <1>5, <1>10, <1>11, <1>12, <1>13 DEF Others, SchedulerTick, StartFails,
     Whitelisting, ChangeWhitelist, SyncNext, fsvars,
     snapvars, Elapse, CreateFeedSource
<1> QED
  BY <1>6, <1>7, <1>8, <1>9, <1>13, StepKinds

-----------------------------------------------------------------------------
(* The invariant *)

LEMMA FeedInit ==
  ASSUME FsInit PROVE FeedInv
<1>1. [enabled |-> FALSE, status |-> "absent", next |-> "null"] \in SourceRecord
  BY DEF SourceRecord
<1>2. FeedTypes
  BY <1>1 DEF FsInit, FeedTypes, RowTypes, JobTypes
<1>3. LockInv /\ RunInv /\ SourceInv
  BY DEF FsInit, LockInv, RunInv, SourceInv
<1>4. FetchInv
  BY DEF FsInit, FetchInv, NoJob
<1>6. BuildInv
  <2>1. UpToDate(NoBuild)
    BY DEF UpToDate, NoBuild
  <2>2. build = [r \in Rebuilders |-> NoBuild] /\ \A e \in Editors : e \in Rebuilders
    BY Disjoint DEF FsInit
  <2>3. \A r \in Rebuilders : GoodBuild(build[r])
    BY <2>1, <2>2 DEF GoodBuild
  <2> QED
    BY <2>2, <2>3 DEF FsInit, BuildInv
<1>5. ConflictsOfActiveEntries /\ DisabledFeedWithdrawn
  BY DEF FsInit, ConflictsOfActiveEntries, DisabledFeedWithdrawn
<1> QED
  BY <1>2, <1>3, <1>4, <1>5, <1>6 DEF FeedInv

LEMMA FeedStep ==
  ASSUME FeedInv, [FsNext]_fsvars PROVE FeedInv'
  BY JobsStep, RowTypesStep, SourceInvStep, FetchStep, BuildStep, ConflictStep, WithdrawnStep
  DEF FeedInv, FeedTypes, JobInv

-----------------------------------------------------------------------------
(* Theorems *)

\* The invariant of feeds, in all interleavings of scheduler, requests, edits and rebuilds, and
\* with failures, cancelled requests, rollbacks and crashes (feed.go, scheduler.go, snapshot.go).
THEOREM FeedInvariance == FsSpec => []FeedInv
<1>1. FsInit => FeedInv
  BY FeedInit
<1>2. FeedInv /\ [FsNext]_fsvars => FeedInv'
  BY FeedStep
<1> QED
  BY <1>1, <1>2, PTL DEF FsSpec

\* SyncFeedSource: the lock of a source is held by a synchronisation of it and by nothing
\* else, and the synchronisations in progress have runs of their own, still running.
THEOREM LocksAndRunsAreOwned == FsSpec => []FsTypeOK
<1>1. ASSUME FeedInv PROVE FsTypeOK
  <2>1. ASSUME NEW c \in Callers, job[c] # NoJob
        PROVE  /\ runs[job[c].run] = [source |-> job[c].source, status |-> "running"]
               /\ \A d \in Callers \ {c} : job[d] # NoJob => job[d].run # job[c].run
    <3>1. runs \in Seq(RunRecord) /\ job[c].run \in DOMAIN runs
      BY <2>1, <1>1 DEF FeedInv, FeedTypes, JobTypes, RunInv
    <3>2. PICK n \in RunRecord : n = runs[job[c].run]
      BY <3>1
    <3>3. n = [source |-> n.source, status |-> n.status]
      BY DEF RunRecord
    <3>4. runs[job[c].run] = [source |-> job[c].source, status |-> "running"]
      BY <3>2, <3>3, <2>1, <1>1 DEF FeedInv, RunInv
    <3>5. ASSUME NEW d \in Callers \ {c}, job[d] # NoJob, job[d].run = job[c].run PROVE FALSE
      BY <3>5, <2>1, <1>1 DEF FeedInv, RunInv, LockInv
    <3> QED
      BY <3>4, <3>5
  <2> QED
    BY <2>1, <1>1 DEF FeedInv, FeedTypes, RowTypes, SourceRecord, LockInv, SourceInv, FsTypeOK
<1> QED
  BY <1>1, FeedInvariance, PTL

\* feedLock: a synchronisation never stores a list that was downloaded before the one it
\* replaces, however long the download took.
THEOREM NewestFetchWins == FsSpec => NewestFetchStays
<1>1. ASSUME FeedInv, [FsNext]_fsvars, NEW s \in Sources PROVE applied'[s] >= applied[s]
  <2>1. applied \in [Sources -> Nat] /\ fetches \in Nat
    BY <1>1 DEF FeedInv, FeedTypes, RowTypes
  <2>2. CASE \A c \in Callers : ~ReplaceFeedEntries(c)
    BY <2>1, <2>2, <1>1, EntriesKept
  <2>3. ASSUME NEW c \in Callers, ReplaceFeedEntries(c) PROVE applied'[s] >= applied[s]
    <3>1. PICK t \in Sources, n \in Nat : applied[t] < n /\ applied' = [applied EXCEPT ![t] = n]
      BY <2>3, <1>1, Replaces
    <3> QED
      BY <3>1, <2>1
  <2> QED
    BY <2>2, <2>3
<1>2. FeedInv /\ [FsNext]_fsvars => [\A s \in Sources : applied'[s] >= applied[s]]_fsvars
  BY <1>1
<1> QED
  BY <1>2, FeedInvariance, PTL DEF FsSpec, NewestFetchStays

\* replaceFeedEntries: the conflicts that are shown are those of entries that are active.
THEOREM ConflictsAreReal == FsSpec => []ConflictsOfActiveEntries
  BY FeedInvariance, PTL DEF FeedInv

\* UpdateFeedSource and DisableFeedSource: the entries of a disabled feed leave the
\* snapshot of the user, whoever else rebuilds it at the same time, but for edits that
\* overtake one another, rebuilds that fail, versions built before and inserted after the
\* edit, and rollbacks.
THEOREM DisabledFeedsAreWithdrawn == FsSpec => []DisabledFeedWithdrawn
  BY FeedInvariance, PTL DEF FeedInv

-----------------------------------------------------------------------------
(* Induction, and functions that are defined by recursion *)

LEMMA LeastOf ==
  ASSUME NEW T \in SUBSET Nat, T # {}
  PROVE  \E n \in T : \A m \in T : n <= m
<1>1. PICK R : R = OpToRel(<, Nat)
  OBVIOUS
<1>2. IsWellFoundedOn(R, Nat)
  BY <1>1, NatLessThanWellFounded
<1>3. ASSUME NEW x \in Nat, NEW y \in Nat, x < y PROVE <<x, y>> \in R
  BY <1>1, <1>3 DEF OpToRel
<1>4. PICK n \in T : \A m \in T : ~(<<m, n>> \in R)
  BY <1>2, WFMin
<1>5. ASSUME NEW m \in T PROVE ~(m < n)
  <2>1. m \in Nat /\ n \in Nat
    BY <1>4
  <2> QED
    BY <2>1, <1>3, <1>4, Zenon
<1> QED
  BY <1>4, <1>5

\* The iterates of H from A on: they exist, and stay where H stays.
IsIteration(f, n, U, A, H) ==
  f \in [0..n -> U] /\ f[0] = A /\ \A i \in 1..n : f[i] = H[f[i - 1]]

LEMMA Iterates ==
  ASSUME NEW U, NEW A \in U, NEW H \in [U -> U], NEW n \in Nat
  PROVE  \E f : IsIteration(f, n, U, A, H)
<1> DEFINE P(m) == \E f \in [0..m -> U] : f[0] = A /\ \A i \in 1..m : f[i] = H[f[i - 1]]
           T == {m \in Nat : ~P(m)}
<1>1. SUFFICES ASSUME T # {} PROVE FALSE
  BY <1>1 DEF IsIteration
<1>2. T \in SUBSET Nat
  OBVIOUS
<1>3. PICK m \in T : \A k \in T : m <= k
  <2> HIDE DEF T
  <2> QED
    BY <1>1, <1>2, LeastOf
<1>4. CASE m = 0
  <2> DEFINE f == [i \in 0..0 |-> A]
  <2>1. f \in [0..0 -> U] /\ f[0] = A /\ \A i \in 1..0 : f[i] = H[f[i - 1]]
    OBVIOUS
  <2> QED
    BY <1>3, <1>4, <2>1
<1>5. CASE m # 0
  <2>1. m \in Nat /\ m - 1 \in Nat /\ m - 1 \notin T
    <3>1. m \in Nat
      BY <1>3
    <3>2. m - 1 \in Nat /\ ~(m <= m - 1)
      BY <1>5, <3>1
    <3> HIDE DEF T
    <3> QED
      BY <1>3, <3>1, <3>2
  <2>2. P(m - 1)
    <3> HIDE DEF P
    <3> QED
      BY <2>1
  <2>3. PICK f \in [0..(m - 1) -> U] : f[0] = A /\ \A i \in 1..(m - 1) : f[i] = H[f[i - 1]]
    BY <2>2
  <2> DEFINE g == [i \in 0..m |-> IF i = m THEN H[f[m - 1]] ELSE f[i]]
  <2>4. g \in [0..m -> U]
    BY <2>1, <2>3
  <2>5. g[0] = A
    BY <1>5, <2>1, <2>3
  <2>6. ASSUME NEW i \in 1..m PROVE g[i] = H[g[i - 1]]
    <3>1. CASE i = m
      BY <2>1, <3>1
    <3>2. CASE i # m
      BY <2>1, <2>3, <3>2
    <3> QED
      BY <3>1, <3>2
  <2>7. P(m)
    BY <2>4, <2>5, <2>6
  <2> QED
    BY <1>3, <2>7
<1> QED
  BY <1>4, <1>5

LEMMA IteratesStay ==
  ASSUME NEW U, NEW A \in U, NEW n \in Nat, NEW g, g[0] = A,
         \A i \in 1..n : g[i - 1] \in U => g[i] \in U
  PROVE  \A i \in 0..n : g[i] \in U
<1> DEFINE T == {i \in 0..n : g[i] \notin U}
<1>1. SUFFICES ASSUME T # {} PROVE FALSE
  BY <1>1
<1>2. T \in SUBSET Nat
  OBVIOUS
<1>3. PICK m \in T : \A k \in T : m <= k
  <2> HIDE DEF T
  <2> QED
    BY <1>1, <1>2, LeastOf
<1>4. m # 0
  BY <1>3
<1>5. m - 1 \in 0..n /\ m - 1 \notin T /\ m \in 1..n
  BY <1>3, <1>4
<1> QED
  BY <1>3, <1>5

-----------------------------------------------------------------------------
(* Prefixes *)

LEMMA Powers ==
  /\ PowersOf2 \in [0..AddrBits -> Nat \ {0}] /\ PowersOf2[0] = 1
  /\ \A i \in 1..AddrBits : PowersOf2[i] = 2 * PowersOf2[i - 1]
<1> DEFINE U == Nat \ {0}
           H == [x \in U |-> 2 * x]
           G(f) == [i \in 0..AddrBits |-> IF i = 0 THEN 1 ELSE 2 * f[i - 1]]
<1>1. AddrBits \in Nat /\ 1 \in U /\ H \in [U -> U]
  BY FeedEntriesAssumption
<1>2. PICK f \in [0..AddrBits -> U] : f[0] = 1 /\ \A i \in 1..AddrBits : f[i] = H[f[i - 1]]
  <2>1. PICK one : one = 1
    OBVIOUS
  <2>2. one \in U /\ AddrBits \in Nat /\ H \in [U -> U]
    BY <1>1, <2>1
  <2> HIDE DEF U, H
  <2>3. \E f : IsIteration(f, AddrBits, U, one, H)
    BY <2>2, Iterates
  <2> QED
    BY <2>1, <2>3 DEF IsIteration
<1>3. f = G(f)
  <2>1. ASSUME NEW i \in 0..AddrBits PROVE f[i] = G(f)[i]
    <3>1. CASE i = 0
      BY <1>1, <1>2, <3>1
    <3>2. CASE i # 0
      <4>1. i \in 1..AddrBits /\ i - 1 \in 0..AddrBits
        BY <1>1, <3>2
      <4>2. f[i] = H[f[i - 1]] /\ f[i - 1] \in U
        BY <1>2, <4>1
      <4>3. f[i] = 2 * f[i - 1]
        BY <4>2
      <4> QED
        BY <3>2, <4>3
    <3> QED
      BY <3>1, <3>2
  <2>2. f = [i \in 0..AddrBits |-> f[i]] /\ G(f) = [i \in 0..AddrBits |-> G(f)[i]]
    BY <1>2
  <2> HIDE DEF G
  <2> QED
    BY <2>1, <2>2
<1>4. PowersOf2 = CHOOSE g : g = G(g)
  BY DEF PowersOf2
<1>5. PowersOf2 = G(PowersOf2)
  <2> HIDE DEF G
  <2> QED
    BY <1>3, <1>4, Zenon
<1>6. PowersOf2[0] = 1 /\ \A i \in 1..AddrBits : PowersOf2[i] = 2 * PowersOf2[i - 1]
  BY <1>1, <1>5
<1>7. \A i \in 0..AddrBits : PowersOf2[i] \in U
  <2>1. \A i \in 1..AddrBits : PowersOf2[i - 1] \in U => PowersOf2[i] \in U
    BY <1>6
  <2> HIDE DEF U
  <2> QED
    BY <1>1, <1>6, <2>1, IteratesStay
<1>8. PowersOf2 = [i \in 0..AddrBits |-> PowersOf2[i]]
  BY <1>5
<1> QED
  BY <1>6, <1>7, <1>8

LEMMA Sizes ==
  /\ \A b \in 0..AddrBits : Size(b) \in Nat \ {0}
  /\ \A b \in 1..AddrBits : b - 1 \in 0..AddrBits /\ Size(b - 1) = 2 * Size(b)
<1>1. AddrBits \in Nat
  BY FeedEntriesAssumption
<1>2. ASSUME NEW b \in 0..AddrBits PROVE Size(b) \in Nat \ {0}
  BY <1>1, Powers DEF Size
<1>3. ASSUME NEW b \in 1..AddrBits PROVE b - 1 \in 0..AddrBits /\ Size(b - 1) = 2 * Size(b)
  <2>1. AddrBits - (b - 1) \in 1..AddrBits /\ (AddrBits - (b - 1)) - 1 = AddrBits - b
    BY <1>1
  <2> QED
    BY <1>1, <2>1, Powers DEF Size
<1> QED
  BY <1>2, <1>3

LEMMA Division ==
  ASSUME NEW d \in Nat \ {0}, NEW x \in Nat
  PROVE  \E q \in Nat, r \in 0..(d - 1) : q = x \div d /\ r = x % d /\ x = d * q + r
<1>1. x \div d \in Int /\ x \div d >= 0
  OBVIOUS
<1>2. x % d \in 0..(d - 1)
  OBVIOUS
<1>3. PICK q \in Nat : q = x \div d
  BY <1>1
<1>4. PICK r \in 0..(d - 1) : r = x % d
  BY <1>2
<1>5. x = d * q + r
  BY <1>3, <1>4
<1> QED
  BY <1>3, <1>4, <1>5

LEMMA DivisionIs ==
  ASSUME NEW d \in Nat \ {0}, NEW x \in Nat, NEW q \in Nat, NEW r \in 0..(d - 1), x = d * q + r
  PROVE  x \div d = q /\ x % d = r
<1>1. x \div d = q
  OBVIOUS
<1>2. x % d = r
  OBVIOUS
<1> QED
  BY <1>1, <1>2

\* Halving a quotient, and what it leaves.
Halved(s, a, q, h, t, r) ==
  /\ q = a \div s /\ r = a % s /\ h = q \div 2 /\ t = q % 2
  /\ a = s * q + r /\ q = 2 * h + t /\ a \div (2 * s) = h /\ a % (2 * s) = s * t + r

LEMMA HalfDivision ==
  ASSUME NEW s \in Nat \ {0}, NEW a \in Nat
  PROVE  \E q \in Nat, h \in Nat, t \in 0..1, r \in 0..(s - 1) : Halved(s, a, q, h, t, r)
<1>1. PICK q \in Nat, r \in 0..(s - 1) : q = a \div s /\ r = a % s /\ a = s * q + r
  BY Division
<1>2. PICK h \in Nat, t \in 0..1 : h = q \div 2 /\ t = q % 2 /\ q = 2 * h + t
  BY Division
<1>3. s * t \in {0, s}
  BY <1>2
<1>4. s * t + r \in 0..(2 * s - 1) /\ 2 * s \in Nat \ {0}
  BY <1>1, <1>3
<1>5. a = (2 * s) * h + (s * t + r)
  <2>1. s * q = s * (2 * h + t)
    BY <1>2
  <2>2. s * (2 * h + t) = (2 * s) * h + s * t
    BY <1>2
  <2> QED
    BY <1>1, <1>3, <2>1, <2>2
<1>6. a \div (2 * s) = h /\ a % (2 * s) = s * t + r
  BY <1>4, <1>5, DivisionIs
<1>7. Halved(s, a, q, h, t, r)
  BY <1>1, <1>2, <1>6, Zenon DEF Halved
<1> QED
  BY <1>7

\* A prefix and its sibling are the two halves of their parent.
LEMMA SiblingsCover ==
  ASSUME NEW p \in MaskedPrefixes, p.bits > 0, NEW a \in Nat
  PROVE  /\ ParentPrefix(p) \in MaskedPrefixes
         /\ PrefixContains(ParentPrefix(p), a) <=>
              PrefixContains(p, a) \/ PrefixContains(SiblingPrefix(p), a)
<1>1. p.bits \in 1..AddrBits /\ p.addr \in Nat /\ p.addr \in 0..(Size(0) - 1) /\ AddrBits \in Nat
  BY FeedEntriesAssumption DEF MaskedPrefixes
<1>2. PICK s \in Nat \ {0} : s = Size(p.bits)
  BY <1>1, Sizes
<1>3. Size(p.bits - 1) = 2 * s /\ p.bits - 1 \in 0..AddrBits
  BY <1>1, <1>2, Sizes
<1>4. p.addr % s = 0
  BY <1>2 DEF MaskedPrefixes
<1>5. PICK q \in Nat, h \in Nat, t \in 0..1, r \in 0..(s - 1) : Halved(s, p.addr, q, h, t, r)
  BY <1>1, HalfDivision
<1>6. r = 0 /\ p.addr = s * q /\ q = 2 * h + t /\ q = p.addr \div s /\ t = q % 2
      /\ p.addr % (2 * s) = s * t
  BY <1>4, <1>5 DEF Halved
<1>7. PICK m \in Nat : m = (2 * s) * h
  OBVIOUS
<1>8. s * t \in {0, s} /\ (t = 0 => s * t = 0) /\ (t = 1 => s * t = s)
  BY <1>5
<1>9. p.addr = m + s * t
  <2>1. s * q = s * (2 * h + t)
    BY <1>6
  <2>2. s * (2 * h + t) = (2 * s) * h + s * t
    BY <1>5
  <2> QED
    BY <1>6, <1>7, <2>1, <2>2
<1>10. ParentPrefix(p) = [bits |-> p.bits - 1, addr |-> m]
  <2>1. p.addr - (p.addr % Size(p.bits - 1)) = m
    BY <1>3, <1>6, <1>7, <1>8, <1>9
  <2> QED
    BY <2>1 DEF ParentPrefix
<1>11. m \div (2 * s) = h /\ m % (2 * s) = 0
  <2>1. m = (2 * s) * h + 0 /\ 0 \in 0..(2 * s - 1) /\ 2 * s \in Nat \ {0}
    BY <1>7
  <2> QED
    BY <2>1, DivisionIs
<1>12. ParentPrefix(p) \in MaskedPrefixes
  <2>1. m \in 0..(Size(0) - 1)
    <3>1. PICK z \in Nat : z = Size(0)
      BY <1>1, Sizes
    <3>2. p.addr \in 0..(z - 1) /\ m <= p.addr
      BY <1>1, <1>8, <1>9, <3>1
    <3>3. m \in 0..(z - 1)
      BY <1>7, <3>2
    <3> QED
      BY <3>1, <3>3
  <2> QED
    BY <1>3, <1>10, <1>11, <2>1 DEF MaskedPrefixes
<1>13. PICK b \in Nat, k \in Nat, u \in 0..1, v \in 0..(s - 1) : Halved(s, a, b, k, u, v)
  BY HalfDivision
<1>14. a \div s = b /\ a \div (2 * s) = k /\ b = 2 * k + u
  BY <1>13 DEF Halved
<1>15. PrefixContains(ParentPrefix(p), a) <=> k = h
  BY <1>3, <1>10, <1>11, <1>14 DEF PrefixContains
<1>16. PrefixContains(p, a) <=> b = q
  BY <1>2, <1>6, <1>14 DEF PrefixContains
<1>17. PrefixContains(SiblingPrefix(p), a) <=> b = 2 * h + (1 - t)
  <2>1. PICK n \in Nat : n = s * (2 * h + (1 - t))
    BY <1>5
  <2>2. n \div s = 2 * h + (1 - t)
    <3>1. n = s * (2 * h + (1 - t)) + 0 /\ 0 \in 0..(s - 1) /\ 2 * h + (1 - t) \in Nat
      BY <1>5, <2>1
    <3> QED
      BY <3>1, DivisionIs
  <2>3. n = IF t = 0 THEN p.addr + s ELSE p.addr - s
    <3>1. CASE t = 0
      <4>1. n = s * (2 * h + 1) /\ s * (2 * h + 1) = (2 * s) * h + s
        BY <2>1, <3>1
      <4> QED
        BY <1>7, <1>8, <1>9, <3>1, <4>1
    <3>2. CASE t = 1
      <4>1. n = s * (2 * h) /\ s * (2 * h) = (2 * s) * h
        BY <2>1, <3>2
      <4> QED
        BY <1>7, <1>8, <1>9, <3>2, <4>1
    <3> QED
      BY <1>5, <3>1, <3>2
  <2>4. SiblingPrefix(p).bits = p.bits /\ SiblingPrefix(p).addr = n
    <3>1. p = [bits |-> p.bits, addr |-> p.addr]
      BY DEF MaskedPrefixes
    <3>2. SiblingPrefix(p) = [p EXCEPT !.addr = n]
      BY <1>2, <1>6, <2>3 DEF SiblingPrefix
    <3> QED
      BY <3>1, <3>2
  <2> QED
    BY <1>2, <1>14, <2>2, <2>4 DEF PrefixContains
<1>18. k = h <=> b = q \/ b = 2 * h + (1 - t)
  <2>1. t \in {0, 1} /\ u \in {0, 1}
    BY <1>5, <1>13
  <2>2. b = 2 * k + u /\ q = 2 * h + t
    BY <1>6, <1>14
  <2> QED
    BY <2>1, <2>2
<1> QED
  BY <1>12, <1>15, <1>16, <1>17, <1>18

-----------------------------------------------------------------------------
(* Merging *)

\* The entries that merging can make of E.
MadeOf(E) ==
  [cidr : MaskedPrefixes, class : {e.class : e \in E}, reason : {e.reason : e \in E}]

\* What a round of aggregateFeedEntries preserves.
Exact(c, E, wl) ==
  /\ c \in [entries : SUBSET MadeOf(E), merged : SUBSET MadeOf(E)]
  /\ c.merged \subseteq c.entries /\ \A d, e \in c.merged : d = e
  /\ Blocked(c.entries) = Blocked(E)
  /\ \A e \in c.entries : (\E w \in wl : PrefixContains(e.cidr, w.addr)) => e \in E

LEMMA MergeIsExact ==
  ASSUME NEW E, NEW wl, NEW c, Exact(c, E, wl), NEW l \in Mergeable(c, wl)
  PROVE  Exact(Merge(c, l), E, wl)
<1> DEFINE sibling == SiblingPrefix(l.cidr)
           parent == [l EXCEPT !.cidr = ParentPrefix(l.cidr)]
           kept == {e \in c.entries : e.cidr \notin {l.cidr, sibling}}
<1>1. l \in c.entries /\ l \in MadeOf(E) /\ l.cidr \in MaskedPrefixes /\ l.cidr.bits > 0
  BY DEF Mergeable, Exact, MadeOf
<1>2. ParentPrefix(l.cidr) \in MaskedPrefixes
  <2>1. 0 \in Nat
    OBVIOUS
  <2> QED
    BY <1>1, <2>1, SiblingsCover
<1>3. parent \in MadeOf(E) /\ parent.cidr = ParentPrefix(l.cidr)
  BY <1>1, <1>2 DEF MadeOf
<1>4. PICK r \in c.entries : r.cidr = sibling
  <2>1. PICK x \in ByPrefix(c, sibling) : TRUE
    BY DEF Mergeable
  <2>2. CASE \E e \in c.merged : e.cidr = sibling
    BY <2>2 DEF Exact
  <2>3. CASE ~ \E e \in c.merged : e.cidr = sibling
    BY <2>1, <2>3 DEF ByPrefix
  <2> QED
    BY <2>2, <2>3
<1>5. \A w \in wl : ~PrefixContains(parent.cidr, w.addr)
  BY <1>3 DEF Mergeable, PrefixContainsAnyWhitelist
<1>6. Merge(c, l) = [entries |-> kept \cup {parent}, merged |-> {parent}]
  BY DEF Merge
<1> HIDE DEF parent, sibling
<1>7. Blocked(kept \cup {parent}) = Blocked(c.entries)
  <2>1. ASSUME NEW a
        PROVE  a \in Addresses(parent.cidr) <=> a \in Addresses(l.cidr) \/ a \in Addresses(sibling)
    <3>1. CASE a \in 0..(Size(0) - 1)
      <4>1. a \in Nat
        <5>1. Size(0) \in Nat
          BY Sizes, FeedEntriesAssumption
        <5> QED
          BY <3>1, <5>1
      <4>2. PrefixContains(ParentPrefix(l.cidr), a) <=>
              PrefixContains(l.cidr, a) \/ PrefixContains(SiblingPrefix(l.cidr), a)
        BY <1>1, <4>1, SiblingsCover
      <4> QED
        BY <1>3, <3>1, <4>2 DEF Addresses, sibling
    <3>2. CASE a \notin 0..(Size(0) - 1)
      BY <3>2 DEF Addresses
    <3> QED
      BY <3>1, <3>2
  <2>2. ASSUME NEW a \in Blocked(c.entries) PROVE a \in Blocked(kept \cup {parent})
    <3>1. PICK e \in c.entries : a \in Addresses(e.cidr)
      BY <2>2 DEF Blocked
    <3>2. CASE e.cidr \in {l.cidr, sibling}
      BY <2>1, <3>1, <3>2 DEF Blocked
    <3>3. CASE e.cidr \notin {l.cidr, sibling}
      BY <3>1, <3>3 DEF Blocked
    <3> QED
      BY <3>2, <3>3
  <2>3. ASSUME NEW a \in Blocked(kept \cup {parent}) PROVE a \in Blocked(c.entries)
    <3>1. PICK e \in kept \cup {parent} : a \in Addresses(e.cidr)
      BY <2>3 DEF Blocked
    <3>2. CASE e = parent
      BY <1>1, <1>4, <2>1, <3>1, <3>2 DEF Blocked
    <3>3. CASE e \in kept
      BY <3>1, <3>3 DEF Blocked
    <3> QED
      BY <3>1, <3>2, <3>3
  <2> QED
    BY <2>2, <2>3
<1>8. kept \subseteq c.entries
  OBVIOUS
<1> HIDE DEF kept
<1> QED
  BY <1>3, <1>5, <1>6, <1>7, <1>8 DEF Exact

LEMMA RoundIsExact ==
  ASSUME NEW E, NEW wl, NEW c, Exact(c, E, wl), NEW d \in MergeRound(c, wl)
  PROVE  Exact(d, E, wl)
<1>1. CASE Mergeable(c, wl) = {}
  BY <1>1 DEF MergeRound
<1>2. CASE Mergeable(c, wl) # {}
  <2>1. PICK l \in Mergeable(c, wl) : d = Merge(c, l)
    BY <1>2 DEF MergeRound
  <2> QED
    BY <2>1, MergeIsExact
<1> QED
  BY <1>1, <1>2

\* aggregateFeedEntries blocks what it is given, and puts nothing over a whitelisted prefix.
LEMMA AggregateIsExact ==
  ASSUME NEW E, IsFiniteSet(E), NEW wl, E \subseteq MadeOf(E),
         NEW F \in AggregateFeedEntries(E, wl)
  PROVE  /\ Blocked(F) = Blocked(E)
         /\ \A e \in F : (\E w \in wl : PrefixContains(e.cidr, w.addr)) => e \in E
<1> DEFINE n == Cardinality(E)
           first == [entries |-> E, merged |-> {}]
           X == {c \in [entries : SUBSET MadeOf(E), merged : SUBSET MadeOf(E)] : Exact(c, E, wl)}
           U == SUBSET X
           H == [Y \in U |-> UNION {MergeRound(c, wl) : c \in Y}]
           G(f) == [i \in 0..n |-> IF i = 0 THEN {first}
                                   ELSE UNION {MergeRound(c, wl) : c \in f[i - 1]}]
<1>1. n \in Nat
  BY FS_CardinalityType
<1>2. \A c : c \in X <=> Exact(c, E, wl)
  BY DEF Exact
<1>3. {first} \in U
  BY <1>2 DEF Exact
<1>4. ASSUME NEW Y \in U PROVE UNION {MergeRound(c, wl) : c \in Y} \in U
  <2>1. ASSUME NEW c \in Y, NEW d \in MergeRound(c, wl) PROVE d \in X
    <3>1. Exact(c, E, wl)
      BY <1>2
    <3> HIDE DEF X
    <3> QED
      BY <1>2, <2>1, <3>1, RoundIsExact
  <2> QED
    BY <2>1
<1>5. H \in [U -> U]
  BY <1>4
<1>6. PICK f \in [0..n -> U] : f[0] = {first} /\ \A i \in 1..n : f[i] = H[f[i - 1]]
  <2>1. PICK one : one = {first}
    OBVIOUS
  <2>2. one \in U
    BY <1>3, <2>1
  <2> HIDE DEF U, H, n
  <2>3. \E f : IsIteration(f, n, U, one, H)
    BY <1>1, <1>5, <2>2, Iterates
  <2> QED
    BY <2>1, <2>3 DEF IsIteration
<1>7. f = G(f)
  <2>1. ASSUME NEW i \in 0..n PROVE f[i] = G(f)[i]
    <3>1. CASE i = 0
      BY <1>1, <1>6, <3>1
    <3>2. CASE i # 0
      <4>1. i \in 1..n /\ i - 1 \in 0..n
        BY <1>1, <3>2
      <4>2. f[i] = H[f[i - 1]] /\ f[i - 1] \in U
        BY <1>6, <4>1
      <4>3. f[i] = UNION {MergeRound(c, wl) : c \in f[i - 1]}
        BY <4>2
      <4> QED
        BY <3>2, <4>3
    <3> QED
      BY <3>1, <3>2
  <2>2. f = [i \in 0..n |-> f[i]] /\ G(f) = [i \in 0..n |-> G(f)[i]]
    BY <1>6
  <2> HIDE DEF G
  <2> QED
    BY <2>1, <2>2
<1>8. PICK after : after = CHOOSE g : g = G(g)
  OBVIOUS
<1>9. after = G(after)
  <2> HIDE DEF G
  <2> QED
    BY <1>7, <1>8, Zenon
<1>10. AggregateFeedEntries(E, wl) = {c.entries : c \in after[n]}
  BY <1>8 DEF AggregateFeedEntries
<1>11. \A i \in 0..n : after[i] \in U
  <2>1. after[0] = {first}
    BY <1>1, <1>9
  <2>2. ASSUME NEW i \in 1..n, after[i - 1] \in U PROVE after[i] \in U
    <3>1. after[i] = UNION {MergeRound(c, wl) : c \in after[i - 1]}
      <4>1. i \in 0..n /\ i # 0
        BY <1>1
      <4>2. G(after)[i] = UNION {MergeRound(c, wl) : c \in after[i - 1]}
        BY <4>1
      <4> HIDE DEF G
      <4> QED
        BY <1>9, <4>2
    <3> QED
      BY <1>4, <2>2, <3>1
  <2> HIDE DEF U, n, first
  <2> QED
    BY <1>1, <1>3, <2>1, <2>2, IteratesStay
<1>12. after[n] \in U
  BY <1>1, <1>11
<1>13. PICK c \in after[n] : F = c.entries
  BY <1>10
<1>14. Exact(c, E, wl)
  BY <1>2, <1>12, <1>13
<1> QED
  BY <1>13, <1>14 DEF Exact

LEMMA ParsedEntries ==
  ASSUME NEW lines \in Payloads, NEW E, E = DedupeFeedEntries(ParseFeedPayload(lines).entries)
  PROVE  IsFiniteSet(E) /\ E \subseteq MadeOf(E)
<1> DEFINE good == {i \in DOMAIN lines : lines[i] # Malformed}
           body == [i \in good |-> lines[i]]
           J == {j \in good : \A k \in good : k < j =>
                   <<body[k].cidr, body[k].class>> # <<body[j].cidr, body[j].class>>}
           f == [j \in J |-> body[j]]
<1>1. E = {body[j] : j \in J}
  BY DEF DedupeFeedEntries, ParseFeedPayload
<1>2. IsFiniteSet(DOMAIN lines)
  BY PayloadsAssumption
<1>3. J \subseteq DOMAIN lines /\ J \subseteq good
  OBVIOUS
<1>4. IsFiniteSet(J)
  <2> HIDE DEF J
  <2> QED
    BY <1>2, <1>3, FS_Subset
<1>5. f \in Surjection(J, E)
  <2> HIDE DEF J, body
  <2> QED
    BY <1>1 DEF Surjection
<1>6. IsFiniteSet(E)
  <2> HIDE DEF f, J
  <2> QED
    BY <1>4, <1>5, FS_Surjection
<1>7. ASSUME NEW e \in E PROVE e \in MadeOf(E)
  <2>1. PICK j \in J : e = body[j]
    BY <1>1
  <2>2. j \in DOMAIN lines /\ lines[j] # Malformed /\ e = lines[j]
    BY <1>3, <2>1
  <2>3. e.cidr \in MaskedPrefixes /\ e = [cidr |-> e.cidr, class |-> e.class, reason |-> e.reason]
    BY <2>2, PayloadsAssumption
  <2> QED
    BY <1>7, <2>3 DEF MadeOf
<1> QED
  BY <1>6, <1>7

\* What a synchronisation has parsed are entries; what it is about to store blocks the same.
ExactInv ==
  \A c \in Callers :
    /\ job[c].pc = "load" =>
         IsFiniteSet(job[c].parsed) /\ job[c].parsed \subseteq MadeOf(job[c].parsed)
    /\ job[c].pc = "replace" =>
         /\ Blocked(job[c].entries) = Blocked(job[c].parsed)
         /\ \A e \in job[c].entries :
              (\E w \in job[c].whitelist : PrefixContains(e.cidr, w.addr)) => e \in job[c].parsed

LEMMA ExactStep ==
  ASSUME FeedInv, ExactInv, [FsNext]_fsvars PROVE ExactInv'
<1> USE DEF ExactInv
<1>1. FeedTypes /\ job = [c \in Callers |-> job[c]]
  BY DEF FeedInv, FeedTypes, JobTypes
<1>2. SUFFICES ASSUME NEW d \in Callers
      PROVE  /\ job'[d].pc = "load" =>
                  IsFiniteSet(job'[d].parsed) /\ job'[d].parsed \subseteq MadeOf(job'[d].parsed)
             /\ job'[d].pc = "replace" =>
                  /\ Blocked(job'[d].entries) = Blocked(job'[d].parsed)
                  /\ \A e \in job'[d].entries :
                       (\E w \in job'[d].whitelist : PrefixContains(e.cidr, w.addr)) => e \in job'[d].parsed
  BY DEF Blocked, Addresses, PrefixContains, Size, MadeOf, MaskedPrefixes
<1>3. SUFFICES ASSUME job'[d].pc \in {"load", "replace"}, job'[d] # job[d]
               PROVE  FetchFeed(d) \/ LoadFeedWhitelist(d)
  <2>1. CASE job'[d] = job[d] \/ job'[d].pc \notin {"load", "replace"}
    BY <2>1
  <2>2. CASE FetchFeed(d)
    <3> PICK lines \in Payloads :
          job' = [job EXCEPT ![d].pc = "load", ![d].fetch = fetches + 1,
                             ![d].parsed = DedupeFeedEntries(ParseFeedPayload(lines).entries)]
      BY <2>2 DEF FetchFeed
    <3> PICK E : E = DedupeFeedEntries(ParseFeedPayload(lines).entries)
      OBVIOUS
    <3>1. job' = [job EXCEPT ![d].pc = "load", ![d].fetch = fetches + 1, ![d].parsed = E]
      OBVIOUS
    <3>2. IsJob(job[d])
      BY <2>2, <1>1, Jobs DEF FetchFeed
    <3>3. job'[d].pc = "load" /\ job'[d].parsed = E
      BY <1>1, <3>1, <3>2 DEF IsJob
    <3> QED
      BY <3>1, <3>3, ParsedEntries
  <2>3. CASE LoadFeedWhitelist(d)
    <3>1. PICK E \in AggregateFeedEntries(job[d].parsed, whitelist) :
             job' = [job EXCEPT ![d].pc = "replace", ![d].whitelist = whitelist, ![d].entries = E]
      BY <2>3 DEF LoadFeedWhitelist
    <3>2. job[d].pc = "load" /\ IsJob(job[d])
      BY <2>3, <1>1, Jobs DEF LoadFeedWhitelist
    <3>3. /\ job'[d].pc = "replace" /\ job'[d].entries = E /\ job'[d].whitelist = whitelist
          /\ job'[d].parsed = job[d].parsed
      BY <1>1, <3>1, <3>2 DEF IsJob
    <3>4. IsFiniteSet(job[d].parsed) /\ job[d].parsed \subseteq MadeOf(job[d].parsed)
      BY <3>2
    <3>5. /\ Blocked(E) = Blocked(job[d].parsed)
          /\ \A e \in E : (\E w \in whitelist : PrefixContains(e.cidr, w.addr)) => e \in job[d].parsed
      BY <3>1, <3>4, AggregateIsExact
    <3> QED
      BY <3>3, <3>5
  <2> QED
    BY <1>3, <2>1, <2>2, <2>3
<1>4. Working(d)
  <2>1. ASSUME NEW c \in Callers, Working(c) PROVE Working(d)
    <3>1. PICK j : job' = [job EXCEPT ![c] = j]
      BY <2>1, <1>1, JobGoesOn
    <3> QED
      BY <3>1, <2>1, <1>1, <1>3
  <2>2. ASSUME NEW c \in Callers, NEW s \in Sources, Starting(c, s) PROVE FALSE
    <3>1. PICK j : job' = [job EXCEPT ![c] = j] /\ j.pc = "fetch"
      BY <2>2, <1>1, JobStarts DEF Starting
    <3> QED
      BY <3>1, <1>1, <1>3
  <2>3. ASSUME NEW c \in Callers, Ending(c) PROVE FALSE
    <3>1. job' = [job EXCEPT ![c] = NoJob]
      BY <2>3, Ends
    <3> QED
      BY <3>1, <1>1, <1>3 DEF NoJob
  <2>4. ~Crash
    BY <1>3 DEF Crash, NoJob
  <2> QED
    BY <1>3, <2>1, <2>2, <2>3, <2>4, StepKinds, OthersKeepJobs
<1>5. IsJob(job[d])
  BY <1>1, <1>4, Jobs DEF Working, FetchFeed, LoadFeedWhitelist, ReplaceFeedEntries, SyncRebuild, SyncFails
<1>6. ~ReplaceFeedEntries(d) /\ ~SyncRebuild(d) /\ ~SyncFails(d)
  <2>1. ASSUME ReplaceFeedEntries(d) PROVE FALSE
    <3>1. job' = [job EXCEPT ![d].pc = "rebuild"]
      BY <2>1 DEF ReplaceFeedEntries
    <3> QED
      BY <1>1, <1>3, <1>5, <3>1 DEF IsJob
  <2>2. ASSUME SyncRebuild(d) PROVE FALSE
    <3>1. PICK ok \in BOOLEAN : job' = [job EXCEPT ![d].pc = "finish", ![d].ok = ok]
      BY <2>2, <1>3 DEF SyncRebuild
    <3> QED
      BY <1>1, <1>3, <1>5, <3>1 DEF IsJob
  <2>3. ASSUME SyncFails(d) PROVE FALSE
    <3>1. job' = [job EXCEPT ![d].pc = "finish", ![d].ok = FALSE]
      BY <2>3 DEF SyncFails
    <3> QED
      BY <1>1, <1>3, <1>5, <3>1 DEF IsJob
  <2> QED
    BY <2>1, <2>2, <2>3
<1> QED
  BY <1>4, <1>6 DEF Working

\* aggregateFeedEntries: what is stored of a download blocks the addresses of the feed and no
\* other, and covers the start of a whitelisted prefix only where the feed itself does, for
\* any width of addresses, any feed and any whitelist, changed at any time.
THEOREM AggregationNeverWidens == FsSpec => []AggregationIsExact
<1>1. FsInit => ExactInv
  BY DEF FsInit, ExactInv, NoJob
<1>2. FeedInv /\ ExactInv /\ [FsNext]_fsvars => ExactInv'
  BY ExactStep
<1>3. ExactInv => AggregationIsExact
  BY DEF ExactInv, AggregationIsExact, Addresses
<1> QED
  BY <1>1, <1>2, <1>3, FeedInvariance, PTL DEF FsSpec
=============================================================================
