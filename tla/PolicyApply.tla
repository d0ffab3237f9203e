---------------------------- MODULE PolicyApply ----------------------------
(***************************************************************************)
(* The node agent's policy state machine: ApplyPolicySnapshot              *)
(* (internal/agent/policy_apply.go), the start-up of LoadAndAttach         *)
(* (internal/agent/loader.go) and the last-valid file                      *)
(* (internal/agent/snapshot.go), with every map write, every error return  *)
(* and a process crash between any two of them.                            *)
(*                                                                         *)
(* Kernel state (rc, tbl, dev, attached) is pinned in bpffs: it survives   *)
(* the process and is lost on a reboot. The file survives both. pc, snap   *)
(* and job are the process.                                                *)
(***************************************************************************)
EXTENDS PolicyTables

CONSTANTS
  Version,     \* versions of the snapshots Control (or an operator) provides
  Policy,      \* [Version -> SUBSET Entry], the content of a snapshot
  Compatible,  \* the versions that pass the static checks of a snapshot
  Expiring,    \* the versions that hold an entry with an expiry time
  DevKey,      \* keys of tx_devmap
  KeysOf,      \* [Version -> SUBSET DevKey], the keys the services use
  Ifindex,     \* interface indexes
  Bootstrap,   \* versions of the bootstrap policy file, 0 when none is set
  Faults       \* the environment faults that may happen

DefaultVersion == 1   \* DefaultSnapshot's PolicyVersion

ASSUME VersionAssumption == Version \subseteq Nat \ {0}
ASSUME PolicyAssumption ==
  /\ Policy \in [Version -> SUBSET Entry]
  /\ Compatible \subseteq Version
  /\ Expiring \subseteq Version
  /\ Bootstrap \subseteq Version \cup {0}
ASSUME DevmapAssumption ==
  /\ DevKey \subseteq Nat
  /\ Ifindex \subseteq Nat \ {NoIf}
  /\ KeysOf \in [Version -> SUBSET DevKey]

VARIABLES
  rc,        \* runtime_config[0]: active_slot and policy_version
  tbl,       \* [Slot -> SUBSET Entry], the A/B policy maps
  dev,       \* tx_devmap
  attached,  \* the pinned XDP link exists
  file,      \* the last-valid file
  expired,   \* the versions with an entry whose expiry time has passed
  pc,        \* where the agent process is
  snap,      \* Runtime.Snapshot
  job,       \* the locals of the running ApplyPolicySnapshot
  suspect    \* history: file and pinned maps may not belong together

kernel == <<rc, tbl, dev, attached>>
vars == <<rc, tbl, dev, attached, file, expired, pc, snap, job, suspect>>

-----------------------------------------------------------------------------
(* Values *)

Config == [slot : Slot, version : Nat]
NoConfig == [slot |-> 0, version |-> 0]

\* A last-valid snapshot. policy = 0: no embedded policy (DefaultSnapshot).
\* version = 0 never passes Verify: it stands for a missing or unreadable file.
LastValid == [slot : Slot, version : Nat, policy : Version \cup {0}]
NoFile == [slot |-> 0, version |-> 0, policy |-> 0]
DefaultSnapshot == [slot |-> 0, version |-> DefaultVersion, policy |-> 0]
LastValidFromPolicySnapshot(v, s) == [slot |-> s, version |-> v, policy |-> v]

RuntimeConfig(s) == [slot |-> s.slot, version |-> s.version]

Job == [v : Version \cup {0}, cur : Config,
        targets : [DevKey -> Ifindex \cup {NoIf}],  \* updateDevmapTargets
        done : SUBSET DevKey,                       \* its updatedKeys
        backup : [DevKey -> Ifindex \cup {NoIf}],   \* its backups
        boot : BOOLEAN]                             \* called by LoadAndAttach
NewJob(v, cur, targets, boot) ==
  [v |-> v, cur |-> cur, targets |-> targets, done |-> {},
   backup |-> [k \in DevKey |-> NoIf], boot |-> boot]
NoTargets == [k \in DevKey |-> NoIf]
NoJob == NewJob(0, NoConfig, NoTargets, FALSE)

inactiveSlot == 1 - job.cur.slot

\* LastValidSnapshot.Verify: an embedded policy is verified against the clock.
FileVerifies == file.version # 0 /\ file.policy \notin expired

\* Faulty variant: the version is not compared with the active one.
VerifyAnyVersion(v) == v \in Compatible /\ v \notin expired

\* VerifyPolicySnapshot as ApplyPolicySnapshot calls it.
VerifyPolicySnapshot(v) ==
  /\ v \in Compatible
  /\ v \notin expired
  /\ rc.version # 0 => v > rc.version

\* An entry of S that no entry of S in an earlier table precedes.
FirstIn(e, S) == e \in S /\ \A f \in S : TableOf[e] <= TableOf[f]

Init ==
  /\ rc = NoConfig
  /\ tbl = [s \in Slot |-> {}]
  /\ dev = [k \in DevKey |-> NoIf]
  /\ attached = FALSE
  /\ file = NoFile
  /\ expired = {}
  /\ pc = "down"
  /\ snap = NoFile
  /\ job = NoJob
  /\ suspect = FALSE

-----------------------------------------------------------------------------
(* LoadAndAttach *)

\* Where a failed apply leaves the process: a failed bootstrap apply ends
\* LoadAndAttach with an error, any other apply returns to the sync loop.
ApplyFailed ==
  /\ pc' = IF job.boot THEN "down" ELSE "idle"
  /\ snap' = IF job.boot THEN NoFile ELSE snap
  /\ job' = NoJob

Exit == pc' = "down" /\ snap' = NoFile /\ job' = NoJob

\* loadOrCreateSnapshot with a readable, valid file.
LoadSnapshot ==
  /\ pc = "down"
  /\ FileVerifies
  /\ snap' = file
  /\ pc' = "seed"
  /\ UNCHANGED <<kernel, file, expired, job, suspect>>

\* loadOrCreateSnapshot otherwise: an invalid file is replaced by the default.
CreateSnapshot ==
  /\ pc = "down"
  /\ ~FileVerifies
  /\ file' = DefaultSnapshot
  /\ snap' = DefaultSnapshot
  /\ pc' = "seed"
  /\ suspect' = (suspect \/ file # NoFile)
  /\ UNCHANGED <<kernel, expired, job>>

\* seedRuntimeConfig: the file's slot and version go live at once, also for a
\* program that is still attached from an earlier run.
SeedRuntimeConfig ==
  /\ pc = "seed"
  /\ rc' = RuntimeConfig(snap)
  /\ \E b \in Bootstrap : pc' = IF b = 0 THEN "attach" ELSE "bootstrap"
  /\ UNCHANGED <<tbl, dev, attached, file, expired, snap, job, suspect>>

AttachOrUpdateLink ==
  /\ pc = "attach"
  /\ attached' = TRUE
  /\ pc' = "idle"
  /\ UNCHANGED <<rc, tbl, dev, file, expired, snap, job, suspect>>

\* Any error return of LoadAndAttach outside the bootstrap apply.
StartFails ==
  /\ pc \in {"seed", "bootstrap", "attach"}
  /\ Exit
  /\ UNCHANGED <<kernel, file, expired, suspect>>

-----------------------------------------------------------------------------
(* ApplyPolicySnapshot *)

\* Read runtime_config, verify, resolve the forwarding metadata, sign, verify
\* again. A snapshot that is refused changes nothing and is not an action.
BeginApply(v, boot) ==
  /\ VerifyPolicySnapshot(v)
  /\ \E t \in [DevKey -> Ifindex] :
       job' = NewJob(v, rc, [k \in DevKey |->
                               IF k \in KeysOf[v] THEN t[k] ELSE NoIf], boot)
  /\ pc' = "clear"
  /\ UNCHANGED <<kernel, file, expired, snap, suspect>>

BeginSync(v) == pc = "idle" /\ BeginApply(v, FALSE)

BeginBootstrap ==
  /\ pc = "bootstrap"
  /\ \E b \in Bootstrap \ {0} : BeginApply(b, TRUE)

ClearEntry ==
  /\ pc \in {"clear", "undo_clear"}
  /\ \E e \in tbl[inactiveSlot] :
       /\ FirstIn(e, tbl[inactiveSlot])
       /\ tbl' = [tbl EXCEPT ![inactiveSlot] = @ \ {e}]
  /\ UNCHANGED <<rc, dev, attached, file, expired, pc, snap, job, suspect>>

\* Faulty variant: the clear loop stops before the slot is empty.
ClearDoneEarly ==
  /\ pc = "clear"
  /\ pc' = "populate"
  /\ UNCHANGED <<kernel, file, expired, snap, job, suspect>>

ClearDone ==
  /\ pc = "clear"
  /\ tbl[inactiveSlot] = {}
  /\ pc' = "populate"
  /\ UNCHANGED <<kernel, file, expired, snap, job, suspect>>

\* "clear_inactive" returns without a rollback.
ClearFails ==
  /\ pc = "clear"
  /\ ApplyFailed
  /\ UNCHANGED <<kernel, file, expired, suspect>>

PopulateEntry ==
  /\ pc = "populate"
  /\ LET rest == Policy[job.v] \ tbl[inactiveSlot]
     IN  \E e \in rest :
           /\ FirstIn(e, rest)
           /\ tbl' = [tbl EXCEPT ![inactiveSlot] = @ \cup {e}]
  /\ UNCHANGED <<rc, dev, attached, file, expired, pc, snap, job, suspect>>

PopulateDone ==
  /\ pc = "populate"
  /\ Policy[job.v] \subseteq tbl[inactiveSlot]
  /\ pc' = "devmap"
  /\ UNCHANGED <<kernel, file, expired, snap, job, suspect>>

PopulateFails ==
  /\ pc = "populate"
  /\ pc' = "undo_clear"
  /\ UNCHANGED <<kernel, file, expired, snap, job, suspect>>

pendingKeys == KeysOf[job.v] \ job.done

\* Faulty variant: a key that points elsewhere is overwritten.
OverwriteDevmapKey ==
  /\ pc = "devmap"
  /\ \E k \in pendingKeys :
       /\ \A j \in pendingKeys : k <= j
       /\ dev' = [dev EXCEPT ![k] = job.targets[k]]
       /\ job' = [job EXCEPT !.done = @ \cup {k}, !.backup[k] = dev[k]]
  /\ UNCHANGED <<rc, tbl, attached, file, expired, pc, snap, suspect>>

\* updateDevmapTargets for one key, in ascending order.
UpdateDevmapKey ==
  /\ pc = "devmap"
  /\ \E k \in pendingKeys :
       /\ \A j \in pendingKeys : k <= j
       /\ dev[k] \in {NoIf, job.targets[k]}
       /\ dev' = [dev EXCEPT ![k] = job.targets[k]]
       /\ job' = [job EXCEPT !.done = @ \cup {k}, !.backup[k] = dev[k]]
  /\ UNCHANGED <<rc, tbl, attached, file, expired, pc, snap, suspect>>

UpdateDevmapDone ==
  /\ pc = "devmap"
  /\ pendingKeys = {}
  /\ pc' = "flip"
  /\ UNCHANGED <<kernel, file, expired, snap, job, suspect>>

\* A key that points elsewhere, two services that disagree on a key, or a
\* failed lookup or update.
UpdateDevmapFails ==
  /\ pc = "devmap"
  /\ pc' = "undo_devmap"
  /\ UNCHANGED <<kernel, file, expired, snap, job, suspect>>

FlipRuntimeConfig ==
  /\ pc = "flip"
  /\ rc' = [slot |-> inactiveSlot, version |-> job.v]
  /\ pc' = "persist"
  /\ UNCHANGED <<tbl, dev, attached, file, expired, snap, job, suspect>>

FlipFails ==
  /\ pc = "flip"
  /\ pc' = "undo_devmap"
  /\ UNCHANGED <<kernel, file, expired, snap, job, suspect>>

\* Faulty variant: the file names the slot that was active before.
PersistOldSlot ==
  /\ pc = "persist"
  /\ file' = LastValidFromPolicySnapshot(job.v, job.cur.slot)
  /\ snap' = file'
  /\ pc' = IF job.boot THEN "attach" ELSE "idle"
  /\ job' = NoJob
  /\ suspect' = FALSE
  /\ UNCHANGED <<kernel, expired>>

\* SaveLastValidSnapshot replaces the file in one rename; then Runtime.Snapshot.
PersistLastValid ==
  /\ pc = "persist"
  /\ file' = LastValidFromPolicySnapshot(job.v, inactiveSlot)
  /\ snap' = file'
  /\ pc' = IF job.boot THEN "attach" ELSE "idle"
  /\ job' = NoJob
  /\ suspect' = FALSE
  /\ UNCHANGED <<kernel, expired>>

\* Faulty variant: runtime_config keeps the version that was not persisted.
PersistFailsUnrestored ==
  /\ pc = "persist"
  /\ pc' = "undo_devmap"
  /\ UNCHANGED <<kernel, file, expired, snap, job, suspect>>

\* The file could not be written: runtime_config gets its old value back.
PersistFails ==
  /\ pc = "persist"
  /\ rc' = job.cur
  /\ pc' = "undo_devmap"
  /\ UNCHANGED <<tbl, dev, attached, file, expired, snap, job, suspect>>

\* The same when that write fails too; its error is ignored.
PersistAndRestoreFail ==
  /\ "restore" \in Faults
  /\ pc = "persist"
  /\ pc' = "undo_devmap"
  /\ suspect' = TRUE
  /\ UNCHANGED <<kernel, file, expired, snap, job>>

\* Faulty variant: the rollback deletes every key it has written.
DeleteDevmapKey ==
  /\ pc = "undo_devmap"
  /\ \E k \in job.done :
       /\ \A j \in job.done : j <= k
       /\ dev' = [dev EXCEPT ![k] = NoIf]
       /\ job' = [job EXCEPT !.done = @ \ {k}]
  /\ UNCHANGED <<rc, tbl, attached, file, expired, pc, snap, suspect>>

\* Faulty variant: the rollback loop does not advance.
RepeatDevmapKey ==
  /\ pc = "undo_devmap"
  /\ \E k \in job.done : dev' = [dev EXCEPT ![k] = job.backup[k]]
  /\ UNCHANGED <<rc, tbl, attached, file, expired, pc, snap, job, suspect>>

\* The rollback closure of updateDevmapTargets for one key, in descending
\* order; an error on a key is ignored.
UndoDevmapKey ==
  /\ pc = "undo_devmap"
  /\ \E k \in job.done :
       /\ \A j \in job.done : j <= k
       /\ \/ dev' = [dev EXCEPT ![k] = job.backup[k]]
          \/ dev' = dev
       /\ job' = [job EXCEPT !.done = @ \ {k}]
  /\ UNCHANGED <<rc, tbl, attached, file, expired, pc, snap, suspect>>

UndoDevmapDone ==
  /\ pc = "undo_devmap"
  /\ job.done = {}
  /\ pc' = "undo_clear"
  /\ UNCHANGED <<kernel, file, expired, snap, job, suspect>>

\* rollbackInactive has finished, or given up on an error that is ignored.
UndoClearEnds ==
  /\ pc = "undo_clear"
  /\ ApplyFailed
  /\ UNCHANGED <<kernel, file, expired, suspect>>

-----------------------------------------------------------------------------
(* The environment *)

\* The process dies, or main returns while the sync goroutine is applying.
Crash ==
  /\ pc # "down"
  /\ Exit
  /\ UNCHANGED <<kernel, file, expired, suspect>>

\* Runtime.Close with SafeDetachOnExit; main does not wait for the sync
\* goroutine, which may be applying.
CloseDetached ==
  /\ pc \notin {"down", "seed", "bootstrap", "attach"}
  /\ ~job.boot
  /\ attached' = FALSE
  /\ Exit
  /\ UNCHANGED <<rc, tbl, dev, file, expired, suspect>>

\* bpffs is empty after a reboot.
Reboot ==
  /\ "reboot" \in Faults
  /\ rc' = NoConfig
  /\ tbl' = [s \in Slot |-> {}]
  /\ dev' = [k \in DevKey |-> NoIf]
  /\ attached' = FALSE
  /\ suspect' = TRUE
  /\ Exit
  /\ UNCHANGED <<file, expired>>

\* The file is deleted or damaged.
LoseFile ==
  /\ "file_lost" \in Faults
  /\ file' = NoFile
  /\ suspect' = TRUE
  /\ UNCHANGED <<kernel, expired, pc, snap, job>>

\* A bare PolicySnapshot in place of the file: LoadLastValidSnapshot wraps it
\* for slot 0.
PlaceRawPolicy(v) ==
  /\ "raw_file" \in Faults
  /\ pc = "down"
  /\ file' = LastValidFromPolicySnapshot(v, 0)
  /\ suspect' = TRUE
  /\ UNCHANGED <<kernel, expired, pc, snap, job>>

\* The expiry time of an entry passes.
Expire(v) ==
  /\ v \in Expiring \ expired
  /\ expired' = expired \cup {v}
  /\ UNCHANGED <<kernel, file, pc, snap, job, suspect>>

-----------------------------------------------------------------------------

StartStep ==
  LoadSnapshot \/ CreateSnapshot \/ SeedRuntimeConfig \/ AttachOrUpdateLink

ApplyStep ==
  \/ ClearEntry \/ ClearDone \/ ClearFails
  \/ PopulateEntry \/ PopulateDone \/ PopulateFails
  \/ UpdateDevmapKey \/ UpdateDevmapDone \/ UpdateDevmapFails
  \/ FlipRuntimeConfig \/ FlipFails
  \/ PersistLastValid \/ PersistFails \/ PersistAndRestoreFail
  \/ UndoDevmapKey \/ UndoDevmapDone \/ UndoClearEnds

EnvironmentStep ==
  \/ Crash \/ CloseDetached \/ Reboot \/ LoseFile
  \/ \E v \in Version : PlaceRawPolicy(v) \/ Expire(v)

Next ==
  \/ StartStep \/ StartFails
  \/ BeginBootstrap \/ \E v \in Version : BeginSync(v)
  \/ ApplyStep
  \/ EnvironmentStep

Spec == Init /\ [][Next]_vars

\* An apply that has begun runs on: every loop of it is over a finite list.
FairSpec == Spec /\ WF_vars(ApplyStep)

-----------------------------------------------------------------------------
(* Properties *)

TypeOK ==
  /\ rc \in Config
  /\ tbl \in [Slot -> SUBSET Entry]
  /\ dev \in [DevKey -> Ifindex \cup {NoIf}]
  /\ attached \in BOOLEAN
  /\ file \in LastValid
  /\ expired \subseteq Version
  /\ pc \in {"down", "seed", "bootstrap", "attach", "idle", "clear",
             "populate", "devmap", "flip", "persist", "undo_devmap",
             "undo_clear"}
  /\ snap \in LastValid
  /\ job \in Job
  /\ suspect \in BOOLEAN

\* What each version means to the data plane.
Content ==
  [w \in Version \cup {0, DefaultVersion} |->
     IF w \in {0, DefaultVersion} THEN {} ELSE Policy[w]]

KeysUsed(w) == IF w \in {0, DefaultVersion} THEN {} ELSE KeysOf[w]

\* Whatever fails and wherever the process dies (policy_apply.go:111-188,
\* loader.go:79-88), the slot runtime_config points at holds exactly the
\* entries of the version it names - unless file and maps were separated.
LiveSlotWhole == ~suspect => tbl[rc.slot] = Content[rc.version]

\* A restart is always safe: the slot the last-valid file names still holds
\* the policy that the file embeds (loader.go:79-88, policy_apply.go:178-188).
SavedSlotWhole == ~suspect => tbl[file.slot] = Content[file.version]

\* Between two applies, successful or failed at any stage, the three records
\* of the active policy agree: runtime_config, the file and Runtime.Snapshot
\* (policy_apply.go:162-190).
RecordsAgree ==
  pc = "idle" /\ ~suspect => rc = RuntimeConfig(snap) /\ file = snap

\* Every service of the live policy can be redirected: its devmap key has a
\* target, also after the rollback of an apply that shared keys with it
\* (policy_apply.go:542-606).
LiveTargetsPresent ==
  ~suspect => \A k \in KeysUsed(rc.version) : dev[k] # NoIf

\* The target of a devmap key is never changed while the live policy uses the
\* key (policy_apply.go:591-593).
LiveTargetsStable ==
  [][~suspect /\ ~suspect' =>
       \A k \in KeysUsed(rc.version) : dev'[k] = dev[k]]_vars

\* An apply ends: in the sync loop, with the start-up going on, or with the
\* process gone (policy_apply.go:46-197).
ApplyEnds == pc = "clear" ~> pc \in {"idle", "attach", "down"}

\* The agent implements the abstract policy holder.
Durable == INSTANCE DurablePolicy
             WITH serving <- rc.version, saved <- file.version,
                  live <- tbl[rc.slot], damaged <- suspect

\* Every step of the agent, the kernel and the environment is a step of
\* DurablePolicy: the policy is replaced in one step, then committed or taken
\* back (policy_apply.go:162-188, loader.go:79-88).
ImplementsDurable == Durable!Spec

\* "drop fail-closed khi policy ... khong hop le" (docs/XDP-Data-Plane.md:14):
\* an attached program forwards to services only under one whole policy.
FailClosed ==
  attached /\ rc.version # 0 /\ (\E e \in tbl[rc.slot] : TableOf[e] = Services)
    => \E v \in Version : tbl[rc.slot] = Policy[v]

-----------------------------------------------------------------------------
(* The inductive invariant behind LiveSlotWhole, SavedSlotWhole,           *)
(* RecordsAgree, LiveTargetsPresent and ImplementsDurable.                 *)

Served == Version \cup {0, DefaultVersion}
BeforeFlip == {"clear", "populate", "devmap", "flip"}
Undoing == {"undo_devmap", "undo_clear"}
Applying == BeforeFlip \cup {"persist"} \cup Undoing

\* The versions on record are versions of a policy; once seeded, none is 0.
VersionsInv ==
  /\ rc.version \in Served
  /\ file.version \in Served
  /\ snap.version \in Served
  /\ pc = "seed" => snap.version # 0
  /\ pc \in {"bootstrap", "attach", "idle"} \cup Applying => rc.version # 0

\* What a running apply knows about the state it read at its start.
JobInv ==
  pc \in Applying =>
    /\ job.v \in Version
    /\ job.cur.version \in Served \ {0}
    /\ job.v > job.cur.version
    /\ job.done \subseteq KeysOf[job.v]
    /\ pc \in {"clear", "populate"} => job.done = {}
    /\ pc \in BeforeFlip => rc = job.cur
    /\ pc = "persist" => rc = [slot |-> inactiveSlot, version |-> job.v]
    /\ pc \in Undoing /\ ~suspect => rc = job.cur

\* The slot under construction holds nothing that the snapshot does not.
InactiveInv ==
  /\ pc = "populate" => tbl[inactiveSlot] \subseteq Policy[job.v]
  /\ pc \in {"devmap", "flip", "persist"} => tbl[inactiveSlot] = Policy[job.v]

\* The file the process loaded or wrote is the one it runs on.
FileInv ==
  ~suspect =>
    /\ pc # "down" => file = snap
    /\ pc \in {"bootstrap", "attach", "idle"} => rc = RuntimeConfig(snap)
    /\ pc \in Applying => job.cur = RuntimeConfig(snap)

\* What updateDevmapTargets has done, and what its rollback would undo.
DevmapInv ==
  /\ pc = "devmap" => \A k \in job.done : dev[k] # NoIf
  /\ pc \in {"flip", "persist"} => \A k \in KeysOf[job.v] : dev[k] # NoIf
  /\ pc \in BeforeFlip => \A k \in KeysOf[job.v] : job.targets[k] # NoIf
  /\ pc \in Applying /\ ~suspect =>
       \A k \in job.done \cap KeysUsed(job.cur.version) :
         job.backup[k] = dev[k]
  /\ ~suspect => \A k \in KeysUsed(file.version) : dev[k] # NoIf

IInv ==
  /\ TypeOK
  /\ VersionsInv
  /\ JobInv
  /\ InactiveInv
  /\ FileInv
  /\ DevmapInv
  /\ LiveSlotWhole
  /\ SavedSlotWhole
  /\ LiveTargetsPresent
=============================================================================
