------------------------- MODULE PolicyApplyProofs -------------------------
(***************************************************************************)
(* Proofs about the node agent's policy state machine (PolicyApply), for   *)
(* every set of versions, entries, tables, devmap keys and interfaces,     *)
(* every bootstrap setting and every set of faults, and about the packets  *)
(* that run on the maps it rewrites (DataPlane), for every set of packets  *)
(* and rows. IInv and PacketInv are the inductive invariants; the theorems *)
(* are their consequences.                                                 *)
(***************************************************************************)
EXTENDS DataPlane, TLAPS

\* The typing of a fresh and of an empty job.
LEMMA JobTyping ==
  /\ NoJob \in Job
  /\ \A v \in Version, cur \in Config, boot \in BOOLEAN :
       \A t \in [DevKey -> Ifindex \cup {NoIf}] : NewJob(v, cur, t, boot) \in Job
  BY DEF NoJob, NewJob, Job, NoTargets, NoConfig, Config, Slot

\* A version that replaces one in service is neither 0 nor the default.
LEMMA NewerIsNotDefault ==
  ASSUME NEW v \in Version, NEW w \in Served \ {0}, v > w
  PROVE  v \notin {0, DefaultVersion}
<1>1. v \in Nat /\ w \in Nat \ {0}
  BY VersionAssumption DEF Served, DefaultVersion
<1> QED
  BY <1>1 DEF DefaultVersion

\* Reading runtime_config, verifying and resolving leaves the state ready for
\* the rest of the apply.
LEMMA BeginApplyKeeps ==
  ASSUME IInv, NEW v \in Version, NEW boot \in BOOLEAN,
         pc \in {"idle", "bootstrap"}, BeginApply(v, boot)
  PROVE  IInv'
<1> USE VersionAssumption, PolicyAssumption, DevmapAssumption
    DEF IInv, BeginApply, VerifyPolicySnapshot, kernel, Slot, NoIf,
        DefaultVersion, Served, Applying, BeforeFlip, Undoing, inactiveSlot,
        Config, LastValid, NoConfig, RuntimeConfig
<1> PICK t \in [DevKey -> Ifindex] :
           job' = NewJob(v, rc, [k \in DevKey |->
                                   IF k \in KeysOf[v] THEN t[k] ELSE NoIf], boot)
    OBVIOUS
<1> DEFINE targets == [k \in DevKey |-> IF k \in KeysOf[v] THEN t[k] ELSE NoIf]
<1>1. /\ job' = NewJob(v, rc, targets, boot)
      /\ job'.v = v /\ job'.cur = rc /\ job'.targets = targets /\ job'.done = {}
  BY DEF NewJob
<1>2. targets \in [DevKey -> Ifindex \cup {NoIf}]
  OBVIOUS
<1>3. \A k \in KeysOf[v] : targets[k] # NoIf
  OBVIOUS
<1> HIDE DEF targets
<1>4. TypeOK'
  BY <1>1, <1>2, JobTyping DEF TypeOK
<1>5. VersionsInv' /\ JobInv' /\ InactiveInv' /\ FileInv'
  BY <1>1 DEF TypeOK, VersionsInv, JobInv, InactiveInv, FileInv
<1>6. DevmapInv'
  BY <1>1, <1>3 DEF TypeOK, DevmapInv, KeysUsed
<1>7. LiveSlotWhole' /\ SavedSlotWhole' /\ LiveTargetsPresent'
  BY DEF TypeOK, LiveSlotWhole, SavedSlotWhole, LiveTargetsPresent
<1> QED
  BY <1>4, <1>5, <1>6, <1>7

\* One entry written to the inactive slot.
LEMMA PopulateEntryKeeps ==
  ASSUME IInv, PopulateEntry
  PROVE  IInv'
<1> USE VersionAssumption, PolicyAssumption, DevmapAssumption
    DEF IInv, PopulateEntry, kernel, Slot, Served, Applying, BeforeFlip,
        Undoing, inactiveSlot, DefaultVersion
<1> PICK e \in Policy[job.v] :
           tbl' = [tbl EXCEPT ![inactiveSlot] = @ \cup {e}]
    OBVIOUS
<1>1. job.v \in Version /\ inactiveSlot \in Slot
  BY DEF TypeOK, JobInv, Config, Job
<1>a. e \in Entry
  BY <1>1
<1>2. TypeOK'
  BY <1>1, <1>a DEF TypeOK
<1>3. VersionsInv' /\ JobInv' /\ InactiveInv'
  BY <1>1 DEF TypeOK, VersionsInv, JobInv, InactiveInv
<1>4. FileInv' /\ DevmapInv' /\ LiveTargetsPresent'
  BY DEF FileInv, DevmapInv, LiveTargetsPresent, KeysUsed
<1>5. LiveSlotWhole'
  BY DEF TypeOK, Config, JobInv, LiveSlotWhole, Content
<1>6. SavedSlotWhole'
  BY DEF TypeOK, Config, JobInv, FileInv, RuntimeConfig, SavedSlotWhole, Content
<1> QED
  BY <1>2, <1>3, <1>4, <1>5, <1>6

\* One devmap key set. A key of the live policy already has this target.
LEMMA UpdateDevmapKeyKeeps ==
  ASSUME IInv, UpdateDevmapKey
  PROVE  IInv'
<1> USE VersionAssumption, PolicyAssumption, DevmapAssumption
    DEF IInv, UpdateDevmapKey, pendingKeys, kernel, Slot, NoIf, Served,
        Applying, BeforeFlip, Undoing, inactiveSlot, DefaultVersion
<1> PICK k \in KeysOf[job.v] \ job.done :
           /\ dev[k] \in {NoIf, job.targets[k]}
           /\ dev' = [dev EXCEPT ![k] = job.targets[k]]
           /\ job' = [job EXCEPT !.done = @ \cup {k}, !.backup[k] = dev[k]]
    OBVIOUS
<1>1. job.v \in Version /\ k \in DevKey
  BY DEF JobInv
<1>2. /\ job'.v = job.v /\ job'.cur = job.cur /\ job'.boot = job.boot
      /\ job'.targets = job.targets
      /\ job'.done = job.done \cup {k}
      /\ job'.backup = [job.backup EXCEPT ![k] = dev[k]]
  BY DEF TypeOK, Job
<1>3. TypeOK'
  BY <1>1, <1>2 DEF TypeOK, Job
<1>4. VersionsInv' /\ JobInv' /\ InactiveInv' /\ FileInv'
  BY <1>1, <1>2 DEF TypeOK, VersionsInv, JobInv, InactiveInv, FileInv
<1>5. DevmapInv' /\ LiveTargetsPresent'
  <2>1. job.targets[k] # NoIf /\ dev'[k] = job.targets[k]
    BY <1>1 DEF DevmapInv, TypeOK, Job
  <2>2. \A j \in DevKey \ {k} : dev'[j] = dev[j] /\ job'.backup[j] = job.backup[j]
    BY <1>1, <1>2 DEF TypeOK, Job
  <2>3. ~suspect /\ k \in KeysUsed(job.cur.version) => job'.backup[k] = dev'[k]
    BY <1>1, <1>2, <2>1 DEF TypeOK, Job, JobInv, LiveTargetsPresent
  <2>4. \A w \in Served : KeysUsed(w) \subseteq DevKey
    BY DEF KeysUsed
  <2>5. LiveTargetsPresent'
    BY <2>1, <2>2, <2>4 DEF LiveTargetsPresent, VersionsInv, KeysUsed
  <2>6. DevmapInv'
    BY <1>1, <1>2, <2>1, <2>2, <2>3, <2>4
    DEF DevmapInv, VersionsInv, JobInv, KeysUsed
  <2> QED
    BY <2>5, <2>6
<1>6. LiveSlotWhole' /\ SavedSlotWhole'
  BY DEF LiveSlotWhole, SavedSlotWhole, Content
<1> QED
  BY <1>3, <1>4, <1>5, <1>6

\* The flip: the slot that was filled, under the version it was filled from.
LEMMA FlipKeeps ==
  ASSUME IInv, FlipRuntimeConfig
  PROVE  IInv'
<1> USE VersionAssumption, PolicyAssumption, DevmapAssumption
    DEF IInv, FlipRuntimeConfig, kernel, Slot, NoIf, Served, Applying,
        BeforeFlip, Undoing, DefaultVersion
<1>1. /\ job.v \in Version \ {0, DefaultVersion}
      /\ inactiveSlot \in Slot
      /\ rc' = [slot |-> inactiveSlot, version |-> job.v]
  BY DEF TypeOK, JobInv, Config, Job, inactiveSlot
<1>2. TypeOK'
  <2>1. job.v \in Nat
    BY <1>1
  <2>2. rc' \in Config
    BY <1>1, <2>1 DEF Config
  <2> QED
    BY <2>2 DEF TypeOK
<1>3. VersionsInv' /\ JobInv' /\ InactiveInv' /\ FileInv'
  BY <1>1 DEF TypeOK, VersionsInv, JobInv, InactiveInv, FileInv, inactiveSlot
<1>4. DevmapInv' /\ LiveTargetsPresent'
  <2>1. rc'.version = job.v /\ KeysUsed(job.v) = KeysOf[job.v]
    BY <1>1 DEF KeysUsed
  <2>2. LiveTargetsPresent'
    BY <2>1 DEF DevmapInv, LiveTargetsPresent, KeysUsed
  <2>3. DevmapInv'
    BY DEF DevmapInv, KeysUsed
  <2> QED
    BY <2>2, <2>3
<1>5. LiveSlotWhole' /\ SavedSlotWhole'
  BY <1>1 DEF InactiveInv, LiveSlotWhole, SavedSlotWhole, Content
<1> QED
  BY <1>2, <1>3, <1>4, <1>5

\* The rename: file, runtime_config and memory agree again, whatever happened
\* before.
LEMMA PersistKeeps ==
  ASSUME IInv, PersistLastValid
  PROVE  IInv'
<1> USE VersionAssumption, PolicyAssumption, DevmapAssumption
    DEF IInv, PersistLastValid, LastValidFromPolicySnapshot, kernel, Slot,
        NoIf, Served, Applying, BeforeFlip, Undoing, DefaultVersion
<1>1. /\ job.v \in Version \ {0, DefaultVersion}
      /\ inactiveSlot \in Slot
      /\ rc = [slot |-> inactiveSlot, version |-> job.v]
      /\ tbl[inactiveSlot] = Policy[job.v]
      /\ \A k \in KeysOf[job.v] : dev[k] # NoIf
  BY DEF TypeOK, JobInv, InactiveInv, DevmapInv, Config, Job, inactiveSlot
<1>2. /\ file' = [slot |-> inactiveSlot, version |-> job.v, policy |-> job.v]
      /\ snap' = file'
  OBVIOUS
<1>3. TypeOK'
  <2>1. job.v \in Nat
    BY <1>1
  <2>2. file' \in LastValid
    BY <1>1, <1>2, <2>1 DEF LastValid
  <2> QED
    BY <1>2, <2>2, JobTyping DEF TypeOK
<1>4. VersionsInv' /\ JobInv' /\ InactiveInv' /\ FileInv'
  BY <1>1, <1>2
  DEF VersionsInv, JobInv, InactiveInv, FileInv, RuntimeConfig
<1>5. DevmapInv' /\ LiveTargetsPresent'
  BY <1>1, <1>2 DEF DevmapInv, LiveTargetsPresent, KeysUsed
<1>6. LiveSlotWhole' /\ SavedSlotWhole'
  BY <1>1, <1>2 DEF LiveSlotWhole, SavedSlotWhole, Content
<1> QED
  BY <1>3, <1>4, <1>5, <1>6

\* The first start, or a start without a valid file.
LEMMA CreateSnapshotKeeps ==
  ASSUME IInv, CreateSnapshot
  PROVE  IInv'
<1> USE VersionAssumption, PolicyAssumption, DevmapAssumption
    DEF IInv, CreateSnapshot, DefaultSnapshot, NoFile, kernel, Slot, NoIf,
        Served, Applying, BeforeFlip, Undoing, DefaultVersion
<1>1. TypeOK'
  BY DEF TypeOK, LastValid
<1>2. VersionsInv' /\ JobInv' /\ InactiveInv' /\ FileInv'
  BY DEF VersionsInv, JobInv, InactiveInv, FileInv
<1>3. DevmapInv' /\ LiveTargetsPresent' /\ LiveSlotWhole'
  BY DEF DevmapInv, LiveTargetsPresent, KeysUsed, LiveSlotWhole, Content
<1>4. SavedSlotWhole'
  <2>1. ASSUME ~suspect' PROVE tbl[0] = {}
    <3>1. ~suspect /\ file = NoFile
      BY <2>1, Zenon
    <3> QED
      BY <3>1 DEF SavedSlotWhole, Content
  <2> QED
    BY <2>1 DEF SavedSlotWhole, Content
<1> QED
  BY <1>1, <1>2, <1>3, <1>4

\* A reboot or a detach: the process is gone, and after a reboot every kernel
\* map is empty.
LEMMA StopKeeps ==
  ASSUME IInv, Reboot \/ CloseDetached
  PROVE  IInv'
<1> USE DEF IInv, Reboot, CloseDetached, Exit, NoConfig, NoFile, Slot, NoIf,
            Served, Applying, BeforeFlip, Undoing
<1>1. TypeOK'
  <2>1. NoConfig \in Config /\ NoFile \in LastValid
    BY DEF Config, LastValid
  <2>2. CASE Reboot
    BY <2>1, <2>2, JobTyping DEF TypeOK
  <2>3. CASE CloseDetached
    BY <2>1, <2>3, JobTyping DEF TypeOK
  <2> QED
    BY <2>2, <2>3
<1>2. VersionsInv' /\ JobInv' /\ InactiveInv' /\ FileInv'
  BY DEF VersionsInv, JobInv, InactiveInv, FileInv
<1>3. DevmapInv' /\ LiveTargetsPresent' /\ LiveSlotWhole' /\ SavedSlotWhole'
  BY DEF DevmapInv, LiveTargetsPresent, LiveSlotWhole, SavedSlotWhole, KeysUsed,
         Content
<1> QED
  BY <1>1, <1>2, <1>3

-----------------------------------------------------------------------------

\* IInv holds of a host on which the agent has never run: empty maps, no
\* last-valid file, no link (loader.go:173-180).
LEMMA InitIInv == Init => IInv
<1> SUFFICES ASSUME Init PROVE IInv
  OBVIOUS
<1> USE VersionAssumption, PolicyAssumption, DevmapAssumption
    DEF IInv, Init, NoConfig, NoFile, Slot, NoIf, Served, Applying, BeforeFlip,
        Undoing, DefaultVersion
<1>1. TypeOK
  BY JobTyping DEF TypeOK, Config, LastValid
<1>2. VersionsInv /\ JobInv /\ InactiveInv /\ FileInv
  BY DEF VersionsInv, JobInv, InactiveInv, FileInv
<1>3. DevmapInv /\ LiveTargetsPresent /\ LiveSlotWhole /\ SavedSlotWhole
  BY DEF DevmapInv, LiveTargetsPresent, LiveSlotWhole, SavedSlotWhole, KeysUsed,
         Content
<1> QED
  BY <1>1, <1>2, <1>3

\* Every step of the agent and of its environment preserves IInv.
LEMMA NextKeepsIInv == IInv /\ [Next]_vars => IInv'
<1> SUFFICES ASSUME IInv, [Next]_vars PROVE IInv'
  OBVIOUS
<1> USE VersionAssumption, PolicyAssumption, DevmapAssumption
    DEF kernel, Slot, NoIf, DefaultVersion, Served, Applying, BeforeFlip,
        Undoing, inactiveSlot, Config, LastValid, Job, NoConfig, NoFile,
        NewJob, NoTargets, NoJob, RuntimeConfig, Exit, ApplyFailed
<1> USE DEF IInv, TypeOK, VersionsInv, JobInv, InactiveInv, FileInv, DevmapInv,
        LiveSlotWhole, SavedSlotWhole, LiveTargetsPresent, KeysUsed, Content
<1>1. CASE UNCHANGED vars
  BY <1>1 DEF vars
<1>2. CASE LoadSnapshot
  BY <1>2 DEF LoadSnapshot, FileVerifies
<1>3. CASE SeedRuntimeConfig
  BY <1>3 DEF SeedRuntimeConfig
<1>4. CASE AttachOrUpdateLink
  BY <1>4 DEF AttachOrUpdateLink
<1>5. CASE StartFails
  BY <1>5 DEF StartFails
<1>6. CASE ClearEntry
  BY <1>6 DEF ClearEntry
<1>7. CASE ClearDone
  BY <1>7 DEF ClearDone
<1>8. CASE ClearFails
  BY <1>8 DEF ClearFails
<1>9. CASE PopulateDone
  BY <1>9, ZenonT(30) DEF PopulateDone
<1>10. CASE PopulateFails
  BY <1>10 DEF PopulateFails
<1>11. CASE UpdateDevmapDone
  BY <1>11 DEF UpdateDevmapDone, pendingKeys
<1>12. CASE UpdateDevmapFails
  BY <1>12 DEF UpdateDevmapFails, pendingKeys
<1>13. CASE FlipFails
  BY <1>13 DEF FlipFails
<1>14. CASE PersistFails
  BY <1>14 DEF PersistFails
<1>15. CASE PersistAndRestoreFail
  BY <1>15 DEF PersistAndRestoreFail
<1>16. CASE UndoDevmapKey
  BY <1>16 DEF UndoDevmapKey
<1>17. CASE UndoDevmapDone
  BY <1>17 DEF UndoDevmapDone
<1>18. CASE UndoClearEnds
  BY <1>18 DEF UndoClearEnds
<1>19. CASE Crash
  BY <1>19 DEF Crash
<1>20. CASE LoseFile
  BY <1>20 DEF LoseFile
<1>21. ASSUME NEW v \in Version, PlaceRawPolicy(v) PROVE IInv'
  BY <1>21 DEF PlaceRawPolicy, LastValidFromPolicySnapshot
<1>22. ASSUME NEW v \in Version, Expire(v) PROVE IInv'
  BY <1>22 DEF Expire
<1>23. ASSUME NEW v \in Version, BeginSync(v) PROVE IInv'
  <2> pc \in {"idle", "bootstrap"} /\ BeginApply(v, FALSE)
    BY <1>23 DEF BeginSync
  <2> HIDE DEF IInv
  <2> QED
    BY BeginApplyKeeps
<1>24. CASE BeginBootstrap
  <2> PICK b \in Version : BeginApply(b, TRUE)
    BY <1>24 DEF BeginBootstrap
  <2> pc \in {"idle", "bootstrap"}
    BY <1>24 DEF BeginBootstrap
  <2> HIDE DEF IInv
  <2> QED
    BY BeginApplyKeeps
<1> HIDE DEF IInv
<1>25. CASE CreateSnapshot
  BY <1>25, CreateSnapshotKeeps
<1>26. CASE PopulateEntry
  BY <1>26, PopulateEntryKeeps
<1>27. CASE UpdateDevmapKey
  BY <1>27, UpdateDevmapKeyKeeps
<1>28. CASE FlipRuntimeConfig
  BY <1>28, FlipKeeps
<1>29. CASE PersistLastValid
  BY <1>29, PersistKeeps
<1>30. CASE Reboot \/ CloseDetached
  BY <1>30, StopKeeps
<1> QED
  BY <1>1, <1>2, <1>3, <1>4, <1>5, <1>6, <1>7, <1>8, <1>9, <1>10, <1>11, <1>12, <1>13, <1>14, <1>15, <1>16, <1>17, <1>18, <1>19, <1>20, <1>21, <1>22, <1>23, <1>24, <1>25, <1>26, <1>27, <1>28, <1>29, <1>30
  DEF Next, StartStep, ApplyStep, EnvironmentStep

\* IInv holds in every reachable state.
THEOREM Invariance == Spec => []IInv
<1>1. Init => IInv
  BY InitIInv
<1>2. IInv /\ [Next]_vars => IInv'
  BY NextKeepsIInv
<1> QED
  BY <1>1, <1>2, PTL DEF Spec

\* Type correctness of the agent, the pinned maps and the file.
THEOREM TypeCorrect == Spec => []TypeOK
<1>1. IInv => TypeOK
  BY DEF IInv
<1> QED
  BY <1>1, Invariance, PTL

\* The live slot is always one whole policy, whatever step of
\* ApplyPolicySnapshot fails and wherever the process dies.
THEOREM LiveSlotIsWhole == Spec => []LiveSlotWhole
<1>1. IInv => LiveSlotWhole
  BY DEF IInv
<1> QED
  BY <1>1, Invariance, PTL

\* The slot a restart would go back to is always one whole policy.
THEOREM SavedSlotIsWhole == Spec => []SavedSlotWhole
<1>1. IInv => SavedSlotWhole
  BY DEF IInv
<1> QED
  BY <1>1, Invariance, PTL

\* runtime_config, the last-valid file and Runtime.Snapshot agree whenever no
\* apply is running.
THEOREM RecordsAlwaysAgree == Spec => []RecordsAgree
<1>1. IInv => RecordsAgree
  BY DEF IInv, FileInv, RecordsAgree
<1> QED
  BY <1>1, Invariance, PTL

\* Every devmap key of the live policy has a target.
THEOREM LiveTargetsArePresent == Spec => []LiveTargetsPresent
<1>1. IInv => LiveTargetsPresent
  BY DEF IInv
<1> QED
  BY <1>1, Invariance, PTL

-----------------------------------------------------------------------------

\* The only steps that write tx_devmap.
LEMMA DevmapWriters ==
  ASSUME [Next]_vars
  PROVE  dev' = dev \/ UpdateDevmapKey \/ UndoDevmapKey \/ Reboot
  BY DEF Next, vars, kernel, StartStep, LoadSnapshot, CreateSnapshot,
         SeedRuntimeConfig, AttachOrUpdateLink, StartFails, BeginBootstrap,
         BeginSync, BeginApply, ApplyStep, ClearEntry, ClearDone, ClearFails,
         PopulateEntry, PopulateDone, PopulateFails, UpdateDevmapDone,
         UpdateDevmapFails, FlipRuntimeConfig, FlipFails, PersistLastValid,
         PersistFails, PersistAndRestoreFail, UndoDevmapDone, UndoClearEnds,
         EnvironmentStep, Crash, CloseDetached, LoseFile, PlaceRawPolicy, Expire

\* No step of an apply or of its rollback redirects a service of the live
\* policy to another interface.
THEOREM LiveTargetsAreStable == Spec => LiveTargetsStable
<1> DEFINE Stable == ~suspect /\ ~suspect' =>
                       \A k \in KeysUsed(rc.version) : dev'[k] = dev[k]
<1>1. IInv /\ [Next]_vars => [Stable]_vars
  <2> SUFFICES ASSUME IInv, [Next]_vars, ~suspect, ~suspect',
                      NEW k \in KeysUsed(rc.version)
               PROVE  dev'[k] = dev[k]
    OBVIOUS
  <2> USE VersionAssumption, DevmapAssumption
      DEF IInv, TypeOK, Job, Applying, BeforeFlip, Undoing, Served, NoIf
  <2>1. k \in DevKey /\ dev[k] # NoIf
    BY DEF VersionsInv, LiveTargetsPresent, KeysUsed
  <2>2. CASE UpdateDevmapKey
    BY <2>1, <2>2 DEF UpdateDevmapKey
  <2>3. CASE UndoDevmapKey
    BY <2>1, <2>3 DEF UndoDevmapKey, DevmapInv, JobInv
  <2>4. CASE Reboot
    BY <2>4 DEF Reboot
  <2> QED
    BY <2>2, <2>3, <2>4, DevmapWriters
<1> QED
  BY <1>1, Invariance, PTL DEF Spec, LiveTargetsStable

\* The agent implements DurablePolicy: each step of an apply, of its rollback,
\* of a start-up or of the environment is one of its steps or changes nothing
\* that it can see.
THEOREM Refinement == Spec => ImplementsDurable
<1> USE VersionAssumption, PolicyAssumption
    DEF Durable!vars, Slot, kernel, DefaultVersion
<1>1. Init => Durable!Init
  BY DEF Init, Durable!Init, NoConfig, NoFile, Content
<1>2. IInv /\ [Next]_vars => [Durable!Next]_(Durable!vars)
  <2> SUFFICES ASSUME IInv, [Next]_vars
               PROVE  Durable!Next \/ UNCHANGED Durable!vars
    OBVIOUS
  <2>1. CASE suspect'
    BY <2>1 DEF Durable!Next, Durable!Damage
  <2>2. CASE ~suspect' /\ suspect
    <3>1. PersistLastValid
      BY <2>2 DEF Next, vars, StartStep, LoadSnapshot, CreateSnapshot,
         SeedRuntimeConfig, AttachOrUpdateLink, StartFails, BeginBootstrap,
         BeginSync, BeginApply, ApplyStep, ClearEntry, ClearDone, ClearFails,
         PopulateEntry, PopulateDone, PopulateFails, UpdateDevmapKey,
         UpdateDevmapDone, UpdateDevmapFails, FlipRuntimeConfig, FlipFails,
         PersistFails, PersistAndRestoreFail, UndoDevmapKey, UndoDevmapDone,
         UndoClearEnds, EnvironmentStep, Crash, CloseDetached, Reboot, LoseFile,
         PlaceRawPolicy, Expire
    <3>2. job.v \in Version \ {0, DefaultVersion}
      <4>1. job.v \in Version /\ job.cur.version \in Served \ {0}
            /\ job.v > job.cur.version
        BY <3>1 DEF PersistLastValid, IInv, JobInv, Applying
      <4> QED
        BY <4>1, NewerIsNotDefault
    <3>3. Durable!Repair(job.v)
      BY <2>2, <3>1, <3>2
      DEF PersistLastValid, Durable!Repair, IInv, JobInv, InactiveInv, Applying,
          LastValidFromPolicySnapshot, Content
    <3> QED
      BY <3>2, <3>3 DEF Durable!Next
  <2>3. CASE ~suspect' /\ ~suspect
    <3> USE <2>3 DEF IInv
    <3>1. CASE CreateSnapshot
      <4>1. file = NoFile
        BY <3>1, Zenon DEF CreateSnapshot
      <4> QED
        BY <3>1, <4>1 DEF CreateSnapshot, DefaultSnapshot, NoFile,
                          Durable!Next, Durable!Create
    <3>2. CASE SeedRuntimeConfig
      <4>1. rc'.version = file.version /\ rc'.slot = file.slot
        BY <3>2 DEF SeedRuntimeConfig, FileInv, RuntimeConfig
      <4> QED
        BY <3>2, <4>1 DEF SeedRuntimeConfig, SavedSlotWhole, Durable!Next,
                          Durable!Resume
    <3>3. CASE FlipRuntimeConfig
      <4>1. /\ job.v \in Version \ {0, DefaultVersion}
            /\ rc.version = file.version
            /\ job.v > rc.version
        <5>1. job.v \in Version /\ job.cur.version \in Served \ {0}
              /\ job.v > job.cur.version /\ rc = job.cur
          BY <3>3 DEF FlipRuntimeConfig, JobInv, Applying, BeforeFlip
        <5>2. file = snap /\ job.cur = RuntimeConfig(snap)
          BY <3>3 DEF FlipRuntimeConfig, FileInv, Applying, BeforeFlip
        <5>3. job.v \notin {0, DefaultVersion}
          BY <5>1, NewerIsNotDefault
        <5> QED
          BY <5>1, <5>2, <5>3 DEF RuntimeConfig
      <4>2. Durable!Switch(job.v)
        BY <3>3, <4>1 DEF FlipRuntimeConfig, InactiveInv, Content,
                          Durable!Switch
      <4> QED
        BY <4>1, <4>2 DEF Durable!Next
    <3>4. CASE PersistLastValid
      BY <3>4 DEF PersistLastValid, LastValidFromPolicySnapshot, JobInv,
                  Applying, Durable!Next, Durable!Commit
    <3>5. CASE PersistFails
      <4>1. rc'.version = file.version /\ rc'.slot = file.slot
        BY <3>5 DEF PersistFails, FileInv, RuntimeConfig, Applying
      <4> QED
        BY <3>5, <4>1 DEF PersistFails, SavedSlotWhole, Durable!Next,
                          Durable!Resume
    <3>6. CASE ClearEntry \/ PopulateEntry
      <4>1. rc.slot = job.cur.slot /\ rc.slot \in Slot
        BY <3>6 DEF ClearEntry, PopulateEntry, JobInv, Applying, BeforeFlip,
                    Undoing, TypeOK, Config
      <4>2. tbl'[rc.slot] = tbl[rc.slot]
        BY <3>6, <4>1 DEF ClearEntry, PopulateEntry, TypeOK, inactiveSlot
      <4> QED
        BY <3>6, <4>2 DEF ClearEntry, PopulateEntry
    <3>7. CASE LoadSnapshot
      BY <3>7 DEF LoadSnapshot
    <3>8. CASE AttachOrUpdateLink
      BY <3>8 DEF AttachOrUpdateLink
    <3>9. CASE StartFails
      BY <3>9 DEF StartFails
    <3>10. CASE BeginBootstrap
      BY <3>10 DEF BeginBootstrap, BeginApply
    <3>11. CASE ClearDone
      BY <3>11 DEF ClearDone
    <3>12. CASE ClearFails
      BY <3>12 DEF ClearFails
    <3>13. CASE PopulateDone
      BY <3>13 DEF PopulateDone
    <3>14. CASE PopulateFails
      BY <3>14 DEF PopulateFails
    <3>15. CASE UpdateDevmapKey
      BY <3>15 DEF UpdateDevmapKey
    <3>16. CASE UpdateDevmapDone
      BY <3>16 DEF UpdateDevmapDone
    <3>17. CASE UpdateDevmapFails
      BY <3>17 DEF UpdateDevmapFails
    <3>18. CASE FlipFails
      BY <3>18 DEF FlipFails
    <3>19. CASE UndoDevmapKey
      BY <3>19 DEF UndoDevmapKey
    <3>20. CASE UndoDevmapDone
      BY <3>20 DEF UndoDevmapDone
    <3>21. CASE UndoClearEnds
      BY <3>21 DEF UndoClearEnds
    <3>22. CASE Crash
      BY <3>22 DEF Crash
    <3>23. CASE CloseDetached
      BY <3>23 DEF CloseDetached
    <3>24. CASE \E v \in Version : BeginSync(v) \/ Expire(v)
      BY <3>24 DEF BeginSync, BeginApply, Expire
    <3>25. CASE UNCHANGED vars
      BY <3>25 DEF vars
    <3>26. ~(PersistAndRestoreFail \/ Reboot \/ LoseFile)
            /\ \A v \in Version : ~PlaceRawPolicy(v)
      BY DEF PersistAndRestoreFail, Reboot, LoseFile, PlaceRawPolicy
    <3> QED
      BY <3>1, <3>2, <3>3, <3>4, <3>5, <3>6, <3>7, <3>8, <3>9, <3>10, <3>11, <3>12, <3>13, <3>14, <3>15, <3>16, <3>17, <3>18, <3>19, <3>20, <3>21, <3>22, <3>23, <3>24, <3>25, <3>26
      DEF Next, StartStep, ApplyStep, EnvironmentStep
  <2> QED
    BY <2>1, <2>2, <2>3
<1> QED
  BY <1>1, <1>2, Invariance, PTL DEF Spec, ImplementsDurable, Durable!Spec

-----------------------------------------------------------------------------
(* DataPlane *)

\* The tables of the agent and of the program are the same maps.
LEMMA SameTables ==
  /\ Xdp!Whitelist = Whitelist /\ Xdp!Blacklist = Blacklist /\ Xdp!UDPBlocks = UDPBlocks
  /\ Xdp!Services = Services /\ Xdp!Rules = Rules
  /\ Xdp!Slot = Slot /\ Xdp!NoIf = NoIf /\ Xdp!Global = 0
  BY DEF Xdp!Whitelist, Whitelist, Xdp!Blacklist, Blacklist, Xdp!UDPBlocks, UDPBlocks,
         Xdp!Services, Services, Xdp!Rules, Rules, Xdp!Slot, Slot, Xdp!NoIf, NoIf, Xdp!Global

\* A lookup for every service and one for the service itself make a list.
LEMMA ListedByLookups ==
  ASSUME NEW S, NEW table, NEW s, NEW p
  PROVE  ~Listed(S, table, s, p) <=>
           Missed(S, table, 0, p) /\ Missed(S, table, Row[s].service, p)
  BY DEF Listed, Missed, Xdp!Matching

\* The locals of the program at the points where it goes on.
LEMMA PacketTypes ==
  /\ Xdp!Idle \in PacketRecord /\ Xdp!Idle.at = "idle"
  /\ \A p \in Packet \cup {NoEntry}, ret \in Returned, reason \in Reason :
       /\ Xdp!Finished(p, ret, reason) \in PacketRecord
       /\ Xdp!Finished(p, ret, reason).at = "done"
       /\ Xdp!Finished(p, ret, reason).p = p
       /\ Xdp!Finished(p, ret, reason).ret = ret
       /\ Xdp!Finished(p, ret, reason).reason = reason
  /\ \A at \in Xdp!Lookups \cup {"neighbor", "redirect"}, p \in Packet \cup {NoEntry},
        svc \in Entry \cup {NoEntry}, wl \in BOOLEAN :
       LET m == Xdp!Meta(at, p, svc, wl) IN
       /\ m \in PacketRecord /\ m.at = at /\ m.p = p /\ m.slot = Xdp!NoSlot
       /\ m.svc = svc /\ m.wl = wl
<1>1. Xdp!Idle \in PacketRecord /\ Xdp!Idle.at = "idle"
  BY DEF Xdp!Idle, Xdp!Meta, PacketRecord, Xdp!NoSlot, Returned, Reason
<1>2. ASSUME NEW p \in Packet \cup {NoEntry}, NEW ret \in Returned, NEW reason \in Reason
      PROVE  /\ Xdp!Finished(p, ret, reason) \in PacketRecord
             /\ Xdp!Finished(p, ret, reason).at = "done"
             /\ Xdp!Finished(p, ret, reason).p = p
             /\ Xdp!Finished(p, ret, reason).ret = ret
             /\ Xdp!Finished(p, ret, reason).reason = reason
  BY DEF Xdp!Finished, PacketRecord, Xdp!NoSlot
<1>3. ASSUME NEW at \in Xdp!Lookups \cup {"neighbor", "redirect"}, NEW p \in Packet \cup {NoEntry},
             NEW svc \in Entry \cup {NoEntry}, NEW wl \in BOOLEAN
      PROVE  LET m == Xdp!Meta(at, p, svc, wl) IN
             /\ m \in PacketRecord /\ m.at = at /\ m.p = p /\ m.slot = Xdp!NoSlot
             /\ m.svc = svc /\ m.wl = wl
  BY DEF Xdp!Meta, PacketRecord, Xdp!NoSlot, Returned, Reason
<1> QED
  BY <1>1, <1>2, <1>3

\* The program goes on, with the packet it has and what it has found.
LEMMA GoesOn ==
  ASSUME PacketInv, UNCHANGED <<vars, seen>>, pkt.at \notin {"idle", "done"},
         NEW at \in Xdp!Lookups \cup {"neighbor", "redirect"}, at # "service",
         NEW svc \in Entry, NEW wl \in BOOLEAN, pkt' = Xdp!Meta(at, pkt.p, svc, wl),
         seen = {LivePolicy} => FoundInv(tbl[rc.slot])'
  PROVE  PacketInv'
<1>1. pkt.p \in Packet /\ Parse[pkt.p] = "ok"
  BY DEF PacketInv
<1>2. pkt' \in PacketRecord /\ pkt'.p = pkt.p /\ pkt'.slot = Xdp!NoSlot /\ pkt'.svc = svc
  BY <1>1, PacketTypes
<1>3. UNCHANGED <<rc, tbl, seen, LivePolicy>>
  BY DEF vars, LivePolicy
<1> QED
  BY <1>1, <1>2, <1>3 DEF PacketInv

\* The program returns.
LEMMA Returns ==
  ASSUME PacketInv, pkt.at \notin {"idle", "done"},
         NEW ret \in Returned, NEW reason \in Reason, Xdp!Return(ret, reason)
  PROVE  PacketInv' /\ pkt'.at = "done" /\ pkt'.p = pkt.p /\ Verdict' = [ret |-> ret, reason |-> reason]
<1>1. pkt.p \in Packet
  BY DEF PacketInv
<1> QED
  BY <1>1, PacketTypes DEF PacketInv, Xdp!Return, Verdict

\* A lookup reads the live slot, if the policy has not changed.
LEMMA SlotRead ==
  ASSUME PacketInv, pkt.at \notin {"idle", "done"}, pkt.slot # Xdp!NoSlot, seen = {LivePolicy}
  PROVE  pkt.slot = rc.slot
  BY DEF PacketInv

LEMMA ReadKeeps ==
  ASSUME IInv, PacketInv, Xdp!ReadActiveSlot, UNCHANGED <<vars, seen>>
  PROVE  PacketInv' /\ pkt'.at # "done"
<1>1. pkt \in PacketRecord /\ rc.slot \in Slot /\ pkt.at \in Xdp!Lookups
  BY DEF PacketInv, IInv, TypeOK, Config, Xdp!ReadActiveSlot
<1>2. pkt' = [pkt EXCEPT !.slot = rc.slot]
  BY DEF Xdp!ReadActiveSlot
<1>3. /\ pkt' \in PacketRecord /\ pkt'.slot = rc.slot
      /\ pkt'.at = pkt.at /\ pkt'.p = pkt.p /\ pkt'.svc = pkt.svc /\ pkt'.wl = pkt.wl
  BY <1>1, <1>2 DEF PacketRecord
<1>4. UNCHANGED <<rc, tbl, seen, LivePolicy>>
  BY DEF vars, LivePolicy
<1>5. ASSUME NEW S PROVE FoundInv(S)' <=> FoundInv(S)
  BY <1>3 DEF FoundInv, Missed
<1>6. pkt.at \notin {"idle", "done"}
  BY <1>1 DEF Xdp!Lookups
<1> QED
  BY <1>3, <1>4, <1>5, <1>6 DEF PacketInv

\* What the packet is told, if it is told something now, is what the live policy says.
Judged ==
  pkt'.at = "done" /\ ~suspect /\ seen = {LivePolicy} => Verdict' \in Verdicts(LivePolicy, pkt.p)

\* The verdicts of the service it has found are verdicts of the policy.
LEMMA ServiceSays ==
  ASSUME PacketInv, pkt.at \notin {"idle", "service", "done"}, seen = {LivePolicy},
         NEW v \in ServiceVerdicts(tbl[rc.slot], pkt.svc, pkt.p)
  PROVE  v \in Verdicts(LivePolicy, pkt.p)
<1>1. /\ rc.version # 0 /\ Parse[pkt.p] = "ok"
      /\ pkt.svc \in tbl[rc.slot] /\ TableOf[pkt.svc] = Services /\ pkt.p \in Row[pkt.svc].match
  BY DEF PacketInv, FoundInv
<1>2. LivePolicy.rows = tbl[rc.slot] /\ LivePolicy.version = rc.version
  BY DEF LivePolicy
<1> QED
  BY <1>1, <1>2 DEF Verdicts

\* The facts that every step behind the first lookup begins with.
LEMMA InFlight ==
  ASSUME IInv, PacketInv, pkt.at \notin {"idle", "service", "done"}, seen = {LivePolicy}
  PROVE  FoundInv(tbl[rc.slot])
  BY DEF PacketInv

LEMMA ServiceKeeps ==
  ASSUME IInv, PacketInv, Xdp!LookupService, UNCHANGED <<vars, seen>>
  PROVE  PacketInv' /\ Judged
<1>1. /\ pkt.at = "service" /\ pkt.slot # Xdp!NoSlot /\ pkt \in PacketRecord
      /\ pkt.p \in Packet /\ Parse[pkt.p] = "ok"
  BY DEF Xdp!LookupService, PacketInv
<1> DEFINE found == {e \in tbl[pkt.slot] : TableOf[e] = Services /\ pkt.p \in Row[e].match}
<1>2. pkt.slot \in Slot /\ tbl[pkt.slot] \subseteq Entry
  BY <1>1 DEF PacketRecord, IInv, TypeOK
<1>3. CASE found = {} /\ Xdp!Drop("NOT_ALLOWED_SERVICE")
  <2>1. PacketInv' /\ Verdict' = Dropped("NOT_ALLOWED_SERVICE")
    BY <1>1, <1>3, Returns DEF Xdp!Drop, Dropped, Returned, Reason
  <2>2. ASSUME seen = {LivePolicy}
        PROVE  Dropped("NOT_ALLOWED_SERVICE") \in Verdicts(LivePolicy, pkt.p)
    <3>1. pkt.slot = rc.slot /\ rc.version # 0
      BY <1>1, <2>2, SlotRead DEF PacketInv
    <3>2. LivePolicy.rows = tbl[rc.slot] /\ LivePolicy.version = rc.version
      BY DEF LivePolicy
    <3> QED
      BY <1>1, <1>3, <3>1, <3>2 DEF Verdicts
  <2> QED
    BY <2>1, <2>2 DEF Judged
<1>4. ASSUME NEW e \in found, pkt' = Xdp!Meta("wl_global", pkt.p, e, FALSE)
      PROVE  PacketInv' /\ Judged
  <2>1. e \in Entry /\ "wl_global" \in Xdp!Lookups
    BY <1>2 DEF Xdp!Lookups
  <2>2. pkt'.at = "wl_global" /\ pkt'.p = pkt.p /\ pkt'.svc = e /\ pkt'.wl = FALSE
    BY <1>4 DEF Xdp!Meta
  <2>3. seen = {LivePolicy} => FoundInv(tbl[rc.slot])'
    <3>1. ASSUME seen = {LivePolicy} PROVE e \in (tbl[rc.slot])' /\ pkt'.p \in Row[e].match /\ TableOf[e] = Services
      BY <1>1, <3>1, <2>2, SlotRead DEF vars
    <3> QED
      BY <2>2, <3>1 DEF FoundInv
  <2>4. PacketInv'
    BY <1>1, <1>4, <2>1, <2>3, GoesOn
  <2> QED
    BY <2>2, <2>4 DEF Judged
<1>5. \/ found = {} /\ Xdp!Drop("NOT_ALLOWED_SERVICE")
      \/ \E e \in found : pkt' = Xdp!Meta("wl_global", pkt.p, e, FALSE)
  BY SameTables DEF Xdp!LookupService
<1> HIDE DEF found
<1> QED
  BY <1>3, <1>4, <1>5

\* A lookup for a service id that hits or misses puts the packet on the list or not.
LEMMA Hits ==
  ASSUME NEW S, NEW table, NEW s, NEW p, NEW id \in {0, Row[s].service},
         Xdp!Matching(S, table, id, p) # {}
  PROVE  Listed(S, table, s, p)
  BY ListedByLookups DEF Missed

LEMMA WhitelistKeeps ==
  ASSUME IInv, PacketInv, Xdp!LookupWhitelist \/ Xdp!LookupServiceWhitelist, UNCHANGED <<vars, seen>>
  PROVE  PacketInv' /\ Judged
<1>1. /\ pkt.at \in {"wl_global", "wl_service"} /\ pkt.slot # Xdp!NoSlot /\ pkt \in PacketRecord
      /\ pkt.p \in Packet /\ pkt.svc \in Entry
  BY DEF Xdp!LookupWhitelist, Xdp!LookupServiceWhitelist, Xdp!Lookup, PacketInv
<1>2. PICK id : /\ id = IF pkt.at = "wl_global" THEN 0 ELSE Row[pkt.svc].service
                /\ IF Xdp!Matching(tbl[pkt.slot], Whitelist, id, pkt.p) # {}
                   THEN pkt' = Xdp!Meta("bl_service", pkt.p, pkt.svc, TRUE)
                   ELSE pkt' = Xdp!Meta(IF pkt.at = "wl_global" THEN "wl_service" ELSE "bl_service",
                                        pkt.p, pkt.svc, pkt.wl)
  BY SameTables DEF Xdp!LookupWhitelist, Xdp!LookupServiceWhitelist, Xdp!Lookup, Xdp!GoTo, Xdp!ServiceId
<1>3. PICK at \in {"wl_service", "bl_service"}, wl \in BOOLEAN : pkt' = Xdp!Meta(at, pkt.p, pkt.svc, wl)
  BY <1>1, <1>2 DEF PacketRecord
<1>4. at \in Xdp!Lookups /\ pkt'.at = at /\ pkt'.p = pkt.p /\ pkt'.svc = pkt.svc /\ pkt'.wl = wl
  BY <1>3 DEF Xdp!Meta, Xdp!Lookups
<1>5. ASSUME seen = {LivePolicy} PROVE FoundInv(tbl[rc.slot])'
  <2>1. pkt.slot = rc.slot /\ FoundInv(tbl[rc.slot]) /\ UNCHANGED <<rc, tbl>>
    BY <1>1, <1>5, SlotRead, InFlight DEF vars
  <2>2. PICK S : S = tbl[rc.slot]
    OBVIOUS
  <2>3. CASE Xdp!Matching(S, Whitelist, id, pkt.p) # {}
    <3>1. at = "bl_service" /\ wl = TRUE
      BY <1>2, <1>4, <2>1, <2>2, <2>3 DEF Xdp!Meta
    <3>2. Listed(S, Whitelist, pkt.svc, pkt.p)
      BY <1>2, <2>3, Hits
    <3> QED
      BY <1>4, <2>1, <2>2, <3>1, <3>2 DEF FoundInv
  <2>4. CASE Xdp!Matching(S, Whitelist, id, pkt.p) = {}
    <3>1. /\ at = IF pkt.at = "wl_global" THEN "wl_service" ELSE "bl_service"
          /\ wl = FALSE
      BY <1>1, <1>2, <1>4, <2>1, <2>2, <2>4 DEF Xdp!Meta, FoundInv
    <3>2. CASE pkt.at = "wl_global"
      BY <1>2, <1>4, <2>1, <2>2, <2>4, <3>1, <3>2 DEF FoundInv, Missed
    <3>3. CASE pkt.at = "wl_service"
      <4>1. ~Listed(S, Whitelist, pkt.svc, pkt.p)
        BY <1>2, <2>1, <2>2, <2>4, <3>3, ListedByLookups DEF FoundInv, Missed
      <4> QED
        BY <1>4, <2>1, <2>2, <3>1, <3>3, <4>1 DEF FoundInv
    <3> QED
      BY <1>1, <3>2, <3>3
  <2> QED
    BY <2>3, <2>4
<1>6. PacketInv'
  BY <1>1, <1>3, <1>4, <1>5, GoesOn
<1> QED
  BY <1>4, <1>6 DEF Judged

\* Past the blacklist lookups: a packet that is on no blacklist, or whitelisted.
LEMMA PassKeeps ==
  ASSUME IInv, PacketInv, pkt.at \in {"bl_service", "bl_global"}, Xdp!PassBlacklist,
         UNCHANGED <<vars, seen>>,
         seen = {LivePolicy} => pkt.wl \/ ~Listed(tbl[rc.slot], Blacklist, pkt.svc, pkt.p)
  PROVE  PacketInv' /\ Judged
<1>1. pkt \in PacketRecord /\ pkt.p \in Packet /\ pkt.svc \in Entry /\ pkt.wl \in BOOLEAN
  BY DEF PacketInv, PacketRecord
<1>2. PICK at : /\ at = IF ~pkt.wl /\ pkt.p \in UDP THEN "udp_service" ELSE "neighbor"
                /\ pkt' = Xdp!Meta(at, pkt.p, pkt.svc, pkt.wl)
  BY DEF Xdp!PassBlacklist, Xdp!GoTo
<1>3. /\ at \in Xdp!Lookups \cup {"neighbor"} /\ at # "service"
      /\ pkt'.at = at /\ pkt'.p = pkt.p /\ pkt'.svc = pkt.svc /\ pkt'.wl = pkt.wl
  BY <1>2 DEF Xdp!Meta, Xdp!Lookups
<1>4. ASSUME seen = {LivePolicy} PROVE FoundInv(tbl[rc.slot])'
  <2>1. FoundInv(tbl[rc.slot]) /\ UNCHANGED <<rc, tbl>>
    BY <1>4, InFlight DEF vars
  <2>2. PICK S : S = tbl[rc.slot]
    OBVIOUS
  <2>3. pkt.wl <=> Listed(S, Whitelist, pkt.svc, pkt.p)
    BY <2>1, <2>2 DEF FoundInv
  <2>4. at = "neighbor" => Threat(S, pkt.svc, pkt.p) = "none"
    BY <1>2, <1>4, <2>2, <2>3 DEF Threat
  <2> QED
    BY <1>2, <1>3, <1>4, <2>1, <2>2, <2>3, <2>4 DEF FoundInv
<1>5. PacketInv'
  BY <1>1, <1>2, <1>3, <1>4, GoesOn
<1> QED
  BY <1>2, <1>3, <1>5 DEF Judged

\* A drop for a threat is what the policy says.
LEMMA ThreatDrops ==
  ASSUME IInv, PacketInv, pkt.at \notin {"idle", "service", "done"},
         NEW reason \in {"BLACKLIST", "UDP_AMP_SOURCE_PORT"}, Xdp!Drop(reason),
         seen = {LivePolicy} => Threat(tbl[rc.slot], pkt.svc, pkt.p) = reason
  PROVE  PacketInv' /\ Judged
<1>1. PacketInv' /\ Verdict' = Dropped(reason)
  BY Returns DEF Xdp!Drop, Dropped, Returned, Reason
<1>2. ASSUME seen = {LivePolicy} PROVE Dropped(reason) \in Verdicts(LivePolicy, pkt.p)
  <2>1. Dropped(reason) \in ServiceVerdicts(tbl[rc.slot], pkt.svc, pkt.p)
    BY <1>2 DEF ServiceVerdicts
  <2> QED
    BY <1>2, <2>1, ServiceSays
<1> QED
  BY <1>1, <1>2 DEF Judged

LEMMA BlacklistKeeps ==
  ASSUME IInv, PacketInv, Xdp!LookupServiceBlacklist \/ Xdp!LookupBlacklist, UNCHANGED <<vars, seen>>
  PROVE  PacketInv' /\ Judged
<1>1. /\ pkt.at \in {"bl_service", "bl_global"} /\ pkt.slot # Xdp!NoSlot /\ pkt \in PacketRecord
      /\ pkt.p \in Packet /\ pkt.svc \in Entry /\ pkt.wl \in BOOLEAN
  BY DEF Xdp!LookupServiceBlacklist, Xdp!LookupBlacklist, Xdp!Lookup, PacketInv, PacketRecord
<1>2. PICK id : /\ id = IF pkt.at = "bl_global" THEN 0 ELSE Row[pkt.svc].service
                /\ IF Xdp!Matching(tbl[pkt.slot], Blacklist, id, pkt.p) # {} THEN Xdp!BlacklistHit
                   ELSE IF pkt.at = "bl_service" THEN Xdp!GoTo("bl_global") ELSE Xdp!PassBlacklist
  BY SameTables DEF Xdp!LookupServiceBlacklist, Xdp!LookupBlacklist, Xdp!Lookup, Xdp!ServiceId
<1>3. PICK S : S = tbl[rc.slot]
  OBVIOUS
<1>4. ASSUME seen = {LivePolicy}
      PROVE  pkt.slot = rc.slot /\ FoundInv(S) /\ (pkt.wl <=> Listed(S, Whitelist, pkt.svc, pkt.p))
  BY <1>1, <1>3, <1>4, SlotRead, InFlight DEF FoundInv
<1>5. CASE Xdp!Matching(tbl[pkt.slot], Blacklist, id, pkt.p) # {} /\ pkt.wl
  BY <1>1, <1>2, <1>5, PassKeeps DEF Xdp!BlacklistHit
<1>6. CASE Xdp!Matching(tbl[pkt.slot], Blacklist, id, pkt.p) # {} /\ ~pkt.wl
  <2>1. Xdp!Drop("BLACKLIST")
    BY <1>2, <1>6 DEF Xdp!BlacklistHit
  <2>2. ASSUME seen = {LivePolicy} PROVE Threat(S, pkt.svc, pkt.p) = "BLACKLIST"
    <3>1. Listed(S, Blacklist, pkt.svc, pkt.p)
      BY <1>2, <1>3, <1>4, <1>6, <2>2, Hits
    <3> QED
      BY <1>4, <1>6, <2>2, <3>1 DEF Threat
  <2> QED
    BY <1>1, <1>3, <2>1, <2>2, ThreatDrops
<1>7. CASE Xdp!Matching(tbl[pkt.slot], Blacklist, id, pkt.p) = {} /\ pkt.at = "bl_service"
  <2>1. pkt' = Xdp!Meta("bl_global", pkt.p, pkt.svc, pkt.wl)
    BY <1>2, <1>7 DEF Xdp!GoTo
  <2>2. /\ "bl_global" \in Xdp!Lookups /\ pkt'.at = "bl_global"
        /\ pkt'.p = pkt.p /\ pkt'.svc = pkt.svc /\ pkt'.wl = pkt.wl
    BY <2>1 DEF Xdp!Meta, Xdp!Lookups
  <2>3. ASSUME seen = {LivePolicy} PROVE FoundInv(tbl[rc.slot])'
    <3>1. FoundInv(S) /\ S = tbl'[rc'.slot] /\ Missed(S, Blacklist, Row[pkt.svc].service, pkt.p)
      BY <1>2, <1>3, <1>4, <1>7, <2>3 DEF vars, Missed
    <3> QED
      BY <1>4, <2>2, <2>3, <3>1 DEF FoundInv
  <2>4. PacketInv'
    BY <1>1, <2>1, <2>2, <2>3, GoesOn
  <2> QED
    BY <2>2, <2>4 DEF Judged
<1>8. CASE Xdp!Matching(tbl[pkt.slot], Blacklist, id, pkt.p) = {} /\ pkt.at = "bl_global"
  <2>1. Xdp!PassBlacklist
    BY <1>2, <1>8
  <2>2. ASSUME seen = {LivePolicy}, ~pkt.wl PROVE ~Listed(S, Blacklist, pkt.svc, pkt.p)
    BY <1>2, <1>3, <1>4, <1>8, <2>2, ListedByLookups DEF FoundInv, Missed
  <2> QED
    BY <1>1, <1>3, <2>1, <2>2, PassKeeps
<1> QED
  BY <1>1, <1>5, <1>6, <1>7, <1>8

LEMMA UDPBlockKeeps ==
  ASSUME IInv, PacketInv, Xdp!LookupServiceUDPBlock \/ Xdp!LookupUDPBlock, UNCHANGED <<vars, seen>>
  PROVE  PacketInv' /\ Judged
<1>1. /\ pkt.at \in {"udp_service", "udp_global"} /\ pkt.slot # Xdp!NoSlot /\ pkt \in PacketRecord
      /\ pkt.p \in Packet /\ pkt.svc \in Entry /\ pkt.wl \in BOOLEAN
  BY DEF Xdp!LookupServiceUDPBlock, Xdp!LookupUDPBlock, Xdp!Lookup, PacketInv, PacketRecord
<1>2. PICK id, at :
        /\ id = IF pkt.at = "udp_global" THEN 0 ELSE Row[pkt.svc].service
        /\ at = IF pkt.at = "udp_global" THEN "neighbor" ELSE "udp_global"
        /\ IF Xdp!Matching(tbl[pkt.slot], UDPBlocks, id, pkt.p) # {} THEN Xdp!Drop("UDP_AMP_SOURCE_PORT")
           ELSE pkt' = Xdp!Meta(at, pkt.p, pkt.svc, pkt.wl)
  BY SameTables DEF Xdp!LookupServiceUDPBlock, Xdp!LookupUDPBlock, Xdp!Lookup, Xdp!ServiceId, Xdp!GoTo
<1>3. PICK S : S = tbl[rc.slot]
  OBVIOUS
<1>4. ASSUME seen = {LivePolicy}
      PROVE  /\ pkt.slot = rc.slot /\ FoundInv(S) /\ pkt.p \in UDP /\ ~pkt.wl
             /\ ~Listed(S, Whitelist, pkt.svc, pkt.p) /\ ~Listed(S, Blacklist, pkt.svc, pkt.p)
  BY <1>1, <1>3, <1>4, SlotRead, InFlight DEF FoundInv
<1>5. CASE Xdp!Matching(tbl[pkt.slot], UDPBlocks, id, pkt.p) # {}
  <2>1. ASSUME seen = {LivePolicy} PROVE Threat(S, pkt.svc, pkt.p) = "UDP_AMP_SOURCE_PORT"
    <3>1. Listed(S, UDPBlocks, pkt.svc, pkt.p)
      BY <1>2, <1>3, <1>4, <1>5, <2>1, Hits
    <3> QED
      BY <1>4, <2>1, <3>1 DEF Threat
  <2> QED
    BY <1>1, <1>2, <1>3, <1>5, <2>1, ThreatDrops
<1>6. CASE Xdp!Matching(tbl[pkt.slot], UDPBlocks, id, pkt.p) = {}
  <2>1. pkt' = Xdp!Meta(at, pkt.p, pkt.svc, pkt.wl)
    BY <1>2, <1>6
  <2>2. /\ at \in Xdp!Lookups \cup {"neighbor"} /\ at \in {"udp_global", "neighbor"} /\ pkt'.at = at
        /\ pkt'.p = pkt.p /\ pkt'.svc = pkt.svc /\ pkt'.wl = pkt.wl
    BY <1>2, <2>1 DEF Xdp!Meta, Xdp!Lookups
  <2>3. ASSUME seen = {LivePolicy} PROVE FoundInv(tbl[rc.slot])'
    <3>1. FoundInv(S) /\ S = tbl'[rc'.slot] /\ Missed(S, UDPBlocks, id, pkt.p)
      BY <1>3, <1>4, <1>6, <2>3 DEF vars, Missed
    <3>2. at = "neighbor" => Threat(S, pkt.svc, pkt.p) = "none"
      <4>1. at = "neighbor" => ~Listed(S, UDPBlocks, pkt.svc, pkt.p)
        BY <1>1, <1>2, <3>1, ListedByLookups DEF FoundInv
      <4> QED
        BY <1>4, <2>3, <4>1 DEF Threat
    <3> QED
      BY <1>1, <1>2, <1>4, <2>2, <2>3, <3>1, <3>2 DEF FoundInv
  <2>4. PacketInv'
    BY <1>1, <2>1, <2>2, <2>3, GoesOn
  <2> QED
    BY <2>2, <2>4 DEF Judged
<1> QED
  BY <1>5, <1>6

LEMMA NeighborKeeps ==
  ASSUME IInv, PacketInv, Xdp!CheckNeighbor, UNCHANGED <<vars, seen>>
  PROVE  PacketInv' /\ Judged
<1>1. /\ pkt.at = "neighbor" /\ pkt \in PacketRecord
      /\ pkt.p \in Packet /\ pkt.svc \in Entry /\ pkt.wl \in BOOLEAN
  BY DEF Xdp!CheckNeighbor, PacketInv, PacketRecord
<1>2. PICK S : S = tbl[rc.slot]
  OBVIOUS
<1>3. ASSUME seen = {LivePolicy}
      PROVE  /\ FoundInv(S) /\ Threat(S, pkt.svc, pkt.p) = "none"
             /\ pkt.wl <=> Listed(S, Whitelist, pkt.svc, pkt.p)
  BY <1>1, <1>2, <1>3, InFlight DEF FoundInv
<1>4. CASE Row[pkt.svc].resolved
  <2>1. PICK at : /\ at = IF pkt.wl THEN "redirect" ELSE "rule"
                  /\ pkt' = Xdp!Meta(at, pkt.p, pkt.svc, pkt.wl)
    BY <1>4 DEF Xdp!CheckNeighbor, Xdp!GoTo
  <2>2. /\ at \in Xdp!Lookups \cup {"redirect"} /\ at \in {"rule", "redirect"} /\ pkt'.at = at
        /\ pkt'.p = pkt.p /\ pkt'.svc = pkt.svc /\ pkt'.wl = pkt.wl
    BY <2>1 DEF Xdp!Meta, Xdp!Lookups
  <2>3. ASSUME seen = {LivePolicy} PROVE FoundInv(tbl[rc.slot])'
    <3>1. FoundInv(S) /\ S = tbl'[rc'.slot]
      BY <1>2, <1>3, <2>3 DEF vars
    <3>2. at = "redirect" => "drop" \notin Enforced(S, pkt.svc, pkt.p)
      BY <1>3, <2>1, <2>3 DEF Enforced
    <3> QED
      BY <1>3, <1>4, <2>1, <2>2, <2>3, <3>1, <3>2 DEF FoundInv
  <2>4. PacketInv'
    BY <1>1, <2>1, <2>2, <2>3, GoesOn
  <2> QED
    BY <2>2, <2>4 DEF Judged
<1>5. CASE ~Row[pkt.svc].resolved
  <2>1. PacketInv' /\ Verdict' = Dropped("NEIGHBOR_UNRESOLVED")
    BY <1>1, <1>5, Returns DEF Xdp!CheckNeighbor, Xdp!Drop, Dropped, Returned, Reason
  <2>2. ASSUME seen = {LivePolicy}
        PROVE  Dropped("NEIGHBOR_UNRESOLVED") \in ServiceVerdicts(S, pkt.svc, pkt.p)
    BY <1>3, <1>5, <2>2 DEF ServiceVerdicts
  <2> QED
    BY <1>1, <1>2, <2>1, <2>2, ServiceSays DEF Judged
<1> QED
  BY <1>4, <1>5

\* The rows of the live slot are those of one snapshot, if there are any.
LEMMA LiveRows ==
  ASSUME IInv, ~suspect, NEW e \in tbl[rc.slot]
  PROVE  /\ rc.version \in Version /\ tbl[rc.slot] = Policy[rc.version]
         /\ KeysUsed(rc.version) = KeysOf[rc.version]
<1>1. rc.version \in Served /\ tbl[rc.slot] = Content[rc.version]
  BY DEF IInv, VersionsInv, LiveSlotWhole
<1> QED
  BY <1>1 DEF Served, Content, KeysUsed, DefaultVersion

LEMMA RuleKeeps ==
  ASSUME IInv, PacketInv, Xdp!ApplyRule, UNCHANGED <<vars, seen>>
  PROVE  PacketInv' /\ Judged
<1>1. /\ pkt.at = "rule" /\ pkt.slot # Xdp!NoSlot /\ pkt \in PacketRecord
      /\ pkt.p \in Packet /\ pkt.svc \in Entry /\ pkt.wl \in BOOLEAN
  BY DEF Xdp!ApplyRule, PacketInv, PacketRecord
<1> DEFINE rules == {e \in tbl[pkt.slot] : TableOf[e] = Rules /\ Row[e].rule # 0
                                           /\ Row[e].rule = Row[pkt.svc].rule}
           drops == \E e \in rules : Row[e].enforce /\ Row[e].action = "drop"
           limits == \E e \in rules : Row[e].enforce /\ Row[e].action = "rate_limit"
<1>2. \/ drops /\ Xdp!Drop("RULE_DROP")
      \/ limits /\ Xdp!Drop("RATE_LIMIT")
      \/ ~drops /\ pkt' = Xdp!Meta("redirect", pkt.p, pkt.svc, pkt.wl)
  BY SameTables DEF Xdp!ApplyRule, Xdp!GoTo
<1>3. PICK S : S = tbl[rc.slot]
  OBVIOUS
<1>4. ASSUME seen = {LivePolicy}
      PROVE  /\ pkt.slot = rc.slot /\ FoundInv(S) /\ Threat(S, pkt.svc, pkt.p) = "none"
             /\ ~pkt.wl /\ ~Listed(S, Whitelist, pkt.svc, pkt.p) /\ Row[pkt.svc].resolved
  BY <1>1, <1>3, <1>4, SlotRead, InFlight DEF FoundInv
<1>5. ASSUME seen = {LivePolicy}
      PROVE  /\ drops <=> "drop" \in Enforced(S, pkt.svc, pkt.p)
             /\ limits <=> "rate_limit" \in Enforced(S, pkt.svc, pkt.p)
  BY <1>3, <1>4, <1>5 DEF Enforced
<1>6. CASE drops /\ Xdp!Drop("RULE_DROP")
  <2>1. PacketInv' /\ Verdict' = Dropped("RULE_DROP")
    BY <1>1, <1>6, Returns DEF Xdp!Drop, Dropped, Returned, Reason
  <2>2. ASSUME seen = {LivePolicy}
        PROVE  Dropped("RULE_DROP") \in ServiceVerdicts(S, pkt.svc, pkt.p)
    BY <1>4, <1>5, <1>6, <2>2 DEF ServiceVerdicts
  <2> QED
    BY <1>1, <1>3, <2>1, <2>2, ServiceSays DEF Judged
<1>7. CASE limits /\ Xdp!Drop("RATE_LIMIT")
  <2>1. PacketInv' /\ Verdict' = Dropped("RATE_LIMIT")
    BY <1>1, <1>7, Returns DEF Xdp!Drop, Dropped, Returned, Reason
  <2>2. ASSUME seen = {LivePolicy}, ~suspect
        PROVE  Dropped("RATE_LIMIT") \in ServiceVerdicts(S, pkt.svc, pkt.p)
    <3>1. PICK e \in rules : Row[e].enforce /\ Row[e].action = "rate_limit"
      BY <1>7
    <3>2. rc.version \in Version /\ S = Policy[rc.version] /\ e \in S
      BY <1>3, <1>4, <2>2, LiveRows
    <3>3. ~drops
      <4>1. ASSUME NEW d \in rules, Row[d].enforce, Row[d].action = "drop" PROVE FALSE
        <5>1. d \in Policy[rc.version] /\ e \in Policy[rc.version]
          BY <1>3, <1>4, <2>2, <3>2
        <5>2. d = e
          BY <3>2, <5>1, RowsAssumption
        <5> QED
          BY <3>1, <4>1, <5>2
      <4> QED
        BY <4>1
    <3> QED
      BY <1>4, <1>5, <1>7, <2>2, <3>3 DEF ServiceVerdicts
  <2> QED
    BY <1>1, <1>3, <2>1, <2>2, ServiceSays DEF Judged
<1>8. CASE ~drops /\ pkt' = Xdp!Meta("redirect", pkt.p, pkt.svc, pkt.wl)
  <2>1. pkt'.at = "redirect" /\ pkt'.p = pkt.p /\ pkt'.svc = pkt.svc /\ pkt'.wl = pkt.wl
    BY <1>8 DEF Xdp!Meta
  <2>2. ASSUME seen = {LivePolicy} PROVE FoundInv(tbl[rc.slot])'
    <3>1. FoundInv(S) /\ S = tbl'[rc'.slot] /\ "drop" \notin Enforced(S, pkt.svc, pkt.p)
      BY <1>3, <1>4, <1>5, <1>8, <2>2 DEF vars
    <3> QED
      BY <1>4, <2>1, <2>2, <3>1 DEF FoundInv
  <2>3. PacketInv'
    BY <1>1, <1>8, <2>1, <2>2, GoesOn
  <2> QED
    BY <2>1, <2>3 DEF Judged
<1> HIDE DEF drops, limits
<1> QED
  BY <1>2, <1>6, <1>7, <1>8

LEMMA RedirectKeeps ==
  ASSUME IInv, PacketInv, Xdp!Redirect, UNCHANGED <<vars, seen>>
  PROVE  PacketInv' /\ Judged
<1>1. pkt.at = "redirect" /\ pkt.svc \in Entry
  BY DEF Xdp!Redirect, PacketInv
<1>2. PICK S : S = tbl[rc.slot]
  OBVIOUS
<1>3. PICK v \in {Forwarded, Dropped("REDIRECT_ERROR")} :
        /\ PacketInv' /\ Verdict' = v
        /\ v = IF Row[pkt.svc].action = "redirect" /\ dev[Row[pkt.svc].key] # NoIf
               THEN Forwarded ELSE Dropped("REDIRECT_ERROR")
  BY <1>1, Returns, SameTables
  DEF Xdp!Redirect, Xdp!Drop, Forwarded, Dropped, Returned, Reason
<1>4. ASSUME seen = {LivePolicy}, ~suspect PROVE v \in ServiceVerdicts(S, pkt.svc, pkt.p)
  <2>1. /\ pkt.svc \in S /\ TableOf[pkt.svc] = Services /\ Threat(S, pkt.svc, pkt.p) = "none"
        /\ Row[pkt.svc].resolved /\ "drop" \notin Enforced(S, pkt.svc, pkt.p)
    BY <1>1, <1>2, <1>4, InFlight DEF FoundInv
  <2>2. /\ rc.version \in Version /\ S = Policy[rc.version]
        /\ KeysUsed(rc.version) = KeysOf[rc.version]
    BY <1>2, <1>4, <2>1, LiveRows
  <2>3. Row[pkt.svc].key \in KeysUsed(rc.version)
    BY <2>1, <2>2, RowsAssumption
  <2>4. dev[Row[pkt.svc].key] # NoIf
    BY <1>4, <2>3 DEF IInv, LiveTargetsPresent
  <2> QED
    BY <1>3, <2>1, <2>4 DEF ServiceVerdicts
<1> QED
  BY <1>1, <1>2, <1>3, <1>4, ServiceSays DEF Judged

LEMMA SamePacket ==
  ASSUME PacketInv, PacketStep
  PROVE  pkt'.p = pkt.p /\ pkt.at \notin {"idle", "done"}
<1> USE DEF Xdp!Lookup, Xdp!GoTo, Xdp!Drop, Xdp!Return, Xdp!Meta, Xdp!Finished
<1>1. CASE Xdp!ReadActiveSlot
  BY <1>1 DEF Xdp!ReadActiveSlot, Xdp!Lookups, PacketInv, PacketRecord
<1>2. CASE Xdp!LookupService
  BY <1>2 DEF Xdp!LookupService
<1>3. CASE Xdp!LookupWhitelist \/ Xdp!LookupServiceWhitelist
  BY <1>3 DEF Xdp!LookupWhitelist, Xdp!LookupServiceWhitelist
<1>4. CASE Xdp!LookupServiceBlacklist \/ Xdp!LookupBlacklist
  BY <1>4 DEF Xdp!LookupServiceBlacklist, Xdp!LookupBlacklist, Xdp!BlacklistHit, Xdp!PassBlacklist
<1>5. CASE Xdp!LookupServiceUDPBlock \/ Xdp!LookupUDPBlock
  BY <1>5 DEF Xdp!LookupServiceUDPBlock, Xdp!LookupUDPBlock
<1>6. CASE Xdp!CheckNeighbor \/ Xdp!ApplyRule \/ Xdp!Redirect
  BY <1>6 DEF Xdp!CheckNeighbor, Xdp!ApplyRule, Xdp!Redirect
<1> QED
  BY <1>1, <1>2, <1>3, <1>4, <1>5, <1>6 DEF PacketStep, Xdp!Step

LEMMA PacketStepKeeps ==
  ASSUME IInv, PacketInv, PacketStep
  PROVE  PacketInv' /\ Judged
  BY ReadKeeps, ServiceKeeps, WhitelistKeeps, BlacklistKeeps, UDPBlockKeeps, NeighborKeeps,
     RuleKeeps, RedirectKeeps DEF PacketStep, Xdp!Step, Judged

\* A packet arrives: it meets the policy that is live now.
LEMMA ArrivalKeeps ==
  ASSUME IInv, PacketInv, PacketArrives
  PROVE  /\ PacketInv'
         /\ pkt'.at = "done" => Verdict' \in Verdicts(LivePolicy, pkt'.p)
<1>1. PICK p \in Packet : Xdp!Receive(p)
  BY DEF PacketArrives
<1>2. /\ seen' = {LivePolicy} /\ UNCHANGED <<rc, tbl, LivePolicy>> /\ rc.slot \in Slot
      /\ Parse[p] \in Xdp!ParseResult
      /\ LivePolicy.version = rc.version
  BY PacketAssumption DEF PacketArrives, vars, LivePolicy, IInv, TypeOK, Config, PacketAssumption
<1>3. CASE rc.version # 0 /\ Parse[p] = "ok"
  <2>1. pkt' = Xdp!Meta("service", p, NoEntry, FALSE) /\ "service" \in Xdp!Lookups
    BY <1>1, <1>2, <1>3, SameTables DEF Xdp!Receive, Xdp!Lookups
  <2>2. pkt' \in PacketRecord /\ pkt'.at = "service" /\ pkt'.p = p /\ pkt'.slot = Xdp!NoSlot
    BY <2>1 DEF Xdp!Meta, PacketRecord, Xdp!NoSlot, Returned, Reason
  <2> QED
    BY <1>2, <1>3, <2>2 DEF PacketInv
<1>4. CASE rc.version = 0 \/ Parse[p] # "ok"
  <2>1. PICK ret \in Returned, reason \in Reason :
          /\ pkt' = Xdp!Finished(p, ret, reason)
          /\ [ret |-> ret, reason |-> reason] \in Verdicts(LivePolicy, p)
    <3>1. CASE rc.version = 0
      BY <1>1, <1>2, <3>1 DEF Xdp!Receive, Verdicts, Dropped, Returned, Reason
    <3>2. CASE rc.version # 0 /\ Parse[p] # "ok"
      BY <1>1, <1>2, <3>2, SameTables
      DEF Xdp!Receive, Xdp!ParseResult, Verdicts, Dropped, Returned, Reason
    <3> QED
      BY <1>4, <3>1, <3>2
  <2>2. /\ pkt' \in PacketRecord /\ pkt'.at = "done" /\ pkt'.p = p
        /\ pkt'.ret = ret /\ pkt'.reason = reason
    BY <2>1, PacketTypes
  <2> QED
    BY <2>1, <2>2 DEF PacketInv, Verdict
<1> QED
  BY <1>3, <1>4

\* The agent goes on while the packet waits.
LEMMA AgentKeeps ==
  ASSUME IInv, PacketInv, AgentStep
  PROVE  PacketInv' /\ UNCHANGED pkt /\ (pkt.at \in {"idle", "done"} => UNCHANGED seen)
<1>1. UNCHANGED pkt /\ (pkt.at \in {"idle", "done"} => UNCHANGED seen)
  BY DEF AgentStep
<1>2. ASSUME pkt.at \notin {"idle", "done"}, seen' = {LivePolicy'}
      PROVE  seen = {LivePolicy} /\ rc'.slot = rc.slot /\ rc'.version = rc.version /\ tbl'[rc'.slot] = tbl[rc.slot]
  <2>1. LivePolicy \in seen /\ seen' = seen \cup {LivePolicy'}
    BY <1>2 DEF PacketInv, AgentStep
  <2>2. LivePolicy = LivePolicy' /\ seen = {LivePolicy}
    BY <1>2, <2>1
  <2> QED
    BY <2>2 DEF LivePolicy
<1>3. pkt.at \notin {"idle", "done"} => LivePolicy' \in seen'
  BY DEF AgentStep
<1>4. ASSUME NEW S PROVE FoundInv(S)' <=> FoundInv(S)
  BY <1>1 DEF FoundInv
<1> QED
  BY <1>1, <1>2, <1>3, <1>4 DEF PacketInv

\* A packet in flight knows what the policy says of it (xdp_data_plane.bpf.c:846-1000).
THEOREM PacketInvariance == DPSpec => [](IInv /\ PacketInv)
<1>1. DPInit => IInv /\ PacketInv
  BY InitIInv, PacketTypes DEF DPInit, PacketInv
<1>2. IInv /\ PacketInv /\ [DPNext]_dpVars => (IInv /\ PacketInv)'
  <2> SUFFICES ASSUME IInv, PacketInv, [DPNext]_dpVars PROVE IInv' /\ PacketInv'
    OBVIOUS
  <2>1. CASE AgentStep
    BY <2>1, AgentKeeps, NextKeepsIInv DEF AgentStep
  <2>2. CASE PacketArrives
    <3>1. [Next]_vars
      BY <2>2 DEF PacketArrives
    <3> QED
      BY <2>2, <3>1, ArrivalKeeps, NextKeepsIInv
  <2>3. CASE PacketStep
    <3>1. [Next]_vars
      BY <2>3 DEF PacketStep
    <3> QED
      BY <2>3, <3>1, PacketStepKeeps, NextKeepsIInv
  <2>4. CASE UNCHANGED dpVars
    <3>1. [Next]_vars /\ UNCHANGED <<rc, tbl, pkt, seen>>
      BY <2>4 DEF dpVars, vars
    <3>2. PacketInv'
      BY <3>1 DEF PacketInv, LivePolicy, FoundInv
    <3> QED
      BY <3>1, <3>2, NextKeepsIInv
  <2> QED
    BY <2>1, <2>2, <2>3, <2>4 DEF DPNext
<1> QED
  BY <1>1, <1>2, PTL DEF DPSpec

\* A packet that meets one policy gets that policy's verdict, for any policies and
\* packets and wherever the agent fails (xdp_data_plane.bpf.c:846-1000).
THEOREM VerdictIsOfOnePolicy == DPSpec => SinglePolicyVerdict
<1>1. ASSUME IInv, PacketInv, [DPNext]_dpVars
      PROVE  [pkt'.at = "done" /\ <<pkt, seen>>' # <<pkt, seen>> /\ ~suspect =>
                \A live \in seen' : seen' = {live} => Verdict' \in Verdicts(live, pkt'.p)]_dpVars
  <2> SUFFICES ASSUME DPNext, pkt'.at = "done", <<pkt, seen>>' # <<pkt, seen>>, ~suspect,
                      NEW live \in seen', seen' = {live}
               PROVE  Verdict' \in Verdicts(live, pkt'.p)
    BY <1>1
  <2>1. CASE AgentStep
    BY <1>1, <2>1, AgentKeeps
  <2>2. CASE PacketArrives
    <3>1. live = LivePolicy
      BY <2>2 DEF PacketArrives
    <3> QED
      BY <1>1, <2>2, <3>1, ArrivalKeeps
  <2>3. CASE PacketStep
    <3>1. Judged /\ seen' = seen
      BY <1>1, <2>3, PacketStepKeeps DEF PacketStep
    <3>2. pkt'.p = pkt.p /\ LivePolicy \in seen
      BY <1>1, <2>3, SamePacket DEF PacketInv
    <3>3. live = LivePolicy
      BY <3>1, <3>2
    <3> QED
      BY <3>1, <3>2, <3>3 DEF Judged
  <2> QED
    BY <2>1, <2>2, <2>3 DEF DPNext
<1> QED
  BY <1>1, PacketInvariance, PTL DEF SinglePolicyVerdict, DPSpec
=============================================================================
