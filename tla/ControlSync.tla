---------------------------- MODULE ControlSync ----------------------------
(***************************************************************************)
(* The sync loop of an agent (RunControlSync, agent/control_client.go) and *)
(* the Control handlers it calls (control/agent_store.go,                  *)
(* control/snapshot.go) for the owner the agent is bound to.               *)
(*                                                                         *)
(* A request may be lost, and one the agent has given up on may still be   *)
(* processed, at any later time. An apply is one step here, with the       *)
(* outcomes that PolicyApply shows it to have. A restart reads the         *)
(* last-valid file, or replaces one that does not verify by the default.   *)
(***************************************************************************)
EXTENDS Integers, Sequences

CONSTANTS
  Content,     \* effective policies of the owner
  Expiring,    \* those with an entry that has an expires_at
  Barrable,    \* those the host may come to refuse, see Bar
  Empty,       \* the policy of empty maps
  Remains,     \* anything else a slot may hold: an older policy, part of one
  MaxVersion,  \* bound on the snapshots Control publishes
  MaxCrash,    \* bound on the times the agent process dies
  Faults       \* of "reboot", "lost_file" and "torn": what may go wrong

DefaultVersion == 1   \* the version of the agent's DefaultSnapshot

ASSUME SyncAssumption ==
  /\ Expiring \subseteq Content /\ Barrable \subseteq Content
  /\ Empty \notin Content
  /\ MaxVersion \in Nat
  /\ MaxCrash \in Nat

VARIABLES
  snaps,     \* policy_snapshots of the owner: version n is snaps[n]
  reported,  \* agents.active_policy_version
  status,    \* policy_apply_status of the agent
  net,       \* requests that Control has not processed
  pc,        \* where RunControlSync is
  id,        \* state.AgentID is set
  idFile,    \* the same in the file at AgentStatePath
  active,    \* Runtime.Snapshot.PolicyVersion, and the last-valid file's
  live,      \* the policy_version of runtime_config
  enforced,  \* the policy in the live slot
  job,       \* the snapshot being applied
  crashes,   \* the times the process has died
  expired,   \* the policies with an entry whose expires_at has passed
  barred,    \* the policies that the host refuses as it is now
  applied,   \* history: the versions an apply of which has succeeded
  mishap,    \* history: what has befallen the maps since the last such apply
  fell       \* history: a restart has replaced the last-valid file

control == <<snaps, reported, status>>
maps == <<active, live, enforced, applied, mishap>>
world == <<expired, barred>>
node == <<id, idFile, maps, crashes, fell, world>>
svars == <<snaps, reported, status, net, pc, id, idFile, active, live, enforced,
           job, crashes, expired, barred, applied, mishap, fell>>

Latest == Len(snaps)   \* latestPolicyVersion

\* What a snapshot of version v puts into a slot.
Policy(v) == IF v = DefaultVersion THEN Empty ELSE snaps[v]

\* ApplyPolicySnapshot refuses c, every time it is offered.
Refuses(c) == c \in expired \cup barred

\* The last-valid file passes LastValidSnapshot.Verify, against the clock. The
\* default snapshot has no entries.
FileVerifies == active # DefaultVersion => snaps[active] \notin expired

\* live: the agent still waits for the answer.
Request(type, version, result) ==
  [type |-> type, version |-> version, result |-> result, live |-> TRUE]

Send(type, version, result) == net' = net \cup {Request(type, version, result)}

\* The requests once the agent has given up on them: those that write to the
\* database still do. A fetch only reads, and a registration without an answer
\* leaves a row behind that the next one finds.
Abandoned == {[m EXCEPT !.live = FALSE] : m \in {n \in net : n.type \in {"heartbeat", "apply"}}}

\* The waiting state of the loop for each kind of request.
Await == [register |-> "await_register", heartbeat |-> "await_heartbeat",
          fetch |-> "await_fetch", apply |-> "await_ack"]
Waiting == {"await_register", "await_heartbeat", "await_fetch", "await_ack"}

SInit ==
  /\ snaps = <<>>
  /\ reported = 0
  /\ status = [v \in 1..MaxVersion |-> "none"]
  /\ net = {}
  /\ pc = "start"
  /\ id = FALSE
  /\ idFile = FALSE
  /\ active = DefaultVersion
  /\ live = DefaultVersion
  /\ enforced = Empty
  /\ job = 0
  /\ crashes = 0
  /\ expired = {}
  /\ barred = {}
  /\ applied = {}
  /\ mishap = "none"
  /\ fell = FALSE

-----------------------------------------------------------------------------
(* Control: changes of the owner's policy *)

\* rebuildSnapshotInTx: no new version when the content has not changed. The
\* queries leave expired rows out, and VerifyPolicySnapshot refuses them.
RebuildSnapshot(c) ==
  /\ Latest < MaxVersion
  /\ c \notin expired
  /\ Latest > 0 => snaps[Latest] # c
  /\ snaps' = Append(snaps, c)
  /\ UNCHANGED <<reported, status, net, pc, node, job>>

\* RollbackSnapshot republishes an old content under a new version, unless
\* VerifyPolicySnapshot finds an expired entry in it.
RollbackSnapshot(v) ==
  /\ Latest < MaxVersion
  /\ snaps[v] \notin expired
  /\ snaps' = Append(snaps, snaps[v])
  /\ UNCHANGED <<reported, status, net, pc, node, job>>

-----------------------------------------------------------------------------
(* The agent's loop *)

\* RunControlSync is entered: the id comes from the state file, or the agent
\* registers. This is the only time it tries to.
EnterLoop ==
  /\ pc = "start"
  /\ id' = idFile
  /\ IF idFile
       THEN pc' = "idle" /\ UNCHANGED net
       ELSE pc' = "await_register" /\ Send("register", 0, "none")
  /\ UNCHANGED <<control, idFile, maps, job, crashes, fell, world>>

\* Faulty variant: the heartbeat reports the newest version there is.
HeartbeatWithLatest ==
  /\ pc = "idle"
  /\ id
  /\ Send("heartbeat", Latest, "none")
  /\ pc' = "await_heartbeat"
  /\ UNCHANGED <<control, node, job>>

\* The ticker fires. Without an id the loop only waits for the next tick.
TickWithoutId ==
  /\ pc = "idle"
  /\ ~id
  /\ UNCHANGED svars

Heartbeat ==
  /\ pc = "idle"
  /\ id
  /\ Send("heartbeat", active, "none")
  /\ pc' = "await_heartbeat"
  /\ UNCHANGED <<control, node, job>>

Ack(result) ==
  /\ Send("apply", job, result)
  /\ pc' = "await_ack"
  /\ job' = 0

\* VerifyPolicySnapshot, with the version in runtime_config as the active one,
\* and the check of tx_devmap let the snapshot pass.
Passes == pc = "apply" /\ job > live /\ ~Refuses(snaps[job])

\* Faulty variant: the version is saved without the flip to its policy.
ApplyWithoutFlip ==
  /\ Passes
  /\ active' = job
  /\ live' = job
  /\ applied' = applied \cup {job}
  /\ mishap' = "none"
  /\ Ack("applied")
  /\ UNCHANGED <<control, enforced, id, idFile, crashes, fell, world>>

\* ApplyPolicySnapshot succeeds.
ApplySucceeds ==
  /\ Passes
  /\ active' = job
  /\ live' = job
  /\ enforced' = snaps[job]
  /\ applied' = applied \cup {job}
  /\ mishap' = "none"
  /\ Ack("applied")
  /\ UNCHANGED <<control, id, idFile, crashes, fell, world>>

\* After the flip the file cannot be written, and runtime_config cannot be set
\* back: it goes on to name the new slot, which rollbackInactive clears as far
\* as it can.
ApplyTears ==
  /\ "torn" \in Faults
  /\ Passes
  /\ live' = job
  /\ enforced' \in {snaps[job], Remains, Empty}
  /\ mishap' = "torn"
  /\ Ack("failed")
  /\ UNCHANGED <<control, active, applied, id, idFile, crashes, fell, world>>

\* Faulty variant: a failed apply is acknowledged like any other.
ApplyFailsSilently ==
  /\ pc = "apply"
  /\ Ack("applied")
  /\ UNCHANGED <<control, node>>

\* It fails at any other stage, or refuses the snapshot, and changes nothing
\* that is live.
ApplyFails ==
  /\ pc = "apply"
  /\ Ack("failed")
  /\ UNCHANGED <<control, node>>

\* The answer does not arrive in time: the loop starts over at the next tick.
GiveUp ==
  /\ pc \in Waiting
  /\ net' = Abandoned
  /\ pc' = "idle"
  /\ UNCHANGED <<control, node, job>>

-----------------------------------------------------------------------------
(* Control: the agent's requests *)

\* HeartbeatAgent and RecordAgentApply write to the database, RegisterAgent
\* finds or creates the row, FetchSnapshot only reads.
Process(m) ==
  /\ reported' = IF m.type = "heartbeat" THEN m.version ELSE reported
  /\ status' = IF m.type = "apply" THEN [status EXCEPT ![m.version] = m.result]
               ELSE status
  /\ net' = net \ {m}
  /\ UNCHANGED snaps

\* The agent registers, gets its id and tries to save it.
AnswerRegister(m) ==
  /\ m.type = "register"
  /\ id' = TRUE
  /\ idFile' \in {idFile, TRUE}
  /\ pc' = "idle"
  /\ Process(m)
  /\ UNCHANGED <<maps, job, crashes, fell, world>>

\* Faulty variant: any desired version is a reason to stay idle.
AnswerHeartbeatIdle(m) ==
  /\ m.type = "heartbeat"
  /\ Process(m)
  /\ pc' = "idle"
  /\ UNCHANGED <<node, job>>

\* The answer is the latest version: the agent fetches only a newer one.
AnswerHeartbeat(m) ==
  /\ m.type = "heartbeat"
  /\ reported' = m.version
  /\ IF Latest <= active
       THEN pc' = "idle" /\ net' = net \ {m}
       ELSE /\ pc' = "await_fetch"
            /\ net' = (net \ {m}) \cup {Request("fetch", active, "none")}
  /\ UNCHANGED <<snaps, status, node, job>>

\* The latest snapshot, or 204 when it is not newer than active_version.
AnswerFetch(m) ==
  /\ m.type = "fetch"
  /\ Process(m)
  /\ IF m.version >= Latest
       THEN pc' = "idle" /\ UNCHANGED job
       ELSE pc' = "apply" /\ job' = Latest
  /\ UNCHANGED node

AnswerAck(m) ==
  /\ m.type = "apply"
  /\ Process(m)
  /\ pc' = "idle"
  /\ UNCHANGED <<node, job>>

Answer(m) ==
  /\ m.live
  /\ pc = Await[m.type]
  /\ AnswerRegister(m) \/ AnswerHeartbeat(m) \/ AnswerFetch(m) \/ AnswerAck(m)

\* A request nobody waits for is processed late.
ProcessLate(m) ==
  /\ ~m.live
  /\ Process(m)
  /\ UNCHANGED <<pc, node, job>>

\* A request is lost before Control sees it.
Lose(m) ==
  /\ ~m.live
  /\ net' = net \ {m}
  /\ UNCHANGED <<control, pc, node, job>>

-----------------------------------------------------------------------------
(* The host *)

\* The clock passes the expires_at of an entry of c.
Expire(c) ==
  /\ c \in Expiring \ expired
  /\ expired' = expired \cup {c}
  /\ UNCHANGED <<control, net, pc, id, idFile, maps, crashes, fell, barred, job>>

\* The host comes to refuse c: one of its keys is in tx_devmap with another
\* ifindex, where it stays as long as the maps are pinned, one of its interfaces
\* does not resolve, or the memory budget is too small for it.
Bar(c) ==
  /\ c \in Barrable \ barred
  /\ barred' = barred \cup {c}
  /\ UNCHANGED <<control, net, pc, id, idFile, maps, crashes, fell, expired, job>>

Restart ==
  /\ crashes < MaxCrash
  /\ crashes' = crashes + 1
  /\ id' = FALSE
  /\ job' = 0
  /\ pc' = "start"
  /\ net' = Abandoned
  /\ UNCHANGED <<control, idFile, expired, applied>>

\* loadOrCreateSnapshot and seedRuntimeConfig: a file that verifies is loaded,
\* any other, and a lost one, is replaced by DefaultSnapshot.
LoadOrCreateSnapshot ==
  /\ \/ FileVerifies /\ UNCHANGED <<active, fell>>
     \/ /\ ~FileVerifies \/ "lost_file" \in Faults
        /\ active' = DefaultVersion
        /\ fell' = TRUE
  /\ live' = active'

\* The agent dies and is started again. The pinned maps stay as they are, and
\* so does what is enforced when the slot the file names was live before. It
\* need not have been when the file is replaced, as the default names slot 0,
\* or an apply was torn.
Crash ==
  /\ Restart
  /\ LoadOrCreateSnapshot
  /\ IF active' = active /\ mishap # "torn"
       THEN UNCHANGED <<enforced, mishap>>
       ELSE /\ enforced' \in {enforced, Policy(active'), Remains, Empty}
            /\ mishap' = "unsure"
  /\ UNCHANGED barred

\* After a reboot the maps are empty, whatever the last-valid file names.
Reboot ==
  /\ "reboot" \in Faults
  /\ Restart
  /\ LoadOrCreateSnapshot
  /\ enforced' = Empty
  /\ mishap' = IF active' = DefaultVersion THEN "none" ELSE "wiped"
  /\ barred' \in {barred, {}}

-----------------------------------------------------------------------------

SNext ==
  \/ \E c \in Content : RebuildSnapshot(c)
  \/ \E v \in 1..Latest : RollbackSnapshot(v)
  \/ EnterLoop \/ TickWithoutId \/ Heartbeat
  \/ ApplySucceeds \/ ApplyTears \/ ApplyFails \/ GiveUp
  \/ \E m \in net : Answer(m) \/ ProcessLate(m) \/ Lose(m)
  \/ \E c \in Content : Expire(c) \/ Bar(c)
  \/ Crash \/ Reboot

\* The loop runs on; a request that is sent again and again is answered at
\* last. A snapshot that is offered again and again and passes the checks is
\* applied at last: full disks and failing map writes do not last. Nothing is
\* assumed of one that is refused.
SFairness ==
  /\ WF_svars(EnterLoop)
  /\ WF_svars(Heartbeat)
  /\ WF_svars(ApplySucceeds \/ ApplyTears \/ ApplyFails)
  /\ SF_svars(\E m \in net : Answer(m) /\ m.type = "heartbeat")
  /\ SF_svars(\E m \in net : Answer(m) /\ m.type = "fetch")
  /\ SF_svars(ApplySucceeds)
  /\ WF_svars(GiveUp)

SSpec == SInit /\ [][SNext]_svars /\ SFairness

-----------------------------------------------------------------------------
(* Properties *)

\* However late heartbeats arrive, Control believes an agent to run only a
\* version that the agent has applied, or the default; and never one ahead of
\* the policy it has saved, as long as no restart has replaced the last-valid
\* file by the default (agent_store.go:65-97, loader.go:182-196).
ReportedWasActive ==
  /\ reported \in applied \cup {0, DefaultVersion}
  /\ ~fell => reported <= active

\* A version that Control shows as "applied" is one the agent did apply, also
\* when acknowledgements of several attempts arrive late and out of order
\* (agent_store.go:120-179, control_client.go:126-146).
AppliedIsTrue == \A v \in 1..MaxVersion : status[v] = "applied" => v \in applied

\* The agent enforces exactly the content of the version it calls active and
\* reports, and runtime_config names that version: crashes, failed applies and
\* late answers do not pull them apart. The exceptions are a reboot, after which
\* the maps are empty, an apply that could neither save nor undo its flip, and,
\* until the next apply, a restart after such an apply or with a last-valid file
\* that was replaced (control_client.go:126-148, policy_apply.go:172-190,
\* loader.go:182-196).
EnforcedIsActive ==
  /\ mishap = "none" => enforced = Policy(active)
  /\ mishap = "wiped" => enforced = Empty
  /\ mishap # "torn" => live = active

\* What a registered agent ends up with: its owner's latest policy.
Synced == enforced = snaps[Latest]

\* A registered agent ends up with the latest policy of its owner, also after a
\* restart that fell back to the default, once the owner has changed the policy
\* at least twice, unless it refuses that policy, or since the last apply its
\* host has rebooted or an apply could not be undone (control_client.go:105-148).
ConvergesFromSecond ==
  <>[](id /\ Latest > DefaultVersion /\ ~Refuses(snaps[Latest])
       /\ mishap \notin {"wiped", "torn"} => Synced)
=============================================================================
