------------------------ MODULE AlertDeliveryProofs ------------------------
(***************************************************************************)
(* Proofs about alerts and their deliveries, for every set of requests,    *)
(* every size of the pool and of max_attempts. An alert belongs to the one *)
(* request that has created it; where that request is tells what the       *)
(* deliveries of the alert look like: AlertInv.                            *)
(***************************************************************************)
EXTENDS AlertDelivery, SequenceTheorems, TLAPS

Alerters == Applies \cup Creators
Final == {"sent", "failed", "deduped"}
WorkPc == {"dedupe", "config", "send", "record", "wait", "set", "end"}
Delivery == [status : Final \cup {"retrying"}, attempt : Nat]
AlertReq == [pc : WorkPc \cup {"create"}, alert : Nat,
             status : Final \cup {"retrying", ""}, attempt : Nat]
ListReq == [pc : {"list"}, next : Nat]

AlertTypes ==
  /\ alerts \in Seq(Final \cup {"pending"})
  /\ log \in Seq(Seq(Delivery)) /\ Len(log) = Len(alerts)
  /\ messages \in Seq(Nat) /\ Len(messages) = Len(alerts)
  /\ req \in [Requests -> {Idle} \cup AlertReq \cup ListReq]
  /\ \A r \in Alerters : req[r] = Idle \/ req[r] \in AlertReq
  /\ \A r \in Alerters : req[r].pc = "create" => req[r].attempt = 0
  /\ \A r \in Listings : req[r] = Idle \/ req[r] \in ListReq

\* The token, as AdTypeOK has it.
ConfigInv == config.token \notin {Mask} /\ (config = NoConfig \/ config.token # "")

Retrying(a) == \A i \in 1..Len(log[a]) : log[a][i].status = "retrying"

\* Where request x is with its alert, and what there is of its deliveries.
JobOK(x) ==
  /\ x.alert \in 1..Len(alerts)
  /\ x.pc # "end" => alerts[x.alert] = "pending"
  /\ x.pc \in {"dedupe", "config"} =>
       PolicyEnabled /\ log[x.alert] = <<>> /\ x.attempt = 0
  /\ x.pc = "send" =>
       /\ PolicyEnabled /\ Retrying(x.alert)
       /\ x.attempt = Len(log[x.alert]) + 1 /\ x.attempt <= MaxAttempts
  /\ x.pc = "record" =>
       /\ PolicyEnabled /\ Retrying(x.alert) /\ Len(log[x.alert]) < MaxAttempts
       /\ x.status \in Final \cup {"retrying"}
       /\ x.attempt \in {0, Len(log[x.alert]) + 1}
       /\ x.status = "retrying" =>
            x.attempt = Len(log[x.alert]) + 1 /\ x.attempt < MaxAttempts
  /\ x.pc = "wait" =>
       /\ PolicyEnabled /\ Retrying(x.alert)
       /\ x.attempt = Len(log[x.alert]) /\ x.attempt < MaxAttempts
  /\ x.pc = "set" =>
       /\ x.status \in Final
       /\ PolicyEnabled => log[x.alert] # <<>> /\ LastDelivery(x.alert).status = x.status
       /\ ~PolicyEnabled => log[x.alert] = <<>>
  /\ x.pc = "end" => alerts[x.alert] # "pending" \/ x.alert \in abandoned

Working(r) == req[r].pc \in WorkPc

JobInv == \A r \in Alerters : Working(r) => JobOK(req[r])
OwnerInv ==
  \A r, s \in Alerters : Working(r) /\ Working(s) /\ req[r].alert = req[s].alert => r = s

\* What has been recorded of alert a.
LogOK(a) ==
  /\ Len(log[a]) <= MaxAttempts
  /\ \A i \in 1..Len(log[a]) :
       /\ log[a][i].attempt \in {i, 0}
       /\ i < Len(log[a]) => log[a][i].status = "retrying"
  /\ alerts[a] # "pending" /\ (PolicyEnabled \/ log[a] # <<>>) =>
       log[a] # <<>> /\ LastDelivery(a).status = alerts[a]
LogInv == \A a \in 1..Len(alerts) : LogOK(a)

\* A pending alert has its request, or was given up.
PendingInv ==
  \A a \in 1..Len(alerts) : alerts[a] = "pending" =>
    a \in abandoned \/ \E r \in Alerters : Working(r) /\ req[r].alert = a

\* A request that began in the window of a recorded delivery is on its way to
\* being deduped.
LateInv ==
  \A r \in late \cap Alerters :
    /\ recent
    /\ req[r].pc \notin {"config", "send", "wait"}
    /\ req[r].pc = "record" => req[r].status = "deduped"

AlertInv ==
  AlertTypes /\ ConfigInv /\ JobInv /\ OwnerInv /\ LogInv /\ PendingInv /\ LateInv

-----------------------------------------------------------------------------
(* The invariant and the properties *)

LEMMA RequestTypes ==
  /\ Idle \notin AlertReq /\ Idle \notin ListReq /\ Idle.pc = "idle"
  /\ \A x \in AlertReq : x.pc # "idle" /\ x.pc # "list"
  /\ \A x \in ListReq : x.pc = "list"
  /\ Requests = Alerters \cup Listings /\ Alerters \cap Listings = {}
  /\ Requests \ Listings = Alerters
<1>1. \A x \in AlertReq : x.pc # "idle" /\ x.pc # "list"
  BY DEF AlertReq, WorkPc
<1>2. \A x \in ListReq : x.pc = "list"
  BY DEF ListReq
<1>3. Idle.pc = "idle"
  BY DEF Idle
<1>4. Requests = Alerters \cup Listings /\ Alerters \cap Listings = {}
  BY AlertAssumption DEF Requests, Alerters
<1> QED
  BY <1>1, <1>2, <1>3, <1>4

LEMMA AlertInvImplies ==
  ASSUME AlertInv
  PROVE  AdTypeOK /\ LogTellsStatus
<1> USE DEF AlertInv
<1>1. DOMAIN alerts = 1..Len(alerts)
  BY DEF AlertTypes
<1>2. AdTypeOK
  <2>1. \A i \in DOMAIN alerts : alerts[i] \in {"pending", "sent", "failed", "deduped"}
    BY <1>1 DEF AlertTypes, Final
  <2> QED
    BY <2>1 DEF AdTypeOK, ConfigInv, AlertTypes
<1>3. LogTellsStatus
  <2> SUFFICES ASSUME NEW a \in 1..Len(alerts)
               PROVE  /\ Len(log[a]) <= MaxAttempts
                      /\ \A i \in DOMAIN log[a] :
                           /\ log[a][i].attempt \in {i, 0}
                           /\ i < Len(log[a]) => log[a][i].status = "retrying"
                      /\ alerts[a] # "pending" /\ (PolicyEnabled \/ log[a] # <<>>) =>
                           log[a] # <<>> /\ LastDelivery(a).status = alerts[a]
                      /\ alerts[a] = "pending" =>
                           a \in abandoned \/ \E r \in Requests \ Listings :
                                                req[r] # Idle /\ req[r].alert = a
    BY <1>1 DEF LogTellsStatus
  <2>1. DOMAIN log[a] = 1..Len(log[a])
    BY DEF AlertTypes
  <2>2. LogOK(a)
    BY DEF LogInv
  <2>3. ASSUME alerts[a] = "pending"
        PROVE  a \in abandoned \/ \E r \in Requests \ Listings :
                                    req[r] # Idle /\ req[r].alert = a
    <3>1. a \in abandoned \/ \E r \in Alerters : Working(r) /\ req[r].alert = a
      BY <2>3 DEF PendingInv
    <3> QED
      BY <3>1, RequestTypes DEF Working, WorkPc
  <2> QED
    BY <2>1, <2>2, <2>3 DEF LogOK
<1> QED
  BY <1>2, <1>3

-----------------------------------------------------------------------------
(* What a step leaves alone *)

\* The same requests with the same alerts: nothing that is said of them changes.
LEMMA JobFrame ==
  ASSUME NEW x, x.alert \in 1..Len(alerts), JobOK(x),
         x.alert \in 1..Len(alerts'), alerts'[x.alert] = alerts[x.alert],
         log'[x.alert] = log[x.alert], abandoned \subseteq abandoned'
  PROVE  JobOK(x)'
  BY DEF JobOK, Retrying, LastDelivery

LEMMA LogFrame ==
  ASSUME NEW a, LogOK(a), alerts'[a] = alerts[a], log'[a] = log[a]
  PROVE  LogOK(a)'
  BY DEF LogOK, LastDelivery

\* A request that is delivering its alert takes a step: it stays with its
\* alert, and touches no other.
LEMMA JobStep ==
  ASSUME AlertInv, NEW r \in Alerters, Working(r),
         req'[r] \in AlertReq, req'[r].pc \in WorkPc, req'[r].alert = req[r].alert,
         req' = [req EXCEPT ![r] = req'[r]],
         alerts' \in Seq(Final \cup {"pending"}), Len(alerts') = Len(alerts),
         log' \in Seq(Seq(Delivery)), Len(log') = Len(log),
         messages' \in Seq(Nat), Len(messages') = Len(messages),
         \A b \in 1..Len(alerts) : b # req[r].alert =>
           alerts'[b] = alerts[b] /\ log'[b] = log[b],
         JobOK(req[r])', LogOK(req[r].alert)',
         config' = config, late' = late, recent => recent', abandoned \subseteq abandoned',
         r \in late => /\ req'[r].pc \notin {"config", "send", "wait"}
                       /\ req'[r].pc = "record" => req'[r].status = "deduped"
  PROVE  AlertInv'
<1> USE DEF AlertInv
<1>1. /\ \A s \in Requests : s # r => req'[s] = req[s]
      /\ r \in Requests /\ r \notin Listings /\ Alerters \subseteq Requests
      /\ Listings \subseteq Requests
  BY RequestTypes DEF AlertTypes
<1>2. AlertTypes'
  <2>1. req' \in [Requests -> {Idle} \cup AlertReq \cup ListReq]
    BY <1>1 DEF AlertTypes
  <2>2. \A s \in Alerters : req'[s] = Idle \/ req'[s] \in AlertReq
    BY <1>1 DEF AlertTypes
  <2>3. \A s \in Listings : req'[s] = Idle \/ req'[s] \in ListReq
    BY <1>1 DEF AlertTypes
  <2> QED
    BY <1>1, <2>1, <2>2, <2>3 DEF AlertTypes, WorkPc
<1>3. ConfigInv'
  BY DEF ConfigInv
<1>4. JobInv'
  <2> SUFFICES ASSUME NEW s \in Alerters, Working(s)' PROVE JobOK(req[s])'
    BY DEF JobInv
  <2>1. CASE s = r
    BY <2>1
  <2>2. CASE s # r
    <3>1. req'[s] = req[s] /\ Working(s)
      BY <1>1, <2>2 DEF Working
    <3>2. JobOK(req[s]) /\ req[s].alert # req[r].alert
      BY <2>2, <3>1 DEF JobInv, OwnerInv
    <3>3. req[s].alert \in 1..Len(alerts)
      BY <3>2 DEF JobOK
    <3> QED
      BY <3>1, <3>2, <3>3, JobFrame
  <2> QED
    BY <2>1, <2>2
<1>5. OwnerInv'
  <2>1. \A s \in Alerters : req'[s].alert = req[s].alert /\ (Working(s)' => Working(s))
    BY <1>1 DEF Working
  <2> QED
    BY <2>1 DEF OwnerInv
<1>6. LogInv'
  <2> SUFFICES ASSUME NEW a \in 1..Len(alerts) PROVE LogOK(a)'
    BY DEF LogInv
  <2>1. CASE a = req[r].alert
    BY <2>1
  <2>2. CASE a # req[r].alert
    BY <2>2, LogFrame DEF LogInv
  <2> QED
    BY <2>1, <2>2
<1>7. PendingInv'
  <2> SUFFICES ASSUME NEW a \in 1..Len(alerts), alerts'[a] = "pending"
               PROVE  a \in abandoned' \/ \E s \in Alerters : Working(s)' /\ req'[s].alert = a
    BY DEF PendingInv
  <2>1. CASE a = req[r].alert
    BY <2>1 DEF Working
  <2>2. CASE a # req[r].alert
    <3>1. a \in abandoned \/ \E s \in Alerters : Working(s) /\ req[s].alert = a
      BY <2>2 DEF PendingInv
    <3>2. ASSUME NEW s \in Alerters, Working(s), req[s].alert = a
          PROVE  Working(s)' /\ req'[s].alert = a
      BY <1>1, <2>2, <3>2 DEF Working
    <3> QED
      BY <3>1, <3>2
  <2> QED
    BY <2>1, <2>2
<1>8. LateInv'
  BY <1>1 DEF LateInv
<1> QED
  BY <1>2, <1>3, <1>4, <1>5, <1>6, <1>7, <1>8

\* Requests of S end, and the alerts they had not come to an end with are
\* given up.
LEMMA EndStep ==
  ASSUME AlertInv, NEW S,
         req' = [r \in Requests |-> IF r \in S THEN Idle ELSE req[r]],
         abandoned \subseteq abandoned',
         \A r \in S \cap Alerters :
           Working(r) /\ alerts[req[r].alert] = "pending" => req[r].alert \in abandoned',
         UNCHANGED <<alerts, log, config, recent, messages, late>>
  PROVE  AlertInv'
<1> USE DEF AlertInv
<1>1. /\ \A r \in Requests : req'[r] = req[r] \/ req'[r] = Idle
      /\ Alerters \subseteq Requests /\ Listings \subseteq Requests
      /\ \A r \in Requests : r \notin S => req'[r] = req[r]
  BY RequestTypes
<1>2. \A r \in Alerters : Working(r)' => Working(r) /\ req'[r] = req[r]
  BY <1>1, RequestTypes DEF Working, WorkPc
<1>3. AlertTypes'
  <2>1. req' \in [Requests -> {Idle} \cup AlertReq \cup ListReq]
    BY DEF AlertTypes
  <2> QED
    BY <1>1, <2>1, RequestTypes DEF AlertTypes
<1>4. ConfigInv'
  BY DEF ConfigInv
<1>5. JobInv'
  <2> SUFFICES ASSUME NEW r \in Alerters, Working(r)' PROVE JobOK(req[r])'
    BY DEF JobInv
  <2>1. JobOK(req[r]) /\ req'[r] = req[r]
    BY <1>2 DEF JobInv
  <2>2. req[r].alert \in 1..Len(alerts)
    BY <2>1 DEF JobOK
  <2> QED
    BY <2>1, <2>2, JobFrame
<1>6. OwnerInv'
  BY <1>2 DEF OwnerInv
<1>7. LogInv'
  BY LogFrame DEF LogInv
<1>8. PendingInv'
  <2> SUFFICES ASSUME NEW a \in 1..Len(alerts), alerts[a] = "pending", a \notin abandoned'
               PROVE  \E r \in Alerters : Working(r)' /\ req'[r].alert = a
    BY DEF PendingInv
  <2>1. PICK r \in Alerters : Working(r) /\ req[r].alert = a
    BY DEF PendingInv
  <2>2. r \notin S
    BY <2>1
  <2> QED
    BY <1>1, <2>1, <2>2 DEF Working
<1>9. LateInv'
  BY <1>1, RequestTypes DEF LateInv
<1> QED
  BY <1>3, <1>4, <1>5, <1>6, <1>7, <1>8, <1>9

\* Requests that deliver nothing take a step.
LEMMA OtherStep ==
  ASSUME AlertInv, AlertTypes', ConfigInv', LateInv',
         \A r \in Alerters : Working(r)' \/ Working(r) => req'[r] = req[r],
         UNCHANGED <<alerts, log, messages, abandoned>>
  PROVE  AlertInv'
<1> USE DEF AlertInv
<1>1. \A r \in Alerters : Working(r)' => Working(r) /\ req'[r] = req[r]
  BY DEF Working
<1>2. JobInv'
  <2> SUFFICES ASSUME NEW r \in Alerters, Working(r)' PROVE JobOK(req[r])'
    BY DEF JobInv
  <2>1. JobOK(req[r]) /\ req'[r] = req[r]
    BY <1>1 DEF JobInv
  <2>2. req[r].alert \in 1..Len(alerts)
    BY <2>1 DEF JobOK
  <2> QED
    BY <2>1, <2>2, JobFrame
<1>3. OwnerInv'
  BY <1>1 DEF OwnerInv
<1>4. LogInv'
  BY LogFrame DEF LogInv
<1>5. PendingInv'
  BY DEF PendingInv, Working
<1> QED
  BY <1>2, <1>3, <1>4, <1>5

-----------------------------------------------------------------------------
(* The steps of a request *)

LEMMA Worker ==
  ASSUME AlertInv, NEW r \in Requests, Working(r)
  PROVE  /\ r \in Alerters /\ req[r] \in AlertReq /\ r \in Requests /\ JobOK(req[r])
         /\ req[r].alert \in 1..Len(alerts) /\ req[r].alert \in 1..Len(log)
         /\ LogOK(req[r].alert) /\ log[req[r].alert] \in Seq(Delivery)
<1> USE DEF AlertInv
<1>1. r \in Alerters /\ req[r] \in AlertReq
  BY RequestTypes DEF AlertTypes, Working, WorkPc
<1>2. JobOK(req[r])
  BY <1>1 DEF JobInv
<1>3. req[r].alert \in 1..Len(alerts)
  BY <1>2 DEF JobOK
<1> QED
  BY <1>1, <1>2, <1>3 DEF AlertTypes, LogInv

\* A request goes on without touching what is stored.
LEMMA QuietStep ==
  ASSUME AlertInv, NEW r \in Requests, Working(r),
         req'[r] \in AlertReq, req'[r].pc \in WorkPc, req'[r].alert = req[r].alert,
         req' = [req EXCEPT ![r] = req'[r]], JobOK(req[r])',
         messages' \in Seq(Nat), Len(messages') = Len(messages),
         UNCHANGED <<alerts, log, config, recent, late>>, abandoned \subseteq abandoned',
         r \in late => /\ req'[r].pc \notin {"config", "send", "wait"}
                       /\ req'[r].pc = "record" => req'[r].status = "deduped"
  PROVE  AlertInv'
<1>1. r \in Alerters /\ LogOK(req[r].alert)
  BY Worker
<1>2. LogOK(req[r].alert)'
  BY <1>1, LogFrame
<1> QED
  BY <1>1, <1>2, JobStep DEF AlertInv, AlertTypes

LEMMA DedupeStep ==
  ASSUME AlertInv, NEW r \in Requests, Dedupe(r)
  PROVE  AlertInv'
<1>1. Working(r) /\ req[r].pc = "dedupe"
  BY DEF Dedupe, Working, WorkPc
<1>2. /\ r \in Alerters /\ req[r] \in AlertReq /\ JobOK(req[r])
      /\ req \in [Requests -> {Idle} \cup AlertReq \cup ListReq]
  BY <1>1, Worker DEF AlertInv, AlertTypes
<1>3. CASE recent
  <2>1. /\ req'[r] \in AlertReq /\ req'[r].pc = "record" /\ req'[r].status = "deduped"
        /\ req'[r].alert = req[r].alert /\ req'[r].attempt = req[r].attempt
        /\ req' = [req EXCEPT ![r] = req'[r]]
    BY <1>2, <1>3 DEF Dedupe, RecentAlertSent, AlertReq, Final, WorkPc
  <2>2. JobOK(req[r])'
    BY <1>1, <1>2, <2>1, AlertAssumption DEF Dedupe, JobOK, Retrying, Final
  <2> QED
    BY <1>1, <2>1, <2>2, QuietStep DEF Dedupe, AlertInv, AlertTypes, WorkPc
<1>4. CASE ~recent
  <2>1. /\ req'[r] \in AlertReq /\ req'[r].pc = "config" /\ req'[r].alert = req[r].alert
        /\ req'[r].attempt = req[r].attempt /\ req' = [req EXCEPT ![r] = req'[r]]
    BY <1>2, <1>4 DEF Dedupe, RecentAlertSent, AlertReq, Final, WorkPc
  <2>2. JobOK(req[r])'
    BY <1>1, <1>2, <2>1 DEF Dedupe, JobOK
  <2>3. r \notin late
    BY <1>2, <1>4 DEF AlertInv, LateInv
  <2> QED
    BY <1>1, <2>1, <2>2, <2>3, QuietStep DEF Dedupe, AlertInv, AlertTypes, WorkPc
<1> QED
  BY <1>3, <1>4

LEMMA ReadConfigStep ==
  ASSUME AlertInv, NEW r \in Requests, ReadConfig(r)
  PROVE  AlertInv'
<1>1. Working(r) /\ req[r].pc = "config" /\ abandoned \subseteq abandoned'
  BY DEF ReadConfig, Working, WorkPc
<1>2. /\ r \in Alerters /\ req[r] \in AlertReq /\ JobOK(req[r]) /\ r \notin late
      /\ req \in [Requests -> {Idle} \cup AlertReq \cup ListReq]
  BY <1>1, Worker DEF AlertInv, AlertTypes, LateInv
<1>3. CASE config = NoConfig
  <2>1. /\ req'[r] \in AlertReq /\ req'[r].pc = "end" /\ req'[r].alert = req[r].alert
        /\ req' = [req EXCEPT ![r] = req'[r]] /\ req[r].alert \in abandoned'
    <3>1. req' = [req EXCEPT ![r].pc = "end"] /\ req[r].alert \in abandoned'
      BY <1>3 DEF ReadConfig, Goto
    <3> QED
      BY <1>2, <3>1 DEF AlertReq, WorkPc, Final
  <2>2. JobOK(req[r])'
    BY <1>1, <1>2, <2>1 DEF ReadConfig, JobOK
  <2> QED
    BY <1>1, <1>2, <2>1, <2>2, QuietStep DEF ReadConfig, AlertInv, AlertTypes, WorkPc
<1>4. CASE config # NoConfig /\ config.enabled /\ config.token # "unresolved"
  <2>1. /\ req'[r] \in AlertReq /\ req'[r].pc = "send" /\ req'[r].alert = req[r].alert
        /\ req'[r].attempt = 1 /\ req' = [req EXCEPT ![r] = req'[r]]
    <3>1. req' = [req EXCEPT ![r].pc = "send", ![r].attempt = 1]
      BY <1>4 DEF ReadConfig
    <3> QED
      BY <1>2, <3>1 DEF AlertReq, WorkPc, Final
  <2>2. JobOK(req[r])'
    BY <1>1, <1>2, <2>1, AlertAssumption DEF ReadConfig, JobOK, Retrying
  <2> QED
    BY <1>1, <1>2, <2>1, <2>2, QuietStep DEF ReadConfig, AlertInv, AlertTypes, WorkPc
<1>5. CASE config # NoConfig /\ ~(config.enabled /\ config.token # "unresolved")
  <2>1. /\ req'[r] \in AlertReq /\ req'[r].pc = "record" /\ req'[r].alert = req[r].alert
        /\ req'[r].status = "failed" /\ req'[r].attempt = req[r].attempt
        /\ req' = [req EXCEPT ![r] = req'[r]]
    <3>1. req' = [req EXCEPT ![r].pc = "record", ![r].status = "failed"]
      BY <1>5 DEF ReadConfig
    <3> QED
      BY <1>2, <3>1 DEF AlertReq, WorkPc, Final
  <2>2. JobOK(req[r])'
    BY <1>1, <1>2, <2>1, AlertAssumption DEF ReadConfig, JobOK, Retrying, Final
  <2> QED
    BY <1>1, <1>2, <2>1, <2>2, QuietStep DEF ReadConfig, AlertInv, AlertTypes, WorkPc
<1> QED
  BY <1>3, <1>4, <1>5

LEMMA SendMessageStep ==
  ASSUME AlertInv, NEW r \in Requests, SendMessage(r)
  PROVE  AlertInv'
<1>1. Working(r) /\ req[r].pc = "send"
  BY DEF SendMessage, Working, WorkPc
<1>2. /\ r \in Alerters /\ req[r] \in AlertReq /\ JobOK(req[r]) /\ r \notin late
      /\ req \in [Requests -> {Idle} \cup AlertReq \cup ListReq]
  BY <1>1, Worker DEF AlertInv, AlertTypes, LateInv
<1>3. /\ req[r].attempt = Len(log[req[r].alert]) + 1 /\ req[r].attempt <= MaxAttempts
      /\ Len(log[req[r].alert]) \in Nat /\ MaxAttempts \in Nat
  BY <1>1, <1>2, Worker, AlertAssumption DEF JobOK
<1>4. PICK got \in BOOLEAN, ok \in BOOLEAN, retryable \in BOOLEAN :
        /\ messages' = IF got THEN [messages EXCEPT ![req[r].alert] = @ + 1] ELSE messages
        /\ req' = [req EXCEPT ![r].pc = "record", ![r].status =
                     IF ok THEN "sent" ELSE FailedStatus(retryable, req[r].attempt)]
  BY DEF SendMessage
<1>5. PICK status : /\ status \in {"sent", "failed", "retrying"}
                    /\ status = "retrying" => req[r].attempt < MaxAttempts
                    /\ req' = [req EXCEPT ![r].pc = "record", ![r].status = status]
  BY <1>4 DEF FailedStatus
<1>6. /\ req'[r] \in AlertReq /\ req'[r].pc = "record" /\ req'[r].alert = req[r].alert
      /\ req'[r].status = status /\ req'[r].attempt = req[r].attempt
      /\ req' = [req EXCEPT ![r] = req'[r]]
  BY <1>2, <1>5 DEF AlertReq, WorkPc, Final
<1>7. JobOK(req[r])'
  BY <1>1, <1>2, <1>3, <1>5, <1>6 DEF SendMessage, JobOK, Retrying, Final
<1>8. messages' \in Seq(Nat) /\ Len(messages') = Len(messages)
  <2>1. messages \in Seq(Nat) /\ req[r].alert \in 1..Len(messages)
    BY <1>1, Worker DEF AlertInv, AlertTypes
  <2>2. messages[req[r].alert] + 1 \in Nat
    BY <2>1
  <2>3. CASE messages' = [messages EXCEPT ![req[r].alert] = @ + 1]
    BY <2>1, <2>2, <2>3
  <2> QED
    BY <1>4, <2>1, <2>3
<1> QED
  BY <1>1, <1>2, <1>6, <1>7, <1>8, QuietStep DEF SendMessage, WorkPc

LEMMA RetryStep ==
  ASSUME AlertInv, NEW r \in Requests, Retry(r)
  PROVE  AlertInv'
<1>1. Working(r) /\ req[r].pc = "wait"
  BY DEF Retry, Working, WorkPc
<1>2. /\ r \in Alerters /\ req[r] \in AlertReq /\ JobOK(req[r]) /\ r \notin late
      /\ req \in [Requests -> {Idle} \cup AlertReq \cup ListReq]
  BY <1>1, Worker DEF AlertInv, AlertTypes, LateInv
<1>3. /\ req[r].attempt = Len(log[req[r].alert]) /\ req[r].attempt < MaxAttempts
      /\ Len(log[req[r].alert]) \in Nat /\ MaxAttempts \in Nat
  BY <1>1, <1>2, Worker, AlertAssumption DEF JobOK
<1>4. /\ req'[r] \in AlertReq /\ req'[r].pc = "send" /\ req'[r].alert = req[r].alert
      /\ req'[r].attempt = req[r].attempt + 1 /\ req' = [req EXCEPT ![r] = req'[r]]
  <2>1. req' = [req EXCEPT ![r].pc = "send", ![r].attempt = @ + 1]
    BY DEF Retry
  <2>2. req[r].attempt + 1 \in Nat
    BY <1>3
  <2> QED
    BY <1>2, <2>1, <2>2 DEF AlertReq, WorkPc, Final
<1>5. JobOK(req[r])'
  BY <1>1, <1>2, <1>3, <1>4 DEF Retry, JobOK, Retrying
<1> QED
  BY <1>1, <1>2, <1>4, <1>5, QuietStep DEF Retry, AlertInv, AlertTypes, WorkPc

LEMMA RecordStep ==
  ASSUME AlertInv, NEW r \in Requests, RecordAlertDelivery(r)
  PROVE  AlertInv'
<1> DEFINE a == req[r].alert
           d == [status |-> req[r].status, attempt |-> req[r].attempt]
<1>1. Working(r) /\ req[r].pc = "record"
  BY DEF RecordAlertDelivery, Working, WorkPc
<1>2. /\ r \in Alerters /\ req[r] \in AlertReq /\ JobOK(req[r])
      /\ req \in [Requests -> {Idle} \cup AlertReq \cup ListReq]
      /\ a \in 1..Len(log) /\ log[a] \in Seq(Delivery) /\ log \in Seq(Seq(Delivery))
      /\ LogOK(a) /\ Len(log) = Len(alerts)
  BY <1>1, Worker DEF AlertInv, AlertTypes
<1>3. /\ alerts[a] = "pending" /\ PolicyEnabled /\ Retrying(a) /\ Len(log[a]) < MaxAttempts
      /\ req[r].status \in Final \cup {"retrying"} /\ req[r].attempt \in {0, Len(log[a]) + 1}
      /\ req[r].status = "retrying" =>
           req[r].attempt = Len(log[a]) + 1 /\ req[r].attempt < MaxAttempts
      /\ MaxAttempts \in Nat /\ Len(log[a]) \in Nat
  BY <1>1, <1>2, AlertAssumption DEF JobOK
<1>4. d \in Delivery
  BY <1>2, <1>3 DEF Delivery, AlertReq
<1>5. /\ log' = [log EXCEPT ![a] = Append(log[a], d)]
      /\ req' = [req EXCEPT ![r].pc = AfterRecord(req[r].status)]
      /\ UNCHANGED <<alerts, config, messages, late, abandoned>> /\ (recent => recent')
  BY DEF RecordAlertDelivery, Goto
<1> HIDE DEF d
<1>6. /\ log'[a] = Append(log[a], d) /\ log'[a] \in Seq(Delivery)
      /\ log' \in Seq(Seq(Delivery)) /\ Len(log') = Len(log)
      /\ \A b \in 1..Len(alerts) : b # a => log'[b] = log[b]
  BY <1>2, <1>4, <1>5
<1>7. /\ Len(log'[a]) = Len(log[a]) + 1 /\ log'[a][Len(log[a]) + 1] = d
      /\ \A i \in 1..Len(log[a]) : log'[a][i] = log[a][i]
      /\ 1..(Len(log[a]) + 1) = 1..Len(log[a]) \cup {Len(log[a]) + 1}
  <2>1. \A n \in Nat : 1..(n + 1) = 1..n \cup {n + 1}
    OBVIOUS
  <2>2. /\ Len(Append(log[a], d)) = Len(log[a]) + 1 /\ Append(log[a], d)[Len(log[a]) + 1] = d
        /\ \A i \in 1..Len(log[a]) : Append(log[a], d)[i] = log[a][i]
    BY <1>2, <1>4, AppendProperties
  <2> QED
    BY <1>3, <1>6, <2>1, <2>2
<1>8. d.status = req[r].status /\ d.attempt = req[r].attempt
  BY DEF d
<1>9. /\ req'[r] \in AlertReq /\ req'[r].pc = AfterRecord(req[r].status)
      /\ req'[r].pc \in {"wait", "set"}
      /\ req'[r].alert = a /\ req'[r].status = req[r].status
      /\ req'[r].attempt = req[r].attempt /\ req' = [req EXCEPT ![r] = req'[r]]
  BY <1>2, <1>5 DEF AfterRecord, AlertReq, WorkPc
<1>10. LogOK(a)'
  <2>1. \A i \in 1..Len(log[a]) : log[a][i].attempt \in {i, 0} /\ log[a][i].status = "retrying"
    BY <1>2, <1>3 DEF LogOK, Retrying
  <2>0. a' = a
    BY <1>9
  <2> HIDE DEF a
  <2>2. Len(log'[a]) <= MaxAttempts
    BY <1>3, <1>7
  <2>3. ASSUME NEW i \in 1..(Len(log[a]) + 1)
        PROVE  /\ log'[a][i].attempt \in {i, 0}
               /\ i < Len(log[a]) + 1 => log'[a][i].status = "retrying"
    <3>1. CASE i \in 1..Len(log[a])
      BY <1>7, <2>1, <3>1
    <3>2. CASE i = Len(log[a]) + 1
      BY <1>3, <1>7, <1>8, <3>2
    <3> QED
      BY <1>7, <3>1, <3>2
  <2> QED
    BY <1>3, <1>5, <1>7, <2>0, <2>2, <2>3 DEF LogOK, LastDelivery
<1>11. JobOK(req[r])'
  <2>1. CASE req[r].status = "retrying"
    <3>1. req'[r].pc = "wait"
      BY <1>9, <2>1 DEF AfterRecord
    <3>2. Retrying(a)'
      <4>1. ASSUME NEW i \in 1..(Len(log[a]) + 1) PROVE log'[a][i].status = "retrying"
        BY <1>3, <1>7, <1>8, <2>1, <4>1 DEF Retrying
      <4> QED
        BY <1>7, <4>1, <1>9 DEF Retrying
    <3> QED
      BY <1>2, <1>3, <1>5, <1>7, <1>9, <2>1, <3>1, <3>2 DEF JobOK
  <2>2. CASE req[r].status # "retrying"
    <3>1. req'[r].pc = "set" /\ req[r].status \in Final
      BY <1>3, <1>9, <2>2 DEF AfterRecord
    <3>2. log'[a] # <<>> /\ log'[a][Len(log'[a])].status = req[r].status
      BY <1>3, <1>6, <1>7, <1>8
    <3> QED
      BY <1>2, <1>3, <1>5, <1>9, <3>1, <3>2 DEF JobOK, LastDelivery
  <2> QED
    BY <2>1, <2>2
<1>12. r \in late => req'[r].pc \notin {"config", "send", "wait", "record"}
  <2>1. r \in late => req[r].status = "deduped"
    BY <1>1, <1>2 DEF AlertInv, LateInv
  <2> QED
    BY <1>9, <2>1 DEF AfterRecord
<1> QED
  BY <1>1, <1>2, <1>5, <1>6, <1>9, <1>10, <1>11, <1>12, JobStep
  DEF AlertInv, AlertTypes, WorkPc

LEMMA SetStatusStep ==
  ASSUME AlertInv, NEW r \in Requests, SetAlertStatus(r)
  PROVE  AlertInv'
<1> DEFINE a == req[r].alert
<1>1. Working(r) /\ req[r].pc = "set"
  BY DEF SetAlertStatus, Working, WorkPc
<1>2. /\ r \in Alerters /\ req[r] \in AlertReq /\ JobOK(req[r])
      /\ req \in [Requests -> {Idle} \cup AlertReq \cup ListReq]
      /\ a \in 1..Len(alerts) /\ alerts \in Seq(Final \cup {"pending"}) /\ LogOK(a)
  BY <1>1, Worker DEF AlertInv, AlertTypes
<1>3. /\ req[r].status \in Final
      /\ PolicyEnabled => log[a] # <<>> /\ LastDelivery(a).status = req[r].status
      /\ ~PolicyEnabled => log[a] = <<>>
  BY <1>1, <1>2 DEF JobOK
<1>4. /\ alerts' = [alerts EXCEPT ![a] = req[r].status]
      /\ req' = [req EXCEPT ![r].pc = "end"]
      /\ UNCHANGED <<log, config, recent, messages, late, abandoned>>
  BY DEF SetAlertStatus, Goto
<1>5. /\ req'[r] \in AlertReq /\ req'[r].pc = "end" /\ req'[r].alert = a
      /\ req' = [req EXCEPT ![r] = req'[r]]
  BY <1>2, <1>4 DEF AlertReq, WorkPc, Final
<1>6. /\ alerts' \in Seq(Final \cup {"pending"}) /\ Len(alerts') = Len(alerts)
      /\ alerts'[a] = req[r].status /\ alerts'[a] # "pending"
      /\ \A b \in 1..Len(alerts) : b # a => alerts'[b] = alerts[b]
  BY <1>2, <1>3, <1>4 DEF Final
<1>7. LogOK(a)'
  BY <1>2, <1>3, <1>4, <1>6 DEF LogOK, LastDelivery
<1>8. JobOK(req[r])'
  BY <1>2, <1>5, <1>6 DEF JobOK
<1> QED
  BY <1>1, <1>2, <1>4, <1>5, <1>6, <1>7, <1>8, JobStep DEF AlertInv, AlertTypes, WorkPc

LEMMA CreateStep ==
  ASSUME AlertInv, NEW r \in Requests, CreateAlert(r)
  PROVE  AlertInv'
<1> DEFINE a == Len(alerts) + 1
<1> USE DEF AlertInv
<1>1. /\ req[r].pc = "create" /\ r \in Alerters /\ req[r] \in AlertReq
      /\ req \in [Requests -> {Idle} \cup AlertReq \cup ListReq]
      /\ Alerters \subseteq Requests /\ Listings \subseteq Requests /\ r \notin Listings
  BY RequestTypes DEF CreateAlert, AlertTypes
<1>2. /\ alerts' = Append(alerts, "pending") /\ log' = Append(log, <<>>)
      /\ messages' = Append(messages, 0)
      /\ UNCHANGED <<config, recent, late, abandoned>>
  BY DEF CreateAlert
<1>3. /\ Len(alerts) \in Nat /\ Len(alerts') = Len(alerts) + 1 /\ a \in Nat
      /\ alerts' \in Seq(Final \cup {"pending"}) /\ alerts'[a] = "pending"
      /\ \A b \in 1..Len(alerts) : alerts'[b] = alerts[b]
      /\ 1..Len(alerts') = 1..Len(alerts) \cup {a}
  BY <1>2 DEF AlertTypes
<1>4. /\ log' \in Seq(Seq(Delivery)) /\ Len(log') = Len(alerts') /\ log'[a] = <<>>
      /\ \A b \in 1..Len(alerts) : log'[b] = log[b]
  BY <1>2, <1>3 DEF AlertTypes
<1>5. messages' \in Seq(Nat) /\ Len(messages') = Len(alerts')
  BY <1>2, <1>3 DEF AlertTypes
<1>6. PICK pc, status :
        /\ pc = IF PolicyEnabled THEN "dedupe" ELSE "set"
        /\ status = IF PolicyEnabled THEN "" ELSE "deduped"
        /\ req' = [req EXCEPT ![r].alert = a, ![r].pc = pc, ![r].status = status]
  BY DEF CreateAlert
<1>7. pc \in {"dedupe", "set"} /\ status \in {"", "deduped"}
  BY <1>6
<1>8. /\ req'[r] \in AlertReq /\ req'[r].pc = pc /\ req'[r].alert = a
      /\ req'[r].status = status /\ req'[r].attempt = req[r].attempt
      /\ \A s \in Requests : s # r => req'[s] = req[s]
      /\ req' \in [Requests -> {Idle} \cup AlertReq \cup ListReq]
  BY <1>1, <1>3, <1>6, <1>7 DEF AlertReq, WorkPc, Final
<1>9. AlertTypes'
  BY <1>1, <1>3, <1>4, <1>5, <1>7, <1>8 DEF AlertTypes
<1>10. ConfigInv'
  BY <1>2 DEF ConfigInv
<1>11. \A s \in Alerters : s # r => (Working(s)' <=> Working(s))
  BY <1>1, <1>8 DEF Working
<1>12. ASSUME NEW s \in Alerters, s # r, Working(s)'
       PROVE  /\ JobOK(req[s]) /\ req'[s] = req[s] /\ req[s].alert \in 1..Len(alerts)
              /\ req[s].alert # a
  <2>1. JobOK(req[s]) /\ req'[s] = req[s]
    BY <1>1, <1>8, <1>11, <1>12 DEF JobInv
  <2>2. req[s].alert \in 1..Len(alerts)
    BY <2>1 DEF JobOK
  <2> QED
    BY <1>3, <2>1, <2>2
<1>13. JobInv'
  <2> SUFFICES ASSUME NEW s \in Alerters, Working(s)' PROVE JobOK(req[s])'
    BY DEF JobInv
  <2>1. CASE s = r
    <3>1. req[r].attempt = 0
      BY <1>1 DEF AlertTypes
    <3> QED
      <4>1. a \in 1..Len(alerts')
        BY <1>3
      <4>2. CASE PolicyEnabled
        <5>1. req'[r].pc = "dedupe" /\ req'[r].attempt = 0 /\ req'[r].alert = a
          BY <1>6, <1>8, <3>1, <4>2
        <5>2. alerts'[a] = "pending" /\ log'[a] = <<>>
          BY <1>3, <1>4
        <5> HIDE DEF a
        <5> QED
          BY <2>1, <4>1, <4>2, <5>1, <5>2 DEF JobOK
      <4>3. CASE ~PolicyEnabled
        BY <1>3, <1>4, <1>6, <1>8, <2>1, <4>1, <4>3 DEF JobOK, Final
      <4> QED
        BY <4>2, <4>3
  <2>2. CASE s # r
    BY <1>2, <1>3, <1>4, <1>12, <2>2, JobFrame
  <2> QED
    BY <2>1, <2>2
<1>14. OwnerInv'
  <2> SUFFICES ASSUME NEW s \in Alerters, NEW t \in Alerters, Working(s)', Working(t)',
                      req'[s].alert = req'[t].alert
               PROVE  s = t
    BY DEF OwnerInv
  <2>1. CASE s = r \/ t = r
    BY <1>8, <1>12, <2>1
  <2>2. CASE s # r /\ t # r
    BY <1>11, <1>12, <2>2 DEF OwnerInv
  <2> QED
    BY <2>1, <2>2
<1>15. LogInv'
  <2> SUFFICES ASSUME NEW b \in 1..Len(alerts') PROVE LogOK(b)'
    BY DEF LogInv
  <2>1. CASE b \in 1..Len(alerts)
    BY <1>3, <1>4, <2>1, LogFrame DEF LogInv
  <2>2. CASE b = a
    BY <1>3, <1>4, <2>2, AlertAssumption DEF LogOK
  <2> QED
    BY <1>3, <2>1, <2>2
<1>16. PendingInv'
  <2> SUFFICES ASSUME NEW b \in 1..Len(alerts'), alerts'[b] = "pending"
               PROVE  b \in abandoned' \/ \E s \in Alerters : Working(s)' /\ req'[s].alert = b
    BY DEF PendingInv
  <2>1. CASE b = a
    BY <1>1, <1>7, <1>8, <2>1 DEF Working, WorkPc
  <2>2. CASE b \in 1..Len(alerts)
    <3>1. b \in abandoned \/ \E s \in Alerters : Working(s) /\ req[s].alert = b
      BY <1>3, <2>2 DEF PendingInv
    <3>2. ~Working(r)
      BY <1>1 DEF Working, WorkPc
    <3> QED
      BY <1>1, <1>2, <1>8, <1>11, <3>1, <3>2
  <2> QED
    BY <1>3, <2>1, <2>2
<1>17. LateInv'
  BY <1>1, <1>2, <1>7, <1>8 DEF LateInv
<1> QED
  BY <1>9, <1>10, <1>13, <1>14, <1>15, <1>16, <1>17

LEMMA EndAlertStep ==
  ASSUME AlertInv, NEW r \in Requests, EndAlert(r)
  PROVE  AlertInv'
<1>1. Working(r) /\ req[r].pc = "end"
  BY DEF EndAlert, Working, WorkPc
<1>2. JobOK(req[r]) /\ req \in [Requests -> {Idle} \cup AlertReq \cup ListReq]
  BY <1>1, Worker DEF AlertInv, AlertTypes
<1>3. alerts[req[r].alert] = "pending" => req[r].alert \in abandoned
  BY <1>1, <1>2 DEF JobOK
<1>4. /\ req' = [x \in Requests |-> IF x \in {r} THEN Idle ELSE req[x]]
      /\ UNCHANGED <<alerts, log, config, recent, messages, late>> /\ abandoned' = abandoned
  BY <1>2 DEF EndAlert
<1>5. /\ abandoned \subseteq abandoned'
      /\ \A x \in {r} \cap Alerters :
           Working(x) /\ alerts[req[x].alert] = "pending" => req[x].alert \in abandoned'
  BY <1>3, <1>4
<1> QED
  BY <1>4, <1>5, EndStep

LEMMA GiveUpStep ==
  ASSUME AlertInv, NEW S, GiveUp(S)
  PROVE  AlertInv'
<1>1. /\ req' = [r \in Requests |-> IF r \in S THEN Idle ELSE req[r]]
      /\ UNCHANGED <<alerts, log, config, recent, messages, late>>
      /\ abandoned \subseteq abandoned'
  BY DEF GiveUp
<1>2. ASSUME NEW r \in S \cap Alerters, Working(r), alerts[req[r].alert] = "pending"
      PROVE  req[r].alert \in abandoned'
  <2>1. r \in Requests /\ r \notin Listings
    BY RequestTypes
  <2>2. CASE req[r].pc = "end"
    BY <1>1, <1>2, <2>1, <2>2, Worker DEF JobOK
  <2>3. CASE req[r].pc # "end"
    <3>1. req[r].pc \notin {"idle", "create", "end"}
      BY <1>2, <2>3 DEF Working, WorkPc
    <3> QED
      BY <2>1, <3>1 DEF GiveUp
  <2> QED
    BY <2>2, <2>3
<1> QED
  BY <1>1, <1>2, EndStep

LEMMA BeginAlertStep ==
  ASSUME AlertInv, NEW r \in Requests, BeginAlert(r)
  PROVE  AlertInv'
<1> USE DEF AlertInv
<1> DEFINE x == [pc |-> "create", alert |-> 0, status |-> "", attempt |-> 0]
<1>1. /\ r \in Alerters /\ req[r] = Idle /\ req' = [req EXCEPT ![r] = x]
      /\ late' = IF recent THEN late \cup {r} ELSE late \ {r}
      /\ UNCHANGED <<alerts, log, config, recent, messages, abandoned>>
  BY DEF BeginAlert, Alerters
<1>2. x \in AlertReq /\ x.pc = "create" /\ x.attempt = 0
  BY DEF AlertReq
<1> HIDE DEF x
<1>3. /\ req'[r] = x /\ \A s \in Requests : s # r => req'[s] = req[s]
      /\ req' \in [Requests -> {Idle} \cup AlertReq \cup ListReq]
      /\ Alerters \subseteq Requests /\ Listings \subseteq Requests /\ r \notin Listings
  BY <1>1, <1>2, RequestTypes DEF AlertTypes
<1>4. AlertTypes'
  BY <1>1, <1>2, <1>3 DEF AlertTypes
<1>5. ConfigInv'
  BY <1>1 DEF ConfigInv
<1>6. LateInv'
  <2> SUFFICES ASSUME NEW s \in late', s \in Alerters
               PROVE  /\ recent
                      /\ req'[s].pc \notin {"config", "send", "wait"}
                      /\ req'[s].pc = "record" => req'[s].status = "deduped"
    BY <1>1 DEF LateInv
  <2>1. CASE s = r
    BY <1>1, <1>2, <1>3, <2>1
  <2>2. CASE s # r
    <3>1. s \in late
      BY <1>1, <2>2
    <3> QED
      BY <1>3, <2>2, <3>1 DEF LateInv
  <2> QED
    BY <2>1, <2>2
<1>7. \A s \in Alerters : Working(s)' \/ Working(s) => req'[s] = req[s]
  BY <1>1, <1>2, <1>3, RequestTypes DEF Working, WorkPc
<1> QED
  BY <1>1, <1>4, <1>5, <1>6, <1>7, OtherStep

\* A listing touches nothing but its own place.
LEMMA ListingStep ==
  ASSUME AlertInv, NEW r \in Requests, BeginListing(r) \/ ListDeliveries(r)
  PROVE  AlertInv'
<1> USE DEF AlertInv
<1>1. req \in [Requests -> {Idle} \cup AlertReq \cup ListReq]
  BY DEF AlertTypes
<1>2. /\ r \in Listings /\ r \notin Alerters
      /\ UNCHANGED <<alerts, log, config, recent, messages, late, abandoned>>
  <2>1. CASE BeginListing(r)
    BY <2>1, RequestTypes DEF BeginListing
  <2>2. CASE ListDeliveries(r)
    <3>1. r \notin Alerters
      BY <2>2, RequestTypes DEF ListDeliveries, AlertTypes
    <3> QED
      BY <2>2, <3>1, RequestTypes DEF ListDeliveries
  <2> QED
    BY <2>1, <2>2
<1>3. PICK x \in {Idle} \cup ListReq : req' = [req EXCEPT ![r] = x]
  <2>1. CASE BeginListing(r)
    BY <2>1 DEF BeginListing, ListReq
  <2>2. CASE ListDeliveries(r)
    <3>1. req[r] \in ListReq
      BY <1>2, <2>2, RequestTypes DEF ListDeliveries, AlertTypes
    <3>2. CASE req' = [req EXCEPT ![r] = Idle]
      BY <3>2
    <3>3. CASE req' = [req EXCEPT ![r].next = @ + 1]
      <4>1. [req[r] EXCEPT !.next = @ + 1] \in ListReq
        BY <3>1 DEF ListReq
      <4> QED
        BY <3>3, <4>1
    <3> QED
      BY <2>2, <3>2, <3>3 DEF ListDeliveries
  <2> QED
    BY <2>1, <2>2
<1>4. /\ req' \in [Requests -> {Idle} \cup AlertReq \cup ListReq]
      /\ \A s \in Alerters : req'[s] = req[s]
      /\ \A s \in Listings : req'[s] = x \/ req'[s] = req[s]
  BY <1>1, <1>2, <1>3, RequestTypes
<1>5. AlertTypes'
  BY <1>2, <1>3, <1>4 DEF AlertTypes
<1>6. ConfigInv' /\ LateInv'
  BY <1>2, <1>4 DEF ConfigInv, LateInv
<1> QED
  BY <1>2, <1>4, <1>5, <1>6, OtherStep

-----------------------------------------------------------------------------
(* Configuration and time *)

LEMMA UpsertStep ==
  ASSUME AlertInv, NEW given \in {"", Mask, "t1", "unresolved"}, NEW enabled \in BOOLEAN,
         UpsertTelegramConfig(given, enabled)
  PROVE  AlertInv'
<1> USE DEF AlertInv
<1>1. /\ UNCHANGED <<alerts, log, req, recent, messages, late, abandoned>>
      /\ config' = [token |-> Token(given), enabled |-> enabled] /\ Token(given) # ""
  BY DEF UpsertTelegramConfig
<1>2. Token(given) # Mask
  BY <1>1 DEF Token, ConfigInv, Mask
<1>3. ConfigInv'
  BY <1>1, <1>2 DEF ConfigInv
<1>4. AlertTypes' /\ LateInv'
  BY <1>1 DEF AlertTypes, LateInv
<1> QED
  BY <1>1, <1>3, <1>4, OtherStep

LEMMA WindowStep ==
  ASSUME AlertInv, WindowPasses
  PROVE  AlertInv'
<1> USE DEF AlertInv
<1>1. UNCHANGED <<alerts, log, config, req, messages, abandoned>> /\ late' = {}
  BY DEF WindowPasses
<1>2. AlertTypes' /\ ConfigInv' /\ LateInv'
  BY <1>1 DEF AlertTypes, ConfigInv, LateInv
<1> QED
  BY <1>1, <1>2, OtherStep

-----------------------------------------------------------------------------
(* The theorems *)

LEMMA AlertInitially ==
  ASSUME AdInit
  PROVE  AlertInv
<1> USE DEF AdInit
<1>1. \A r \in Alerters : req[r] = Idle /\ ~Working(r)
  BY RequestTypes DEF Working, WorkPc
<1>2. AlertTypes
  <2>1. req \in [Requests -> {Idle} \cup AlertReq \cup ListReq]
    OBVIOUS
  <2>2. \A r \in Listings : req[r] = Idle
    BY RequestTypes
  <2>3. \A r \in Alerters : req[r].pc # "create"
    BY <1>1, RequestTypes
  <2>4. /\ alerts \in Seq(Final \cup {"pending"}) /\ log \in Seq(Seq(Delivery))
        /\ messages \in Seq(Nat) /\ Len(log) = Len(alerts) /\ Len(messages) = Len(alerts)
    OBVIOUS
  <2> QED
    BY <1>1, <2>1, <2>2, <2>3, <2>4 DEF AlertTypes
<1>3. ConfigInv
  <2>1. CASE config = NoConfig
    <3>1. config.token = ""
      BY <2>1 DEF NoConfig
    <3> QED
      BY <2>1, <3>1 DEF ConfigInv, Mask
  <2>2. CASE config = [token |-> "t1", enabled |-> TRUE]
    <3>1. config.token = "t1"
      BY <2>2
    <3> QED
      BY <3>1 DEF ConfigInv, Mask
  <2> QED
    BY <2>1, <2>2
<1>4. JobInv /\ OwnerInv
  BY <1>1 DEF JobInv, OwnerInv
<1>5. Len(alerts) = 0
  OBVIOUS
<1>6. LogInv /\ PendingInv
  BY <1>5 DEF LogInv, PendingInv
<1>7. LateInv
  BY DEF LateInv
<1> QED
  BY <1>2, <1>3, <1>4, <1>6, <1>7 DEF AlertInv

LEMMA AlertStep ==
  ASSUME AlertInv, [AdNext]_advars
  PROVE  AlertInv'
<1>1. ASSUME NEW r \in Requests, BeginAlert(r) PROVE AlertInv'
  BY <1>1, BeginAlertStep
<1>2. ASSUME NEW r \in Requests, BeginListing(r) PROVE AlertInv'
  BY <1>2, ListingStep
<1>3. ASSUME NEW r \in Requests, Step(r) PROVE AlertInv'
  BY <1>3, CreateStep, DedupeStep, ReadConfigStep, SendMessageStep, RecordStep,
     RetryStep, SetStatusStep, EndAlertStep, ListingStep DEF Step
<1>4. ASSUME NEW r \in Requests, Cancel(r) PROVE AlertInv'
  BY <1>4, GiveUpStep DEF Cancel
<1>5. ASSUME NEW given \in {"", Mask, "t1", "unresolved"}, NEW enabled \in BOOLEAN,
             UpsertTelegramConfig(given, enabled)
      PROVE  AlertInv'
  BY <1>5, UpsertStep
<1>6. ASSUME WindowPasses PROVE AlertInv'
  BY <1>6, WindowStep
<1>7. ASSUME Crash PROVE AlertInv'
  BY <1>7, GiveUpStep DEF Crash
<1>8. ASSUME UNCHANGED advars PROVE AlertInv'
  <2>1. AlertTypes' /\ ConfigInv' /\ LateInv'
    BY <1>8 DEF advars, AlertInv, AlertTypes, ConfigInv, LateInv
  <2> QED
    BY <1>8, <2>1, OtherStep DEF advars
<1> QED
  BY <1>1, <1>2, <1>3, <1>4, <1>5, <1>6, <1>7, <1>8 DEF AdNext

\* Requests, crashes, cancelled contexts and changes of the configuration in
\* any order keep AlertInv.
THEOREM AlertInvariance == AdSpec => []AlertInv
  BY AlertInitially, AlertStep, PTL DEF AdSpec

\* The stored token is never the mask that responses show (UpsertTelegramConfig),
\* and the statuses are those of alert.go.
THEOREM TokenIsNeverTheMask == AdSpec => []AdTypeOK
<1>1. AlertInv => AdTypeOK
  BY AlertInvImplies
<1> QED
  BY <1>1, AlertInvariance, PTL

\* What recordAlertDelivery has stored of an alert numbers its attempts, and the
\* status that setAlertStatus gives is that of the last of them; an alert that
\* stays pending has its request or was given up.
THEOREM LogIsTrue == AdSpec => []LogTellsStatus
<1>1. AlertInv => LogTellsStatus
  BY AlertInvImplies
<1> QED
  BY <1>1, AlertInvariance, PTL

\* recentAlertSent: a request that begins in the window of a recorded delivery
\* never reaches Telegram.
THEOREM LateRequestsAreDeduped == AdSpec => DedupeHolds
<1>1. ASSUME AlertInv
      PROVE  [\A r \in Applies \cup Creators :
                req[r].pc = "send" /\ r \in late => messages' = messages]_advars
  BY <1>1 DEF AlertInv, LateInv, Alerters
<1> QED
  BY <1>1, AlertInvariance, PTL DEF AdSpec, DedupeHolds
=============================================================================
