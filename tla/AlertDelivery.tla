---------------------------- MODULE AlertDelivery ----------------------------
(***************************************************************************)
(* Alerts of one owner and their way to Telegram (internal/control/        *)
(* alert.go, alert_handlers.go), the failed applies that raise them        *)
(* (RecordAgentApply in agent_store.go), and the connections of the pool   *)
(* that all of this needs (OpenPool in store.go).                          *)
(*                                                                         *)
(* Every function opens a transaction of its own, which takes a connection *)
(* for the length of one step here. RecordAgentApply and ListAlerts keep   *)
(* one connection for their whole length and need a second one for what    *)
(* they call: with every connection kept in that way, all of them wait.    *)
(***************************************************************************)
EXTENDS Integers, Sequences, FiniteSets

CONSTANTS
  Applies,      \* requests of agents that report a failed apply
  Listings,     \* requests that list alerts
  Creators,     \* other requests that create an alert
  Conns,        \* MaxConns of the pool
  MaxAttempts,  \* max_attempts of the alert policy
  PolicyEnabled,
  MaxAlerts,    \* bound on the alerts created
  MaxChanges    \* bound on changes of the Telegram configuration, windows and crashes

Requests == Applies \cup Listings \cup Creators
Mask == "*****"

\* That listings alone do not take all the connections is assumed.
ASSUME AlertAssumption ==
  /\ Conns \in Nat /\ Cardinality(Listings) < Conns
  /\ Applies \cap Listings = {} /\ Creators \cap (Applies \cup Listings) = {}
  /\ MaxAttempts \in Nat \ {0} /\ MaxAlerts \in Nat /\ MaxChanges \in Nat
  /\ PolicyEnabled \in BOOLEAN

VARIABLES
  alerts,     \* alerts, of one dedupe_key: their status
  log,        \* [alert -> its alert_deliveries, [status, attempt]]
  config,     \* telegram_configs: [token, enabled], or NoConfig
  req,        \* [Requests -> where it is]
  recent,     \* a delivery with status sent in the window
  messages,   \* history: [alert -> messages that Telegram has got]
  late,       \* history: requests that began after recent had become true
  abandoned,  \* history: alerts whose delivery was given up
  changes     \* history: changes so far

advars == <<alerts, log, config, req, recent, messages, late, abandoned, changes>>

NoConfig == [token |-> "", enabled |-> FALSE]
Idle == [pc |-> "idle"]

\* Connections kept across steps, and whether one is left for a transaction.
Holding(r) == r \in Applies \cup Listings /\ req[r].pc # "idle"
Free == Cardinality({r \in Requests : Holding(r)}) < Conns

Change == changes < MaxChanges /\ changes' = changes + 1
Goto(r, pc) == req' = [req EXCEPT ![r].pc = pc]

-----------------------------------------------------------------------------
(* Requests *)

\* RecordAgentApply has its row of policy_apply_status written and goes on to
\* CreateSystemAlert; CreateAlert of a handler or of a failed feed.
BeginAlert(r) ==
  /\ r \in Applies \cup Creators /\ req[r] = Idle
  /\ Len(alerts) + Cardinality({x \in Requests : req[x].pc = "create"}) < MaxAlerts
  /\ r \in Applies => Free
  /\ req' = [req EXCEPT ![r] = [pc |-> "create", alert |-> 0, status |-> "", attempt |-> 0]]
  /\ late' = IF recent THEN late \cup {r} ELSE late \ {r}
  /\ UNCHANGED <<alerts, log, config, recent, messages, abandoned, changes>>

\* createAlert up to its commit, and alertPolicy.
CreateAlert(r) ==
  LET a == Len(alerts) + 1 IN
  /\ req[r].pc = "create" /\ Free
  /\ alerts' = Append(alerts, "pending") /\ log' = Append(log, <<>>)
  /\ messages' = Append(messages, 0)
  /\ req' = [req EXCEPT ![r].alert = a, ![r].pc = IF PolicyEnabled THEN "dedupe" ELSE "set",
                        ![r].status = IF PolicyEnabled THEN "" ELSE "deduped"]
  /\ UNCHANGED <<config, recent, late, abandoned, changes>>

\* Faulty variant: no delivery counts as recent.
RecentIgnored == FALSE

RecentAlertSent == recent
Dedupe(r) ==
  /\ req[r].pc = "dedupe" /\ Free
  /\ req' = IF RecentAlertSent THEN [req EXCEPT ![r].pc = "record", ![r].status = "deduped"]
            ELSE [req EXCEPT ![r].pc = "config"]
  /\ UNCHANGED <<alerts, log, config, recent, messages, late, abandoned, changes>>

\* getTelegramConfigRaw: that there is no row is an error, and the alert stays
\* pending; one that is disabled or without its token is a failed delivery.
ReadConfig(r) ==
  /\ req[r].pc = "config" /\ Free
  /\ IF config = NoConfig
     THEN Goto(r, "end") /\ abandoned' = abandoned \cup {req[r].alert}
     ELSE /\ req' = IF config.enabled /\ config.token # "unresolved"
                    THEN [req EXCEPT ![r].pc = "send", ![r].attempt = 1]
                    ELSE [req EXCEPT ![r].pc = "record", ![r].status = "failed"]
          /\ UNCHANGED abandoned
  /\ UNCHANGED <<alerts, log, config, recent, messages, late, changes>>

\* Faulty variant: the last attempt is marked as to be retried.
FailedStatusRetrying(retryable, attempt) == IF retryable THEN "retrying" ELSE "failed"

\* status of a delivery that failed
FailedStatus(retryable, attempt) ==
  IF retryable /\ attempt < MaxAttempts THEN "retrying" ELSE "failed"

\* SendMessage: Telegram gets the message or not, and the answer is understood,
\* a refusal, or one after which to try again. That one may come after the
\* message has been taken.
SendMessage(r) ==
  /\ req[r].pc = "send"
  /\ \E got, ok, retryable \in BOOLEAN :
       /\ ok => got
       /\ got => ok \/ retryable
       /\ messages' = IF got THEN [messages EXCEPT ![req[r].alert] = @ + 1] ELSE messages
       /\ req' = [req EXCEPT ![r].pc = "record", ![r].status =
                    IF ok THEN "sent" ELSE FailedStatus(retryable, req[r].attempt)]
  /\ UNCHANGED <<alerts, log, config, recent, late, abandoned, changes>>

AfterRecord(status) == IF status = "retrying" THEN "wait" ELSE "set"

\* recordAlertDelivery, and where deliverAlert goes from there.
RecordAlertDelivery(r) ==
  /\ req[r].pc = "record" /\ Free
  /\ log' = [log EXCEPT ![req[r].alert] =
       Append(@, [status |-> req[r].status, attempt |-> req[r].attempt])]
  /\ recent' = (recent \/ req[r].status = "sent")
  /\ Goto(r, AfterRecord(req[r].status))
  /\ UNCHANGED <<alerts, config, messages, late, abandoned, changes>>

\* alertRetryDelay is over.
Retry(r) ==
  /\ req[r].pc = "wait"
  /\ req' = [req EXCEPT ![r].pc = "send", ![r].attempt = @ + 1]
  /\ UNCHANGED <<alerts, log, config, recent, messages, late, abandoned, changes>>

SetAlertStatus(r) ==
  /\ req[r].pc = "set" /\ Free
  /\ alerts' = [alerts EXCEPT ![req[r].alert] = req[r].status]
  /\ Goto(r, "end")
  /\ UNCHANGED <<log, config, recent, messages, late, abandoned, changes>>

\* ListAlertDeliveries at the end of createAlert; RecordAgentApply commits.
EndAlert(r) ==
  /\ req[r].pc = "end" /\ Free
  /\ req' = [req EXCEPT ![r] = Idle]
  /\ UNCHANGED <<alerts, log, config, recent, messages, late, abandoned, changes>>

\* ListAlerts, and its ListAlertDeliveries for each alert.
BeginListing(r) ==
  /\ r \in Listings /\ req[r] = Idle /\ Free
  /\ req' = [req EXCEPT ![r] = [pc |-> "list", next |-> 1]]
  /\ UNCHANGED <<alerts, log, config, recent, messages, late, abandoned, changes>>
ListDeliveries(r) ==
  /\ req[r].pc = "list"
  /\ IF req[r].next > Len(alerts) THEN req' = [req EXCEPT ![r] = Idle]
     ELSE Free /\ req' = [req EXCEPT ![r].next = @ + 1]
  /\ UNCHANGED <<alerts, log, config, recent, messages, late, abandoned, changes>>

\* The context of the request ends, wherever it is: the agent has waited its 10
\* seconds, or a client goes away. Transactions roll back, waiting ends.
GiveUp(S) ==
  /\ req' = [r \in Requests |-> IF r \in S THEN Idle ELSE req[r]]
  /\ abandoned' = abandoned \cup
       {req[r].alert : r \in {x \in S \ Listings : req[x].pc \notin {"idle", "create", "end"}}}
  /\ UNCHANGED <<alerts, log, config, recent, messages, late>>

\* Faulty variant: requests have no timeout.
NeverCancel(r) == FALSE /\ UNCHANGED advars

Cancel(r) == req[r] # Idle /\ GiveUp({r}) /\ UNCHANGED changes

Crash == Change /\ GiveUp(Requests)

-----------------------------------------------------------------------------
(* Configuration and time *)

\* Faulty variant: the mask is taken for a token.
TokenAsGiven(given) == given

\* UpsertTelegramConfig: an empty or masked token keeps the one there is, and
\* without any the request is refused.
Token(given) == IF given \in {"", Mask} THEN config.token ELSE given
UpsertTelegramConfig(given, enabled) ==
  /\ Free /\ Token(given) # "" /\ Change
  /\ config' = [token |-> Token(given), enabled |-> enabled]
  /\ UNCHANGED <<alerts, log, req, recent, messages, late, abandoned>>

\* The rate limit window of what was sent has passed.
WindowPasses ==
  /\ recent /\ Change
  /\ recent' = FALSE /\ late' = {}
  /\ UNCHANGED <<alerts, log, config, req, messages, abandoned>>

-----------------------------------------------------------------------------

AdInit ==
  /\ alerts = <<>> /\ log = <<>> /\ messages = <<>>
  /\ config \in {NoConfig, [token |-> "t1", enabled |-> TRUE]}
  /\ req = [r \in Requests |-> Idle]
  /\ recent = FALSE /\ late = {} /\ abandoned = {} /\ changes = 0

Step(r) ==
  \/ CreateAlert(r) \/ Dedupe(r) \/ ReadConfig(r) \/ SendMessage(r) \/ RecordAlertDelivery(r)
  \/ Retry(r) \/ SetAlertStatus(r) \/ EndAlert(r) \/ ListDeliveries(r)

AdNext ==
  \/ \E r \in Requests : BeginAlert(r) \/ BeginListing(r) \/ Step(r) \/ Cancel(r)
  \/ \E given \in {"", Mask, "t1", "unresolved"}, enabled \in BOOLEAN :
       UpsertTelegramConfig(given, enabled)
  \/ WindowPasses \/ Crash

\* What can go on does, Telegram answers or times out, and a connection that is
\* free again and again goes to each that waits for one (the pool serves them
\* in turn). The agent's client gives up after 10 seconds; no other does.
AdSpec ==
  /\ AdInit /\ [][AdNext]_advars
  /\ \A r \in Requests : SF_advars(Step(r))
  /\ \A r \in Applies : WF_advars(Cancel(r))

-----------------------------------------------------------------------------
(* Properties *)

\* Statuses are those of the constants of alert.go, and the token that is stored
\* is never the mask that responses show instead of it.
AdTypeOK ==
  /\ \A i \in DOMAIN alerts : alerts[i] \in {"pending", "sent", "failed", "deduped"}
  /\ config.token \notin {Mask} /\ (config = NoConfig \/ config.token # "")
  /\ Len(log) = Len(alerts) /\ Len(messages) = Len(alerts)

\* Within the window of an alert that has been recorded as sent, a request that
\* begins later sends nothing. (Two requests that run side by side may both.)
DedupeHolds ==
  [][\A r \in Applies \cup Creators :
       req[r].pc = "send" /\ r \in late => messages' = messages]_advars

\* The deliveries of an alert number its attempts from 1 up to max_attempts, all
\* but the last to be retried, and the status that the alert is given in the end
\* is that of the last. An alert that is still pending is being delivered, or
\* its delivery was given up: the request ended early, or there is no Telegram
\* configuration.
LastDelivery(a) == log[a][Len(log[a])]
LogTellsStatus ==
  \A a \in DOMAIN alerts :
    /\ Len(log[a]) <= MaxAttempts
    /\ \A i \in DOMAIN log[a] :
         /\ log[a][i].attempt \in {i, 0}
         /\ i < Len(log[a]) => log[a][i].status = "retrying"
    /\ alerts[a] # "pending" /\ (PolicyEnabled \/ log[a] # <<>>) =>
         log[a] # <<>> /\ LastDelivery(a).status = alerts[a]
    /\ alerts[a] = "pending" =>
         a \in abandoned \/ \E r \in Requests \ Listings : req[r] # Idle /\ req[r].alert = a

\* Every request ends, even when RecordAgentApply and ListAlerts keep all the
\* connections and wait for one more: the agents' timeouts free theirs.
RequestsEnd == \A r \in Requests : req[r] # Idle ~> req[r] = Idle
=============================================================================
