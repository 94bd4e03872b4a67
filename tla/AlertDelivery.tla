---------------------------- MODULE AlertDelivery ----------------------------
(***************************************************************************)
(* Delivery of stored device alerts (pkg/alerts).  Dispatch is run by two   *)
(* kinds of workers that race on the same rows: the goroutine finishAlert   *)
(* starts for a freshly inserted alert, and the redispatch sweeper.  Rows   *)
(* survive a crash; the in-flight claims, the goroutines and everything a   *)
(* worker has read do not.                                                  *)
(*                                                                          *)
(* Time is abstracted to one bit per row: due <=> next_attempt_at <= now(). *)
(***************************************************************************)
EXTENDS Integers, FiniteSets

CONSTANTS
    Alerts,         \* ids of device_alerts rows, ordered as the serial column
    Subs,           \* ids of alert_subscriptions rows
    Devices,        \* device ids the alerts belong to
    DeviceOf,       \* the device of each alert
    ChannelOf,      \* the channel of each subscription
    MatchOf,        \* subscriptions whose device and min_severity match an alert
    ScopedTo,       \* subscriptions bound to one device (device_pk not null)
    LiveAtStart,    \* subscriptions that exist before the first alert
    MaxAttempts,    \* n.maxAttempts()
    BatchLimit,     \* sweepBatchLimit
    MaxFaults,      \* bound on failed database statements
    MaxCrashes      \* bound on process deaths

Channels == {"email", "telegram", "webhook"}

ASSUME DeliveryAssumption ==
    /\ Alerts \subseteq Nat
    /\ DeviceOf \in [Alerts -> Devices]
    /\ ChannelOf \in [Subs -> Channels]
    /\ MatchOf \in [Alerts -> SUBSET Subs]
    /\ LiveAtStart \in SUBSET Subs
    /\ MaxAttempts \in Nat \ {0}
    /\ BatchLimit \in Nat \ {0}
    /\ MaxFaults \in Nat
    /\ MaxCrashes \in Nat

ASSUME ScopeAssumption == ScopedTo \in [Devices -> SUBSET Subs]

Sweeper == -1
Workers == Alerts \cup {Sweeper}   \* worker a is the inline dispatch of alert a
NoAlert == -1

VARIABLES
    row,            \* device_alerts, delivery columns
    hooks,          \* alert_webhook_deliveries
    subs,           \* alert_subscriptions: not yet created, live or deleted
    up,             \* the process is running
    inflight,       \* Notifier.inflight
    worker,         \* the Dispatch call each worker is in
    batch,          \* rows the running sweep pass has still to dispatch
    sent,           \* history: successful sends of an alert to a subscription
    lost,           \* history: successful sends whose record is missing or gone
    faults, crashes

dbVars == <<row, hooks, subs>>
procVars == <<up, inflight, worker, batch>>
histVars == <<sent, lost, faults, crashes>>
vars == <<row, hooks, subs, up, inflight, worker, batch, sent, lost, faults, crashes>>

RowStatus == {"absent", "pending", "delivered", "none", "dead", "deleted"}

Row == [status : RowStatus, attempts : 0..MaxAttempts, due : BOOLEAN,
        email : BOOLEAN, telegram : BOOLEAN, webhook : BOOLEAN]

AbsentRow == [status |-> "absent", attempts |-> 0, due |-> FALSE,
              email |-> FALSE, telegram |-> FALSE, webhook |-> FALSE]

\* The column defaults of migration 0025: pending, no attempt, due at once.
FreshRow == [AbsentRow EXCEPT !.status = "pending", !.due = TRUE]

\* Local state of one Dispatch call.  snap is the row and recips the matching
\* subscriptions it loaded, done is sentHooks, cur the webhook being recorded;
\* fresh (history) are the sends of this call the database does not know of.
Loading == {"load", "recips", "hooks"}
Sending == {"send", "mark", "record"}
Claimed == Loading \cup Sending \cup {"return"}

Call == [pc : {"idle", "claim"} \cup Claimed,
         alert : Alerts \cup {NoAlert}, snap : Row, recips : SUBSET Subs,
         todo : SUBSET Subs, done : SUBSET Subs, cur : SUBSET Subs,
         emailOK : BOOLEAN, tgOK : BOOLEAN, panicked : BOOLEAN,
         fresh : SUBSET Subs]

IdleCall == [pc |-> "idle", alert |-> NoAlert, snap |-> AbsentRow, recips |-> {},
             todo |-> {}, done |-> {}, cur |-> {},
             emailOK |-> FALSE, tgOK |-> FALSE, panicked |-> FALSE, fresh |-> {}]

StartCall(a) == [IdleCall EXCEPT !.pc = "claim", !.alert = a]

\* Only the deferred release is left to run.
ReturnCall(a) == [IdleCall EXCEPT !.pc = "return", !.alert = a]

TypeOK ==
    /\ row \in [Alerts -> Row]
    /\ hooks \in SUBSET (Alerts \X Subs)
    /\ subs \in [Subs -> {"unborn", "live", "deleted"}]
    /\ up \in BOOLEAN
    /\ inflight \in SUBSET Alerts
    /\ worker \in [Workers -> Call]
    /\ batch \in SUBSET Alerts
    /\ sent \in [Alerts -> [Subs -> Nat]]
    /\ lost \in [Alerts -> [Subs -> Nat]]
    /\ faults \in 0..MaxFaults
    /\ crashes \in 0..MaxCrashes

Init ==
    /\ row = [a \in Alerts |-> AbsentRow]
    /\ hooks = {}
    /\ subs = [s \in Subs |-> IF s \in LiveAtStart THEN "live" ELSE "unborn"]
    /\ up = TRUE
    /\ inflight = {}
    /\ worker = [w \in Workers |-> IdleCall]
    /\ batch = {}
    /\ sent = [a \in Alerts |-> [s \in Subs |-> 0]]
    /\ lost = [a \in Alerts |-> [s \in Subs |-> 0]]
    /\ faults = 0
    /\ crashes = 0

-----------------------------------------------------------------------------
(* Rows and subscriptions come and go.                                      *)

\* A row is stored and finishAlert starts its inline dispatch.
InsertAndDispatch(a) ==
    /\ up
    /\ row[a].status = "absent"
    /\ row' = [row EXCEPT ![a] = FreshRow]
    /\ worker' = [worker EXCEPT ![a] = StartCall(a)]
    /\ UNCHANGED <<hooks, subs, up, inflight, batch, histVars>>

\* A row is stored and nobody dispatches it: the absence and expiry sweeps,
\* an insert whose commit ack was lost, a crash before finishAlert.
InsertOnly(a) ==
    /\ up
    /\ row[a].status = "absent"
    /\ row' = [row EXCEPT ![a] = FreshRow]
    /\ UNCHANGED <<hooks, subs, procVars, histVars>>

CreateSubscription(s) ==
    /\ up
    /\ subs[s] = "unborn"
    /\ subs' = [subs EXCEPT ![s] = "live"]
    /\ UNCHANGED <<row, hooks, procVars, histVars>>

\* Both foreign keys of alert_webhook_deliveries cascade.
Cascade(gone) ==
    /\ hooks' = hooks \ gone
    /\ lost' = [a \in Alerts |-> [s \in Subs |->
                  lost[a][s] + IF <<a, s>> \in hooks \cap gone THEN 1 ELSE 0]]

DeleteSubscription(s) ==
    /\ up
    /\ subs[s] = "live"
    /\ subs' = [subs EXCEPT ![s] = "deleted"]
    /\ Cascade(Alerts \X {s})
    /\ UNCHANGED <<row, procVars, sent, faults, crashes>>

AlertsOf(d) == {a \in Alerts : DeviceOf[a] = d /\ row[a].status # "absent"}

\* Deleting a device cascades into its alerts, its own subscriptions and the
\* webhook records of both.  Live traffic may create the device row again.
DeleteDevice(d) ==
    /\ up
    /\ \E a \in AlertsOf(d) : row[a].status # "deleted"
    /\ row' = [a \in Alerts |-> IF a \in AlertsOf(d)
                                THEN [row[a] EXCEPT !.status = "deleted"]
                                ELSE row[a]]
    /\ subs' = [s \in Subs |-> IF s \in ScopedTo[d] THEN "deleted" ELSE subs[s]]
    /\ Cascade((AlertsOf(d) \X Subs) \cup (Alerts \X ScopedTo[d]))
    /\ UNCHANGED <<procVars, sent, faults, crashes>>

\* now() passes next_attempt_at.
BackoffElapses(a) ==
    /\ row[a].status = "pending"
    /\ ~row[a].due
    /\ row' = [row EXCEPT ![a].due = TRUE]
    /\ UNCHANGED <<hooks, subs, procVars, histVars>>

-----------------------------------------------------------------------------
(* The sweep pass: scan, then dispatch row by row in id order.              *)

Due == {a \in Alerts : row[a].status = "pending" /\ row[a].due}

\* ORDER BY a.id LIMIT $1
FirstDue == {a \in Due : Cardinality({b \in Due : b < a}) < BatchLimit}

SweepScan ==
    /\ up
    /\ worker[Sweeper].pc = "idle"
    /\ batch = {}
    /\ Due # {}
    /\ batch' = FirstDue
    /\ UNCHANGED <<dbVars, up, inflight, worker, histVars>>

SweepNext ==
    /\ up
    /\ worker[Sweeper].pc = "idle"
    /\ \E a \in batch :
          /\ \A b \in batch : a <= b
          /\ batch' = batch \ {a}
          /\ worker' = [worker EXCEPT ![Sweeper] = StartCall(a)]
    /\ UNCHANGED <<dbVars, up, inflight, histVars>>

-----------------------------------------------------------------------------
(* Dispatch, one step per point where another worker or a crash can cut in. *)

\* Mutant of Claim: the busy check is dropped.
ClaimUnchecked(w) ==
    /\ worker[w].pc = "claim"
    /\ inflight' = inflight \cup {worker[w].alert}
    /\ worker' = [worker EXCEPT ![w].pc = "load"]
    /\ UNCHANGED <<dbVars, up, batch, histVars>>

Claim(w) ==
    /\ worker[w].pc = "claim"
    /\ worker[w].alert \notin inflight
    /\ inflight' = inflight \cup {worker[w].alert}
    /\ worker' = [worker EXCEPT ![w].pc = "load"]
    /\ UNCHANGED <<dbVars, up, batch, histVars>>

\* "already in flight": return nil without a release.
ClaimBusy(w) ==
    /\ worker[w].pc = "claim"
    /\ worker[w].alert \in inflight
    /\ worker' = [worker EXCEPT ![w] = IdleCall]
    /\ UNCHANGED <<dbVars, up, inflight, batch, histVars>>

\* The join starts at the alert row: no row, no recipients.
Recipients(a) == {s \in MatchOf[a] : subs[s] = "live" /\ row[a].status # "deleted"}

\* One transaction, but READ COMMITTED: each statement has its own snapshot.
\* A row whose device is gone is a lookup error.
LoadAlert(w) ==
    LET a == worker[w].alert
    IN  /\ worker[w].pc = "load"
        /\ worker' = [worker EXCEPT ![w] =
              IF row[a].status = "deleted" THEN ReturnCall(a)
              ELSE [@ EXCEPT !.pc = "recips", !.snap = row[a]]]
        /\ UNCHANGED <<dbVars, up, inflight, batch, histVars>>

LoadRecipients(w) ==
    LET recips == Recipients(worker[w].alert)
    IN  /\ worker[w].pc = "recips"
        /\ worker' = [worker EXCEPT ![w] =
              [@ EXCEPT !.pc = "hooks", !.recips = recips, !.todo = recips]]
        /\ UNCHANGED <<dbVars, up, inflight, batch, histVars>>

\* Mutant of AfterLoad: no idempotence gate.
AfterLoadUngated(k) ==
    [k EXCEPT !.pc = IF k.recips = {} THEN "record" ELSE "send"]

\* After the transaction: the idempotence gate and the exit without recipients.
AfterLoad(k) ==
    IF k.snap.status # "pending" THEN ReturnCall(k.alert)
    ELSE [k EXCEPT !.pc = IF k.recips = {} THEN "record" ELSE "send"]

LoadWebhookSent(w) ==
    LET k == worker[w]
    IN  /\ k.pc = "hooks"
        /\ worker' = [worker EXCEPT ![w] =
              AfterLoad([k EXCEPT !.done = {s \in Subs : <<k.alert, s>> \in hooks}])]
        /\ UNCHANGED <<dbVars, up, inflight, batch, histVars>>

\* A query error, or a panic while loading: no attempt is counted.
LoadFails(w) ==
    /\ worker[w].pc \in Loading
    /\ faults < MaxFaults
    /\ faults' = faults + 1
    /\ worker' = [worker EXCEPT ![w] = ReturnCall(@.alert)]
    /\ UNCHANGED <<dbVars, up, inflight, batch, sent, lost, crashes>>

\* Mutant of Already: a webhook is judged by the channel flag alone.
AlreadyByFlag(k, s) ==
    \/ ChannelOf[s] = "email" /\ k.snap.email
    \/ ChannelOf[s] = "telegram" /\ k.snap.telegram
    \/ ChannelOf[s] = "webhook" /\ k.snap.webhook

Already(k, s) ==
    \/ ChannelOf[s] = "email" /\ k.snap.email
    \/ ChannelOf[s] = "telegram" /\ k.snap.telegram
    \/ ChannelOf[s] = "webhook" /\ (k.snap.webhook \/ s \in k.done)

\* The loop body for recipient s: skipped, refused by the channel, or accepted.
SkipOrFail(w, s) ==
    /\ worker[w].pc = "send"
    /\ s \in worker[w].todo
    /\ worker' = [worker EXCEPT ![w].todo = @ \ {s}]
    /\ UNCHANGED <<dbVars, up, inflight, batch, histVars>>

SendOK(w, s) ==
    LET k == worker[w]
    IN  /\ k.pc = "send"
        /\ s \in k.todo
        /\ ~Already(k, s)
        /\ sent' = [sent EXCEPT ![k.alert][s] = @ + 1]
        /\ worker' = [worker EXCEPT ![w] =
                        [k EXCEPT !.todo = @ \ {s},
                                  !.emailOK = @ \/ ChannelOf[s] = "email",
                                  !.tgOK = @ \/ ChannelOf[s] = "telegram",
                                  !.fresh = @ \cup {s},
                                  !.cur = IF ChannelOf[s] = "webhook" THEN {s} ELSE {},
                                  !.pc = IF ChannelOf[s] = "webhook" THEN "mark" ELSE "send"]]
        /\ UNCHANGED <<dbVars, up, inflight, batch, lost, faults, crashes>>

\* Both foreign keys of alert_webhook_deliveries still resolve.
HookRecordable(a, s) == row[a].status # "deleted" /\ subs[s] = "live"

\* History: the sends of a to S will not be found in the database.
Lose(a, S) == [lost EXCEPT ![a] = [s \in Subs |-> @[s] + IF s \in S THEN 1 ELSE 0]]

MarkHook(w) ==
    LET k == worker[w]
    IN  /\ k.pc = "mark"
        /\ \A s \in k.cur : HookRecordable(k.alert, s)
        /\ hooks' = hooks \cup {<<k.alert, s>> : s \in k.cur}
        /\ worker' = [worker EXCEPT ![w] =
                        [k EXCEPT !.pc = "send", !.done = @ \cup k.cur, !.cur = {},
                                  !.fresh = @ \ k.cur]]
        /\ UNCHANGED <<row, subs, up, inflight, batch, histVars>>

MarkHookFails(w) ==
    LET k == worker[w]
    IN  /\ k.pc = "mark"
        /\ \/ faults < MaxFaults /\ faults' = faults + 1
           \/ (\E s \in k.cur : ~HookRecordable(k.alert, s)) /\ UNCHANGED faults
        /\ lost' = Lose(k.alert, k.cur)
        /\ worker' = [worker EXCEPT ![w] =
                        [k EXCEPT !.pc = "send", !.cur = {}, !.fresh = @ \ k.cur]]
        /\ UNCHANGED <<dbVars, up, inflight, batch, sent, crashes>>

\* The record commits but the acknowledgement is lost: an error to the caller.
MarkHookAckLost(w) ==
    LET k == worker[w]
    IN  /\ k.pc = "mark"
        /\ \A s \in k.cur : HookRecordable(k.alert, s)
        /\ faults < MaxFaults
        /\ faults' = faults + 1
        /\ hooks' = hooks \cup {<<k.alert, s>> : s \in k.cur}
        /\ worker' = [worker EXCEPT ![w] =
                        [k EXCEPT !.pc = "send", !.cur = {}, !.fresh = @ \ k.cur]]
        /\ UNCHANGED <<row, subs, up, inflight, batch, sent, lost, crashes>>

\* Rendering or sending panics: the deferred recover records the run.
Panic(w) ==
    /\ worker[w].pc = "send"
    /\ worker[w].todo # {}
    /\ worker' = [worker EXCEPT ![w].pc = "record", ![w].panicked = TRUE]
    /\ UNCHANGED <<dbVars, up, inflight, batch, histVars>>

AllTried(w) ==
    /\ worker[w].pc = "send"
    /\ worker[w].todo = {}
    /\ worker' = [worker EXCEPT ![w].pc = "record"]
    /\ UNCHANGED <<dbVars, up, inflight, batch, histVars>>

On(k, c) == {s \in k.recips : ChannelOf[s] = c}

\* Mutant of HookOK: one accepted POST closes the channel.
HookOKAny(k) ==
    /\ ~k.panicked
    /\ \E s \in On(k, "webhook") : s \in k.done \/ k.snap.webhook

HookOK(k) ==
    /\ ~k.panicked
    /\ On(k, "webhook") # {}
    /\ \A s \in On(k, "webhook") : s \in k.done \/ k.snap.webhook

EverythingDone(k) ==
    /\ On(k, "email") = {} \/ k.snap.email \/ k.emailOK
    /\ On(k, "telegram") = {} \/ k.snap.telegram \/ k.tgOK
    /\ On(k, "webhook") = {} \/ HookOK(k)

\* Mutant of Attempts: a failed run is not counted.
AttemptsUncounted(k) == k.snap.attempts

Attempts(k) == IF k.recips = {} THEN k.snap.attempts ELSE k.snap.attempts + 1

\* Mutant of Verdict: one attempt more than the budget.
VerdictOneMore(k) ==
    IF k.recips = {} THEN "none"
    ELSE IF ~k.panicked /\ EverythingDone(k) THEN "delivered"
    ELSE IF Attempts(k) > MaxAttempts THEN "dead" ELSE "pending"

Verdict(k) ==
    IF k.recips = {} THEN "none"
    ELSE IF ~k.panicked /\ EverythingDone(k) THEN "delivered"
    ELSE IF Attempts(k) >= MaxAttempts THEN "dead" ELSE "pending"

\* The UPDATE ORs the flags and never clears them.  Only a retry moves
\* next_attempt_at.
Recorded(r, k) ==
    [r EXCEPT !.status = Verdict(k),
              !.attempts = Attempts(k),
              !.due = @ /\ Verdict(k) # "pending",
              !.email = @ \/ k.emailOK,
              !.telegram = @ \/ k.tgOK,
              !.webhook = @ \/ HookOK(k)]

\* An UPDATE of a row deleted meanwhile touches nothing and is no error.
RecordOutcome(w) ==
    LET k == worker[w]
        a == k.alert
        gone == row[a].status = "deleted"
    IN  /\ k.pc = "record"
        /\ row' = IF gone THEN row ELSE [row EXCEPT ![a] = Recorded(@, k)]
        /\ lost' = IF gone THEN Lose(a, k.fresh) ELSE lost
        /\ worker' = [worker EXCEPT ![w] = ReturnCall(k.alert)]
        /\ UNCHANGED <<hooks, subs, up, inflight, batch, sent, faults, crashes>>

\* The write fails: the row stays as it was, pending and due.
RecordFails(w) ==
    LET k == worker[w]
    IN  /\ k.pc = "record"
        /\ faults < MaxFaults
        /\ faults' = faults + 1
        /\ lost' = Lose(k.alert, k.fresh)
        /\ worker' = [worker EXCEPT ![w] = ReturnCall(k.alert)]
        /\ UNCHANGED <<dbVars, up, inflight, batch, sent, crashes>>

\* The deferred release.
Release(w) ==
    /\ worker[w].pc = "return"
    /\ inflight' = inflight \ {worker[w].alert}
    /\ worker' = [worker EXCEPT ![w] = IdleCall]
    /\ UNCHANGED <<dbVars, up, batch, histVars>>

-----------------------------------------------------------------------------
(* Process death and restart.                                               *)

Unrecorded(a) ==
    UNION {worker[w].fresh : w \in {x \in Workers : worker[x].alert = a}}

Crash ==
    /\ up
    /\ crashes < MaxCrashes
    /\ crashes' = crashes + 1
    /\ up' = FALSE
    /\ inflight' = {}
    /\ worker' = [w \in Workers |-> IdleCall]
    /\ batch' = {}
    /\ lost' = [a \in Alerts |-> [s \in Subs |->
                  lost[a][s] + IF s \in Unrecorded(a) THEN 1 ELSE 0]]
    /\ UNCHANGED <<dbVars, sent, faults>>

\* StartRedispatcher sweeps once at startup; that pass is a SweepScan.
Restart ==
    /\ ~up
    /\ up' = TRUE
    /\ UNCHANGED <<dbVars, inflight, worker, batch, histVars>>

-----------------------------------------------------------------------------
Dispatch(w) ==
    \/ Claim(w) \/ ClaimBusy(w)
    \/ LoadAlert(w) \/ LoadRecipients(w) \/ LoadWebhookSent(w) \/ LoadFails(w)
    \/ \E s \in Subs : SkipOrFail(w, s) \/ SendOK(w, s)
    \/ MarkHook(w) \/ MarkHookFails(w) \/ MarkHookAckLost(w)
    \/ Panic(w) \/ AllTried(w)
    \/ RecordOutcome(w) \/ RecordFails(w)
    \/ Release(w)

Sweep == SweepScan \/ SweepNext

Next ==
    \/ \E a \in Alerts : InsertAndDispatch(a) \/ InsertOnly(a) \/ BackoffElapses(a)
    \/ \E s \in Subs : CreateSubscription(s) \/ DeleteSubscription(s)
    \/ \E d \in Devices : DeleteDevice(d)
    \/ Sweep
    \/ \E w \in Workers : Dispatch(w)
    \/ Crash
    \/ Restart

Spec == Init /\ [][Next]_vars

(***************************************************************************)
(* Goroutines run until they return, the ticker keeps firing, the clock     *)
(* advances and the service manager restarts a dead process.  Nothing says  *)
(* that a send succeeds, that a user subscribes or that an alert arrives.   *)
(***************************************************************************)
Fairness ==
    /\ \A w \in Workers : WF_vars(Dispatch(w))
    /\ WF_vars(Sweep)
    /\ \A a \in Alerts : WF_vars(BackoffElapses(a))
    /\ WF_vars(Restart)

FairSpec == Spec /\ Fairness

-----------------------------------------------------------------------------
(* Properties.                                                              *)

\* The in-process claim serialises the inline dispatch and the sweeper: no two
\* workers are past claim() for the same alert, and inflight holds exactly the
\* alerts some worker is past claim() for (alerts.go claim, release).
ClaimExclusive ==
    /\ \A v, w \in Workers :
          /\ worker[v].pc \in Claimed
          /\ worker[w].pc \in Claimed
          /\ worker[v].alert = worker[w].alert
          => v = w
    /\ \A a \in Alerts :
          a \in inflight <=> \E w \in Workers : worker[w].pc \in Claimed /\ worker[w].alert = a

\* A retry does not repeat a send that succeeded: whatever crashes, faults,
\* retries and deletions happen, a subscription receives an alert once plus at
\* most once for each earlier send whose record never reached the database or
\* was deleted from it (channel flags, alert_webhook_deliveries).
NoResend == \A a \in Alerts, s \in Subs : sent[a][s] <= 1 + lost[a][s]

\* A row is closed as delivered only if it reached those who were subscribed
\* all along: each such webhook got its own POST, and for each such email or
\* telegram subscription someone on the channel got the message.
DeliveredReachesStanding ==
    \A a \in Alerts : row[a].status = "delivered" =>
        \A s \in MatchOf[a] \cap LiveAtStart : subs[s] = "live" =>
            IF ChannelOf[s] = "webhook" THEN sent[a][s] > 0
            ELSE \E t \in MatchOf[a] : ChannelOf[t] = ChannelOf[s] /\ sent[a][t] > 0

TerminalStatus == {"delivered", "none", "dead"}

\* A closed row stays closed and untouched until its device is deleted, and no
\* worker that read it while it was pending still sends for it.
TerminalStable ==
    [][\A a \in Alerts : row[a].status \in TerminalStatus =>
          /\ row'[a] \in {row[a], [row[a] EXCEPT !.status = "deleted"]}
          /\ sent'[a] = sent[a]]_vars

\* No stored alert is left behind: whichever worker dies or loses its claim, a
\* pending row is eventually closed, unless its device is deleted.
EventuallyClosed ==
    \A a \in Alerts : row[a].status = "pending" ~> row[a].status # "pending"

Lifecycle == INSTANCE AlertLifecycle WITH
    status <- [a \in Alerts |-> row[a].status],
    attempts <- [a \in Alerts |-> row[a].attempts]

\* The rows go through the lifecycle the feature promises (AlertLifecycle): no
\* attempt beyond the budget, dead exactly when it is spent, closed for good,
\* whatever the two kinds of dispatcher, the faults and a crash do.
ImplementsLifecycle == Lifecycle!LifecycleSafety
=============================================================================
