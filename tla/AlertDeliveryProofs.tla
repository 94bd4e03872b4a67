------------------------- MODULE AlertDeliveryProofs -------------------------
(***************************************************************************)
(* Proofs about AlertDelivery for any sets of alerts, subscriptions and     *)
(* devices, any attempt budget and any number of faults and crashes.        *)
(***************************************************************************)
EXTENDS AlertDelivery, TLAPS

\* A worker that has not returned works on a stored row, and so does a sweep;
\* an inline worker works on its own row only.
Working ==
    /\ \A w \in Workers : worker[w].pc # "idle" =>
          /\ worker[w].alert \in Alerts
          /\ row[worker[w].alert].status # "absent"
    /\ \A a \in batch : row[a].status # "absent"
    /\ \A a \in Alerts : worker[a].pc # "idle" => worker[a].alert = a

\* An open row has attempts left.
Budget == \A a \in Alerts : row[a].status \in {"absent", "pending"} =>
              row[a].attempts < MaxAttempts

HasSnap == {"recips", "hooks"} \cup Sending

SameColumns(r, q) ==
    /\ r.attempts = q.attempts
    /\ r.email = q.email
    /\ r.telegram = q.telegram
    /\ r.webhook = q.webhook

\* What a claimed worker has read of its row is still true of it, unless the
\* row was deleted, and a worker that sends read it as pending.
SnapOK(r, k) ==
    k.pc \in HasSnap =>
        /\ k.snap.status # "absent"
        /\ r.status \in {k.snap.status, "deleted"}
        /\ SameColumns(k.snap, r)
        /\ k.pc \in Sending => k.snap.status = "pending"

SnapCurrent == \A w \in Workers : SnapOK(row[worker[w].alert], worker[w])

CoreInv == TypeOK /\ Working /\ ClaimExclusive /\ Budget /\ SnapCurrent

USE DeliveryAssumption DEF Channels

\* The sweeper is not the inline worker of an alert.
LEMMA WorkerIds == /\ Sweeper \in Workers
                   /\ Alerts \subseteq Workers
                   /\ Sweeper \notin Alerts
  BY DEF Workers, Sweeper

\* The calls a worker starts, ends or abandons are calls.
LEMMA CallTypes ==
    /\ AbsentRow \in Row
    /\ FreshRow \in Row
    /\ IdleCall \in Call
    /\ \A a \in Alerts : StartCall(a) \in Call /\ ReturnCall(a) \in Call
  <1>1. AbsentRow \in Row
    BY DEF AbsentRow, Row, RowStatus
  <1>2. FreshRow \in Row
    BY <1>1 DEF FreshRow, Row, RowStatus
  <1>3. IdleCall \in Call
    BY <1>1 DEF IdleCall, Call, NoAlert
  <1>4. ASSUME NEW a \in Alerts PROVE StartCall(a) \in Call /\ ReturnCall(a) \in Call
    BY <1>1 DEF StartCall, ReturnCall, IdleCall, Call, NoAlert, Claimed
  <1> QED BY <1>1, <1>2, <1>3, <1>4

\* The core invariant holds at first.
LEMMA CoreInit == Init => CoreInv
  <1> SUFFICES ASSUME Init PROVE CoreInv
    OBVIOUS
  <1> USE DEF Init
  <1>1. TypeOK
    BY CallTypes DEF TypeOK
  <1>2. \A w \in Workers : worker[w].pc = "idle"
    BY DEF IdleCall
  <1>3. Working
    BY <1>2, WorkerIds DEF Working
  <1>4. ClaimExclusive
    BY <1>2 DEF ClaimExclusive, Claimed, Loading, Sending
  <1>5. Budget
    BY DEF Budget, AbsentRow
  <1>6. SnapCurrent
    BY <1>2 DEF SnapCurrent, SnapOK, HasSnap, Sending
  <1> QED BY <1>1, <1>3, <1>4, <1>5, <1>6 DEF CoreInv
\* What a step of a claimed worker has to establish about its next call k.
StepsTo(w, k) ==
    /\ worker' = [worker EXCEPT ![w] = k]
    /\ k \in Call
    /\ worker[w].pc \in Claimed
    /\ k.pc \in Claimed
    /\ k.alert = worker[w].alert

\* A claimed worker that keeps its claim, and the rows, disturbs nothing.
LEMMA ClaimedStep ==
    ASSUME CoreInv, NEW w \in Workers, NEW k, StepsTo(w, k), SnapOK(row[k.alert], k),
           UNCHANGED <<row, batch, inflight>>
    PROVE  Working' /\ ClaimExclusive' /\ Budget' /\ SnapCurrent'
  <1>1. worker \in [Workers -> Call] /\ worker[w].pc # "idle"
    BY DEF CoreInv, TypeOK, StepsTo, Claimed, Loading, Sending
  <1>2. \A v \in Workers : worker'[v] = IF v = w THEN k ELSE worker[v]
    BY <1>1 DEF StepsTo
  <1>3. Working'
    BY <1>1, <1>2, WorkerIds DEF CoreInv, Working, StepsTo
  <1>4. ClaimExclusive'
    BY <1>2 DEF CoreInv, ClaimExclusive, StepsTo
  <1>5. Budget'
    BY DEF CoreInv, Budget
  <1>6. SnapCurrent'
    BY <1>2 DEF CoreInv, SnapCurrent
  <1> QED BY <1>3, <1>4, <1>5, <1>6

\* The history update of a send whose record did not land.
LEMMA LoseIs ==
    ASSUME TypeOK, NEW a \in Alerts, NEW S
    PROVE  /\ Lose(a, S) \in [Alerts -> [Subs -> Nat]]
           /\ \A b \in Alerts, s \in Subs : Lose(a, S)[b][s] =
                 IF b = a /\ s \in S THEN lost[b][s] + 1 ELSE lost[b][s]
  BY DEF TypeOK, Lose

\* A claimed worker has a call, and the row it works on is stored.
LEMMA ClaimedCall ==
    ASSUME CoreInv, NEW w \in Workers, worker[w].pc # "idle"
    PROVE  /\ worker[w] \in Call
           /\ worker[w].alert \in Alerts
           /\ row[worker[w].alert] \in Row
           /\ row[worker[w].alert].status # "absent"
           /\ SnapOK(row[worker[w].alert], worker[w])
  BY DEF CoreInv, TypeOK, Working, SnapCurrent

\* LoadAlert keeps the core invariant.
LEMMA LoadAlertCore ==
    ASSUME CoreInv, NEW w \in Workers, LoadAlert(w)
    PROVE  CoreInv'
  <1> DEFINE k == IF row[worker[w].alert].status = "deleted"
                  THEN ReturnCall(worker[w].alert)
                  ELSE [worker[w] EXCEPT !.pc = "recips", !.snap = row[worker[w].alert]]
  <1>1. worker[w] \in Call /\ worker[w].pc = "load" /\ worker[w].alert \in Alerts
    BY DEF CoreInv, TypeOK, Working, LoadAlert
  <1>2. row[worker[w].alert] \in Row /\ row[worker[w].alert].status # "absent"
    BY <1>1 DEF CoreInv, TypeOK, Working
  <1>3. worker' = [worker EXCEPT ![w] = k]
    BY DEF LoadAlert
  <1>4. k \in Call /\ k.pc \in {"recips", "return"} /\ k.alert = worker[w].alert
    BY ZenonT(40), <1>1, <1>2, CallTypes DEF Call, ReturnCall, IdleCall, Claimed, Loading
  <1>5. k.pc = "recips" => k.snap = row[worker[w].alert]
    BY <1>1, <1>2 DEF Call, ReturnCall, IdleCall
  <1>6. StepsTo(w, k) /\ SnapOK(row[k.alert], k)
    <2>. HIDE DEF k
    <2>1. worker[w].pc \in Claimed /\ k.pc \in Claimed
      BY <1>1, <1>4 DEF Claimed, Loading
    <2>2. StepsTo(w, k)
      BY <2>1, <1>3, <1>4 DEF StepsTo
    <2>3. k.pc \notin Sending /\ (k.pc \in HasSnap => k.pc = "recips")
      BY <1>4 DEF HasSnap, Sending
    <2>4. SnapOK(row[k.alert], k)
      BY <2>3, <1>2, <1>4, <1>5 DEF SnapOK, SameColumns
    <2>. QED
      BY <2>2, <2>4
  <1>7. TypeOK'
    BY <1>3, <1>4 DEF CoreInv, TypeOK, LoadAlert, dbVars, histVars
  <1>8. UNCHANGED <<row, batch, inflight>>
    BY DEF LoadAlert, dbVars
  <1> QED BY <1>6, <1>7, <1>8, ClaimedStep DEF CoreInv

\* LoadRecipients keeps the core invariant.
LEMMA LoadRecipientsCore ==
    ASSUME CoreInv, NEW w \in Workers, LoadRecipients(w)
    PROVE  CoreInv'
  <1> DEFINE k == [worker[w] EXCEPT !.pc = "hooks",
                               !.recips = Recipients(worker[w].alert),
                               !.todo = Recipients(worker[w].alert)]
  <1>1. worker[w].pc \in {"recips"} /\ worker[w].pc # "idle" /\ worker[w].pc \in Claimed
    BY DEF LoadRecipients, Claimed, Loading, Sending
  <1>2. worker' = [worker EXCEPT ![w] = k]
    BY ClaimedCall, <1>1 DEF LoadRecipients, Call
  <1>3. k \in Call /\ k.pc \in {"hooks"} /\ k.alert = worker[w].alert
    BY <1>1, ClaimedCall, CallTypes DEF Call, Recipients, Claimed, Loading, Sending
  <1>4. k.pc # "return" => k.snap = worker[w].snap
    BY <1>1, ClaimedCall DEF Call, Recipients, Claimed
  <1>6. StepsTo(w, k)
    BY <1>1, <1>2, <1>3 DEF StepsTo, Claimed, Loading, Sending
  <1>7. SnapOK(row[k.alert], k)
    BY <1>1, <1>3, <1>4, ClaimedCall DEF SnapOK, HasSnap, Sending
  <1>8. TypeOK'
    BY <1>1, <1>2, <1>3, ClaimedCall DEF CoreInv, TypeOK, LoadRecipients, dbVars, histVars
  <1>9. UNCHANGED <<row, batch, inflight>>
    BY DEF LoadRecipients, dbVars
  <1> QED BY <1>6, <1>7, <1>8, <1>9, ClaimedStep DEF CoreInv

\* LoadWebhookSent keeps the core invariant.
LEMMA LoadWebhookSentCore ==
    ASSUME CoreInv, NEW w \in Workers, LoadWebhookSent(w)
    PROVE  CoreInv'
  <1> DEFINE k == AfterLoad([worker[w] EXCEPT
                       !.done = {s \in Subs : <<worker[w].alert, s>> \in hooks}])
  <1>1. worker[w].pc \in {"hooks"} /\ worker[w].pc # "idle" /\ worker[w].pc \in Claimed
    BY DEF LoadWebhookSent, Claimed, Loading, Sending
  <1>2. worker' = [worker EXCEPT ![w] = k]
    BY ClaimedCall, <1>1 DEF LoadWebhookSent, Call
  <1>3. k \in Call /\ k.pc \in {"send", "record", "return"} /\ k.alert = worker[w].alert
    <2> DEFINE j == [worker[w] EXCEPT !.done = {s \in Subs : <<worker[w].alert, s>> \in hooks}]
    <2>1. j \in Call /\ j.alert = worker[w].alert /\ j.alert \in Alerts
      BY <1>1, ClaimedCall DEF Call
    <2> HIDE DEF j
    <2>2. AfterLoad(j) \in Call
      BY <2>1, CallTypes DEF Call, AfterLoad, Claimed, Sending
    <2>3. AfterLoad(j).pc \in {"send", "record", "return"} /\ AfterLoad(j).alert = j.alert
      BY <2>1 DEF Call, AfterLoad, ReturnCall, IdleCall
    <2> QED BY <2>1, <2>2, <2>3 DEF j
  <1>4. k.pc # "return" => k.snap = worker[w].snap
    BY <1>1, ClaimedCall DEF Call, AfterLoad, ReturnCall, IdleCall, Claimed
  <1>5. k.pc # "return" => worker[w].snap.status = "pending"
    BY <1>1, ClaimedCall DEF Call, AfterLoad, ReturnCall
  <1>6. StepsTo(w, k)
    BY <1>1, <1>2, <1>3 DEF StepsTo, Claimed, Loading, Sending
  <1>7. SnapOK(row[k.alert], k)
    BY <1>1, <1>3, <1>4, ClaimedCall, <1>5 DEF SnapOK, HasSnap, Sending
  <1>8. TypeOK'
    BY <1>1, <1>2, <1>3, ClaimedCall DEF CoreInv, TypeOK, LoadWebhookSent, dbVars, histVars
  <1>9. UNCHANGED <<row, batch, inflight>>
    BY DEF LoadWebhookSent, dbVars
  <1> QED BY <1>6, <1>7, <1>8, <1>9, ClaimedStep DEF CoreInv

\* LoadFails keeps the core invariant.
LEMMA LoadFailsCore ==
    ASSUME CoreInv, NEW w \in Workers, LoadFails(w)
    PROVE  CoreInv'
  <1> DEFINE k == ReturnCall(worker[w].alert)
  <1>1. worker[w].pc \in Loading /\ worker[w].pc # "idle" /\ worker[w].pc \in Claimed
    BY DEF LoadFails, Claimed, Loading, Sending
  <1>2. worker' = [worker EXCEPT ![w] = k]
    BY ClaimedCall, <1>1 DEF LoadFails, Call
  <1>3. k \in Call /\ k.pc \in {"return"} /\ k.alert = worker[w].alert
    BY ZenonT(40), <1>1, ClaimedCall, CallTypes DEF Call, ReturnCall, IdleCall, Claimed, Loading, Sending
  <1>4. k.pc # "return" => k.snap = worker[w].snap
    BY <1>1, ClaimedCall DEF Call, ReturnCall, IdleCall, Claimed
  <1>6. StepsTo(w, k)
    BY <1>1, <1>2, <1>3 DEF StepsTo, Claimed, Loading, Sending
  <1>7. SnapOK(row[k.alert], k)
    BY <1>1, <1>3, <1>4, ClaimedCall DEF SnapOK, HasSnap, Sending
  <1>8. TypeOK'
    BY <1>1, <1>2, <1>3, ClaimedCall DEF CoreInv, TypeOK, LoadFails, dbVars, histVars
  <1>9. UNCHANGED <<row, batch, inflight>>
    BY DEF LoadFails, dbVars
  <1> QED BY <1>6, <1>7, <1>8, <1>9, ClaimedStep DEF CoreInv

\* SkipOrFail keeps the core invariant.
LEMMA SkipOrFailCore ==
    ASSUME CoreInv, NEW w \in Workers, NEW s \in Subs, SkipOrFail(w, s)
    PROVE  CoreInv'
  <1> DEFINE k == [worker[w] EXCEPT !.todo = @ \ {s}]
  <1>1. worker[w].pc \in {"send"} /\ worker[w].pc # "idle" /\ worker[w].pc \in Claimed
    BY DEF SkipOrFail, Claimed, Loading, Sending
  <1>2. worker' = [worker EXCEPT ![w] = k]
    BY ClaimedCall, <1>1 DEF SkipOrFail, Call
  <1>3. k \in Call /\ k.pc \in {"send"} /\ k.alert = worker[w].alert
    BY <1>1, ClaimedCall, CallTypes DEF Call, Claimed, Loading, Sending
  <1>4. k.pc # "return" => k.snap = worker[w].snap
    BY <1>1, ClaimedCall DEF Call, Claimed
  <1>6. StepsTo(w, k)
    BY <1>1, <1>2, <1>3 DEF StepsTo, Claimed, Loading, Sending
  <1>7. SnapOK(row[k.alert], k)
    BY <1>1, <1>3, <1>4, ClaimedCall DEF SnapOK, HasSnap, Sending
  <1>8. TypeOK'
    BY <1>1, <1>2, <1>3, ClaimedCall DEF CoreInv, TypeOK, SkipOrFail, dbVars, histVars
  <1>9. UNCHANGED <<row, batch, inflight>>
    BY DEF SkipOrFail, dbVars
  <1> QED BY <1>6, <1>7, <1>8, <1>9, ClaimedStep DEF CoreInv

\* SendOK keeps the core invariant.
LEMMA SendOKCore ==
    ASSUME CoreInv, NEW w \in Workers, NEW s \in Subs, SendOK(w, s)
    PROVE  CoreInv'
  <1> DEFINE k == [worker[w] EXCEPT
                     !.todo = @ \ {s},
                     !.emailOK = @ \/ ChannelOf[s] = "email",
                     !.tgOK = @ \/ ChannelOf[s] = "telegram",
                     !.fresh = @ \cup {s},
                     !.cur = IF ChannelOf[s] = "webhook" THEN {s} ELSE {},
                     !.pc = IF ChannelOf[s] = "webhook" THEN "mark" ELSE "send"]
  <1>1. worker[w].pc \in {"send"} /\ worker[w].pc # "idle" /\ worker[w].pc \in Claimed
    BY DEF SendOK, Claimed, Loading, Sending
  <1>2. worker' = [worker EXCEPT ![w] = k]
    BY ClaimedCall, <1>1 DEF SendOK, Call
  <1>3. k \in Call /\ k.pc \in {"send", "mark"} /\ k.alert = worker[w].alert
    <2> DEFINE e == worker[w].emailOK \/ ChannelOf[s] = "email"
               t == worker[w].tgOK \/ ChannelOf[s] = "telegram"
               c == IF ChannelOf[s] = "webhook" THEN {s} ELSE {}
               q == IF ChannelOf[s] = "webhook" THEN "mark" ELSE "send"
    <2>1. e \in BOOLEAN /\ t \in BOOLEAN /\ c \in SUBSET Subs /\ q \in {"send", "mark"}
      OBVIOUS
    <2>2. k = [worker[w] EXCEPT !.todo = @ \ {s}, !.emailOK = e, !.tgOK = t,
                                !.fresh = @ \cup {s}, !.cur = c, !.pc = q]
      OBVIOUS
    <2> HIDE DEF e, t, c, q, k
    <2>3. worker[w] \in Call
      BY <1>1, ClaimedCall
    <2>4. k.pc = q /\ k.alert = worker[w].alert
      BY <2>2, <2>3 DEF Call
    <2>5. k \in Call
      BY <2>1, <2>2, <2>3 DEF Call, Claimed, Sending
    <2> QED BY <2>1, <2>4, <2>5
  <1>4. k.pc # "return" => k.snap = worker[w].snap
    BY <1>1, ClaimedCall DEF Call, Claimed
  <1>6. StepsTo(w, k)
    BY <1>1, <1>2, <1>3 DEF StepsTo, Claimed, Loading, Sending
  <1>7. SnapOK(row[k.alert], k)
    BY <1>1, <1>3, <1>4, ClaimedCall DEF SnapOK, HasSnap, Sending
  <1>8. TypeOK'
    BY <1>1, <1>2, <1>3, ClaimedCall DEF CoreInv, TypeOK, SendOK, dbVars, histVars
  <1>9. UNCHANGED <<row, batch, inflight>>
    BY DEF SendOK, dbVars
  <1> QED BY <1>6, <1>7, <1>8, <1>9, ClaimedStep DEF CoreInv

\* MarkHook keeps the core invariant.
LEMMA MarkHookCore ==
    ASSUME CoreInv, NEW w \in Workers, MarkHook(w)
    PROVE  CoreInv'
  <1> DEFINE k == [worker[w] EXCEPT !.pc = "send", !.done = @ \cup worker[w].cur,
                               !.cur = {}, !.fresh = @ \ worker[w].cur]
  <1>1. worker[w].pc \in {"mark"} /\ worker[w].pc # "idle" /\ worker[w].pc \in Claimed
    BY DEF MarkHook, Claimed, Loading, Sending
  <1>2. worker' = [worker EXCEPT ![w] = k]
    BY ClaimedCall, <1>1 DEF MarkHook, Call
  <1>3. k \in Call /\ k.pc \in {"send"} /\ k.alert = worker[w].alert
    BY <1>1, ClaimedCall, CallTypes DEF Call, Claimed, Loading, Sending
  <1>4. k.pc # "return" => k.snap = worker[w].snap
    BY <1>1, ClaimedCall DEF Call, Claimed
  <1>6. StepsTo(w, k)
    BY <1>1, <1>2, <1>3 DEF StepsTo, Claimed, Loading, Sending
  <1>7. SnapOK(row[k.alert], k)
    BY <1>1, <1>3, <1>4, ClaimedCall DEF SnapOK, HasSnap, Sending
  <1>8. TypeOK'
    <2>1. worker[w].cur \subseteq Subs /\ worker[w].alert \in Alerts
      BY <1>1, ClaimedCall DEF Call
    <2>2. hooks' \in SUBSET (Alerts \X Subs)
      BY <2>1 DEF CoreInv, TypeOK, MarkHook
    <2> QED BY <1>2, <1>3, <2>2 DEF CoreInv, TypeOK, MarkHook, histVars
  <1>9. UNCHANGED <<row, batch, inflight>>
    BY DEF MarkHook, dbVars
  <1> QED BY <1>6, <1>7, <1>8, <1>9, ClaimedStep DEF CoreInv

\* MarkHookAckLost keeps the core invariant.
LEMMA MarkHookAckLostCore ==
    ASSUME CoreInv, NEW w \in Workers, MarkHookAckLost(w)
    PROVE  CoreInv'
  <1> DEFINE k == [worker[w] EXCEPT !.pc = "send", !.cur = {},
                               !.fresh = @ \ worker[w].cur]
  <1>1. worker[w].pc \in {"mark"} /\ worker[w].pc # "idle" /\ worker[w].pc \in Claimed
    BY DEF MarkHookAckLost, Claimed, Loading, Sending
  <1>2. worker' = [worker EXCEPT ![w] = k]
    BY ClaimedCall, <1>1 DEF MarkHookAckLost, Call
  <1>3. k \in Call /\ k.pc \in {"send"} /\ k.alert = worker[w].alert
    BY <1>1, ClaimedCall, CallTypes DEF Call, Claimed, Loading, Sending
  <1>4. k.pc # "return" => k.snap = worker[w].snap
    BY <1>1, ClaimedCall DEF Call, Claimed
  <1>6. StepsTo(w, k)
    BY <1>1, <1>2, <1>3 DEF StepsTo, Claimed, Loading, Sending
  <1>7. SnapOK(row[k.alert], k)
    BY <1>1, <1>3, <1>4, ClaimedCall DEF SnapOK, HasSnap, Sending
  <1>8. TypeOK'
    <2>1. worker[w].cur \subseteq Subs /\ worker[w].alert \in Alerts
      BY <1>1, ClaimedCall DEF Call
    <2>2. hooks' \in SUBSET (Alerts \X Subs)
      BY <2>1 DEF CoreInv, TypeOK, MarkHookAckLost
    <2>3. faults' \in 0..MaxFaults
      BY DEF CoreInv, TypeOK, MarkHookAckLost
    <2> QED BY <1>2, <1>3, <2>2, <2>3 DEF CoreInv, TypeOK, MarkHookAckLost
  <1>9. UNCHANGED <<row, batch, inflight>>
    BY DEF MarkHookAckLost, dbVars
  <1> QED BY <1>6, <1>7, <1>8, <1>9, ClaimedStep DEF CoreInv

\* MarkHookFails keeps the core invariant.
LEMMA MarkHookFailsCore ==
    ASSUME CoreInv, NEW w \in Workers, MarkHookFails(w)
    PROVE  CoreInv'
  <1> DEFINE k == [worker[w] EXCEPT !.pc = "send", !.cur = {},
                               !.fresh = @ \ worker[w].cur]
  <1>1. worker[w].pc \in {"mark"} /\ worker[w].pc # "idle" /\ worker[w].pc \in Claimed
    BY DEF MarkHookFails, Claimed, Loading, Sending
  <1>2. worker' = [worker EXCEPT ![w] = k]
    BY ClaimedCall, <1>1 DEF MarkHookFails, Call
  <1>3. k \in Call /\ k.pc \in {"send"} /\ k.alert = worker[w].alert
    BY <1>1, ClaimedCall, CallTypes DEF Call, Claimed, Loading, Sending
  <1>4. k.pc # "return" => k.snap = worker[w].snap
    BY <1>1, ClaimedCall DEF Call, Claimed
  <1>6. StepsTo(w, k)
    BY <1>1, <1>2, <1>3 DEF StepsTo, Claimed, Loading, Sending
  <1>7. SnapOK(row[k.alert], k)
    BY <1>1, <1>3, <1>4, ClaimedCall DEF SnapOK, HasSnap, Sending
  <1>8. TypeOK'
    <2>1. lost' = Lose(worker[w].alert, worker[w].cur)
      BY DEF MarkHookFails
    <2>2. TypeOK /\ worker[w].alert \in Alerts
      BY <1>1, ClaimedCall DEF CoreInv
    <2>3. lost' \in [Alerts -> [Subs -> Nat]]
      <3> DEFINE a == worker[w].alert
                 S == worker[w].cur
      <3> HIDE DEF a, S
      <3>1. Lose(a, S) \in [Alerts -> [Subs -> Nat]]
        BY <2>2, LoseIs DEF a
      <3> QED BY <2>1, <3>1 DEF a, S
    <2>4. faults' \in 0..MaxFaults
      BY DEF CoreInv, TypeOK, MarkHookFails
    <2> QED BY <1>2, <1>3, <2>3, <2>4 DEF CoreInv, TypeOK, MarkHookFails, dbVars
  <1>9. UNCHANGED <<row, batch, inflight>>
    BY DEF MarkHookFails, dbVars
  <1> QED BY <1>6, <1>7, <1>8, <1>9, ClaimedStep DEF CoreInv

\* Panic keeps the core invariant.
LEMMA PanicCore ==
    ASSUME CoreInv, NEW w \in Workers, Panic(w)
    PROVE  CoreInv'
  <1> DEFINE k == [worker[w] EXCEPT !.pc = "record", !.panicked = TRUE]
  <1>1. worker[w].pc \in {"send"} /\ worker[w].pc # "idle" /\ worker[w].pc \in Claimed
    BY DEF Panic, Claimed, Loading, Sending
  <1>2. worker' = [worker EXCEPT ![w] = k]
    BY ClaimedCall, <1>1 DEF Panic, Call
  <1>3. k \in Call /\ k.pc \in {"record"} /\ k.alert = worker[w].alert
    BY <1>1, ClaimedCall, CallTypes DEF Call, Claimed, Loading, Sending
  <1>4. k.pc # "return" => k.snap = worker[w].snap
    BY <1>1, ClaimedCall DEF Call, Claimed
  <1>6. StepsTo(w, k)
    BY <1>1, <1>2, <1>3 DEF StepsTo, Claimed, Loading, Sending
  <1>7. SnapOK(row[k.alert], k)
    BY <1>1, <1>3, <1>4, ClaimedCall DEF SnapOK, HasSnap, Sending
  <1>8. TypeOK'
    BY <1>1, <1>2, <1>3, ClaimedCall DEF CoreInv, TypeOK, Panic, dbVars, histVars
  <1>9. UNCHANGED <<row, batch, inflight>>
    BY DEF Panic, dbVars
  <1> QED BY <1>6, <1>7, <1>8, <1>9, ClaimedStep DEF CoreInv

\* AllTried keeps the core invariant.
LEMMA AllTriedCore ==
    ASSUME CoreInv, NEW w \in Workers, AllTried(w)
    PROVE  CoreInv'
  <1> DEFINE k == [worker[w] EXCEPT !.pc = "record"]
  <1>1. worker[w].pc \in {"send"} /\ worker[w].pc # "idle" /\ worker[w].pc \in Claimed
    BY DEF AllTried, Claimed, Loading, Sending
  <1>2. worker' = [worker EXCEPT ![w] = k]
    BY ClaimedCall, <1>1 DEF AllTried, Call
  <1>3. k \in Call /\ k.pc \in {"record"} /\ k.alert = worker[w].alert
    BY <1>1, ClaimedCall, CallTypes DEF Call, Claimed, Loading, Sending
  <1>4. k.pc # "return" => k.snap = worker[w].snap
    BY <1>1, ClaimedCall DEF Call, Claimed
  <1>6. StepsTo(w, k)
    BY <1>1, <1>2, <1>3 DEF StepsTo, Claimed, Loading, Sending
  <1>7. SnapOK(row[k.alert], k)
    BY <1>1, <1>3, <1>4, ClaimedCall DEF SnapOK, HasSnap, Sending
  <1>8. TypeOK'
    BY <1>1, <1>2, <1>3, ClaimedCall DEF CoreInv, TypeOK, AllTried, dbVars, histVars
  <1>9. UNCHANGED <<row, batch, inflight>>
    BY DEF AllTried, dbVars
  <1> QED BY <1>6, <1>7, <1>8, <1>9, ClaimedStep DEF CoreInv

\* RecordFails keeps the core invariant.
LEMMA RecordFailsCore ==
    ASSUME CoreInv, NEW w \in Workers, RecordFails(w)
    PROVE  CoreInv'
  <1> DEFINE k == ReturnCall(worker[w].alert)
  <1>1. worker[w].pc \in {"record"} /\ worker[w].pc # "idle" /\ worker[w].pc \in Claimed
    BY DEF RecordFails, Claimed, Loading, Sending
  <1>2. worker' = [worker EXCEPT ![w] = k]
    BY ClaimedCall, <1>1 DEF RecordFails, Call
  <1>3. k \in Call /\ k.pc \in {"return"} /\ k.alert = worker[w].alert
    BY ZenonT(40), <1>1, ClaimedCall, CallTypes DEF Call, ReturnCall, IdleCall, Claimed, Loading, Sending
  <1>4. k.pc # "return" => k.snap = worker[w].snap
    BY <1>1, ClaimedCall DEF Call, ReturnCall, IdleCall, Claimed
  <1>6. StepsTo(w, k)
    BY <1>1, <1>2, <1>3 DEF StepsTo, Claimed, Loading, Sending
  <1>7. SnapOK(row[k.alert], k)
    BY <1>1, <1>3, <1>4, ClaimedCall DEF SnapOK, HasSnap, Sending
  <1>8. TypeOK'
    <2>1. lost' = Lose(worker[w].alert, worker[w].fresh)
      BY DEF RecordFails
    <2>2. lost' \in [Alerts -> [Subs -> Nat]]
      BY <1>1, <2>1, LoseIs, ClaimedCall DEF CoreInv
    <2>3. faults' \in 0..MaxFaults
      BY DEF CoreInv, TypeOK, RecordFails
    <2> QED BY <1>2, <1>3, <2>2, <2>3 DEF CoreInv, TypeOK, RecordFails, dbVars
  <1>9. UNCHANGED <<row, batch, inflight>>
    BY DEF RecordFails, dbVars
  <1> QED BY <1>6, <1>7, <1>8, <1>9, ClaimedStep DEF CoreInv

\* Claim keeps the core invariant.
LEMMA ClaimCore ==
    ASSUME CoreInv, NEW w \in Workers, Claim(w)
    PROVE  CoreInv'
  <1> DEFINE k == [worker[w] EXCEPT !.pc = "load"]
  <1>1. worker[w].pc = "claim" /\ worker[w].alert \notin inflight
    BY DEF Claim
  <1>2. worker \in [Workers -> Call] /\ worker' = [worker EXCEPT ![w] = k]
    BY DEF Claim, CoreInv, TypeOK
  <1>3. k \in Call /\ k.pc = "load" /\ k.alert = worker[w].alert /\ k.alert \in Alerts
    BY <1>1, ClaimedCall DEF Call, Claimed, Loading
  <1>4. \A v \in Workers : worker'[v] = IF v = w THEN k ELSE worker[v]
    BY <1>2
  <1> HIDE DEF k
  <1>5. TypeOK'
    BY ZenonT(40), <1>2, <1>3 DEF CoreInv, TypeOK, Claim, dbVars, histVars
  <1>6. Working'
    BY <1>1, <1>3, <1>4, WorkerIds DEF CoreInv, Working, Claim, dbVars
  <1>7. ClaimExclusive'
    <2>1. inflight' = inflight \cup {k.alert}
      BY <1>3 DEF Claim
    <2>2. \A v \in Workers : worker[v].pc \in Claimed => worker[v].alert \in inflight
      BY DEF CoreInv, ClaimExclusive, Working, Claimed, Loading, Sending
    <2>3. k.pc \in Claimed /\ worker[w].pc \notin Claimed
      BY <1>1, <1>3 DEF Claimed, Loading, Sending
    <2> QED BY <1>1, <1>3, <1>4, <2>1, <2>2, <2>3 DEF CoreInv, ClaimExclusive
  <1>8. Budget'
    BY DEF CoreInv, Budget, Claim, dbVars
  <1>9. SnapCurrent'
    BY <1>3, <1>4 DEF CoreInv, SnapCurrent, SnapOK, HasSnap, Sending, Claim, dbVars
  <1> QED BY <1>5, <1>6, <1>7, <1>8, <1>9 DEF CoreInv

\* ClaimBusy keeps the core invariant.
LEMMA ClaimBusyCore ==
    ASSUME CoreInv, NEW w \in Workers, ClaimBusy(w)
    PROVE  CoreInv'
  <1>1. worker[w].pc = "claim" /\ worker \in [Workers -> Call]
    BY DEF ClaimBusy, CoreInv, TypeOK
  <1>2. \A v \in Workers : worker'[v] = IF v = w THEN IdleCall ELSE worker[v]
    BY <1>1 DEF ClaimBusy
  <1>3. IdleCall.pc = "idle"
    BY DEF IdleCall
  <1>4. TypeOK'
    BY <1>1, CallTypes DEF CoreInv, TypeOK, ClaimBusy, dbVars, histVars
  <1>5. Working'
    BY <1>2, <1>3, WorkerIds DEF CoreInv, Working, ClaimBusy, dbVars
  <1>6. ClaimExclusive'
    BY <1>1, <1>2, <1>3 DEF CoreInv, ClaimExclusive, ClaimBusy, Claimed, Loading, Sending
  <1>7. Budget'
    BY DEF CoreInv, Budget, ClaimBusy, dbVars
  <1>8. SnapCurrent'
    BY <1>2, <1>3 DEF CoreInv, SnapCurrent, SnapOK, HasSnap, Sending, ClaimBusy, dbVars
  <1> QED BY <1>4, <1>5, <1>6, <1>7, <1>8 DEF CoreInv

\* Release keeps the core invariant.
LEMMA ReleaseCore ==
    ASSUME CoreInv, NEW w \in Workers, Release(w)
    PROVE  CoreInv'
  <1>1. worker[w].pc = "return" /\ worker \in [Workers -> Call] /\ worker[w].alert \in Alerts
    BY ClaimedCall DEF Release, CoreInv, TypeOK
  <1>2. \A v \in Workers : worker'[v] = IF v = w THEN IdleCall ELSE worker[v]
    BY <1>1 DEF Release
  <1>3. IdleCall.pc = "idle"
    BY DEF IdleCall
  <1>4. TypeOK'
    BY <1>1, CallTypes DEF CoreInv, TypeOK, Release, dbVars, histVars
  <1>5. Working'
    BY <1>2, <1>3, WorkerIds DEF CoreInv, Working, Release, dbVars
  <1>6. ClaimExclusive'
    <2>1. worker[w].pc \in Claimed /\ IdleCall.pc \notin Claimed
      BY <1>1, <1>3 DEF Claimed, Loading, Sending
    <2>2. inflight' = inflight \ {worker[w].alert}
      BY DEF Release
    <2> QED BY <1>1, <1>2, <2>1, <2>2 DEF CoreInv, ClaimExclusive
  <1>7. Budget'
    BY DEF CoreInv, Budget, Release, dbVars
  <1>8. SnapCurrent'
    BY <1>2, <1>3 DEF CoreInv, SnapCurrent, SnapOK, HasSnap, Sending, Release, dbVars
  <1> QED BY <1>4, <1>5, <1>6, <1>7, <1>8 DEF CoreInv

\* What recordOutcome writes into a row that still exists is a row, closed or
\* with attempts left.
LEMMA RecordedIs ==
    ASSUME CoreInv, NEW w \in Workers, worker[w].pc = "record",
           row[worker[w].alert].status # "deleted"
    PROVE  LET r == Recorded(row[worker[w].alert], worker[w]) IN
           /\ r \in Row
           /\ r.status \in TerminalStatus \cup {"pending"}
           /\ r.status = "pending" => r.attempts < MaxAttempts
           /\ r.status = Verdict(worker[w])
           /\ r.attempts = Attempts(worker[w])
  <1> DEFINE k == worker[w]
             r == row[k.alert]
             e == r.email \/ k.emailOK
             t == r.telegram \/ k.tgOK
             h == r.webhook \/ HookOK(k)
             d == r.due /\ Verdict(k) # "pending"
  <1>1. k \in Call /\ r \in Row /\ k.alert \in Alerts /\ r.status = "pending"
    BY ClaimedCall DEF SnapOK, HasSnap, Sending
  <1>2. k.snap.attempts = r.attempts /\ r.attempts \in 0..MaxAttempts /\ r.attempts < MaxAttempts
    BY <1>1, ClaimedCall DEF CoreInv, Budget, SnapOK, HasSnap, Sending, SameColumns, Row
  <1>3. Attempts(k) \in 0..MaxAttempts
    BY <1>2 DEF Attempts
  <1>4. Verdict(k) \in TerminalStatus \cup {"pending"}
    BY DEF Verdict, TerminalStatus
  <1>5. Verdict(k) = "pending" => Attempts(k) < MaxAttempts
    BY <1>3 DEF Verdict
  <1>6. e \in BOOLEAN /\ t \in BOOLEAN /\ h \in BOOLEAN /\ d \in BOOLEAN
    OBVIOUS
  <1>7. Recorded(r, k) = [r EXCEPT !.status = Verdict(k), !.attempts = Attempts(k),
                                   !.due = d, !.email = e, !.telegram = t, !.webhook = h]
    BY DEF Recorded
  <1> HIDE DEF k, r, e, t, h, d
  <1>8. Recorded(r, k) \in Row
    BY <1>1, <1>3, <1>4, <1>6, <1>7 DEF Row, RowStatus, TerminalStatus
  <1>9. Recorded(r, k).status = Verdict(k) /\ Recorded(r, k).attempts = Attempts(k)
    BY <1>1, <1>7 DEF Row
  <1> QED BY <1>4, <1>5, <1>8, <1>9 DEF k, r

\* RecordOutcome keeps the core invariant.
LEMMA RecordOutcomeCore ==
    ASSUME CoreInv, NEW w \in Workers, RecordOutcome(w)
    PROVE  CoreInv'
  <1> DEFINE k == worker[w]
             gone == row[k.alert].status = "deleted"
             new == Recorded(row[k.alert], k)
             ret == ReturnCall(k.alert)
  <1>1. k.pc = "record" /\ k.pc \in Claimed /\ worker \in [Workers -> Call] /\ row \in [Alerts -> Row]
    BY DEF RecordOutcome, CoreInv, TypeOK, Claimed, Sending
  <1>2. k \in Call /\ k.alert \in Alerts
    BY <1>1, ClaimedCall
  <1>3. \A v \in Workers : worker'[v] = IF v = w THEN ret ELSE worker[v]
    BY <1>1 DEF RecordOutcome
  <1>4. ret \in Call /\ ret.pc = "return" /\ ret.alert = k.alert
    BY <1>2, CallTypes DEF ReturnCall, IdleCall
  <1>5. \A a \in Alerts : row'[a] = IF a = k.alert /\ ~gone THEN new ELSE row[a]
    BY <1>1 DEF RecordOutcome
  <1>6. ~gone => /\ new \in Row
                 /\ new.status \in TerminalStatus \cup {"pending"}
                 /\ new.status = "pending" => new.attempts < MaxAttempts
    BY <1>1, RecordedIs
  <1>7. UNCHANGED <<batch, inflight>>
    BY DEF RecordOutcome
  <1>8. TypeOK'
    <2>1. row' \in [Alerts -> Row]
      BY <1>1, <1>5, <1>6 DEF RecordOutcome
    <2>2. lost' \in [Alerts -> [Subs -> Nat]]
      <3> DEFINE a == k.alert
                 S == k.fresh
      <3>1. lost' = IF gone THEN Lose(a, S) ELSE lost
        BY DEF RecordOutcome
      <3> HIDE DEF a, S, gone
      <3>2. Lose(a, S) \in [Alerts -> [Subs -> Nat]]
        BY <1>2, LoseIs DEF a, CoreInv
      <3> QED BY <3>1, <3>2 DEF CoreInv, TypeOK
    <2>3. worker' \in [Workers -> Call]
      BY <1>1, <1>4 DEF RecordOutcome
    <2> QED BY <2>1, <2>2, <2>3 DEF CoreInv, TypeOK, RecordOutcome
  <1> HIDE DEF gone, new, ret
  <1>9. Working'
    <2>1. \A a \in Alerts : row[a].status # "absent" => row'[a].status # "absent"
      BY <1>5, <1>6 DEF TerminalStatus
    <2>2. ASSUME NEW v \in Workers, worker'[v].pc # "idle"
          PROVE  worker'[v].alert \in Alerts /\ row'[worker'[v].alert].status # "absent"
      BY <2>2, <1>1, <1>2, <1>3, <1>4, <2>1, ClaimedCall
    <2>3. ASSUME NEW b \in batch' PROVE row'[b].status # "absent"
      BY <1>7, <2>1 DEF CoreInv, TypeOK, Working
    <2>4. ASSUME NEW b \in Alerts, worker'[b].pc # "idle" PROVE worker'[b].alert = b
      BY <2>4, <1>1, <1>3, <1>4, WorkerIds DEF CoreInv, Working
    <2> QED BY <2>2, <2>3, <2>4 DEF Working
  <1>10. ClaimExclusive'
    <2>1. ret.pc \in Claimed
      BY <1>4 DEF Claimed
    <2> QED BY <1>1, <1>3, <1>4, <1>7, <2>1 DEF CoreInv, ClaimExclusive
  <1>11. Budget'
    BY <1>5, <1>6 DEF CoreInv, Budget, TerminalStatus
  <1>12. SnapCurrent'
    <2> SUFFICES ASSUME NEW v \in Workers, v # w, worker[v].pc \in HasSnap
                 PROVE  SnapOK(row'[worker[v].alert], worker[v])
      BY <1>3, <1>4 DEF SnapCurrent, SnapOK, HasSnap, Sending
    <2>1. worker[v].pc \in Claimed /\ worker[v].pc # "idle"
      BY DEF HasSnap, Claimed, Loading, Sending
    <2>2. worker[v].alert # k.alert
      BY <1>1, <2>1 DEF CoreInv, ClaimExclusive
    <2>3. row'[worker[v].alert] = row[worker[v].alert]
      BY <1>5, <2>1, <2>2, ClaimedCall
    <2> QED BY <2>1, <2>3, ClaimedCall
  <1> QED BY <1>8, <1>9, <1>10, <1>11, <1>12 DEF CoreInv

\* A step that leaves the workers and the claims alone, and changes rows only in
\* ways no claimed worker can tell from a deletion, preserves the core.
LEMMA RowStep ==
    ASSUME CoreInv, TypeOK', UNCHANGED <<worker, inflight, batch>>,
           \A a \in Alerts :
              /\ row[a].status # "absent" =>
                    /\ row'[a].status \in {row[a].status, "deleted"}
                    /\ SameColumns(row[a], row'[a])
              /\ row'[a].status \in {"absent", "pending"} =>
                    row'[a].attempts < MaxAttempts
    PROVE  CoreInv'
  <1>1. Working'
    BY DEF CoreInv, Working, TypeOK
  <1>2. ClaimExclusive'
    BY DEF CoreInv, ClaimExclusive
  <1>3. Budget'
    BY DEF Budget
  <1>4. SnapCurrent'
    <2> SUFFICES ASSUME NEW w \in Workers, worker[w].pc \in HasSnap
                 PROVE  SnapOK(row'[worker[w].alert], worker[w])
      BY DEF SnapCurrent, SnapOK
    <2>1. worker[w].pc # "idle"
      BY DEF HasSnap, Sending
    <2> QED BY <2>1, ClaimedCall DEF SnapOK, SameColumns
  <1> QED BY <1>1, <1>2, <1>3, <1>4 DEF CoreInv

\* Storing a row changes an absent row into a fresh one.
LEMMA Stored ==
    ASSUME CoreInv, NEW a \in Alerts, row[a].status = "absent",
           row' = [row EXCEPT ![a] = FreshRow]
    PROVE  /\ row' \in [Alerts -> Row]
           /\ \A b \in Alerts :
                /\ row[b].status # "absent" => row'[b] = row[b]
                /\ row'[b].status \in {"absent", "pending"} => row'[b].attempts < MaxAttempts
           /\ row'[a].status = "pending"
  <1>1. FreshRow.status = "pending" /\ FreshRow.attempts = 0
    BY DEF FreshRow, AbsentRow
  <1>2. row \in [Alerts -> Row] /\ FreshRow \in Row
    BY CallTypes DEF CoreInv, TypeOK
  <1> QED BY <1>1, <1>2 DEF CoreInv, Budget

\* InsertOnly keeps the core invariant.
LEMMA InsertOnlyCore ==
    ASSUME CoreInv, NEW a \in Alerts, InsertOnly(a)
    PROVE  CoreInv'
  <1>1. TypeOK'
    BY Stored DEF CoreInv, TypeOK, InsertOnly, procVars, histVars
  <1> QED BY <1>1, Stored, RowStep DEF InsertOnly, procVars, SameColumns

\* InsertAndDispatch keeps the core invariant.
LEMMA InsertAndDispatchCore ==
    ASSUME CoreInv, NEW a \in Alerts, InsertAndDispatch(a)
    PROVE  CoreInv'
  <1> DEFINE k == StartCall(a)
  <1>1. /\ row' \in [Alerts -> Row]
        /\ \A b \in Alerts :
             /\ row[b].status # "absent" => row'[b] = row[b]
             /\ row'[b].status \in {"absent", "pending"} => row'[b].attempts < MaxAttempts
        /\ row'[a].status = "pending"
    BY Stored DEF InsertAndDispatch
  <1>2. k \in Call /\ k.pc = "claim" /\ k.alert = a
    BY CallTypes DEF StartCall, IdleCall
  <1> HIDE DEF k
  <1>3. a \in Workers /\ worker \in [Workers -> Call] /\ worker' = [worker EXCEPT ![a] = k]
    BY WorkerIds DEF CoreInv, TypeOK, InsertAndDispatch, k
  <1>4. \A v \in Workers : worker'[v] = IF v = a THEN k ELSE worker[v]
    BY <1>3
  <1>5. UNCHANGED <<inflight, batch>>
    BY DEF InsertAndDispatch
  <1>6. TypeOK'
    BY <1>1, <1>2, <1>3 DEF CoreInv, TypeOK, InsertAndDispatch, histVars
  <1>7. worker[a].pc = "idle"
    BY <1>3, ClaimedCall DEF CoreInv, Working, InsertAndDispatch
  <1>8. Working'
    <2>1. ASSUME NEW v \in Workers, worker'[v].pc # "idle"
          PROVE  worker'[v].alert \in Alerts /\ row'[worker'[v].alert].status # "absent"
      BY ZenonT(40), <2>1, <1>1, <1>2, <1>4, ClaimedCall
    <2>2. ASSUME NEW b \in batch' PROVE row'[b].status # "absent"
      BY <1>1, <1>5 DEF CoreInv, TypeOK, Working
    <2>3. ASSUME NEW b \in Alerts, worker'[b].pc # "idle" PROVE worker'[b].alert = b
      BY <2>3, <1>2, <1>4, WorkerIds DEF CoreInv, Working
    <2> QED BY <2>1, <2>2, <2>3 DEF Working
  <1>9. worker[a].pc \notin Claimed
    BY <1>7 DEF Claimed, Loading, Sending
  <1>10. ClaimExclusive'
    BY <1>2, <1>4, <1>5, <1>9 DEF CoreInv, ClaimExclusive, Claimed, Loading, Sending
  <1>11. Budget'
    BY <1>1 DEF Budget
  <1>12. SnapCurrent'
    <2> SUFFICES ASSUME NEW w \in Workers, w # a, worker[w].pc \in HasSnap
                 PROVE  SnapOK(row'[worker[w].alert], worker[w])
      BY <1>2, <1>4 DEF SnapCurrent, SnapOK, HasSnap, Sending
    <2>1. worker[w].pc # "idle"
      BY DEF HasSnap, Sending
    <2> QED BY <1>1, <2>1, ClaimedCall
  <1> QED BY <1>6, <1>8, <1>10, <1>11, <1>12 DEF CoreInv

\* BackoffElapses keeps the core invariant.
LEMMA BackoffElapsesCore ==
    ASSUME CoreInv, NEW a \in Alerts, BackoffElapses(a)
    PROVE  CoreInv'
  <1> DEFINE r == [row[a] EXCEPT !.due = TRUE]
  <1>1. row \in [Alerts -> Row] /\ row' = [row EXCEPT ![a] = r]
    BY DEF CoreInv, TypeOK, BackoffElapses
  <1>2. r \in Row /\ r.status = row[a].status /\ SameColumns(row[a], r)
    BY <1>1 DEF Row, SameColumns
  <1> HIDE DEF r
  <1>3. TypeOK'
    BY <1>1, <1>2 DEF CoreInv, TypeOK, BackoffElapses, procVars, histVars
  <1>4. \A b \in Alerts : /\ row'[b].status = row[b].status
                          /\ SameColumns(row[b], row'[b])
    BY <1>1, <1>2 DEF SameColumns
  <1>5. UNCHANGED <<worker, inflight, batch>>
    BY DEF BackoffElapses, procVars
  <1> QED BY <1>3, <1>4, <1>5, RowStep DEF CoreInv, Budget, SameColumns

\* The history update of a cascade.
LEMMA CascadeType ==
    ASSUME TypeOK, NEW gone, Cascade(gone)
    PROVE  /\ hooks' \in SUBSET (Alerts \X Subs)
           /\ lost' \in [Alerts -> [Subs -> Nat]]
  BY DEF Cascade, TypeOK

\* A subscription that comes or goes disturbs no call.
LEMMA SubscriptionCore ==
    ASSUME CoreInv, NEW s \in Subs, CreateSubscription(s) \/ DeleteSubscription(s)
    PROVE  CoreInv'
  <1>1. TypeOK'
    <2>1. CASE CreateSubscription(s)
      BY <2>1 DEF CoreInv, TypeOK, CreateSubscription, procVars, histVars
    <2>2. CASE DeleteSubscription(s)
      <3>1. hooks' \in SUBSET (Alerts \X Subs) /\ lost' \in [Alerts -> [Subs -> Nat]]
        BY <2>2, CascadeType DEF CoreInv, DeleteSubscription
      <3> QED BY <2>2, <3>1 DEF CoreInv, TypeOK, DeleteSubscription, procVars
    <2> QED BY <2>1, <2>2
  <1>2. UNCHANGED <<row, worker, inflight, batch>>
    BY DEF CreateSubscription, DeleteSubscription, procVars
  <1> QED BY <1>1, <1>2, RowStep DEF CoreInv, Budget, SameColumns

\* DeleteDevice keeps the core invariant.
LEMMA DeleteDeviceCore ==
    ASSUME CoreInv, NEW d \in Devices, DeleteDevice(d)
    PROVE  CoreInv'
  <1> DEFINE del(a) == [row[a] EXCEPT !.status = "deleted"]
  <1>1. \A a \in Alerts : row[a] \in Row
    BY DEF CoreInv, TypeOK
  <1>2. \A a \in Alerts :
          del(a) \in Row /\ del(a).status = "deleted" /\ SameColumns(row[a], del(a))
    BY <1>1 DEF Row, RowStatus, SameColumns
  <1>3. row' = [a \in Alerts |-> IF a \in AlertsOf(d) THEN del(a) ELSE row[a]]
    BY DEF DeleteDevice
  <1> HIDE DEF del
  <1>4. hooks' \in SUBSET (Alerts \X Subs) /\ lost' \in [Alerts -> [Subs -> Nat]]
    BY CascadeType DEF CoreInv, DeleteDevice
  <1>5. TypeOK'
    <2>1. row' \in [Alerts -> Row]
      BY <1>1, <1>2, <1>3
    <2>2. UNCHANGED <<up, inflight, worker, batch, sent, faults, crashes>>
      BY DEF DeleteDevice, procVars
    <2>3. subs' \in [Subs -> {"unborn", "live", "deleted"}]
      BY DEF CoreInv, TypeOK, DeleteDevice
    <2> QED BY <1>4, <2>1, <2>2, <2>3 DEF CoreInv, TypeOK
  <1>6. UNCHANGED <<worker, inflight, batch>>
    BY DEF DeleteDevice, procVars
  <1>7. \A a \in Alerts :
          /\ row'[a].status \in {row[a].status, "deleted"}
          /\ SameColumns(row[a], row'[a])
    BY <1>2, <1>3 DEF SameColumns
  <1>8. \A a \in Alerts : row'[a].status \in {"absent", "pending"} =>
                            row'[a].attempts < MaxAttempts
    BY <1>2, <1>3 DEF CoreInv, Budget
  <1> QED BY <1>5, <1>6, <1>7, <1>8, RowStep

\* SweepScan keeps the core invariant.
LEMMA SweepScanCore ==
    ASSUME CoreInv, SweepScan
    PROVE  CoreInv'
  <1>1. batch' \subseteq Alerts /\ \A a \in batch' : row[a].status # "absent"
    BY DEF SweepScan, FirstDue, Due
  <1>2. UNCHANGED <<row, hooks, subs, up, inflight, worker, sent, lost, faults, crashes>>
    BY DEF SweepScan, dbVars, histVars
  <1>3. TypeOK'
    BY <1>1, <1>2 DEF CoreInv, TypeOK
  <1> QED
    BY <1>1, <1>2, <1>3 DEF CoreInv, Working, ClaimExclusive, Budget, SnapCurrent

\* SweepNext keeps the core invariant.
LEMMA SweepNextCore ==
    ASSUME CoreInv, SweepNext
    PROVE  CoreInv'
  <1>1. PICK a \in batch : /\ batch' = batch \ {a}
                           /\ worker' = [worker EXCEPT ![Sweeper] = StartCall(a)]
    BY DEF SweepNext
  <1> DEFINE k == StartCall(a)
  <1>2. a \in Alerts /\ row[a].status # "absent" /\ worker \in [Workers -> Call]
    BY <1>1 DEF CoreInv, TypeOK, Working
  <1>3. k \in Call /\ k.pc = "claim" /\ k.alert = a
    BY <1>2, CallTypes DEF StartCall, IdleCall
  <1> HIDE DEF k
  <1>4. \A v \in Workers : worker'[v] = IF v = Sweeper THEN k ELSE worker[v]
    BY <1>1, <1>2, WorkerIds DEF k
  <1>5. UNCHANGED <<row, hooks, subs, up, inflight, sent, lost, faults, crashes>>
    BY DEF SweepNext, dbVars, histVars
  <1>6. TypeOK'
    BY <1>1, <1>2, <1>3, <1>5, WorkerIds DEF CoreInv, TypeOK, k
  <1>7. Working'
    BY <1>1, <1>2, <1>3, <1>4, <1>5, WorkerIds DEF CoreInv, Working
  <1>8. ClaimExclusive'
    <2>1. worker[Sweeper].pc \notin Claimed /\ k.pc \notin Claimed
      BY <1>3 DEF SweepNext, Claimed, Loading, Sending
    <2> QED BY <1>4, <1>5, <2>1 DEF CoreInv, ClaimExclusive
  <1>9. Budget'
    BY <1>5 DEF CoreInv, Budget
  <1>10. SnapCurrent'
    BY <1>3, <1>4, <1>5 DEF CoreInv, SnapCurrent, SnapOK, HasSnap, Sending
  <1> QED BY <1>6, <1>7, <1>8, <1>9, <1>10 DEF CoreInv

\* Crash keeps the core invariant.
LEMMA CrashCore ==
    ASSUME CoreInv, Crash
    PROVE  CoreInv'
  <1>1. \A w \in Workers : worker'[w] = IdleCall
    BY DEF Crash
  <1>2. IdleCall.pc = "idle"
    BY DEF IdleCall
  <1>3. TypeOK'
    <2>1. lost' \in [Alerts -> [Subs -> Nat]]
      BY DEF CoreInv, TypeOK, Crash
    <2>2. worker' \in [Workers -> Call]
      BY CallTypes DEF Crash
    <2>3. UNCHANGED <<row, hooks, subs, sent, faults>> /\ inflight' = {} /\ batch' = {}
      BY DEF Crash, dbVars
    <2>4. up' \in BOOLEAN
      BY DEF Crash
    <2>5. crashes' \in 0..MaxCrashes
      BY DEF CoreInv, TypeOK, Crash
    <2> QED BY <2>1, <2>2, <2>3, <2>4, <2>5 DEF CoreInv, TypeOK
  <1>4. Working'
    BY <1>1, <1>2, WorkerIds DEF Working, Crash
  <1>5. ClaimExclusive'
    BY <1>1, <1>2 DEF ClaimExclusive, Crash, Claimed, Loading, Sending
  <1>6. Budget'
    BY DEF CoreInv, Budget, Crash, dbVars
  <1>7. SnapCurrent'
    BY <1>1, <1>2 DEF SnapCurrent, SnapOK, HasSnap, Sending
  <1> QED BY <1>3, <1>4, <1>5, <1>6, <1>7 DEF CoreInv

\* One step of any kind.
LEMMA CoreStep == CoreInv /\ [Next]_vars => CoreInv'
  <1> SUFFICES ASSUME CoreInv, [Next]_vars PROVE CoreInv'
    OBVIOUS
  <1>1. ASSUME NEW w \in Workers, Dispatch(w) PROVE CoreInv'
    BY <1>1, ClaimCore, ClaimBusyCore, LoadAlertCore, LoadRecipientsCore,
       LoadWebhookSentCore, LoadFailsCore, SkipOrFailCore, SendOKCore, MarkHookCore,
       MarkHookFailsCore, MarkHookAckLostCore, PanicCore, AllTriedCore,
       RecordOutcomeCore, RecordFailsCore, ReleaseCore DEF Dispatch
  <1>2. ASSUME NEW a \in Alerts,
               InsertAndDispatch(a) \/ InsertOnly(a) \/ BackoffElapses(a)
        PROVE CoreInv'
    BY <1>2, InsertAndDispatchCore, InsertOnlyCore, BackoffElapsesCore
  <1>3. CASE Restart \/ UNCHANGED vars
    <2>1. UNCHANGED <<row, inflight, worker, batch>>
      BY <1>3 DEF Restart, vars, dbVars
    <2>2. TypeOK'
      BY <1>3 DEF CoreInv, TypeOK, Restart, vars, dbVars, histVars
    <2> QED BY <2>1, <2>2, RowStep DEF CoreInv, Budget, SameColumns
  <1> QED
    BY <1>1, <1>2, <1>3, SubscriptionCore, DeleteDeviceCore, SweepScanCore,
       SweepNextCore, CrashCore DEF Next, Sweep

\* No dispatch, sweep, crash or deletion takes the state out of its types: in
\* particular no row is attempted more often than the budget allows.
THEOREM TypeCorrect == Spec => []TypeOK
  <1>1. CoreInv => TypeOK
    BY DEF CoreInv
  <1> QED BY CoreInit, CoreStep, <1>1, PTL DEF Spec

\* The claim serialises the inline dispatch and the sweeper on every alert.
THEOREM ClaimsExclusive == Spec => []ClaimExclusive
  <1>1. CoreInv => ClaimExclusive
    BY DEF CoreInv
  <1> QED BY CoreInit, CoreStep, <1>1, PTL DEF Spec

-----------------------------------------------------------------------------
(* What a step may do to the rows.                                          *)

RowStored(a) == row[a].status = "absent" /\ row' = [row EXCEPT ![a] = FreshRow]

RowDue(a) == row[a].status = "pending" /\ row' = [row EXCEPT ![a].due = TRUE]

RowsDeleted(S) ==
    /\ \A a \in S : row[a].status # "absent"
    /\ row' = [a \in Alerts |-> IF a \in S THEN [row[a] EXCEPT !.status = "deleted"]
                                ELSE row[a]]

RowRecorded(w) ==
    /\ worker[w].pc = "record"
    /\ row[worker[w].alert].status # "deleted"
    /\ row' = [row EXCEPT ![worker[w].alert] = Recorded(@, worker[w])]

\* What a step may do to the rows.
LEMMA RowEffect ==
    ASSUME CoreInv, [Next]_vars
    PROVE  \/ UNCHANGED row
           \/ \E a \in Alerts : RowStored(a) \/ RowDue(a)
           \/ \E S \in SUBSET Alerts : RowsDeleted(S)
           \/ \E w \in Workers : RowRecorded(w)
  <1>1. ASSUME NEW d \in Devices, DeleteDevice(d)
        PROVE  RowsDeleted(AlertsOf(d)) /\ AlertsOf(d) \in SUBSET Alerts
    BY <1>1 DEF DeleteDevice, RowsDeleted, AlertsOf
  <1>2. ASSUME NEW w \in Workers, Dispatch(w)
        PROVE  UNCHANGED row \/ RowRecorded(w)
    <2>1. CASE RecordOutcome(w)
      BY <2>1 DEF RecordOutcome, RowRecorded
    <2> QED
      BY <1>2, <2>1 DEF Dispatch, Claim, ClaimBusy, LoadAlert, LoadRecipients,
         LoadWebhookSent, LoadFails, SkipOrFail, SendOK, MarkHook, MarkHookFails, MarkHookAckLost,
         Panic, AllTried, RecordFails, Release, dbVars
  <1>3. ASSUME NEW a \in Alerts,
               InsertAndDispatch(a) \/ InsertOnly(a) \/ BackoffElapses(a)
        PROVE  RowStored(a) \/ RowDue(a)
    BY <1>3 DEF InsertAndDispatch, InsertOnly, BackoffElapses, RowStored, RowDue
  <1>4. ASSUME NEW s \in Subs, CreateSubscription(s) \/ DeleteSubscription(s)
        PROVE  UNCHANGED row
    BY <1>4 DEF CreateSubscription, DeleteSubscription
  <1>5. Sweep \/ Crash \/ Restart \/ UNCHANGED vars => UNCHANGED row
    BY DEF Sweep, SweepScan, SweepNext, Crash, Restart, vars, dbVars
  <1> QED BY <1>1, <1>2, <1>3, <1>4, <1>5 DEF Next

\* A worker about to record or send works on a row that is open or deleted.
LEMMA OpenOrDeleted ==
    ASSUME CoreInv, NEW w \in Workers, worker[w].pc \in Sending
    PROVE  worker[w].alert \in Alerts /\ row[worker[w].alert].status \in {"pending", "deleted"}
  BY ClaimedCall DEF Sending, SnapOK, HasSnap

TerminalStep ==
    \A a \in Alerts : row[a].status \in TerminalStatus =>
        /\ row'[a] \in {row[a], [row[a] EXCEPT !.status = "deleted"]}
        /\ sent'[a] = sent[a]

\* A step leaves a closed row as it is, or deletes it, and sends nothing for it.
LEMMA TerminalStepHolds == CoreInv /\ [Next]_vars => TerminalStep
  <1> SUFFICES ASSUME CoreInv, [Next]_vars, NEW a \in Alerts,
                      row[a].status \in TerminalStatus
               PROVE  /\ row'[a] \in {row[a], [row[a] EXCEPT !.status = "deleted"]}
                      /\ sent'[a] = sent[a]
    BY DEF TerminalStep
  <1>1. row \in [Alerts -> Row] /\ sent \in [Alerts -> [Subs -> Nat]]
    BY DEF CoreInv, TypeOK
  <1>2. row[a].status \notin {"absent", "pending", "deleted"}
    BY DEF TerminalStatus
  <1>3. row'[a] \in {row[a], [row[a] EXCEPT !.status = "deleted"]}
    <2>1. ASSUME NEW b \in Alerts, RowStored(b) \/ RowDue(b) PROVE row'[a] = row[a]
      BY <1>1, <1>2, <2>1 DEF RowStored, RowDue
    <2>2. ASSUME NEW S \in SUBSET Alerts, RowsDeleted(S)
          PROVE  row'[a] \in {row[a], [row[a] EXCEPT !.status = "deleted"]}
      BY <2>2 DEF RowsDeleted
    <2>3. ASSUME NEW w \in Workers, RowRecorded(w) PROVE row'[a] = row[a]
      <3>1. worker[w].alert # a
        BY <1>2, <2>3, OpenOrDeleted DEF RowRecorded, Sending
      <3> QED BY <1>1, <2>3, <3>1 DEF RowRecorded
    <2> QED BY <2>1, <2>2, <2>3, RowEffect
  <1>4. sent'[a] = sent[a]
    <2>1. ASSUME NEW w \in Workers, NEW s \in Subs, SendOK(w, s) PROVE sent'[a] = sent[a]
      <3>1. worker[w].alert # a
        BY <1>2, <2>1, OpenOrDeleted DEF SendOK, Sending
      <3> QED BY <1>1, <2>1, <3>1 DEF SendOK
    <2>2. ASSUME NEW w \in Workers, Dispatch(w) PROVE sent'[a] = sent[a]
      BY <2>1, <2>2 DEF Dispatch, Claim, ClaimBusy, LoadAlert, LoadRecipients,
         LoadWebhookSent, LoadFails, SkipOrFail, MarkHook, MarkHookFails, MarkHookAckLost,
         Panic, AllTried, RecordOutcome, RecordFails, Release, histVars
    <2> QED
      BY <2>2 DEF Next, Sweep, InsertAndDispatch, InsertOnly, BackoffElapses,
         CreateSubscription, DeleteSubscription, DeleteDevice, SweepScan, SweepNext,
         Crash, Restart, vars, histVars
  <1> QED BY <1>3, <1>4

\* A closed row is final: nothing but the deletion of its device changes it, and
\* no message is sent for it any more.
THEOREM TerminalIsStable == Spec => TerminalStable
  <1>1. CoreInv /\ [Next]_vars => [TerminalStep]_vars
    BY TerminalStepHolds
  <1>2. TerminalStable <=> [][TerminalStep]_vars
    BY DEF TerminalStable, TerminalStep
  <1> QED BY CoreInit, CoreStep, <1>1, <1>2, PTL DEF Spec

-----------------------------------------------------------------------------
(* AlertDelivery implements the safety part of AlertLifecycle.              *)

status == [a \in Alerts |-> row[a].status]
attempts == [a \in Alerts |-> row[a].attempts]

\* A run that is recorded is an attempt, a delivery, or found no recipients.
LEMMA RecordedSettles ==
    ASSUME CoreInv, NEW w \in Workers, RowRecorded(w),
           NEW a \in Alerts, a = worker[w].alert
    PROVE  Lifecycle!Settle(a)
  <1> DEFINE k == worker[w]
             new == Recorded(row[a], k)
  <1>1. row \in [Alerts -> Row] /\ k \in Call /\ row[a].status = "pending"
    BY OpenOrDeleted, ClaimedCall DEF RowRecorded, Sending, CoreInv, TypeOK
  <1>2. k.snap.attempts = row[a].attempts /\ row[a].attempts \in 0..MaxAttempts
                                         /\ row[a].attempts < MaxAttempts
    BY <1>1, ClaimedCall DEF RowRecorded, CoreInv, Budget, SnapOK, HasSnap, Sending,
       SameColumns, Row
  <1>3. new.status = Verdict(k) /\ new.attempts = Attempts(k)
    BY RecordedIs DEF RowRecorded
  <1> HIDE DEF new
  <1>4. row' = [row EXCEPT ![a] = new]
    BY DEF RowRecorded, new
  <1>5. /\ status' = [status EXCEPT ![a] = Verdict(k)]
        /\ attempts' = [attempts EXCEPT ![a] = Attempts(k)]
    BY <1>1, <1>3, <1>4 DEF status, attempts
  <1>6. status[a] = "pending" /\ attempts[a] = row[a].attempts
    BY <1>1 DEF status, attempts
  <1> HIDE DEF k
  <1>7. CASE k.recips = {}
    <2>1. Verdict(k) = "none" /\ Attempts(k) = row[a].attempts
      BY <1>2, <1>7 DEF Verdict, Attempts
    <2>2. attempts' = attempts
      BY <1>1, <1>5, <1>6, <2>1 DEF attempts
    <2>3. Lifecycle!NoRecipients(a)
      BY <1>5, <1>6, <2>1, <2>2 DEF Lifecycle!NoRecipients, status, attempts
    <2> QED BY <2>3 DEF Lifecycle!Settle
  <1>8. CASE k.recips # {}
    <2>1. Attempts(k) = attempts[a] + 1
      BY <1>2, <1>6, <1>8 DEF Attempts
    <2>2. CASE ~k.panicked /\ EverythingDone(k)
      <3>1. Verdict(k) = "delivered"
        BY <1>8, <2>2 DEF Verdict
      <3>2. Lifecycle!Deliver(a)
        BY <1>2, <1>5, <1>6, <2>1, <3>1 DEF Lifecycle!Deliver, status, attempts
      <3> QED BY <3>2 DEF Lifecycle!Settle
    <2>3. CASE ~(~k.panicked /\ EverythingDone(k))
      <3>1. Verdict(k) = IF attempts[a] + 1 = MaxAttempts THEN "dead" ELSE "pending"
        BY <1>2, <1>6, <1>8, <2>1, <2>3 DEF Verdict
      <3>2. Lifecycle!Attempt(a)
        BY <1>2, <1>5, <1>6, <2>1, <3>1 DEF Lifecycle!Attempt, status, attempts
      <3> QED BY <3>2 DEF Lifecycle!Settle
    <2> QED BY <2>2, <2>3
  <1> QED BY <1>7, <1>8

\* A step is one of the lifecycle, or a stutter of it.
LEMMA RefinesStep ==
    CoreInv /\ [Next]_vars => [Lifecycle!LifecycleNext]_(Lifecycle!lifecycleVars)
  <1> SUFFICES ASSUME CoreInv, [Next]_vars
               PROVE  Lifecycle!LifecycleNext \/ UNCHANGED Lifecycle!lifecycleVars
    OBVIOUS
  <1>1. \A a \in Alerts : row[a] \in Row
    BY DEF CoreInv, TypeOK
  <1>2. CASE UNCHANGED row
    BY <1>2 DEF Lifecycle!lifecycleVars
  <1>3. ASSUME NEW a \in Alerts, RowStored(a) PROVE Lifecycle!Store(a)
    <2>1. FreshRow.status = "pending" /\ FreshRow.attempts = 0
      BY DEF FreshRow, AbsentRow
    <2>2. \A b \in Alerts : row'[b] = IF b = a THEN FreshRow ELSE row[b]
      BY <1>3 DEF RowStored, CoreInv, TypeOK
    <2>3. /\ status' = [status EXCEPT ![a] = "pending"]
          /\ attempts' = [attempts EXCEPT ![a] = 0]
      BY <2>1, <2>2 DEF status, attempts
    <2>4. status[a] = "absent"
      BY <1>3 DEF RowStored, status
    <2> QED BY <2>3, <2>4 DEF Lifecycle!Store, status, attempts
  <1>4. ASSUME NEW a \in Alerts, RowDue(a) PROVE UNCHANGED Lifecycle!lifecycleVars
    <2> DEFINE r == [row[a] EXCEPT !.due = TRUE]
    <2>1. r.status = row[a].status /\ r.attempts = row[a].attempts
      BY <1>1 DEF Row
    <2> HIDE DEF r
    <2>2. \A b \in Alerts : row'[b] = IF b = a THEN r ELSE row[b]
      BY <1>4 DEF RowDue, CoreInv, TypeOK, r
    <2> QED BY <2>1, <2>2 DEF Lifecycle!lifecycleVars
  <1>5. ASSUME NEW S \in SUBSET Alerts, RowsDeleted(S) PROVE Lifecycle!Cascade(S)
    <2> DEFINE del(a) == [row[a] EXCEPT !.status = "deleted"]
    <2>1. \A a \in Alerts : del(a).status = "deleted" /\ del(a).attempts = row[a].attempts
      BY <1>1 DEF Row
    <2> HIDE DEF del
    <2>2. \A b \in Alerts : row'[b] = IF b \in S THEN del(b) ELSE row[b]
      BY <1>5 DEF RowsDeleted, del
    <2> QED BY <1>5, <2>1, <2>2 DEF RowsDeleted, Lifecycle!Cascade
  <1>6. ASSUME NEW w \in Workers, RowRecorded(w)
        PROVE  \E a \in Alerts : Lifecycle!Settle(a)
    <2>1. PICK b \in Alerts : b = worker[w].alert
      BY <1>6, OpenOrDeleted DEF RowRecorded, Sending
    <2>2. Lifecycle!Settle(b)
      BY <1>6, <2>1, RecordedSettles
    <2> QED BY <2>2
  <1>7. CASE \E a \in Alerts : RowStored(a) \/ RowDue(a)
    BY <1>3, <1>4, <1>7 DEF Lifecycle!LifecycleNext
  <1>8. CASE \E S \in SUBSET Alerts : RowsDeleted(S)
    BY <1>5, <1>8 DEF Lifecycle!LifecycleNext
  <1>9. CASE \E w \in Workers : RowRecorded(w)
    BY <1>6, <1>9 DEF Lifecycle!LifecycleNext, Lifecycle!Settle
  <1> QED BY <1>2, <1>7, <1>8, <1>9, RowEffect

\* The concurrent, crashing dispatchers take a row only through the lifecycle
\* AlertLifecycle describes.
THEOREM RefinesLifecycle == Spec => ImplementsLifecycle
  <1>1. Init => Lifecycle!LifecycleInit
    BY DEF Init, AbsentRow, Lifecycle!LifecycleInit
  <1> QED BY <1>1, CoreInit, CoreStep, RefinesStep, PTL
      DEF Spec, ImplementsLifecycle, Lifecycle!LifecycleSafety

-----------------------------------------------------------------------------
(* What is sent, for every instance of AlertDelivery.  NoResend: a send is     *)
(* repeated only after its record was lost; the invariant counts, for each     *)
(* alert and subscription, the sends against the records: one is known to      *)
(* the database, is fresh in the call of the claimed worker, or is lost.       *)
(* DeliveredReachesStanding: a row is closed as delivered only when those who  *)
(* were subscribed all along were reached.                                     *)

\* The database knows that a was sent to s.
Known(a, s) ==
    \/ ChannelOf[s] = "email" /\ row[a].email
    \/ ChannelOf[s] = "telegram" /\ row[a].telegram
    \/ ChannelOf[s] = "webhook" /\ <<a, s>> \in hooks

\* Some running call has sent a to s and not recorded it.
Fresh(a, s) == \E w \in Workers : worker[w].alert = a /\ s \in worker[w].fresh

\* A fresh send is behind the loop, its flag is set, and a webhook is fresh only
\* until its mark.
FreshOK(k) ==
    /\ k.pc = "mark" => \A s \in k.cur : ChannelOf[s] = "webhook" /\ s \notin k.todo
    /\ \A s \in k.fresh :
          /\ k.pc \in Sending
          /\ s \notin k.todo
          /\ ChannelOf[s] = "email" => k.emailOK
          /\ ChannelOf[s] = "telegram" => k.tgOK
          /\ ChannelOf[s] = "webhook" => k.pc = "mark" /\ s \in k.cur

\* A sending call knows every webhook record of its alert that it has yet to try.
DoneOK(k, H) == k.pc \in Sending => \A s \in k.todo : <<k.alert, s>> \in H => s \in k.done

CallsOK == \A w \in Workers : FreshOK(worker[w]) /\ DoneOK(worker[w], hooks)

Counted ==
    \A a \in Alerts, s \in Subs :
        /\ row[a].status = "absent" => sent[a][s] = 0
        /\ sent[a][s] <= 1 + lost[a][s]
        /\ ~Known(a, s) /\ ~Fresh(a, s) => sent[a][s] <= lost[a][s]

ResendInv == CallsOK /\ Counted


\* Nothing is sent at first.
LEMMA ResendInit == Init => ResendInv
  <1> SUFFICES ASSUME Init PROVE ResendInv
    OBVIOUS
  <1>1. IdleCall.pc = "idle" /\ IdleCall.fresh = {}
    BY DEF IdleCall
  <1>2. CallsOK
    BY <1>1 DEF Init, CallsOK, FreshOK, DoneOK, Sending
  <1>3. Counted
    BY DEF Init, Counted
  <1> QED BY <1>2, <1>3 DEF ResendInv

\* Reading a two-level counter.
LEMMA NatFamily ==
    ASSUME NEW f \in [Alerts -> [Subs -> Nat]], NEW a \in Alerts, NEW s \in Subs
    PROVE  f[a][s] \in Nat
  OBVIOUS

\* Only the worker past claim() has fresh sends of an alert.
LEMMA FreshIsMine ==
    ASSUME CoreInv, CallsOK, NEW w \in Workers, worker[w].pc \in Claimed,
           NEW s \in Subs, Fresh(worker[w].alert, s)
    PROVE  s \in worker[w].fresh
  <1>1. PICK v \in Workers : worker[v].alert = worker[w].alert /\ s \in worker[v].fresh
    BY DEF Fresh
  <1>2. worker[v].pc \in Claimed
    BY <1>1 DEF CallsOK, FreshOK, Claimed
  <1> QED BY <1>1, <1>2 DEF CoreInv, ClaimExclusive

\* A step of worker w that sends nothing: what it stops holding as fresh became
\* known or is counted as lost, and nothing known is forgotten uncounted.
LEMMA QuietStep ==
    ASSUME CoreInv, CoreInv', ResendInv, NEW w \in Workers, NEW k \in Call,
           worker' = [worker EXCEPT ![w] = k],
           sent' = sent,
           FreshOK(k), DoneOK(k, hooks'),
           k.fresh # {} => k.alert = worker[w].alert,
           \A v \in Workers \ {w} : DoneOK(worker[v], hooks'),
           \A a \in Alerts : row'[a].status = "absent" => row[a].status = "absent",
           \A a \in Alerts, s \in Subs :
              /\ lost'[a][s] >= lost[a][s]
              /\ \/ Known(a, s) /\ row[a].status # "absent"
                 \/ a = worker[w].alert /\ s \in worker[w].fresh /\ s \notin k.fresh
                 => Known(a, s)' \/ lost'[a][s] >= lost[a][s] + 1
    PROVE  ResendInv'
  <1>1. \A v \in Workers : worker'[v] = IF v = w THEN k ELSE worker[v]
    BY DEF CoreInv, TypeOK
  <1>2. CallsOK'
    BY <1>1 DEF ResendInv, CallsOK
  <1>3. /\ sent \in [Alerts -> [Subs -> Nat]]
        /\ lost \in [Alerts -> [Subs -> Nat]]
        /\ lost' \in [Alerts -> [Subs -> Nat]]
    BY DEF CoreInv, TypeOK
  <1>4. ASSUME NEW a \in Alerts, NEW s \in Subs
        PROVE  /\ row'[a].status = "absent" => sent'[a][s] = 0
               /\ sent'[a][s] <= 1 + lost'[a][s]
               /\ ~Known(a, s)' /\ ~Fresh(a, s)' => sent'[a][s] <= lost'[a][s]
    <2>1. sent[a][s] \in Nat /\ lost[a][s] \in Nat /\ lost'[a][s] \in Nat
      BY <1>3, NatFamily
    <2>2. sent[a][s] <= 1 + lost[a][s] /\ (row[a].status = "absent" => sent[a][s] = 0)
      BY DEF ResendInv, Counted
    <2>3. ASSUME ~Known(a, s)', ~Fresh(a, s)' PROVE sent[a][s] <= lost'[a][s]
      <3>1. CASE Fresh(a, s)
        <4>1. PICK v \in Workers : worker[v].alert = a /\ s \in worker[v].fresh
          BY <3>1 DEF Fresh
        <4>2. v = w
          BY <1>1, <2>3, <4>1 DEF Fresh
        <4>3. s \notin k.fresh
          BY <1>1, <2>3, <4>1, <4>2 DEF Fresh
        <4>4. lost'[a][s] >= lost[a][s] + 1
          BY <2>3, <4>1, <4>2, <4>3
        <4> QED BY <2>1, <2>2, <4>4
      <3>2. CASE Known(a, s) /\ row[a].status # "absent"
        <4>1. lost'[a][s] >= lost[a][s] + 1
          BY <2>3, <3>2
        <4> QED BY <2>1, <2>2, <4>1
      <3>3. CASE row[a].status = "absent"
        BY <2>1, <2>2, <3>3
      <3>4. CASE ~Fresh(a, s) /\ ~Known(a, s)
        <4>1. sent[a][s] <= lost[a][s]
          BY <3>4 DEF ResendInv, Counted
        <4>2. lost'[a][s] >= lost[a][s]
          OBVIOUS
        <4> QED BY <2>1, <4>1, <4>2
      <3> QED BY <3>1, <3>2, <3>3, <3>4
    <2>4. lost'[a][s] >= lost[a][s] /\ (row'[a].status = "absent" => row[a].status = "absent")
      OBVIOUS
    <2> QED BY <2>1, <2>2, <2>3, <2>4
  <1>5. Counted'
    BY <1>4 DEF Counted
  <1> QED BY <1>2, <1>5 DEF ResendInv

\* A call step that touches neither the database nor the history.
LEMMA QuietCall ==
    ASSUME CoreInv, CoreInv', ResendInv, NEW w \in Workers, NEW k \in Call,
           worker' = [worker EXCEPT ![w] = k],
           UNCHANGED <<row, hooks, sent, lost>>,
           FreshOK(k), DoneOK(k, hooks),
           k.fresh = worker[w].fresh,
           k.fresh # {} => k.alert = worker[w].alert
    PROVE  ResendInv'
  <1>1. \A v \in Workers : DoneOK(worker[v], hooks')
    BY DEF ResendInv, CallsOK
  <1>2. \A a \in Alerts, s \in Subs :
          lost'[a][s] >= lost[a][s] /\ (Known(a, s) => Known(a, s)')
    BY NatFamily DEF Known, CoreInv, TypeOK
  <1> QED BY <1>1, <1>2, QuietStep

\* A call outside the send loop holds nothing fresh.
LEMMA NothingFresh ==
    ASSUME ResendInv, NEW w \in Workers, worker[w].pc \notin Sending
    PROVE  worker[w].fresh \subseteq {} /\ worker[w].fresh = {}
  BY DEF ResendInv, CallsOK, FreshOK

\* Calls that are not sending are in order whatever the database holds.
LEMMA OutsideLoop ==
    ASSUME NEW k \in Call, k.pc \notin Sending, k.fresh = {}, NEW H
    PROVE  FreshOK(k) /\ DoneOK(k, H)
  BY DEF FreshOK, DoneOK, Sending

\* Steps outside the send loop send and record nothing.
LEMMA ClaimOrReturn ==
    ASSUME CoreInv, CoreInv', ResendInv, NEW w \in Workers,
           Claim(w) \/ ClaimBusy(w) \/ LoadAlert(w) \/ LoadRecipients(w)
              \/ LoadFails(w) \/ Release(w)
    PROVE  ResendInv'
  <1>1. worker[w].pc \notin Sending /\ worker[w] \in Call
    BY DEF Claim, ClaimBusy, LoadAlert, LoadRecipients, LoadFails, Release, Sending,
       Loading, CoreInv, TypeOK
  <1>2. worker[w].fresh = {}
    BY <1>1, NothingFresh
  <1>3. UNCHANGED <<row, hooks, sent, lost>>
    BY DEF Claim, ClaimBusy, LoadAlert, LoadRecipients, LoadFails, Release, dbVars, histVars
  <1>4. /\ IdleCall.fresh = {} /\ IdleCall.pc = "idle"
        /\ \A a : ReturnCall(a).fresh = {} /\ ReturnCall(a).pc = "return"
    BY DEF IdleCall, ReturnCall
  <1>5. PICK k : /\ worker' = [worker EXCEPT ![w] = k]
                 /\ k \in {IdleCall, ReturnCall(worker[w].alert),
                           [worker[w] EXCEPT !.pc = "load"],
                           [worker[w] EXCEPT !.pc = "recips", !.snap = row[worker[w].alert]],
                           [worker[w] EXCEPT !.pc = "hooks",
                                             !.recips = Recipients(worker[w].alert),
                                             !.todo = Recipients(worker[w].alert)]}
    BY DEF Claim, ClaimBusy, LoadAlert, LoadRecipients, LoadFails, Release
  <1>6. k.fresh = {} /\ k.pc \notin Sending
    BY <1>1, <1>2, <1>4, <1>5 DEF Call, Sending
  <1>7. k \in Call
    BY <1>5 DEF CoreInv, TypeOK
  <1> QED BY <1>2, <1>3, <1>5, <1>6, <1>7, OutsideLoop, QuietCall

\* LoadWebhookSent keeps sends and records in balance.
LEMMA LoadWebhookSentResend ==
    ASSUME CoreInv, CoreInv', ResendInv, NEW w \in Workers, LoadWebhookSent(w)
    PROVE  ResendInv'
  <1> DEFINE j == [worker[w] EXCEPT !.done = {s \in Subs : <<worker[w].alert, s>> \in hooks}]
             k == AfterLoad(j)
  <1>1. worker[w].pc = "hooks" /\ worker[w] \in Call /\ worker' = [worker EXCEPT ![w] = k]
    BY DEF LoadWebhookSent, CoreInv, TypeOK
  <1>2. worker[w].fresh = {}
    BY <1>1, NothingFresh DEF Sending
  <1>3. /\ j \in Call /\ j.fresh = {} /\ j.alert = worker[w].alert
        /\ j.done = {s \in Subs : <<worker[w].alert, s>> \in hooks}
    BY <1>1, <1>2 DEF Call
  <1> HIDE DEF j
  <1>4. /\ k.fresh = {} /\ k.alert = j.alert /\ k.pc # "mark"
        /\ k.pc \in Sending => k.done = j.done
    BY <1>3 DEF Call, AfterLoad, ReturnCall, IdleCall, Sending
  <1> HIDE DEF k
  <1>5. k \in Call
    BY <1>1 DEF CoreInv, TypeOK
  <1>6. FreshOK(k) /\ DoneOK(k, hooks)
    BY <1>3, <1>4, <1>5 DEF FreshOK, DoneOK, Call
  <1>7. UNCHANGED <<row, hooks, sent, lost>>
    BY DEF LoadWebhookSent, dbVars, histVars
  <1> QED BY <1>1, <1>2, <1>3, <1>4, <1>5, <1>6, <1>7, QuietCall

\* Steps of the loop that send nothing keep what is fresh.
LEMMA LoopControl ==
    ASSUME CoreInv, CoreInv', ResendInv, NEW w \in Workers,
           Panic(w) \/ AllTried(w) \/ \E s \in Subs : SkipOrFail(w, s)
    PROVE  ResendInv'
  <1>1. worker[w].pc = "send" /\ worker[w] \in Call
    BY DEF Panic, AllTried, SkipOrFail, CoreInv, TypeOK
  <1>2. PICK k : /\ worker' = [worker EXCEPT ![w] = k]
                 /\ \/ k = [worker[w] EXCEPT !.pc = "record", !.panicked = TRUE]
                    \/ k = [worker[w] EXCEPT !.pc = "record"]
                    \/ \E s \in Subs : k = [worker[w] EXCEPT !.todo = @ \ {s}]
    BY <1>1 DEF Panic, AllTried, SkipOrFail, Call
  <1>3. k \in Call
    BY <1>2 DEF CoreInv, TypeOK
  <1>4. /\ k.pc \in {"send", "record"} /\ k.alert = worker[w].alert
        /\ k.fresh = worker[w].fresh /\ k.todo \subseteq worker[w].todo
        /\ k.emailOK = worker[w].emailOK /\ k.tgOK = worker[w].tgOK
        /\ k.done = worker[w].done
    BY ZenonT(40), <1>1, <1>2 DEF Call
  <1>5. FreshOK(worker[w]) /\ DoneOK(worker[w], hooks)
    BY DEF ResendInv, CallsOK
  <1>6. FreshOK(k)
    BY <1>1, <1>4, <1>5 DEF FreshOK, Sending
  <1>7. DoneOK(k, hooks)
    BY <1>1, <1>4, <1>5 DEF DoneOK, Sending
  <1>8. UNCHANGED <<row, hooks, sent, lost>>
    BY DEF Panic, AllTried, SkipOrFail, dbVars, histVars
  <1> QED BY <1>2, <1>3, <1>4, <1>6, <1>7, <1>8, QuietCall

\* MarkHook keeps sends and records in balance.
LEMMA MarkHookResend ==
    ASSUME CoreInv, CoreInv', ResendInv, NEW w \in Workers, MarkHook(w)
    PROVE  ResendInv'
  <1> DEFINE c == worker[w].cur
             k == [worker[w] EXCEPT !.pc = "send", !.done = @ \cup c, !.cur = {},
                                    !.fresh = @ \ c]
  <1>1. worker[w].pc = "mark" /\ worker[w] \in Call /\ worker' = [worker EXCEPT ![w] = k]
    BY DEF MarkHook, CoreInv, TypeOK
  <1>2. k \in Call
    BY <1>1 DEF CoreInv, TypeOK
  <1>3. /\ k.pc = "send" /\ k.alert = worker[w].alert /\ k.fresh = worker[w].fresh \ c
        /\ k.todo = worker[w].todo /\ k.emailOK = worker[w].emailOK
        /\ k.tgOK = worker[w].tgOK /\ k.done = worker[w].done \cup c
    BY <1>1 DEF Call
  <1>4. FreshOK(worker[w]) /\ DoneOK(worker[w], hooks)
    BY DEF ResendInv, CallsOK
  <1>5. hooks' = hooks \cup {<<worker[w].alert, s>> : s \in c} /\ UNCHANGED <<row, sent, lost>>
    BY DEF MarkHook, histVars
  <1> HIDE DEF k
  <1>6. FreshOK(k)
    BY <1>1, <1>3, <1>4 DEF FreshOK, Sending
  <1>7. DoneOK(k, hooks')
    BY <1>1, <1>3, <1>4, <1>5 DEF DoneOK, Sending
  <1>8. ASSUME NEW v \in Workers \ {w} PROVE DoneOK(worker[v], hooks')
    <2>1. worker[v].pc \in Sending => worker[v].alert # worker[w].alert
      BY <1>1 DEF CoreInv, ClaimExclusive, Claimed, Sending
    <2>2. DoneOK(worker[v], hooks)
      BY DEF ResendInv, CallsOK
    <2> QED BY <1>5, <2>1, <2>2 DEF DoneOK
  <1>9. \A a \in Alerts, s \in Subs :
          /\ lost'[a][s] >= lost[a][s]
          /\ Known(a, s) => Known(a, s)'
    <2>1. \A a \in Alerts, s \in Subs : lost'[a][s] >= lost[a][s]
      BY <1>5, NatFamily DEF CoreInv, TypeOK
    <2>2. \A a \in Alerts, s \in Subs : Known(a, s) => Known(a, s)'
      BY <1>5 DEF Known
    <2> QED BY <2>1, <2>2
  <1>10. \A a \in Alerts, s \in Subs :
          a = worker[w].alert /\ s \in worker[w].fresh /\ s \notin k.fresh => Known(a, s)'
    BY <1>1, <1>3, <1>4, <1>5 DEF FreshOK, Known
  <1> QED BY <1>1, <1>2, <1>3, <1>5, <1>6, <1>7, <1>8, <1>9, <1>10, QuietStep

\* MarkHookAckLost keeps sends and records in balance.
LEMMA MarkHookAckLostResend ==
    ASSUME CoreInv, CoreInv', ResendInv, NEW w \in Workers, MarkHookAckLost(w)
    PROVE  ResendInv'
  <1> DEFINE c == worker[w].cur
             k == [worker[w] EXCEPT !.pc = "send", !.cur = {},
                                    !.fresh = @ \ c]
  <1>1. worker[w].pc = "mark" /\ worker[w] \in Call /\ worker' = [worker EXCEPT ![w] = k]
    BY DEF MarkHookAckLost, CoreInv, TypeOK
  <1>2. k \in Call
    BY <1>1 DEF CoreInv, TypeOK
  <1>3. /\ k.pc = "send" /\ k.alert = worker[w].alert /\ k.fresh = worker[w].fresh \ c
        /\ k.todo = worker[w].todo /\ k.emailOK = worker[w].emailOK
        /\ k.tgOK = worker[w].tgOK /\ k.done = worker[w].done
    BY <1>1 DEF Call
  <1>4. FreshOK(worker[w]) /\ DoneOK(worker[w], hooks)
    BY DEF ResendInv, CallsOK
  <1>5. hooks' = hooks \cup {<<worker[w].alert, s>> : s \in c} /\ UNCHANGED <<row, sent, lost>>
    BY DEF MarkHookAckLost
  <1> HIDE DEF k
  <1>6. FreshOK(k)
    BY <1>1, <1>3, <1>4 DEF FreshOK, Sending
  <1>7. DoneOK(k, hooks')
    BY <1>1, <1>3, <1>4, <1>5 DEF DoneOK, FreshOK, Sending
  <1>8. ASSUME NEW v \in Workers \ {w} PROVE DoneOK(worker[v], hooks')
    <2>1. worker[v].pc \in Sending => worker[v].alert # worker[w].alert
      BY <1>1 DEF CoreInv, ClaimExclusive, Claimed, Sending
    <2>2. DoneOK(worker[v], hooks)
      BY DEF ResendInv, CallsOK
    <2> QED BY <1>5, <2>1, <2>2 DEF DoneOK
  <1>9. \A a \in Alerts, s \in Subs :
          /\ lost'[a][s] >= lost[a][s]
          /\ Known(a, s) => Known(a, s)'
    <2>1. \A a \in Alerts, s \in Subs : lost'[a][s] >= lost[a][s]
      BY <1>5, NatFamily DEF CoreInv, TypeOK
    <2>2. \A a \in Alerts, s \in Subs : Known(a, s) => Known(a, s)'
      BY <1>5 DEF Known
    <2> QED BY <2>1, <2>2
  <1>10. \A a \in Alerts, s \in Subs :
          a = worker[w].alert /\ s \in worker[w].fresh /\ s \notin k.fresh => Known(a, s)'
    BY <1>1, <1>3, <1>4, <1>5 DEF FreshOK, Known
  <1> QED BY <1>1, <1>2, <1>3, <1>5, <1>6, <1>7, <1>8, <1>9, <1>10, QuietStep

\* MarkHookFails keeps sends and records in balance.
LEMMA MarkHookFailsResend ==
    ASSUME CoreInv, CoreInv', ResendInv, NEW w \in Workers, MarkHookFails(w)
    PROVE  ResendInv'
  <1> DEFINE c == worker[w].cur
             b == worker[w].alert
             k == [worker[w] EXCEPT !.pc = "send", !.cur = {}, !.fresh = @ \ c]
  <1>1. worker[w].pc = "mark" /\ worker[w] \in Call /\ worker' = [worker EXCEPT ![w] = k]
    BY DEF MarkHookFails, CoreInv, TypeOK
  <1>2. k \in Call
    BY <1>1 DEF CoreInv, TypeOK
  <1>3. /\ k.pc = "send" /\ k.alert = worker[w].alert /\ k.fresh = worker[w].fresh \ c
        /\ k.todo = worker[w].todo /\ k.emailOK = worker[w].emailOK
        /\ k.tgOK = worker[w].tgOK /\ k.done = worker[w].done
    BY <1>1 DEF Call
  <1>4. FreshOK(worker[w]) /\ \A v \in Workers : DoneOK(worker[v], hooks)
    BY DEF ResendInv, CallsOK
  <1>5. lost' = Lose(b, c) /\ UNCHANGED <<row, hooks, sent>>
    BY DEF MarkHookFails, dbVars
  <1>6. FreshOK(k)
    BY <1>1, <1>3, <1>4 DEF FreshOK, Sending
  <1>7. DoneOK(k, hooks')
    BY <1>1, <1>3, <1>4, <1>5 DEF DoneOK, Sending
  <1> HIDE DEF k, c, b
  <1>8. b \in Alerts
    BY <1>1, ClaimedCall DEF b
  <1>9. \A a \in Alerts, s \in Subs :
          lost'[a][s] = IF a = b /\ s \in c THEN lost[a][s] + 1 ELSE lost[a][s]
    BY <1>5, <1>8, LoseIs DEF CoreInv
  <1>10. \A a \in Alerts, s \in Subs : lost[a][s] \in Nat
    BY NatFamily DEF CoreInv, TypeOK
  <1>11. \A a \in Alerts, s \in Subs :
          /\ lost'[a][s] >= lost[a][s]
          /\ a = worker[w].alert /\ s \in worker[w].fresh /\ s \notin k.fresh
                => lost'[a][s] >= lost[a][s] + 1
    BY <1>3, <1>9, <1>10 DEF b
  <1>12. \A a \in Alerts, s \in Subs : Known(a, s) => Known(a, s)'
    BY <1>5 DEF Known
  <1> QED BY <1>1, <1>2, <1>3, <1>4, <1>5, <1>6, <1>7, <1>11, <1>12, QuietStep

\* The only step that sends: its subscription is neither known nor fresh.
LEMMA SendOKResend ==
    ASSUME CoreInv, CoreInv', ResendInv, NEW w \in Workers, NEW s \in Subs, SendOK(w, s)
    PROVE  ResendInv'
  <1> DEFINE b == worker[w].alert
             k == worker'[w]
  <1>1. /\ worker[w].pc = "send" /\ s \in worker[w].todo /\ ~Already(worker[w], s)
        /\ worker[w] \in Call /\ b \in Alerts /\ worker[w].pc \in Claimed
    BY ClaimedCall DEF SendOK, Claimed, Sending
  <1>2. /\ k \in Call
        /\ k.pc = IF ChannelOf[s] = "webhook" THEN "mark" ELSE "send"
        /\ k.cur = IF ChannelOf[s] = "webhook" THEN {s} ELSE {}
        /\ k.alert = b /\ k.fresh = worker[w].fresh \cup {s} /\ k.done = worker[w].done
        /\ k.todo = worker[w].todo \ {s}
    BY <1>1 DEF SendOK, Call, CoreInv, TypeOK
  <1>3. /\ worker[w].emailOK \/ ChannelOf[s] = "email" => k.emailOK
        /\ worker[w].tgOK \/ ChannelOf[s] = "telegram" => k.tgOK
    BY <1>1 DEF SendOK, Call, CoreInv, TypeOK
  <1>4. \A v \in Workers \ {w} : worker'[v] = worker[v]
    BY DEF SendOK, CoreInv, TypeOK
  <1>5. UNCHANGED <<row, hooks, lost>>
    BY DEF SendOK, dbVars
  <1>6. FreshOK(worker[w]) /\ DoneOK(worker[w], hooks)
    BY DEF ResendInv, CallsOK
  <1> HIDE DEF k
  <1>7. FreshOK(k) /\ DoneOK(k, hooks)
    <2>1. DoneOK(k, hooks)
      BY <1>1, <1>2, <1>6 DEF DoneOK, Sending
    <2>2. k.pc = "mark" => \A t \in k.cur : ChannelOf[t] = "webhook" /\ t \notin k.todo
      BY <1>2
    <2>3. ASSUME NEW t \in k.fresh
          PROVE  /\ k.pc \in Sending /\ t \notin k.todo
                 /\ ChannelOf[t] = "email" => k.emailOK
                 /\ ChannelOf[t] = "telegram" => k.tgOK
                 /\ ChannelOf[t] = "webhook" => k.pc = "mark" /\ t \in k.cur
      BY <1>1, <1>2, <1>3, <1>6 DEF FreshOK, Sending
    <2> QED BY <2>1, <2>2, <2>3 DEF FreshOK
  <1>8. CallsOK'
    BY <1>4, <1>5, <1>7 DEF ResendInv, CallsOK, k
  <1>9. ~Known(b, s) /\ ~Fresh(b, s)
    <2>1. ~Fresh(b, s)
      BY <1>1, <1>6, FreshIsMine DEF FreshOK, ResendInv
    <2>2. SameColumns(worker[w].snap, row[b])
      BY <1>1, ClaimedCall DEF SnapOK, HasSnap, Sending
    <2>3. ~Known(b, s)
      BY <1>1, <1>6, <2>2 DEF Known, Already, SameColumns, DoneOK, Sending
    <2> QED BY <2>1, <2>3
  <1>10. sent' = [sent EXCEPT ![b][s] = @ + 1] /\ row[b].status # "absent"
    BY <1>1, ClaimedCall DEF SendOK
  <1>11. ASSUME NEW a \in Alerts, NEW t \in Subs
         PROVE  /\ row'[a].status = "absent" => sent'[a][t] = 0
                /\ sent'[a][t] <= 1 + lost'[a][t]
                /\ ~Known(a, t)' /\ ~Fresh(a, t)' => sent'[a][t] <= lost'[a][t]
    <2>1. sent[a][t] \in Nat /\ lost[a][t] \in Nat /\ sent \in [Alerts -> [Subs -> Nat]]
      BY NatFamily DEF CoreInv, TypeOK
    <2>2. Known(a, t)' = Known(a, t) /\ (Fresh(a, t) => Fresh(a, t)')
      BY <1>2, <1>4, <1>5 DEF Known, Fresh, k
    <2>3. CASE a = b /\ t = s
      <3>1. sent'[a][t] = sent[a][t] + 1
        BY <1>10, <2>1, <2>3
      <3>2. Fresh(a, t)'
        BY <1>2, <2>3 DEF Fresh, k
      <3>3. sent[a][t] <= lost[a][t]
        BY <1>9, <2>3 DEF ResendInv, Counted
      <3> QED BY <1>5, <1>10, <2>1, <2>3, <3>1, <3>2, <3>3
    <2>4. CASE ~(a = b /\ t = s)
      <3>1. sent'[a][t] = sent[a][t]
        BY <1>10, <2>1, <2>4
      <3> QED BY <1>5, <2>2, <3>1 DEF ResendInv, Counted
    <2> QED BY <2>3, <2>4
  <1>12. Counted'
    BY <1>11 DEF Counted
  <1> QED BY <1>8, <1>12 DEF ResendInv

\* RecordFails keeps sends and records in balance.
LEMMA RecordFailsResend ==
    ASSUME CoreInv, CoreInv', ResendInv, NEW w \in Workers, RecordFails(w)
    PROVE  ResendInv'
  <1> DEFINE b == worker[w].alert
             f == worker[w].fresh
             k == ReturnCall(b)
  <1>1. worker[w].pc = "record" /\ b \in Alerts /\ worker' = [worker EXCEPT ![w] = k]
    BY ClaimedCall DEF RecordFails
  <1>2. k \in Call /\ k.pc = "return" /\ k.fresh = {}
    BY <1>1, CallTypes DEF ReturnCall, IdleCall
  <1>3. lost' = Lose(b, f) /\ UNCHANGED <<row, hooks, sent>>
    BY DEF RecordFails, dbVars
  <1>4. \A v \in Workers : DoneOK(worker[v], hooks')
    BY <1>3 DEF ResendInv, CallsOK
  <1>5. FreshOK(k) /\ DoneOK(k, hooks')
    BY <1>2, OutsideLoop DEF Sending
  <1> HIDE DEF b, f, k
  <1>6. \A a \in Alerts, s \in Subs :
          lost'[a][s] = IF a = b /\ s \in f THEN lost[a][s] + 1 ELSE lost[a][s]
    BY <1>1, <1>3, LoseIs DEF CoreInv
  <1>7. \A a \in Alerts, s \in Subs : lost[a][s] \in Nat
    BY NatFamily DEF CoreInv, TypeOK
  <1>8. \A a \in Alerts, s \in Subs :
          /\ lost'[a][s] >= lost[a][s]
          /\ a = b /\ s \in f => lost'[a][s] >= lost[a][s] + 1
    BY <1>6, <1>7
  <1>9. \A a \in Alerts, s \in Subs : Known(a, s) => Known(a, s)'
    BY <1>3 DEF Known
  <1> QED BY <1>1, <1>2, <1>3, <1>4, <1>5, <1>8, <1>9, QuietStep DEF b, f

\* The flags a recorded run leaves in the row.
LEMMA RecordedFlags ==
    ASSUME NEW r \in Row, NEW k
    PROVE  /\ r.email \/ k.emailOK => Recorded(r, k).email
           /\ r.telegram \/ k.tgOK => Recorded(r, k).telegram
           /\ Recorded(r, k).status = Verdict(k)
  BY DEF Recorded, Row

\* RecordOutcome keeps sends and records in balance.
LEMMA RecordOutcomeResend ==
    ASSUME CoreInv, CoreInv', ResendInv, NEW w \in Workers, RecordOutcome(w)
    PROVE  ResendInv'
  <1> DEFINE b == worker[w].alert
             f == worker[w].fresh
             k == ReturnCall(b)
             gone == row[b].status = "deleted"
             new == Recorded(row[b], worker[w])
  <1>1. /\ worker[w].pc = "record" /\ b \in Alerts /\ worker' = [worker EXCEPT ![w] = k]
        /\ row[b] \in Row /\ row \in [Alerts -> Row]
    BY ClaimedCall DEF RecordOutcome, CoreInv, TypeOK
  <1>2. k \in Call /\ k.pc = "return" /\ k.fresh = {}
    BY <1>1, CallTypes DEF ReturnCall, IdleCall
  <1>3. /\ lost' = IF gone THEN Lose(b, f) ELSE lost
        /\ row' = IF gone THEN row ELSE [row EXCEPT ![b] = new]
        /\ UNCHANGED <<hooks, sent>>
    BY DEF RecordOutcome
  <1>4. \A v \in Workers : DoneOK(worker[v], hooks')
    BY <1>3 DEF ResendInv, CallsOK
  <1>5. FreshOK(k) /\ DoneOK(k, hooks')
    BY <1>2, OutsideLoop DEF Sending
  <1>6. \A s \in f :
          /\ ChannelOf[s] = "email" => worker[w].emailOK
          /\ ChannelOf[s] = "telegram" => worker[w].tgOK
          /\ ChannelOf[s] # "webhook"
    BY <1>1 DEF ResendInv, CallsOK, FreshOK
  <1>7. /\ row[b].email \/ worker[w].emailOK => new.email
        /\ row[b].telegram \/ worker[w].tgOK => new.telegram
        /\ new.status # "absent"
    BY <1>1, RecordedFlags DEF Verdict
  <1> HIDE DEF b, f, k, new, gone
  <1>8. \A a \in Alerts : row'[a] = IF a = b /\ ~gone THEN new ELSE row[a]
    BY <1>1, <1>3
  <1>9. \A a \in Alerts, s \in Subs : Known(a, s) => Known(a, s)'
    BY <1>3, <1>7, <1>8 DEF Known
  <1>10. \A a \in Alerts, s \in Subs : ~gone /\ a = b /\ s \in f => Known(a, s)'
    <2> SUFFICES ASSUME NEW a \in Alerts, NEW s \in Subs, ~gone, a = b, s \in f
                 PROVE  Known(a, s)'
      OBVIOUS
    <2>1. row'[a] = new
      BY <1>8
    <2>2. CASE ChannelOf[s] = "email"
      <3>1. new.email
        BY <1>6, <1>7, <2>2
      <3> QED BY <2>1, <2>2, <3>1 DEF Known
    <2>3. CASE ChannelOf[s] = "telegram"
      <3>1. new.telegram
        BY <1>6, <1>7, <2>3
      <3> QED BY <2>1, <2>3, <3>1 DEF Known
    <2> QED BY <1>6, <2>2, <2>3
  <1>11. \A a \in Alerts, s \in Subs :
          lost'[a][s] = IF gone /\ a = b /\ s \in f THEN lost[a][s] + 1 ELSE lost[a][s]
    BY <1>1, <1>3, LoseIs DEF CoreInv
  <1>12. \A a \in Alerts, s \in Subs : lost[a][s] \in Nat
    BY NatFamily DEF CoreInv, TypeOK
  <1>13. \A a \in Alerts, s \in Subs :
          /\ lost'[a][s] >= lost[a][s]
          /\ gone /\ a = b /\ s \in f => lost'[a][s] >= lost[a][s] + 1
    BY <1>11, <1>12
  <1>14. \A a \in Alerts, s \in Subs :
          a = worker[w].alert /\ s \in worker[w].fresh
             => Known(a, s)' \/ lost'[a][s] >= lost[a][s] + 1
    BY <1>10, <1>13 DEF b, f
  <1>15. \A a \in Alerts : row'[a].status = "absent" => row[a].status = "absent"
    BY <1>7, <1>8
  <1> QED BY <1>1, <1>2, <1>3, <1>4, <1>5, <1>9, <1>13, <1>14, <1>15, QuietStep

\* Steps outside Dispatch: rows, subscriptions, the clock and the sweep.
LEMMA EnvironmentResend ==
    ASSUME CoreInv, CoreInv', ResendInv, UNCHANGED <<worker, sent>>,
           \A v \in Workers : DoneOK(worker[v], hooks) => DoneOK(worker[v], hooks'),
           \A a \in Alerts : row'[a].status = "absent" => row[a].status = "absent",
           \A a \in Alerts, s \in Subs :
              /\ lost'[a][s] >= lost[a][s]
              /\ Known(a, s) /\ row[a].status # "absent"
                    => Known(a, s)' \/ lost'[a][s] >= lost[a][s] + 1
    PROVE  ResendInv'
  <1> DEFINE k == worker[Sweeper]
  <1>1. k \in Call /\ worker' = [worker EXCEPT ![Sweeper] = k] /\ Sweeper \in Workers
    BY WorkerIds DEF CoreInv, TypeOK
  <1>2. FreshOK(k) /\ DoneOK(k, hooks') /\ \A v \in Workers : DoneOK(worker[v], hooks')
    BY <1>1 DEF ResendInv, CallsOK
  <1>3. \A a \in Alerts, s \in Subs :
          /\ lost'[a][s] >= lost[a][s]
          /\ \/ Known(a, s) /\ row[a].status # "absent"
             \/ a = worker[Sweeper].alert /\ s \in worker[Sweeper].fresh /\ s \notin k.fresh
             => Known(a, s)' \/ lost'[a][s] >= lost[a][s] + 1
    OBVIOUS
  <1>4. k.alert = worker[Sweeper].alert
    OBVIOUS
  <1> HIDE DEF k
  <1> QED BY <1>1, <1>2, <1>3, <1>4, QuietStep

\* A new row has had no send.
LEMMA InsertResend ==
    ASSUME CoreInv, CoreInv', ResendInv, NEW a \in Alerts,
           InsertAndDispatch(a) \/ InsertOnly(a)
    PROVE  ResendInv'
  <1>1. /\ row[a].status = "absent" /\ row' = [row EXCEPT ![a] = FreshRow]
        /\ UNCHANGED <<hooks, sent, lost>>
    BY DEF InsertAndDispatch, InsertOnly, histVars
  <1>2. \A b \in Alerts : row[b].status # "absent" => row'[b] = row[b]
    BY <1>1 DEF CoreInv, TypeOK
  <1>3. \A b \in Alerts : row'[b].status = "absent" => row[b].status = "absent"
    BY <1>1, <1>2
  <1>4. \A b \in Alerts, s \in Subs :
          /\ lost'[b][s] >= lost[b][s]
          /\ Known(b, s) /\ row[b].status # "absent" => Known(b, s)'
    BY <1>1, <1>2, NatFamily DEF Known, CoreInv, TypeOK
  <1>5. \A v \in Workers : DoneOK(worker[v], hooks')
    BY <1>1 DEF ResendInv, CallsOK
  <1>6. CASE InsertOnly(a)
    <2>1. UNCHANGED worker
      BY <1>6 DEF InsertOnly, procVars
    <2> QED BY <1>1, <1>3, <1>4, <1>5, <2>1, EnvironmentResend
  <1>7. CASE InsertAndDispatch(a)
    <2> DEFINE k == StartCall(a)
    <2>1. k \in Call /\ k.pc = "claim" /\ k.fresh = {}
      BY CallTypes DEF StartCall, IdleCall
    <2>2. FreshOK(k) /\ DoneOK(k, hooks')
      BY <2>1, OutsideLoop DEF Sending
    <2>3. a \in Workers /\ worker' = [worker EXCEPT ![a] = k]
      BY <1>7, WorkerIds DEF InsertAndDispatch
    <2>4. worker[a].pc = "idle"
      BY <1>1, <2>3, ClaimedCall DEF CoreInv, Working
    <2>5. worker[a].fresh = {}
      BY <2>3, <2>4, NothingFresh DEF Sending
    <2> HIDE DEF k
    <2> QED BY <1>1, <1>3, <1>4, <1>5, <2>1, <2>2, <2>3, <2>5, QuietStep
  <1> QED BY <1>6, <1>7

\* Deleting a device or a subscription forgets webhook records and counts them.
LEMMA CascadeResend ==
    ASSUME CoreInv, CoreInv', ResendInv, UNCHANGED <<worker, sent>>, NEW gone, Cascade(gone),
           \A a \in Alerts : row[a].status # "absent" =>
              row'[a].status # "absent" /\ SameColumns(row[a], row'[a])
    PROVE  ResendInv'
  <1>1. /\ hooks' = hooks \ gone
        /\ \A a \in Alerts, s \in Subs :
             lost'[a][s] = lost[a][s] + IF <<a, s>> \in hooks \cap gone THEN 1 ELSE 0
    BY DEF Cascade
  <1>2. \A a \in Alerts, s \in Subs : lost[a][s] \in Nat
    BY NatFamily DEF CoreInv, TypeOK
  <1>3. \A v \in Workers : DoneOK(worker[v], hooks) => DoneOK(worker[v], hooks')
    BY <1>1 DEF DoneOK
  <1>4. ASSUME NEW a \in Alerts, NEW s \in Subs
        PROVE  /\ lost'[a][s] >= lost[a][s]
               /\ Known(a, s) /\ row[a].status # "absent"
                     => Known(a, s)' \/ lost'[a][s] >= lost[a][s] + 1
    <2>1. CASE <<a, s>> \in hooks \cap gone
      <3>1. lost'[a][s] = lost[a][s] + 1
        BY <1>1, <2>1
      <3> QED BY <1>2, <3>1
    <2>2. CASE <<a, s>> \notin hooks \cap gone
      <3>1. lost'[a][s] = lost[a][s]
        <4>1. lost'[a][s] = lost[a][s] + 0
          BY <1>1, <2>2
        <4> QED BY <1>2, <4>1
      <3>2. Known(a, s) /\ row[a].status # "absent" => Known(a, s)'
        BY <1>1, <2>2 DEF Known, SameColumns
      <3> QED BY <1>2, <3>1, <3>2
    <2> QED BY <2>1, <2>2
  <1> QED BY <1>3, <1>4, EnvironmentResend

\* What a deletion takes from the records is counted as lost.
LEMMA DeletionResend ==
    ASSUME CoreInv, CoreInv', ResendInv,
           \/ \E s \in Subs : DeleteSubscription(s)
           \/ \E d \in Devices : DeleteDevice(d)
    PROVE  ResendInv'
  <1>1. ASSUME NEW s \in Subs, DeleteSubscription(s) PROVE ResendInv'
    <2>1. Cascade(Alerts \X {s}) /\ UNCHANGED <<worker, sent, row>>
      BY <1>1 DEF DeleteSubscription, procVars
    <2> QED BY <2>1, CascadeResend DEF SameColumns
  <1>2. ASSUME NEW d \in Devices, DeleteDevice(d) PROVE ResendInv'
    <2> DEFINE del(a) == [row[a] EXCEPT !.status = "deleted"]
    <2>1. /\ Cascade((AlertsOf(d) \X Subs) \cup (Alerts \X ScopedTo[d]))
          /\ UNCHANGED <<worker, sent>>
      BY <1>2 DEF DeleteDevice, procVars
    <2>2. \A a \in Alerts : row'[a] = IF a \in AlertsOf(d) THEN del(a) ELSE row[a]
      BY <1>2 DEF DeleteDevice
    <2>3. \A a \in Alerts : del(a).status = "deleted" /\ SameColumns(row[a], del(a))
      BY DEF CoreInv, TypeOK, Row, SameColumns
    <2> HIDE DEF del
    <2>4. \A a \in Alerts : row[a].status # "absent" =>
              row'[a].status # "absent" /\ SameColumns(row[a], row'[a])
      BY <2>2, <2>3 DEF SameColumns
    <2> QED BY <2>1, <2>4, CascadeResend
  <1> QED BY <1>1, <1>2

\* Steps of the clock, the sweep and the users send nothing.
LEMMA OtherResend ==
    ASSUME CoreInv, CoreInv', ResendInv,
           \/ \E a \in Alerts : BackoffElapses(a)
           \/ \E s \in Subs : CreateSubscription(s)
           \/ SweepScan \/ Restart \/ UNCHANGED vars
    PROVE  ResendInv'
  <1>1. UNCHANGED <<hooks, worker, sent, lost>>
    BY DEF BackoffElapses, CreateSubscription, SweepScan, Restart, vars, dbVars, procVars, histVars
  <1>2. \A a \in Alerts : row'[a].status = row[a].status /\ SameColumns(row[a], row'[a])
    <2>1. ASSUME NEW b \in Alerts, BackoffElapses(b)
          PROVE  \A a \in Alerts : row'[a].status = row[a].status /\ SameColumns(row[a], row'[a])
      <3> DEFINE r == [row[b] EXCEPT !.due = TRUE]
      <3>1. r.status = row[b].status /\ SameColumns(row[b], r)
        BY DEF CoreInv, TypeOK, Row, SameColumns
      <3>2. row' = [row EXCEPT ![b] = r] /\ row \in [Alerts -> Row]
        BY <2>1 DEF BackoffElapses, CoreInv, TypeOK
      <3> HIDE DEF r
      <3> QED BY <3>1, <3>2 DEF SameColumns
    <2>2. CASE UNCHANGED row
      BY <2>2 DEF SameColumns
    <2> QED BY <2>1, <2>2 DEF CreateSubscription, SweepScan, Restart, vars, dbVars
  <1>3. \A a \in Alerts, s \in Subs :
          lost'[a][s] >= lost[a][s] /\ (Known(a, s) => Known(a, s)')
    BY <1>1, <1>2, NatFamily DEF Known, SameColumns, CoreInv, TypeOK
  <1> QED BY <1>1, <1>2, <1>3, EnvironmentResend

\* SweepNext keeps sends and records in balance.
LEMMA SweepNextResend ==
    ASSUME CoreInv, CoreInv', ResendInv, SweepNext
    PROVE  ResendInv'
  <1>1. PICK a \in batch : worker' = [worker EXCEPT ![Sweeper] = StartCall(a)]
    BY DEF SweepNext
  <1> DEFINE k == StartCall(a)
  <1>2. worker[Sweeper].fresh = {} /\ Sweeper \in Workers
    BY WorkerIds, NothingFresh DEF SweepNext, Sending
  <1>3. k \in Call /\ k.pc = "claim" /\ k.fresh = {}
    BY <1>1, CallTypes DEF StartCall, IdleCall, CoreInv, TypeOK
  <1>4. FreshOK(k) /\ DoneOK(k, hooks)
    BY <1>3, OutsideLoop DEF Sending
  <1>5. UNCHANGED <<row, hooks, sent, lost>>
    BY DEF SweepNext, dbVars, histVars
  <1> HIDE DEF k
  <1> QED BY <1>1, <1>2, <1>3, <1>4, <1>5, QuietCall DEF k

\* What a crash takes from the calls is counted as lost.
LEMMA CrashResend ==
    ASSUME CoreInv, CoreInv', ResendInv, Crash
    PROVE  ResendInv'
  <1>1. \A w \in Workers : worker'[w] = IdleCall
    BY DEF Crash
  <1>2. IdleCall.pc = "idle" /\ IdleCall.fresh = {}
    BY DEF IdleCall
  <1>3. CallsOK'
    BY <1>1, <1>2 DEF CallsOK, FreshOK, DoneOK, Sending
  <1>4. UNCHANGED <<row, hooks, sent>>
    BY DEF Crash, dbVars
  <1>5. \A a \in Alerts, s \in Subs :
          lost'[a][s] = lost[a][s] + IF Fresh(a, s) THEN 1 ELSE 0
    <2>1. \A a \in Alerts, s \in Subs : s \in Unrecorded(a) <=> Fresh(a, s)
      BY DEF Unrecorded, Fresh
    <2> QED BY <2>1 DEF Crash
  <1>6. ASSUME NEW a \in Alerts, NEW s \in Subs
        PROVE  /\ row'[a].status = "absent" => sent'[a][s] = 0
               /\ sent'[a][s] <= 1 + lost'[a][s]
               /\ ~Known(a, s)' => sent'[a][s] <= lost'[a][s]
    <2>1. sent[a][s] \in Nat /\ lost[a][s] \in Nat
      BY NatFamily DEF CoreInv, TypeOK
    <2>2. Known(a, s)' <=> Known(a, s)
      BY <1>4 DEF Known
    <2>3. CASE Fresh(a, s)
      <3>1. lost'[a][s] = lost[a][s] + 1
        BY <1>5, <2>3
      <3> QED BY <1>4, <2>1, <3>1 DEF ResendInv, Counted
    <2>4. CASE ~Fresh(a, s)
      <3>1. lost'[a][s] = lost[a][s]
        <4>1. lost'[a][s] = lost[a][s] + 0
          BY <1>5, <2>4
        <4> QED BY <2>1, <4>1
      <3> QED BY <1>4, <2>1, <2>2, <2>4, <3>1 DEF ResendInv, Counted
    <2> QED BY <2>3, <2>4
  <1>7. Counted'
    BY <1>6 DEF Counted
  <1> QED BY <1>3, <1>7 DEF ResendInv

\* Every step keeps the count.
LEMMA ResendStep == CoreInv /\ CoreInv' /\ ResendInv /\ [Next]_vars => ResendInv'
  <1> SUFFICES ASSUME CoreInv, CoreInv', ResendInv, [Next]_vars PROVE ResendInv'
    OBVIOUS
  <1>1. ASSUME NEW w \in Workers, Dispatch(w) PROVE ResendInv'
    BY <1>1, ClaimOrReturn, LoadWebhookSentResend, LoopControl, SendOKResend,
       MarkHookResend, MarkHookFailsResend, MarkHookAckLostResend, RecordOutcomeResend, RecordFailsResend
       DEF Dispatch
  <1>2. ASSUME NEW a \in Alerts,
               InsertAndDispatch(a) \/ InsertOnly(a) \/ BackoffElapses(a)
        PROVE  ResendInv'
    BY <1>2, InsertResend, OtherResend
  <1>3. ASSUME NEW s \in Subs, CreateSubscription(s) \/ DeleteSubscription(s)
        PROVE  ResendInv'
    BY <1>3, DeletionResend, OtherResend
  <1>4. ASSUME NEW d \in Devices, DeleteDevice(d) PROVE ResendInv'
    BY <1>4, DeletionResend
  <1>5. CASE Sweep \/ Crash \/ Restart \/ UNCHANGED vars
    BY <1>5, OtherResend, SweepNextResend, CrashResend DEF Sweep
  <1> QED BY <1>1, <1>2, <1>3, <1>4, <1>5 DEF Next

\* A subscription hears of an alert once, plus at most once for each record of
\* an earlier send that failed to be written, died with the process, or was
\* deleted: for any workers, retries, faults and crashes.
THEOREM NoResendHolds == Spec => []NoResend
  <1>1. ResendInv => NoResend
    BY DEF ResendInv, Counted, NoResend
  <1> QED BY CoreInit, CoreStep, ResendInit, ResendStep, <1>1, PTL DEF Spec

-----------------------------------------------------------------------------
(* The other way round: a row is closed as delivered only when the           *)
(* subscriptions that were there all along were reached.                    *)

\* Somebody on the channel c was sent a.
Reached(a, c) == \E t \in MatchOf[a] : ChannelOf[t] = c /\ sent[a][t] > 0

\* The subscriptions to a that have been there all along.
Standing(a) == {s \in MatchOf[a] \cap LiveAtStart : subs[s] = "live"}

Counting == {"hooks"} \cup Sending

\* A call counts among its recipients every standing subscription, and takes
\* for sent only what was.
CallReach(k) ==
    k.pc # "idle" =>
        /\ k.todo \subseteq k.recips /\ k.recips \subseteq MatchOf[k.alert]
        /\ k.pc \in Counting /\ row[k.alert].status # "deleted" =>
              Standing(k.alert) \subseteq k.recips
        /\ \A s \in k.done : sent[k.alert][s] > 0
        /\ k.pc = "mark" => \A s \in k.cur : sent[k.alert][s] > 0
        /\ k.emailOK => Reached(k.alert, "email")
        /\ k.tgOK => Reached(k.alert, "telegram")

\* The flags of a row, and its closing, mean what they say.
RowReach(a) ==
    /\ row[a].email => Reached(a, "email")
    /\ row[a].telegram => Reached(a, "telegram")
    /\ row[a].webhook =>
          \A s \in Standing(a) : ChannelOf[s] = "webhook" => sent[a][s] > 0
    /\ row[a].status = "delivered" =>
          \A s \in Standing(a) : IF ChannelOf[s] = "webhook" THEN sent[a][s] > 0
                                 ELSE Reached(a, ChannelOf[s])

ReachInv ==
    /\ \A s \in LiveAtStart : subs[s] # "unborn"
    /\ \A a \in Alerts, s \in Subs : <<a, s>> \in hooks => sent[a][s] > 0
    /\ \A w \in Workers : CallReach(worker[w])
    /\ \A a \in Alerts : RowReach(a)

\* At first nothing is sent and no row has a flag.
LEMMA ReachInit == Init => ReachInv
  <1> SUFFICES ASSUME Init PROVE ReachInv
    OBVIOUS
  <1>1. \A s \in LiveAtStart : subs[s] # "unborn"
    BY DEF Init
  <1>2. \A w \in Workers : CallReach(worker[w])
    BY DEF Init, CallReach, IdleCall
  <1>3. \A a \in Alerts : RowReach(a)
    BY DEF Init, RowReach, AbsentRow
  <1> QED BY <1>1, <1>2, <1>3 DEF Init, ReachInv

\* What is never taken back: sends, the deletion of a row, and that a standing
\* subscription has been there all along.
Grows ==
    /\ \A a \in Alerts, s \in Subs : sent[a][s] > 0 => sent'[a][s] > 0
    /\ \A a \in Alerts : row[a].status = "deleted" => row'[a].status = "deleted"
    /\ \A s \in LiveAtStart : subs'[s] # "unborn" /\ (subs'[s] = "live" => subs[s] = "live")

\* Every step takes nothing back.
LEMMA StepGrows ==
    ASSUME CoreInv, ReachInv, [Next]_vars
    PROVE  Grows
  <1>1. /\ row \in [Alerts -> Row] /\ sent \in [Alerts -> [Subs -> Nat]]
        /\ subs \in [Subs -> {"unborn", "live", "deleted"}]
    BY DEF CoreInv, TypeOK
  <1>2. ASSUME NEW a \in Alerts, row[a].status = "deleted" PROVE row'[a].status = "deleted"
    <2>1. ASSUME NEW b \in Alerts, RowStored(b) \/ RowDue(b) PROVE row'[a] = row[a]
      BY <1>1, <1>2, <2>1 DEF RowStored, RowDue
    <2>2. ASSUME NEW S \in SUBSET Alerts, RowsDeleted(S) PROVE row'[a].status = "deleted"
      <3>1. row'[a] \in {row[a], [row[a] EXCEPT !.status = "deleted"]}
        BY <2>2 DEF RowsDeleted
      <3> QED BY <1>1, <1>2, <3>1 DEF Row
    <2>3. ASSUME NEW w \in Workers, RowRecorded(w) PROVE row'[a] = row[a]
      BY <1>1, <1>2, <2>3 DEF RowRecorded
    <2> QED BY <1>2, <2>1, <2>2, <2>3, RowEffect
  <1>3. ASSUME NEW a \in Alerts, NEW s \in Subs, sent[a][s] > 0 PROVE sent'[a][s] > 0
    <2>1. ASSUME NEW w \in Workers, NEW t \in Subs, SendOK(w, t) PROVE sent'[a][s] > 0
      <3>1. sent' = [sent EXCEPT ![worker[w].alert][t] = @ + 1]
        BY <2>1 DEF SendOK
      <3>2. sent'[a][s] \in {sent[a][s], sent[a][s] + 1} /\ sent[a][s] \in Nat
        BY <1>1, <3>1
      <3> QED BY <1>3, <3>2
    <2>2. ASSUME NEW w \in Workers, Dispatch(w) PROVE sent'[a][s] > 0
      BY <1>3, <2>1, <2>2 DEF Dispatch, Claim, ClaimBusy, LoadAlert, LoadRecipients,
         LoadWebhookSent, LoadFails, SkipOrFail, MarkHook, MarkHookFails, MarkHookAckLost,
         Panic, AllTried, RecordOutcome, RecordFails, Release, histVars
    <2> QED
      BY <1>3, <2>2 DEF Next, Sweep, InsertAndDispatch, InsertOnly, BackoffElapses,
         CreateSubscription, DeleteSubscription, DeleteDevice, SweepScan, SweepNext,
         Crash, Restart, vars, histVars
  <1>4. ASSUME NEW s \in LiveAtStart
        PROVE  subs'[s] # "unborn" /\ (subs'[s] = "live" => subs[s] = "live")
    <2>1. s \in Subs /\ subs[s] # "unborn"
      BY DEF ReachInv
    <2>2. ASSUME NEW t \in Subs, CreateSubscription(t) \/ DeleteSubscription(t)
          PROVE  subs'[s] # "unborn" /\ (subs'[s] = "live" => subs[s] = "live")
      BY <1>1, <2>1, <2>2 DEF CreateSubscription, DeleteSubscription
    <2>3. ASSUME NEW d \in Devices, DeleteDevice(d)
          PROVE  subs'[s] # "unborn" /\ (subs'[s] = "live" => subs[s] = "live")
      BY <1>1, <2>1, <2>3 DEF DeleteDevice
    <2>4. ASSUME NEW w \in Workers, Dispatch(w) PROVE UNCHANGED subs
      BY <2>4 DEF Dispatch, Claim, ClaimBusy, LoadAlert, LoadRecipients,
         LoadWebhookSent, LoadFails, SkipOrFail, SendOK, MarkHook, MarkHookFails,
         MarkHookAckLost, Panic, AllTried, RecordOutcome, RecordFails, Release, dbVars
    <2> QED
      BY <2>1, <2>2, <2>3, <2>4 DEF Next, Sweep, InsertAndDispatch, InsertOnly,
         BackoffElapses, SweepScan, SweepNext, Crash, Restart, vars, dbVars
  <1> QED BY <1>2, <1>3, <1>4 DEF Grows

\* Who was reached stays reached.
LEMMA ReachedStays ==
    ASSUME Grows, NEW a \in Alerts, NEW c, Reached(a, c)
    PROVE  Reached(a, c)'
  BY DEF Grows, Reached

\* What is standing after a step was standing before it.
LEMMA StandingShrinks ==
    ASSUME Grows, NEW a \in Alerts
    PROVE  Standing(a)' \subseteq Standing(a) /\ Standing(a) \subseteq Subs
  BY DEF Grows, Standing

\* A call that is in order stays in order.
LEMMA CallStays ==
    ASSUME Grows, NEW k \in Call, CallReach(k), k.pc # "idle" => k.alert \in Alerts
    PROVE  CallReach(k)'
  <1> SUFFICES ASSUME k.pc # "idle" PROVE CallReach(k)'
    BY DEF CallReach
  <1>1. k.alert \in Alerts /\ k.done \subseteq Subs /\ k.cur \subseteq Subs
    BY DEF Call
  <1>2. (k.emailOK => Reached(k.alert, "email")') /\ (k.tgOK => Reached(k.alert, "telegram")')
    BY <1>1, ReachedStays DEF CallReach
  <1>3. k.pc \in Counting /\ row'[k.alert].status # "deleted" => Standing(k.alert)' \subseteq k.recips
    BY <1>1, StandingShrinks DEF CallReach, Grows
  <1>4. /\ \A s \in k.done : sent'[k.alert][s] > 0
        /\ k.pc = "mark" => \A s \in k.cur : sent'[k.alert][s] > 0
    BY <1>1 DEF CallReach, Grows
  <1> QED BY <1>2, <1>3, <1>4 DEF CallReach

\* A row whose flags and closing are not new stays in order.
LEMMA RowStays ==
    ASSUME Grows, NEW a \in Alerts, RowReach(a),
           /\ row'[a].email => row[a].email
           /\ row'[a].telegram => row[a].telegram
           /\ row'[a].webhook => row[a].webhook
           /\ row'[a].status = "delivered" => row[a].status = "delivered"
    PROVE  RowReach(a)'
  <1>1. \A c : Reached(a, c) => Reached(a, c)'
    BY ReachedStays
  <1>2. \A s \in Standing(a)' : s \in Standing(a) /\ (sent[a][s] > 0 => sent'[a][s] > 0)
    BY StandingShrinks DEF Grows
  <1> QED BY <1>1, <1>2 DEF RowReach

\* What recordOutcome leaves in the columns of a row.
LEMMA RecordedColumns ==
    ASSUME NEW r \in Row, NEW k
    PROVE  /\ Recorded(r, k).email <=> r.email \/ k.emailOK
           /\ Recorded(r, k).telegram <=> r.telegram \/ k.tgOK
           /\ Recorded(r, k).webhook <=> r.webhook \/ HookOK(k)
           /\ Recorded(r, k).status = Verdict(k)
  BY DEF Recorded, Row

\* A verdict of "delivered" counts every channel of the recipients.
LEMMA DeliveredIs ==
    ASSUME NEW k, Verdict(k) = "delivered"
    PROVE  EverythingDone(k)
  BY DEF Verdict

\* recordOutcome sets a flag, and closes a row, only for who was reached.
LEMMA RecordReaches ==
    ASSUME CoreInv, ReachInv, Grows, NEW w \in Workers, RowRecorded(w)
    PROVE  \A a \in Alerts : RowReach(a)'
  <1> PICK k : k = worker[w]
    OBVIOUS
  <1> PICK b : b = k.alert
    OBVIOUS
  <1>1. /\ k \in Call /\ b \in Alerts /\ row \in [Alerts -> Row] /\ row[b].status # "deleted"
        /\ k.pc = "record" /\ SnapOK(row[b], k)
    BY ClaimedCall DEF RowRecorded, CoreInv, TypeOK
  <1>2. CallReach(k) /\ RowReach(b)
    BY <1>1 DEF ReachInv
  <1>3. /\ k.snap.email = row[b].email /\ k.snap.telegram = row[b].telegram
        /\ k.snap.webhook = row[b].webhook
    BY <1>1 DEF SnapOK, HasSnap, Sending, SameColumns
  <1>4. Standing(b) \subseteq k.recips
    BY <1>1, <1>2 DEF CallReach, Counting, Sending
  <1>5. row' = [row EXCEPT ![b] = Recorded(row[b], k)]
    BY DEF RowRecorded
  <1>6. /\ Recorded(row[b], k).email <=> row[b].email \/ k.emailOK
        /\ Recorded(row[b], k).telegram <=> row[b].telegram \/ k.tgOK
        /\ Recorded(row[b], k).webhook <=> row[b].webhook \/ HookOK(k)
        /\ Recorded(row[b], k).status = Verdict(k)
    BY <1>1, RecordedColumns, ZenonT(40)
  <1>7. \A s \in Standing(b) : ChannelOf[s] \in Channels
    BY StandingShrinks, <1>1
  <1>8. (row[b].email \/ k.emailOK => Reached(b, "email"))
        /\ (row[b].telegram \/ k.tgOK => Reached(b, "telegram"))
    BY <1>1, <1>2 DEF CallReach, RowReach
  <1>9. row[b].webhook \/ HookOK(k) =>
          \A s \in Standing(b) : ChannelOf[s] = "webhook" => sent[b][s] > 0
    <2>1. ASSUME HookOK(k), ~row[b].webhook, NEW s \in Standing(b), ChannelOf[s] = "webhook"
          PROVE  sent[b][s] > 0
      <3>1. s \in k.done
        BY <1>3, <1>4, <2>1 DEF HookOK, On
      <3> QED BY <1>1, <1>2, <3>1 DEF CallReach
    <2> QED BY <1>2, <2>1 DEF RowReach
  <1>10. ASSUME EverythingDone(k), NEW s \in Standing(b)
         PROVE  IF ChannelOf[s] = "webhook" THEN sent[b][s] > 0 ELSE Reached(b, ChannelOf[s])
    <2>1. s \in On(k, ChannelOf[s])
      BY <1>4 DEF On
    <2>2. CASE ChannelOf[s] = "email"
      BY <1>3, <1>8, <1>10, <2>1, <2>2 DEF EverythingDone
    <2>3. CASE ChannelOf[s] = "telegram"
      BY <1>3, <1>8, <1>10, <2>1, <2>3 DEF EverythingDone
    <2>4. CASE ChannelOf[s] = "webhook"
      BY <1>9, <1>10, <2>1, <2>4 DEF EverythingDone
    <2> QED BY <1>7, <2>2, <2>3, <2>4
  <1>11. RowReach(b)'
    <2>1. /\ row'[b].email <=> row[b].email \/ k.emailOK
          /\ row'[b].telegram <=> row[b].telegram \/ k.tgOK
          /\ row'[b].webhook <=> row[b].webhook \/ HookOK(k)
          /\ row'[b].status = "delivered" => EverythingDone(k)
      BY <1>1, <1>5, <1>6, DeliveredIs
    <2>2. \A c : Reached(b, c) => Reached(b, c)'
      BY <1>1, ReachedStays
    <2>3. \A s \in Standing(b)' : s \in Standing(b) /\ (sent[b][s] > 0 => sent'[b][s] > 0)
      BY <1>1, StandingShrinks DEF Grows
    <2>4. (row'[b].email => Reached(b, "email")') /\ (row'[b].telegram => Reached(b, "telegram")')
      BY <1>8, <2>1, <2>2
    <2>5. row'[b].webhook =>
            \A s \in Standing(b)' : ChannelOf[s] = "webhook" => sent'[b][s] > 0
      BY <1>9, <2>1, <2>3
    <2>6. row'[b].status = "delivered" =>
            \A s \in Standing(b)' : IF ChannelOf[s] = "webhook" THEN sent'[b][s] > 0
                                    ELSE Reached(b, ChannelOf[s])'
      BY <1>10, <2>1, <2>2, <2>3
    <2> QED BY <2>4, <2>5, <2>6 DEF RowReach
  <1>12. ASSUME NEW a \in Alerts, a # b PROVE RowReach(a)'
    <2>1. row'[a] = row[a]
      BY <1>1, <1>5, <1>12
    <2> QED BY <2>1, RowStays DEF ReachInv
  <1> QED BY <1>1, <1>11, <1>12

\* Every step keeps the flags true.
LEMMA RowsReach ==
    ASSUME CoreInv, ReachInv, Grows, [Next]_vars
    PROVE  \A a \in Alerts : RowReach(a)'
  <1>1. row \in [Alerts -> Row]
    BY DEF CoreInv, TypeOK
  <1>2. ASSUME NEW a \in Alerts, row'[a] = row[a] PROVE RowReach(a)'
    BY <1>2, RowStays DEF ReachInv
  <1>3. ASSUME NEW b \in Alerts, RowStored(b), NEW a \in Alerts PROVE RowReach(a)'
    <2>1. row'[a] = row[a] \/ row'[a] = FreshRow
      BY <1>1, <1>3 DEF RowStored
    <2>2. /\ ~FreshRow.email /\ ~FreshRow.telegram /\ ~FreshRow.webhook
          /\ FreshRow.status = "pending"
      BY DEF FreshRow, AbsentRow
    <2>3. CASE row'[a] = FreshRow
      BY <2>2, <2>3, RowStays DEF ReachInv
    <2> QED BY <1>2, <2>1, <2>3
  <1>4. ASSUME NEW b \in Alerts, RowDue(b), NEW a \in Alerts PROVE RowReach(a)'
    <2> DEFINE r == [row[b] EXCEPT !.due = TRUE]
    <2>1. /\ r.email = row[b].email /\ r.telegram = row[b].telegram
          /\ r.webhook = row[b].webhook /\ r.status = row[b].status
      BY <1>1 DEF Row
    <2>2. row'[a] = row[a] \/ (a = b /\ row'[a] = r)
      BY <1>1, <1>4 DEF RowDue
    <2> HIDE DEF r
    <2> QED BY <1>2, <2>1, <2>2, RowStays DEF ReachInv
  <1>5. ASSUME NEW S \in SUBSET Alerts, RowsDeleted(S), NEW a \in Alerts PROVE RowReach(a)'
    <2> DEFINE r == [row[a] EXCEPT !.status = "deleted"]
    <2>1. /\ r.email = row[a].email /\ r.telegram = row[a].telegram
          /\ r.webhook = row[a].webhook /\ r.status = "deleted"
      BY <1>1 DEF Row
    <2>2. row'[a] = row[a] \/ row'[a] = r
      BY <1>5 DEF RowsDeleted
    <2> HIDE DEF r
    <2> QED BY <1>2, <2>1, <2>2, RowStays DEF ReachInv
  <1>6. ASSUME NEW w \in Workers, RowRecorded(w) PROVE \A a \in Alerts : RowReach(a)'
    BY <1>6, RecordReaches
  <1> QED BY <1>2, <1>3, <1>4, <1>5, <1>6, RowEffect

\* Only a webhook that was sent is marked as sent.
LEMMA HooksReach ==
    ASSUME CoreInv, ReachInv, Grows, [Next]_vars
    PROVE  \A a \in Alerts, s \in Subs : <<a, s>> \in hooks' => sent'[a][s] > 0
  <1> SUFFICES ASSUME NEW a \in Alerts, NEW s \in Subs, <<a, s>> \in hooks'
               PROVE  sent[a][s] > 0
    BY DEF Grows
  <1>1. <<a, s>> \in hooks => sent[a][s] > 0
    BY DEF ReachInv
  <1>2. ASSUME NEW w \in Workers, MarkHook(w) \/ MarkHookAckLost(w) PROVE sent[a][s] > 0
    <2>1. /\ worker[w].pc = "mark"
          /\ hooks' = hooks \cup {<<worker[w].alert, t>> : t \in worker[w].cur}
      BY <1>2 DEF MarkHook, MarkHookAckLost
    <2>2. CASE a = worker[w].alert /\ s \in worker[w].cur
      BY <2>1, <2>2 DEF ReachInv, CallReach
    <2> QED BY <1>1, <2>1, <2>2
  <1>3. ASSUME NEW w \in Workers, Dispatch(w) PROVE sent[a][s] > 0
    <2>1. CASE MarkHook(w) \/ MarkHookAckLost(w)
      BY <1>2, <2>1
    <2>2. CASE ~(MarkHook(w) \/ MarkHookAckLost(w))
      <3>1. UNCHANGED hooks
        BY <1>3, <2>2 DEF Dispatch, Claim, ClaimBusy, LoadAlert, LoadRecipients,
           LoadWebhookSent, LoadFails, SkipOrFail, SendOK, MarkHookFails, Panic, AllTried,
           RecordOutcome, RecordFails, Release, dbVars
      <3> QED BY <1>1, <3>1
    <2> QED BY <2>1, <2>2
  <1>4. ASSUME NEW gone, Cascade(gone) PROVE sent[a][s] > 0
    BY <1>1, <1>4 DEF Cascade
  <1> QED
    BY <1>1, <1>3, <1>4 DEF Next, Sweep, InsertAndDispatch, InsertOnly, BackoffElapses,
       CreateSubscription, DeleteSubscription, DeleteDevice, SweepScan, SweepNext,
       Crash, Restart, vars, dbVars

\* A call that becomes another one, itself in order, leaves the others as they were.
LEMMA OneCall ==
    ASSUME CoreInv, ReachInv, Grows, NEW w \in Workers, NEW x \in Call,
           worker' = [worker EXCEPT ![w] = x], CallReach(x)'
    PROVE  \A v \in Workers : CallReach(worker[v])'
  <1>1. worker \in [Workers -> Call]
    BY DEF CoreInv, TypeOK
  <1>2. ASSUME NEW v \in Workers \ {w} PROVE CallReach(worker[v])'
    <2>1. PICK k \in Call : k = worker[v]
      BY <1>1
    <2>2. CallReach(k)'
      BY <2>1, CallStays DEF ReachInv, CoreInv, Working
    <2>3. worker'[v] = k
      BY <1>1, <2>1
    <2> QED BY <2>2, <2>3 DEF CallReach
  <1>3. worker'[w] = x
    BY <1>1
  <1>4. CallReach(worker[w])'
    BY <1>3 DEF CallReach
  <1> QED BY <1>2, <1>4

\* The same for a call that has learned nothing in the step itself.
LEMMA OneCallBefore ==
    ASSUME CoreInv, CoreInv', ReachInv, Grows, NEW w \in Workers, NEW x,
           worker' = [worker EXCEPT ![w] = x], CallReach(x)
    PROVE  \A v \in Workers : CallReach(worker[v])'
  <1>1. worker'[w] = x
    BY DEF CoreInv, TypeOK
  <1>2. x \in Call /\ (x.pc # "idle" => x.alert \in Alerts)
    BY <1>1 DEF CoreInv, TypeOK, Working
  <1> QED BY <1>2, CallStays, OneCall

\* A call that starts or ends takes nothing for sent.
LEMMA BlankCall ==
    ASSUME NEW a
    PROVE  CallReach(IdleCall) /\ CallReach(StartCall(a)) /\ CallReach(ReturnCall(a))
  <1>1. CallReach(IdleCall)
    BY DEF CallReach, IdleCall
  <1>2. CallReach(StartCall(a))
    BY DEF CallReach, StartCall, IdleCall, Counting, Sending
  <1>3. CallReach(ReturnCall(a))
    BY DEF CallReach, ReturnCall, IdleCall, Counting, Sending
  <1> QED BY <1>1, <1>2, <1>3

\* What a step that sends nothing and marks nothing may make of a call.
LEMMA QuietCalls ==
    ASSUME CoreInv, CoreInv', ReachInv, Grows, NEW w \in Workers,
           \/ Claim(w) \/ ClaimBusy(w) \/ LoadAlert(w) \/ LoadFails(w) \/ Release(w)
           \/ MarkHookFails(w) \/ MarkHookAckLost(w) \/ Panic(w) \/ AllTried(w)
           \/ RecordOutcome(w) \/ RecordFails(w) \/ \E s \in Subs : SkipOrFail(w, s)
    PROVE  \A v \in Workers : CallReach(worker[v])'
  <1> PICK k \in Call : k = worker[w]
    BY DEF CoreInv, TypeOK
  <1>1. CallReach(k)
    BY DEF ReachInv
  <1>2. CASE Claim(w) \/ LoadAlert(w)
    <2>1. k.pc \in {"claim", "load"}
      BY <1>2 DEF Claim, LoadAlert
    <2>2. PICK x : /\ worker' = [worker EXCEPT ![w] = x]
                   /\ x \in {ReturnCall(k.alert), [k EXCEPT !.pc = "load"],
                             [k EXCEPT !.pc = "recips", !.snap = row[k.alert]]}
      BY <1>2 DEF Claim, LoadAlert
    <2>3. CASE x = ReturnCall(k.alert)
      BY <2>2, <2>3, BlankCall, OneCallBefore
    <2>4. CASE x # ReturnCall(k.alert)
      <3>1. /\ x.pc \in {"load", "recips"} /\ x.alert = k.alert /\ x.recips = k.recips
            /\ x.todo = k.todo /\ x.done = k.done /\ x.emailOK = k.emailOK /\ x.tgOK = k.tgOK
        BY <2>2, <2>4 DEF Call
      <3>2. CallReach(x)
        BY <1>1, <2>1, <3>1 DEF CallReach, Counting, Sending
      <3> QED BY <2>2, <3>2, OneCallBefore
    <2> QED BY <2>3, <2>4
  <1>3. CASE ClaimBusy(w) \/ LoadFails(w) \/ Release(w) \/ RecordOutcome(w) \/ RecordFails(w)
    <2>1. PICK x : worker' = [worker EXCEPT ![w] = x] /\ x \in {IdleCall, ReturnCall(k.alert)}
      BY <1>3 DEF ClaimBusy, LoadFails, Release, RecordOutcome, RecordFails
    <2> QED BY <2>1, BlankCall, OneCallBefore
  <1>4. CASE MarkHookFails(w) \/ MarkHookAckLost(w) \/ Panic(w) \/ AllTried(w)
             \/ \E s \in Subs : SkipOrFail(w, s)
    <2>1. k.pc \in {"mark", "send"}
      BY <1>4 DEF MarkHookFails, MarkHookAckLost, Panic, AllTried, SkipOrFail
    <2>2. PICK x : /\ worker' = [worker EXCEPT ![w] = x]
                   /\ \/ x = [k EXCEPT !.pc = "send", !.cur = {}, !.fresh = @ \ k.cur]
                      \/ x = [k EXCEPT !.pc = "record", !.panicked = TRUE]
                      \/ x = [k EXCEPT !.pc = "record"]
                      \/ k.pc = "send" /\ \E s \in Subs : x = [k EXCEPT !.todo = @ \ {s}]
      <3>1. CASE MarkHookFails(w) \/ MarkHookAckLost(w)
        BY <3>1 DEF MarkHookFails, MarkHookAckLost
      <3>2. CASE Panic(w)
        <4>1. worker' = [worker EXCEPT ![w] = [k EXCEPT !.pc = "record", !.panicked = TRUE]]
          BY <3>2, ClaimedCall DEF Panic, Call
        <4> QED BY <4>1
      <3>3. CASE AllTried(w)
        BY <3>3 DEF AllTried
      <3>4. CASE \E s \in Subs : SkipOrFail(w, s)
        BY <3>4 DEF SkipOrFail
      <3> QED BY <1>4, <3>1, <3>2, <3>3, <3>4
    <2>3. /\ x.pc \in {"send", "record"} /\ x.alert = k.alert /\ x.recips = k.recips
          /\ x.todo \subseteq k.todo /\ x.done = k.done
          /\ x.emailOK = k.emailOK /\ x.tgOK = k.tgOK
      BY ZenonT(60), <2>1, <2>2 DEF Call
    <2>4. CallReach(x)
      BY <1>1, <2>1, <2>3 DEF CallReach, Counting, Sending
    <2> QED BY <2>2, <2>4, OneCallBefore
  <1> QED BY <1>2, <1>3, <1>4

\* The recipients are loaded: whoever is standing is one of them.
LEMMA LoadRecipientsReach ==
    ASSUME CoreInv, CoreInv', ReachInv, Grows, NEW w \in Workers, LoadRecipients(w)
    PROVE  \A v \in Workers : CallReach(worker[v])'
  <1> PICK k \in Call : k = worker[w]
    BY DEF CoreInv, TypeOK
  <1> PICK rs : rs = Recipients(k.alert)
    OBVIOUS
  <1>1. CallReach(k) /\ k.pc = "recips"
    BY DEF ReachInv, LoadRecipients
  <1>2. PICK x : /\ worker' = [worker EXCEPT ![w] = x]
                 /\ x = [k EXCEPT !.pc = "hooks", !.recips = rs, !.todo = rs]
    BY DEF LoadRecipients
  <1>3. /\ x.pc = "hooks" /\ x.alert = k.alert /\ x.recips = rs /\ x.todo = rs
        /\ x.done = k.done /\ x.emailOK = k.emailOK /\ x.tgOK = k.tgOK
    BY <1>2 DEF Call
  <1>4. rs \subseteq MatchOf[k.alert]
        /\ (row[k.alert].status # "deleted" => Standing(k.alert) \subseteq rs)
    BY DEF Recipients, Standing
  <1>5. CallReach(x)
    BY <1>1, <1>3, <1>4 DEF CallReach
  <1> QED BY <1>2, <1>5, OneCallBefore

\* The webhook records are loaded: each stands for a send.
LEMMA LoadWebhookSentReach ==
    ASSUME CoreInv, CoreInv', ReachInv, Grows, NEW w \in Workers, LoadWebhookSent(w)
    PROVE  \A v \in Workers : CallReach(worker[v])'
  <1> PICK k \in Call : k = worker[w]
    BY DEF CoreInv, TypeOK
  <1> PICK D : D = {s \in Subs : <<k.alert, s>> \in hooks}
    OBVIOUS
  <1> PICK j : j = [k EXCEPT !.done = D]
    OBVIOUS
  <1>1. CallReach(k) /\ k.pc = "hooks" /\ k.alert \in Alerts
    BY DEF ReachInv, LoadWebhookSent, CoreInv, Working
  <1>2. /\ j.pc = "hooks" /\ j.alert = k.alert /\ j.recips = k.recips /\ j.todo = k.todo
        /\ j.done = D /\ j.emailOK = k.emailOK /\ j.tgOK = k.tgOK /\ j \in Call
    BY <1>1 DEF Call
  <1>3. \A s \in D : sent[k.alert][s] > 0
    BY <1>1 DEF ReachInv
  <1>4. PICK x : worker' = [worker EXCEPT ![w] = x] /\ x = AfterLoad(j)
    BY DEF LoadWebhookSent
  <1>5. CASE x = ReturnCall(j.alert)
    BY <1>4, <1>5, BlankCall, OneCallBefore
  <1>6. CASE x # ReturnCall(j.alert)
    <2>1. /\ x.pc \in {"send", "record"} /\ x.alert = j.alert /\ x.recips = j.recips
          /\ x.todo = j.todo /\ x.done = j.done /\ x.emailOK = j.emailOK /\ x.tgOK = j.tgOK
      BY <1>2, <1>4, <1>6 DEF AfterLoad, Call
    <2>2. CallReach(x)
      BY <1>1, <1>2, <1>3, <2>1 DEF CallReach, Counting
    <2> QED BY <1>4, <2>2, OneCallBefore
  <1> QED BY <1>5, <1>6

\* A send was accepted: the channel, or the webhook, was reached.
LEMMA SendOKReach ==
    ASSUME CoreInv, CoreInv', ReachInv, Grows, NEW w \in Workers, NEW s \in Subs, SendOK(w, s)
    PROVE  \A v \in Workers : CallReach(worker[v])'
  <1> PICK k \in Call : k = worker[w]
    BY DEF CoreInv, TypeOK
  <1>1. /\ CallReach(k) /\ k.pc = "send" /\ k.alert \in Alerts /\ s \in k.todo
        /\ CallReach(k)'
    BY CallStays DEF ReachInv, SendOK, CoreInv, Working
  <1>2. sent[k.alert][s] \in Nat /\ sent' = [sent EXCEPT ![k.alert][s] = @ + 1]
        /\ sent \in [Alerts -> [Subs -> Nat]]
    BY <1>1 DEF CoreInv, TypeOK, SendOK
  <1>3. sent'[k.alert][s] > 0
    <2>1. sent'[k.alert][s] = sent[k.alert][s] + 1
      BY ONLY <1>1, <1>2
    <2> QED BY <1>2, <2>1
  <1>4. PICK x : /\ worker' = [worker EXCEPT ![w] = x]
                 /\ x = [k EXCEPT !.todo = @ \ {s},
                                  !.emailOK = @ \/ ChannelOf[s] = "email",
                                  !.tgOK = @ \/ ChannelOf[s] = "telegram",
                                  !.fresh = @ \cup {s},
                                  !.cur = IF ChannelOf[s] = "webhook" THEN {s} ELSE {},
                                  !.pc = IF ChannelOf[s] = "webhook" THEN "mark" ELSE "send"]
    BY DEF SendOK
  <1>5. x \in Call
    <2>1. worker'[w] = x
      BY <1>4 DEF CoreInv, TypeOK
    <2> QED BY <2>1 DEF CoreInv, TypeOK
  <1>6. /\ x.alert = k.alert /\ x.recips = k.recips /\ x.todo \subseteq k.todo
        /\ x.done = k.done /\ x.pc \in {"mark", "send"} /\ x.cur \subseteq {s}
    BY <1>4 DEF Call
  <1>7. x.emailOK <=> k.emailOK \/ ChannelOf[s] = "email"
    BY <1>4 DEF Call
  <1>8. x.tgOK <=> k.tgOK \/ ChannelOf[s] = "telegram"
    BY <1>4 DEF Call
  <1>9. s \in MatchOf[k.alert]
    BY <1>1 DEF CallReach
  <1>10. (ChannelOf[s] = "email" => Reached(k.alert, "email")')
         /\ (ChannelOf[s] = "telegram" => Reached(k.alert, "telegram")')
    BY <1>3, <1>9 DEF Reached
  <1>11. CallReach(x)'
    <2>1. x.todo \subseteq x.recips /\ x.recips \subseteq MatchOf[x.alert]
      BY <1>1, <1>6 DEF CallReach
    <2>2. row'[x.alert].status # "deleted" => Standing(x.alert)' \subseteq x.recips
      BY <1>1, <1>6 DEF CallReach, Counting, Sending
    <2>3. /\ \A t \in x.done : sent'[x.alert][t] > 0
          /\ \A t \in x.cur : sent'[x.alert][t] > 0
      BY <1>1, <1>3, <1>6 DEF CallReach
    <2>4. (x.emailOK => Reached(x.alert, "email")') /\ (x.tgOK => Reached(x.alert, "telegram")')
      BY <1>1, <1>6, <1>7, <1>8, <1>10 DEF CallReach
    <2> QED BY <2>1, <2>2, <2>3, <2>4 DEF CallReach
  <1> QED BY <1>4, <1>5, <1>11, OneCall

\* A webhook is marked: it was sent.
LEMMA MarkHookReach ==
    ASSUME CoreInv, CoreInv', ReachInv, Grows, NEW w \in Workers, MarkHook(w)
    PROVE  \A v \in Workers : CallReach(worker[v])'
  <1> PICK k \in Call : k = worker[w]
    BY DEF CoreInv, TypeOK
  <1>1. CallReach(k) /\ k.pc = "mark"
    BY DEF ReachInv, MarkHook
  <1>2. PICK x : /\ worker' = [worker EXCEPT ![w] = x]
                 /\ x = [k EXCEPT !.pc = "send", !.done = @ \cup k.cur, !.cur = {},
                                  !.fresh = @ \ k.cur]
    BY DEF MarkHook
  <1>3. /\ x.pc = "send" /\ x.alert = k.alert /\ x.recips = k.recips /\ x.todo = k.todo
        /\ x.done = k.done \cup k.cur /\ x.emailOK = k.emailOK /\ x.tgOK = k.tgOK
    BY <1>2 DEF Call
  <1>4. CallReach(x)
    BY <1>1, <1>3 DEF CallReach, Counting, Sending
  <1> QED BY <1>2, <1>4, OneCallBefore

\* Every step keeps the calls in order.
LEMMA CallsReach ==
    ASSUME CoreInv, CoreInv', ReachInv, Grows, [Next]_vars
    PROVE  \A v \in Workers : CallReach(worker[v])'
  <1>1. ASSUME NEW w \in Workers, Dispatch(w)
        PROVE  \A v \in Workers : CallReach(worker[v])'
    BY <1>1, QuietCalls, LoadRecipientsReach, LoadWebhookSentReach, SendOKReach, MarkHookReach
       DEF Dispatch
  <1>2. ASSUME NEW w \in Workers, NEW a, worker' = [worker EXCEPT ![w] = StartCall(a)]
        PROVE  \A v \in Workers : CallReach(worker[v])'
    BY <1>2, BlankCall, OneCallBefore
  <1>3. CASE UNCHANGED worker
    <2> SUFFICES ASSUME NEW v \in Workers PROVE CallReach(worker[v])'
      OBVIOUS
    <2>1. PICK x \in Call : x = worker[v]
      BY DEF CoreInv, TypeOK
    <2>2. worker' = [worker EXCEPT ![v] = x] /\ CallReach(x)
      BY <1>3, <2>1 DEF CoreInv, TypeOK, ReachInv
    <2> QED BY <2>2, OneCallBefore
  <1>4. CASE Crash
    <2>1. \A v \in Workers : worker'[v].pc = "idle"
      BY <1>4 DEF Crash, IdleCall
    <2> QED BY <2>1 DEF CallReach
  <1>5. ASSUME NEW a \in Alerts, InsertAndDispatch(a)
        PROVE  \A v \in Workers : CallReach(worker[v])'
    BY <1>2, <1>5, WorkerIds DEF InsertAndDispatch
  <1>6. CASE SweepNext
    BY <1>2, <1>6, WorkerIds DEF SweepNext
  <1> QED
    BY <1>1, <1>3, <1>4, <1>5, <1>6 DEF Next, Sweep, InsertOnly, BackoffElapses,
       CreateSubscription, DeleteSubscription, DeleteDevice, SweepScan, Restart, vars, procVars

\* Every step keeps the invariant.
LEMMA ReachStep == CoreInv /\ CoreInv' /\ ReachInv /\ [Next]_vars => ReachInv'
  <1> SUFFICES ASSUME CoreInv, CoreInv', ReachInv, [Next]_vars PROVE ReachInv'
    OBVIOUS
  <1>1. Grows
    BY StepGrows
  <1> QED BY <1>1, RowsReach, HooksReach, CallsReach DEF ReachInv, Grows

\* A row is closed as delivered only if each standing webhook got its own POST
\* and somebody on the channel of each standing email or chat was reached: a
\* subscription that was there all along is always among the recipients a run
\* counts, however stale its snapshot of the row.
THEOREM DeliveredReaches == Spec => []DeliveredReachesStanding
  <1>1. ReachInv => DeliveredReachesStanding
    <2> SUFFICES ASSUME ReachInv, NEW a \in Alerts, row[a].status = "delivered",
                        NEW s \in MatchOf[a] \cap LiveAtStart, subs[s] = "live"
                 PROVE  IF ChannelOf[s] = "webhook" THEN sent[a][s] > 0
                        ELSE \E t \in MatchOf[a] : ChannelOf[t] = ChannelOf[s] /\ sent[a][t] > 0
      BY DEF DeliveredReachesStanding
    <2>1. s \in Standing(a)
      BY DEF Standing
    <2> QED BY <2>1 DEF ReachInv, RowReach, Reached
  <1> QED BY CoreInit, CoreStep, ReachInit, ReachStep, <1>1, PTL DEF Spec
=============================================================================
