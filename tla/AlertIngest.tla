---------------------------- MODULE AlertIngest ----------------------------
(***************************************************************************)
(* From an MQTT alert message to a device_alerts row (pkg/mqtt handleAlert, *)
(* retryAlertInsert, finishAlert; AlertService.InsertAlert; the per-day     *)
(* event quota).  The client is built with SetOrderMatters(false), so every *)
(* message is handled on a goroutine of its own, and QoS 1 delivers a       *)
(* message again when its handler had not returned at a reconnect.          *)
(*                                                                          *)
(* One tenant, one device.  The age of a row stands for received_at: inside *)
(* the dedup window, inside the quota's last 24 hours, or older.            *)
(***************************************************************************)
EXTENDS Integers, Sequences, FiniteSets

CONSTANTS
    Messages,       \* deliveries of alert messages
    PayloadOf,      \* the JSON payload of each delivery
    RetrySlots,     \* alertInsertRetrySlots
    InsertRetries,  \* alertInsertRetries
    RetryDelay,     \* alertInsertRetryDelay, seconds
    DedupWindow,    \* alertDedupWindow, seconds
    EventsPerDay,   \* cfg.QuotaEventsPerDay, 0 = no quota
    MaxFaults,      \* bound on failed database statements
    MaxCrashes      \* bound on process deaths

ASSUME IngestAssumption ==
    /\ PayloadOf \in [Messages -> {PayloadOf[m] : m \in Messages}]
    /\ RetrySlots \in Nat /\ InsertRetries \in Nat \ {0}
    /\ RetryDelay \in Nat /\ DedupWindow \in Nat
    /\ EventsPerDay \in Nat
    /\ MaxFaults \in Nat /\ MaxCrashes \in Nat

VARIABLES
    rows,           \* device_alerts, in commit order: payload, age ("window",
                    \* "day", "old", "deleted"), by, the message it was stored
                    \* for, and seen (history), the number of rows committed
                    \* when that call looked for a duplicate
    device,         \* the device row exists
    call,           \* the handler or retry goroutine of each message: attempt 0
                    \* is the handler itself; end (history) is how it ended
    lock,           \* holder of the tenant's advisory lock: {} or {m}
    slots,          \* occupied places of c.insertRetrySlots
    deadLetter,     \* messages whose payload an error line carries
    dispatched,     \* rows finishAlert started a Dispatch for
    faults, crashes

vars == <<rows, device, call, lock, slots, deadLetter, dispatched, faults, crashes>>

InTx == {"dupcheck", "quota", "insert"}

Init ==
    /\ rows = <<>>
    /\ device = TRUE
    /\ call = [m \in Messages |-> [pc |-> "new", attempt |-> 0, seen |-> 0, end |-> "none"]]
    /\ lock = {}
    /\ slots = 0
    /\ deadLetter = {}
    /\ dispatched = {}
    /\ faults = 0
    /\ crashes = 0

-----------------------------------------------------------------------------
Fault == faults < MaxFaults /\ faults' = faults + 1

\* The call returns; a retry goroutine's deferred receive frees its slot.
Ends(m, how) ==
    /\ call' = [call EXCEPT ![m].pc = "done", ![m].end = how]
    /\ slots' = IF call[m].attempt > 0 THEN slots - 1 ELSE slots

\* Retained replay, not JSON, no valid severity, or an unknown tenant or device.
Ignore(m) ==
    /\ call[m].pc = "new"
    /\ Ends(m, "ignored")
    /\ UNCHANGED <<rows, device, lock, deadLetter, dispatched, faults, crashes>>

\* BumpSeenIfExists found the device: the row's key is pinned for all retries.
BumpSeen(m) ==
    /\ call[m].pc = "new"
    /\ device
    /\ call' = [call EXCEPT ![m].pc = "dupcheck"]
    /\ UNCHANGED <<rows, device, lock, slots, deadLetter, dispatched, faults, crashes>>

\* The bump fails: logged without the payload, neither retried nor dead-lettered.
BumpFails(m) ==
    /\ call[m].pc = "new"
    /\ Fault
    /\ Ends(m, "dropped")
    /\ UNCHANGED <<rows, device, lock, deadLetter, dispatched, crashes>>

-----------------------------------------------------------------------------
(* InsertAlert: one READ COMMITTED transaction of up to three statements.   *)

\* Mutant of Duplicate: only the first attempt looks.
DuplicateFirstOnly(m) ==
    /\ call[m].attempt = 0
    /\ \E i \in 1..Len(rows) : rows[i].payload = PayloadOf[m] /\ rows[i].age = "window"

Duplicate(m) ==
    \E i \in 1..Len(rows) : rows[i].payload = PayloadOf[m] /\ rows[i].age = "window"

DupCheck(m) ==
    /\ call[m].pc = "dupcheck"
    /\ ~Duplicate(m)
    /\ call' = [call EXCEPT ![m].pc = IF EventsPerDay = 0 THEN "insert" ELSE "quota",
                            ![m].seen = Len(rows)]
    /\ UNCHANGED <<rows, device, lock, slots, deadLetter, dispatched, faults, crashes>>

\* ErrDuplicateAlert: dropped by the handler, success to a retry.
DropDuplicate(m) ==
    /\ call[m].pc = "dupcheck"
    /\ Duplicate(m)
    /\ Ends(m, "duplicate")
    /\ UNCHANGED <<rows, device, lock, deadLetter, dispatched, faults, crashes>>

LastDay == {i \in 1..Len(rows) : rows[i].age \in {"window", "day"}}

QuotaFull == Cardinality(LastDay) >= EventsPerDay

\* Mutant of QuotaLock: the count is taken without the lock.
QuotaUnlocked(m) ==
    /\ call[m].pc = "quota"
    /\ ~QuotaFull
    /\ call' = [call EXCEPT ![m].pc = "insert"]
    /\ UNCHANGED <<rows, device, lock, slots, deadLetter, dispatched, faults, crashes>>

\* The advisory lock is held until the transaction ends.
QuotaLock(m) ==
    /\ call[m].pc = "quota"
    /\ lock = {}
    /\ ~QuotaFull
    /\ lock' = {m}
    /\ call' = [call EXCEPT ![m].pc = "insert"]
    /\ UNCHANGED <<rows, device, slots, deadLetter, dispatched, faults, crashes>>

NewRow(m) == [payload |-> PayloadOf[m], by |-> m, seen |-> call[m].seen, age |-> "window"]

InsertRow(m) ==
    /\ call[m].pc = "insert"
    /\ device
    /\ rows' = Append(rows, NewRow(m))
    /\ lock' = lock \ {m}
    /\ call' = [call EXCEPT ![m].pc = "finish"]
    /\ UNCHANGED <<device, slots, deadLetter, dispatched, faults, crashes>>

\* Mutant of DeadLetter: the error line is missing.
DeadLetterSilently(m) == Ends(m, "failed") /\ UNCHANGED deadLetter

DeadLetter(m) == Ends(m, "failed") /\ deadLetter' = deadLetter \cup {m}

\* What follows a failed InsertAlert: a slot and the first sleep, the next
\* sleep, or the dead letter when no slot is free or the last retry failed.
InsertFailed(m) ==
    LET n == call[m].attempt
        sleep == call' = [call EXCEPT ![m].pc = "sleep", ![m].attempt = n + 1]
    IN  \/ n = 0 /\ slots < RetrySlots /\ slots' = slots + 1 /\ sleep /\ UNCHANGED deadLetter
        \/ n = 0 /\ slots = RetrySlots /\ DeadLetter(m)
        \/ n \in 1..(InsertRetries - 1) /\ sleep /\ UNCHANGED <<slots, deadLetter>>
        \/ n = InsertRetries /\ DeadLetter(m)

\* ErrQuotaEvents is an error like any other.
QuotaRefused(m) ==
    /\ call[m].pc = "quota"
    /\ lock = {}
    /\ QuotaFull
    /\ InsertFailed(m)
    /\ UNCHANGED <<rows, device, lock, dispatched, faults, crashes>>

\* Mutant of RollBack: the session keeps the advisory lock.
RollBackKeepsLock(m) == UNCHANGED lock

RollBack(m) == lock' = lock \ {m}

\* A statement or the commit fails, or the device is gone and so is the key.
InsertError(m) ==
    /\ call[m].pc \in InTx
    /\ Fault \/ (call[m].pc = "insert" /\ ~device /\ UNCHANGED faults)
    /\ RollBack(m)
    /\ InsertFailed(m)
    /\ UNCHANGED <<rows, device, dispatched, crashes>>

\* The row commits and the acknowledgement is lost.
InsertAckLost(m) ==
    /\ call[m].pc = "insert"
    /\ device
    /\ Fault
    /\ rows' = Append(rows, NewRow(m))
    /\ lock' = lock \ {m}
    /\ InsertFailed(m)
    /\ UNCHANGED <<device, dispatched, crashes>>

Wake(m) ==
    /\ call[m].pc = "sleep"
    /\ call' = [call EXCEPT ![m].pc = "dupcheck"]
    /\ UNCHANGED <<rows, device, lock, slots, deadLetter, dispatched, faults, crashes>>

\* Broadcast to the hub and start the inline Dispatch of the new row.
FinishAlert(m) ==
    /\ call[m].pc = "finish"
    /\ Ends(m, "stored")
    /\ \E i \in 1..Len(rows) :
          /\ rows[i].by = m
          /\ \A j \in (i + 1)..Len(rows) : rows[j].by # m
          /\ dispatched' = dispatched \cup {i}
    /\ UNCHANGED <<rows, device, lock, deadLetter, faults, crashes>>

\* A panic in the retry goroutine: safego logs it with the dead-letter fields.
RetryPanic(m) ==
    /\ call[m].attempt > 0
    /\ call[m].pc \in InTx \cup {"finish"}
    /\ Fault
    /\ RollBack(m)
    /\ DeadLetter(m)
    /\ UNCHANGED <<rows, device, dispatched, crashes>>

\* A panic in the handler: onMessage recovers and logs the topic only.
HandlerPanic(m) ==
    /\ call[m].attempt = 0
    /\ call[m].pc \in InTx \cup {"finish"}
    /\ Fault
    /\ RollBack(m)
    /\ Ends(m, "dropped")
    /\ UNCHANGED <<rows, device, deadLetter, dispatched, crashes>>

-----------------------------------------------------------------------------
(* Time, deletion, process death.                                           *)

\* How long a retry goroutine sleeps in all: the delay triples.
RetrySpan == RetryDelay * ((3 ^ InsertRetries - 1) \div 2)

Running(m) == call[m].pc \notin {"new", "done"}

\* A row outlives the call that stored it as long as the sleeps fit the window.
LeaveWindow(i) ==
    /\ rows[i].age = "window"
    /\ RetrySpan < DedupWindow => ~Running(rows[i].by)
    /\ rows' = [rows EXCEPT ![i].age = "day"]
    /\ UNCHANGED <<device, call, lock, slots, deadLetter, dispatched, faults, crashes>>

LeaveDay(i) ==
    /\ rows[i].age = "day"
    /\ rows' = [rows EXCEPT ![i].age = "old"]
    /\ UNCHANGED <<device, call, lock, slots, deadLetter, dispatched, faults, crashes>>

\* The rows cascade away with the device.
DeleteDevice ==
    /\ device
    /\ device' = FALSE
    /\ rows' = [i \in 1..Len(rows) |-> [rows[i] EXCEPT !.age = "deleted"]]
    /\ UNCHANGED <<call, lock, slots, deadLetter, dispatched, faults, crashes>>

\* The process dies and is started again: handlers, retries and slots are gone,
\* open transactions roll back.
Crash ==
    /\ crashes < MaxCrashes
    /\ \E m \in Messages : Running(m)
    /\ crashes' = crashes + 1
    /\ call' = [m \in Messages |->
                  IF Running(m) THEN [call[m] EXCEPT !.pc = "done", !.end = "killed"]
                  ELSE call[m]]
    /\ slots' = 0
    /\ lock' = {}
    /\ UNCHANGED <<rows, device, deadLetter, dispatched, faults>>

Handle(m) ==
    \/ BumpSeen(m) \/ DupCheck(m) \/ DropDuplicate(m) \/ QuotaLock(m) \/ QuotaRefused(m)
    \/ InsertRow(m) \/ InsertError(m) \/ InsertAckLost(m) \/ Wake(m)
    \/ FinishAlert(m) \/ RetryPanic(m) \/ HandlerPanic(m)

Next ==
    \/ \E m \in Messages : Ignore(m) \/ BumpFails(m) \/ Handle(m)
    \/ \E i \in 1..Len(rows) : LeaveWindow(i) \/ LeaveDay(i)
    \/ DeleteDevice
    \/ Crash

Spec == Init /\ [][Next]_vars

\* Goroutines run until they return and a sleep ends.
Fairness == \A m \in Messages : WF_vars(Running(m) /\ Handle(m))

FairSpec == Spec /\ Fairness

-----------------------------------------------------------------------------
(* Properties.                                                              *)

\* The same payload from the device inside the dedup window notifies once, in
\* whatever way QoS 1 delivers it again (InsertAlert, finishAlert).  It does not
\* hold: the duplicate SELECT of READ COMMITTED does not see a row that another
\* delivery is about to commit, so two deliveries that overlap both store and
\* both dispatch.
RedeliveryNotifiesOnce ==
    \A i, j \in dispatched :
        rows[i].payload = rows[j].payload /\ rows[i].age = "window" /\ rows[j].age = "window" => i = j

\* A message is stored once: a retry after a commit whose acknowledgement was
\* lost finds its own row, because the sleeps fit into the window.
StoredOncePerMessage ==
    \A i, j \in 1..Len(rows) :
        rows[i].by = rows[j].by /\ rows[i].age # "deleted" /\ rows[j].age # "deleted" => i = j

\* Concurrent inserts do not overshoot the tenant's events per day.
QuotaHeld == EventsPerDay > 0 => Cardinality(LastDay) <= EventsPerDay

\* A call that got past its own handler's failures leaves a trace of its alert:
\* one that ends as stored, as a duplicate or with its retries used up has its
\* payload in a row, or in an error line an operator can replay
\* (retryAlertInsert, finishAlert), also when it panics in a retry.  It says
\* nothing of the calls whose payload is lost with the process alive, a failed
\* bump and a panic in the handler itself ("dropped": both log no payload), nor
\* of those that die with the process.
NoSilentLoss ==
    \A m \in Messages : call[m].end \in {"duplicate", "failed", "stored"} =>
        \/ m \in deadLetter
        \/ \E i \in 1..Len(rows) : rows[i].payload = PayloadOf[m]

\* Every handler and every retry ends: nobody waits for ever for the lock.
EveryCallEnds == \A m \in Messages : Running(m) ~> ~Running(m)
=============================================================================
