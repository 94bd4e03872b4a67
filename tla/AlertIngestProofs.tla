-------------------------- MODULE AlertIngestProofs --------------------------
(***************************************************************************)
(* Proofs about AlertIngest for any deliveries, payloads, quota, retry      *)
(* limits and numbers of faults and crashes.                                *)
(***************************************************************************)
EXTENDS AlertIngest, FiniteSetTheorems, TLAPS

Payloads == {PayloadOf[m] : m \in Messages}

Row == [payload : Payloads, by : Messages, seen : Nat,
        age : {"window", "day", "old", "deleted"}]

Call == [pc : {"new", "sleep", "finish", "done"} \cup InTx, attempt : Nat, seen : Nat,
         end : {"none", "ignored", "dropped", "duplicate", "failed", "stored", "killed"}]

TypeOK ==
    /\ rows \in Seq(Row)
    /\ device \in BOOLEAN
    /\ call \in [Messages -> Call]
    /\ lock \subseteq Messages
    /\ deadLetter \subseteq Messages
    /\ faults \in Nat /\ crashes \in Nat

\* The retry goroutines: each holds one of the slots.
Retrying == {m \in Messages : Running(m) /\ call[m].attempt > 0}

SlotsOK ==
    /\ IsFiniteSet(Retrying) /\ slots = Cardinality(Retrying) /\ slots <= RetrySlots
    /\ \A m \in Messages : /\ call[m].attempt <= InsertRetries
                           /\ call[m].pc = "new" => call[m].attempt = 0

\* Under a quota whoever is about to insert holds the lock, and there is room.
LockOK ==
    /\ lock = {} \/ \E m \in Messages : lock = {m} /\ call[m].pc = "insert"
    /\ EventsPerDay > 0 => \A m \in Messages : call[m].pc = "insert" => lock = {m}
    /\ EventsPerDay = 0 => \A m \in Messages : call[m].pc # "quota"
    /\ lock # {} => Cardinality(LastDay) < EventsPerDay

\* A second row of a payload in the window of a first was inserted by a call
\* whose duplicate check came before the first was committed.
DuplicateNeedsOverlap ==
    \A j \in 1..Len(rows) : \A i \in 1..(j - 1) :
        rows[i].payload = rows[j].payload /\ rows[i].age = "window" => rows[j].seen < i

\* A row has the payload of its message, and what a call saw before its check
\* holds no row in the window that it duplicates.
DupOK ==
    /\ \A i \in 1..Len(rows) : rows[i].payload = PayloadOf[rows[i].by]
    /\ \A m \in Messages : call[m].seen <= Len(rows)
    /\ \A m \in Messages : call[m].pc \in {"quota", "insert"} =>
          \A i \in 1..call[m].seen : rows[i].payload = PayloadOf[m] => rows[i].age # "window"
    /\ DuplicateNeedsOverlap

\* A retry's own row is still in the window, or went with the device; a call
\* that is past its duplicate check has none.
StoredOK ==
    /\ \A i \in 1..Len(rows) : Running(rows[i].by) => rows[i].age \in {"window", "deleted"}
    /\ \A i \in 1..Len(rows) :
          call[rows[i].by].pc \in {"new", "quota", "insert"} => rows[i].age = "deleted"
    /\ StoredOncePerMessage

IngestInv ==
    /\ TypeOK /\ SlotsOK /\ LockOK /\ DupOK /\ QuotaHeld /\ NoSilentLoss
    /\ RetrySpan < DedupWindow => StoredOK

USE IngestAssumption

-----------------------------------------------------------------------------
(* The rows of the last day.                                                *)

\* The rows of the last day are finitely many.
LEMMA LastDayFinite ==
  ASSUME rows \in Seq(Row)
  PROVE  IsFiniteSet(LastDay) /\ Cardinality(LastDay) \in Nat
<1>1. Len(rows) \in Int /\ 1 \in Int
  OBVIOUS
<1>2. IsFiniteSet(1..Len(rows))
  BY <1>1, FS_Interval, Zenon
<1>3. LastDay \subseteq 1..Len(rows)
  BY DEF LastDay
<1>. QED
  BY <1>2, <1>3, FS_Subset, FS_CardinalityType

\* A new row is one more.
LEMMA LastDayGrows ==
  ASSUME rows \in Seq(Row), NEW x \in Row, x.age = "window", rows' = Append(rows, x)
  PROVE  Cardinality(LastDay') = Cardinality(LastDay) + 1
<1>1. Len(rows) \in Nat /\ Len(rows') = Len(rows) + 1 /\ rows'[Len(rows) + 1] = x
      /\ \A i \in 1..Len(rows) : rows'[i] = rows[i]
  OBVIOUS
<1>2. LastDay' = LastDay \cup {Len(rows) + 1} /\ Len(rows) + 1 \notin LastDay
  BY <1>1 DEF LastDay
<1>. QED
  BY <1>2, LastDayFinite, FS_AddElement

\* Rows that only age make it no larger.
LEMMA LastDayShrinks ==
  ASSUME rows \in Seq(Row), Len(rows') = Len(rows),
         \A i \in 1..Len(rows) :
            rows'[i].age \in {"window", "day"} => rows[i].age \in {"window", "day"}
  PROVE  Cardinality(LastDay') <= Cardinality(LastDay)
<1>1. LastDay' \subseteq LastDay
  BY DEF LastDay
<1>. QED
  BY <1>1, LastDayFinite, FS_Subset

-----------------------------------------------------------------------------
(* The shapes of a step.                                                    *)

\* Only call m changes.
Moved(m) ==
    /\ call' \in [Messages -> Call]
    /\ \A k \in Messages : k # m => call'[k] = call[k]
    /\ faults' \in Nat /\ crashes' = crashes

\* What call m claims when it ends is true: its payload is stored or logged.
Accounted(m) ==
    call'[m].end \in {"duplicate", "failed", "stored"} =>
        m \in deadLetter' \/ \E i \in 1..Len(rows') : rows'[i].payload = PayloadOf[m]

\* A call goes on without writing, gives up its transaction, or ends.
Withdraws(m) ==
    /\ Moved(m)
    /\ call[m].pc # "done" /\ call'[m].pc \in {"dupcheck", "sleep", "done"}
    /\ call'[m].seen = call[m].seen
    /\ \/ call'[m].end = call[m].end
       \/ Accounted(m)
    /\ lock' = lock \ {m}
    /\ UNCHANGED <<rows, device>> /\ deadLetter \subseteq deadLetter'
    /\ deadLetter' \subseteq Messages

\* A call stores its row, whatever becomes of it then.
Stores(m) ==
    /\ Moved(m)
    /\ call[m].pc = "insert" /\ call'[m].pc \in {"finish", "sleep", "done"}
    /\ call'[m].seen = call[m].seen
    /\ device /\ rows' = Append(rows, NewRow(m))
    /\ lock' = lock \ {m}
    /\ UNCHANGED device /\ deadLetter \subseteq deadLetter'
    /\ deadLetter' \subseteq Messages

\* The retrying calls, and the slots with them, stay, gain m or lose m.
SlotsMove(m) ==
    LET holds == Running(m) /\ call[m].attempt > 0
        kept  == call'[m].pc \notin {"new", "done"} /\ call'[m].attempt > 0
    IN  /\ \A k \in Messages : k # m => call'[k] = call[k]
        /\ call'[m].attempt <= InsertRetries /\ call'[m].pc # "new"
        /\ \/ holds = kept /\ slots' = slots
           \/ ~holds /\ kept /\ slots' = slots + 1 /\ slots < RetrySlots
           \/ holds /\ ~kept /\ slots' = slots - 1

\* A call that becomes another leaves the rest typed and unchanged.
LEMMA CallBecomes ==
  ASSUME call \in [Messages -> Call], NEW m \in Messages, NEW c \in Call,
         call' = [call EXCEPT ![m] = c]
  PROVE  /\ call' \in [Messages -> Call]
         /\ \A k \in Messages : k # m => call'[k] = call[k]
         /\ call'[m] = c
OBVIOUS

\* A call that returns gives its slot back.
LEMMA EndsShape ==
  ASSUME TypeOK, SlotsOK, NEW m \in Messages, NEW how \in {"ignored", "dropped", "duplicate",
         "failed", "stored"}, call[m].pc # "done", Ends(m, how)
  PROVE  /\ call' \in [Messages -> Call]
         /\ \A k \in Messages : k # m => call'[k] = call[k]
         /\ call'[m].pc = "done" /\ call'[m].end = how /\ call'[m].seen = call[m].seen
         /\ SlotsMove(m)
<1>1. call[m] \in Call
  BY DEF TypeOK
<1>2. call' = [call EXCEPT ![m] = [call[m] EXCEPT !.pc = "done", !.end = how]]
  BY DEF Ends
<1>3. [call[m] EXCEPT !.pc = "done", !.end = how] \in Call
  BY <1>1 DEF Call
<1>4. /\ call' \in [Messages -> Call]
      /\ \A k \in Messages : k # m => call'[k] = call[k]
      /\ call'[m] = [call[m] EXCEPT !.pc = "done", !.end = how]
  BY <1>2, <1>3 DEF TypeOK
<1>5. /\ call'[m].pc = "done" /\ call'[m].end = how /\ call'[m].seen = call[m].seen
      /\ call'[m].attempt = call[m].attempt
  BY <1>1, <1>4 DEF Call
<1>6. SlotsMove(m)
  <2>1. call[m].attempt > 0 => Running(m)
    BY <1>1 DEF SlotsOK, Running, Call
  <2>. QED
    BY <1>1, <1>4, <1>5, <2>1 DEF SlotsMove, Ends, Running, SlotsOK, Call
<1>. QED
  BY <1>4, <1>5, <1>6

\* A call that goes on keeps its slot, or takes one for its first retry.
LEMMA GoesOnShape ==
  ASSUME TypeOK, SlotsOK, NEW m \in Messages, NEW c \in Call, call[m].pc # "done",
         c.pc \notin {"new", "done"}, call' = [call EXCEPT ![m] = c],
         c.attempt <= InsertRetries,
         \/ (c.attempt > 0 <=> call[m].attempt > 0) /\ slots' = slots
         \/ call[m].attempt = 0 /\ c.attempt = 1 /\ slots < RetrySlots /\ slots' = slots + 1
  PROVE  /\ call' \in [Messages -> Call]
         /\ \A k \in Messages : k # m => call'[k] = call[k]
         /\ call'[m] = c
         /\ SlotsMove(m)
<1>1. call[m] \in Call
  BY DEF TypeOK
<1>2. /\ call' \in [Messages -> Call]
      /\ \A k \in Messages : k # m => call'[k] = call[k]
      /\ call'[m] = c
  BY CallBecomes DEF TypeOK
<1>3. call[m].attempt \in Nat /\ (call[m].attempt > 0 => Running(m))
  BY <1>1 DEF SlotsOK, Running, Call
<1>. QED
  BY <1>2, <1>3 DEF SlotsMove

\* A failed insert sleeps before a retry, or its payload is logged.
LEMMA FailedShape ==
  ASSUME TypeOK, SlotsOK, NEW m \in Messages, call[m].pc \in InTx, InsertFailed(m)
  PROVE  /\ call' \in [Messages -> Call]
         /\ \A k \in Messages : k # m => call'[k] = call[k]
         /\ call'[m].pc \in {"sleep", "done"} /\ call'[m].seen = call[m].seen
         /\ call'[m].end = call[m].end \/ m \in deadLetter'
         /\ deadLetter \subseteq deadLetter' /\ deadLetter' \subseteq Messages
         /\ SlotsMove(m)
<1>1. call[m] \in Call /\ call[m].pc # "done"
  BY DEF TypeOK, InTx
<1>2. CASE DeadLetter(m)
  BY <1>1, <1>2, EndsShape DEF DeadLetter, TypeOK
<1>3. ASSUME NEW n \in 0..(InsertRetries - 1), n = call[m].attempt,
             call' = [call EXCEPT ![m].pc = "sleep", ![m].attempt = n + 1],
             deadLetter' = deadLetter,
             \/ n = 0 /\ slots < RetrySlots /\ slots' = slots + 1
             \/ n > 0 /\ slots' = slots
      PROVE  /\ call' \in [Messages -> Call]
             /\ \A k \in Messages : k # m => call'[k] = call[k]
             /\ call'[m].pc = "sleep" /\ call'[m].seen = call[m].seen
             /\ call'[m].end = call[m].end
             /\ SlotsMove(m)
  <2> DEFINE c == [call[m] EXCEPT !.pc = "sleep", !.attempt = n + 1]
  <2>1. call' = [call EXCEPT ![m] = c]
    BY <1>3
  <2>2. n + 1 \in Nat /\ n + 1 <= InsertRetries /\ n + 1 > 0
    OBVIOUS
  <2>3. /\ c \in Call /\ c.pc = "sleep" /\ c.attempt = n + 1
        /\ c.seen = call[m].seen /\ c.end = call[m].end
    BY <1>1, <2>2 DEF Call
  <2>. HIDE DEF c
  <2>4. \/ (c.attempt > 0 <=> call[m].attempt > 0) /\ slots' = slots
        \/ call[m].attempt = 0 /\ c.attempt = 1 /\ slots < RetrySlots /\ slots' = slots + 1
    BY <1>3, <2>2, <2>3
  <2>5. c.pc \notin {"new", "done"} /\ c.attempt <= InsertRetries
    BY <2>2, <2>3
  <2>6. /\ call' \in [Messages -> Call]
        /\ \A k \in Messages : k # m => call'[k] = call[k]
        /\ call'[m] = c
        /\ SlotsMove(m)
    BY <1>1, <2>1, <2>3, <2>4, <2>5, GoesOnShape
  <2>. QED
    BY <2>3, <2>6
<1>4. \/ DeadLetter(m)
      \/ /\ call[m].attempt \in 0..(InsertRetries - 1)
         /\ call' = [call EXCEPT ![m].pc = "sleep", ![m].attempt = call[m].attempt + 1]
         /\ deadLetter' = deadLetter
         /\ \/ call[m].attempt = 0 /\ slots < RetrySlots /\ slots' = slots + 1
            \/ call[m].attempt > 0 /\ slots' = slots
  BY <1>1 DEF InsertFailed, Call
<1>. QED
  BY <1>2, <1>3, <1>4 DEF TypeOK

-----------------------------------------------------------------------------
(* What each step of a call is.                                             *)

\* A call that does not insert holds no lock.
LEMMA NoLock ==
  ASSUME LockOK, NEW m \in Messages, call[m].pc # "insert"
  PROVE  lock \ {m} = lock
BY DEF LockOK

\* A call that goes on without touching its other fields.
LEMMA MovesOn ==
  ASSUME TypeOK, SlotsOK, NEW m \in Messages, NEW pc \in {"finish"} \cup InTx,
         call[m].pc # "done", call' = [call EXCEPT ![m].pc = pc], slots' = slots
  PROVE  /\ call' \in [Messages -> Call]
         /\ \A k \in Messages : k # m => call'[k] = call[k]
         /\ call'[m].pc = pc /\ call'[m].seen = call[m].seen /\ call'[m].end = call[m].end
         /\ SlotsMove(m)
<1> DEFINE c == [call[m] EXCEPT !.pc = pc]
<1>1. /\ c \in Call /\ c.pc = pc /\ c.attempt = call[m].attempt
      /\ c.seen = call[m].seen /\ c.end = call[m].end
  <2>1. call[m] \in Call /\ pc \in {"new", "sleep", "finish", "done"} \cup InTx
    BY DEF TypeOK
  <2>. QED
    BY <2>1 DEF Call
<1>2. call' = [call EXCEPT ![m] = c]
  OBVIOUS
<1>3. c.pc \notin {"new", "done"} /\ c.attempt <= InsertRetries
  BY <1>1 DEF SlotsOK, InTx
<1>. HIDE DEF c
<1>. QED
  BY <1>1, <1>2, <1>3, GoesOnShape

\* Most steps of a call write no row.
LEMMA WithdrawsShape ==
  ASSUME IngestInv, NEW m \in Messages,
         \/ Ignore(m) \/ BumpSeen(m) \/ BumpFails(m) \/ DropDuplicate(m) \/ QuotaRefused(m)
         \/ InsertError(m) \/ Wake(m) \/ FinishAlert(m) \/ RetryPanic(m) \/ HandlerPanic(m)
  PROVE  Withdraws(m) /\ SlotsMove(m)
<1>. TypeOK /\ SlotsOK /\ LockOK
  BY DEF IngestInv
<1>. faults \in Nat /\ deadLetter \subseteq Messages /\ call[m] \in Call
  BY DEF TypeOK
<1>1. CASE Ignore(m)
  BY <1>1, EndsShape, NoLock DEF Ignore, Withdraws, Moved, Accounted, TypeOK
<1>2. CASE BumpFails(m)
  BY <1>2, EndsShape, NoLock DEF BumpFails, Fault, Withdraws, Moved, Accounted, TypeOK
<1>3. CASE BumpSeen(m)
  <2>1. "dupcheck" \in {"finish"} \cup InTx
    BY DEF InTx
  <2>. QED
    BY <1>3, <2>1, MovesOn, NoLock DEF BumpSeen, Withdraws, Moved, TypeOK
<1>4. CASE Wake(m)
  <2>1. "dupcheck" \in {"finish"} \cup InTx
    BY DEF InTx
  <2>. QED
    BY <1>4, <2>1, MovesOn, NoLock DEF Wake, Withdraws, Moved, TypeOK
<1>5. CASE DropDuplicate(m)
  BY <1>5, EndsShape, NoLock
     DEF DropDuplicate, Duplicate, Withdraws, Moved, Accounted, TypeOK
<1>6. CASE FinishAlert(m)
  <2>1. /\ call[m].pc # "done" /\ Ends(m, "stored") /\ call[m].pc # "insert"
        /\ UNCHANGED <<rows, device, lock, deadLetter, faults, crashes>>
    BY <1>6 DEF FinishAlert
  <2>2. \E i \in 1..Len(rows) : rows[i].payload = PayloadOf[m]
    BY <1>6 DEF FinishAlert, IngestInv, DupOK
  <2>. QED
    BY <2>1, <2>2, EndsShape, NoLock DEF Withdraws, Moved, Accounted, TypeOK
<1>7. CASE QuotaRefused(m)
  <2>1. call[m].pc \in InTx
    BY <1>7 DEF QuotaRefused, InTx
  <2>. QED
    BY <1>7, <2>1, FailedShape, NoLock
       DEF QuotaRefused, Withdraws, Moved, Accounted, TypeOK
<1>8. CASE InsertError(m)
  <2>1. call[m].pc # "done" /\ faults' \in Nat
    BY <1>8 DEF InsertError, InTx, Fault
  <2>. QED
    BY <1>8, <2>1, FailedShape DEF InsertError, RollBack, Withdraws, Moved, Accounted, TypeOK
<1>9. CASE RetryPanic(m)
  <2>1. call[m].pc # "done" /\ faults' \in Nat
    BY <1>9 DEF RetryPanic, InTx, Fault
  <2>. QED
    BY <1>9, <2>1, EndsShape
       DEF RetryPanic, DeadLetter, RollBack, Withdraws, Moved, Accounted, TypeOK
<1>10. CASE HandlerPanic(m)
  <2>1. call[m].pc # "done" /\ faults' \in Nat
    BY <1>10 DEF HandlerPanic, InTx, Fault
  <2>. QED
    BY <1>10, <2>1, EndsShape DEF HandlerPanic, RollBack, Withdraws, Moved, Accounted, TypeOK
<1>. QED
  BY <1>1, <1>2, <1>3, <1>4, <1>5, <1>6, <1>7, <1>8, <1>9, <1>10

\* The commit of a row, acknowledged or not.
LEMMA StoresShape ==
  ASSUME IngestInv, NEW m \in Messages, InsertRow(m) \/ InsertAckLost(m)
  PROVE  Stores(m) /\ SlotsMove(m)
<1>. TypeOK /\ SlotsOK
  BY DEF IngestInv
<1>. faults \in Nat /\ deadLetter \subseteq Messages
  BY DEF TypeOK
<1>1. CASE InsertRow(m)
  <2>1. call[m].pc # "done" /\ "finish" \in {"finish"} \cup InTx
    BY <1>1 DEF InsertRow
  <2>. QED
    BY <1>1, <2>1, MovesOn DEF InsertRow, Stores, Moved, TypeOK
<1>2. CASE InsertAckLost(m)
  <2>1. call[m].pc \in InTx /\ faults' \in Nat
    BY <1>2 DEF InsertAckLost, InTx, Fault
  <2>. QED
    BY <1>2, <2>1, FailedShape DEF InsertAckLost, Stores, Moved, TypeOK
<1>. QED
  BY <1>1, <1>2

\* The duplicate check moves the call to the quota, or past it.
LEMMA DupCheckShape ==
  ASSUME IngestInv, NEW m \in Messages, DupCheck(m)
  PROVE  /\ Moved(m) /\ SlotsMove(m)
         /\ call'[m].pc = IF EventsPerDay = 0 THEN "insert" ELSE "quota"
         /\ call'[m].seen = Len(rows) /\ call'[m].end = call[m].end
<1> DEFINE c == [call[m] EXCEPT !.pc = IF EventsPerDay = 0 THEN "insert" ELSE "quota",
                                !.seen = Len(rows)]
<1>1. TypeOK /\ SlotsOK /\ call[m] \in Call /\ Len(rows) \in Nat /\ faults \in Nat
  BY DEF IngestInv, TypeOK
<1>2. call' = [call EXCEPT ![m] = c]
  BY DEF DupCheck
<1>3. /\ c \in Call /\ c.seen = Len(rows)
      /\ c.pc = IF EventsPerDay = 0 THEN "insert" ELSE "quota"
      /\ c.attempt = call[m].attempt /\ c.end = call[m].end
  BY <1>1 DEF Call, InTx
<1>4. c.pc \notin {"new", "done"} /\ c.attempt <= InsertRetries
  BY <1>1, <1>3 DEF SlotsOK
<1>. HIDE DEF c
<1>5. call[m].pc # "done" /\ slots' = slots
  BY DEF DupCheck
<1>. QED
  BY <1>1, <1>2, <1>3, <1>4, <1>5, GoesOnShape DEF Moved, DupCheck

\* The call that found room holds the lock.
LEMMA QuotaLockShape ==
  ASSUME IngestInv, NEW m \in Messages, QuotaLock(m)
  PROVE  /\ Moved(m) /\ SlotsMove(m)
         /\ call'[m].pc = "insert"
         /\ call'[m].seen = call[m].seen /\ call'[m].end = call[m].end
<1>1. TypeOK /\ SlotsOK /\ faults \in Nat /\ "insert" \in {"finish"} \cup InTx
  BY DEF IngestInv, TypeOK, InTx
<1>. QED
  BY <1>1, MovesOn DEF QuotaLock, Moved

-----------------------------------------------------------------------------
(* Each shape keeps the invariant.                                          *)

\* The slots follow the retrying calls.
LEMMA SlotsKept ==
  ASSUME TypeOK, SlotsOK, NEW m \in Messages, call' \in [Messages -> Call], SlotsMove(m)
  PROVE  SlotsOK'
<1>1. \A k \in Messages : k # m => (k \in Retrying' <=> k \in Retrying)
  BY DEF SlotsMove, Retrying, Running
<1>2. m \in Retrying <=> Running(m) /\ call[m].attempt > 0
  BY DEF Retrying
<1>3. m \in Retrying' <=> call'[m].pc \notin {"new", "done"} /\ call'[m].attempt > 0
  BY DEF Retrying, Running
<1>4. IsFiniteSet(Retrying) /\ slots = Cardinality(Retrying) /\ slots <= RetrySlots /\ slots \in Nat
  BY FS_CardinalityType DEF SlotsOK
<1>5. IsFiniteSet(Retrying') /\ slots' = Cardinality(Retrying') /\ slots' <= RetrySlots
  <2>1. CASE (m \in Retrying <=> m \in Retrying') /\ slots' = slots
    <3>1. Retrying' = Retrying
      BY <2>1, <1>1 DEF Retrying
    <3>. QED
      BY <2>1, <3>1, <1>4
  <2>2. CASE m \notin Retrying /\ m \in Retrying' /\ slots' = slots + 1 /\ slots < RetrySlots
    <3>1. Retrying' = Retrying \cup {m}
      BY <2>2, <1>1 DEF Retrying
    <3>. QED
      BY <2>2, <3>1, <1>4, FS_AddElement
  <2>3. CASE m \in Retrying /\ m \notin Retrying' /\ slots' = slots - 1
    <3>1. Retrying' = Retrying \ {m}
      BY <2>3, <1>1 DEF Retrying
    <3>. QED
      BY <2>3, <3>1, <1>4, FS_RemoveElement
  <2>. QED
    BY <1>2, <1>3, <2>1, <2>2, <2>3 DEF SlotsMove
<1>6. \A k \in Messages : /\ call'[k].attempt <= InsertRetries
                          /\ call'[k].pc = "new" => call'[k].attempt = 0
  BY DEF SlotsMove, SlotsOK
<1>. QED
  BY <1>5, <1>6 DEF SlotsOK

\* The fields of a stored row.
LEMMA RowFields ==
  ASSUME rows \in Seq(Row), NEW i \in 1..Len(rows)
  PROVE  /\ rows[i] \in Row /\ rows[i].by \in Messages /\ rows[i].payload \in Payloads
         /\ rows[i].seen \in Nat /\ rows[i].age \in {"window", "day", "old", "deleted"}
<1>1. rows[i] \in Row
  OBVIOUS
<1>. QED
  BY <1>1 DEF Row

\* A call that withdraws leaves everything as it was, but gives up its lock.
LEMMA WithdrawsKeeps ==
  ASSUME IngestInv, NEW m \in Messages, Withdraws(m), SlotsMove(m)
  PROVE  IngestInv'
<1>1. /\ call' \in [Messages -> Call]
      /\ \A k \in Messages : k # m => call'[k] = call[k]
      /\ call'[m].pc \in {"dupcheck", "sleep", "done"}
      /\ call'[m].seen = call[m].seen /\ call[m].pc # "done"
      /\ rows' = rows /\ device' = device /\ lock' = lock \ {m}
      /\ deadLetter \subseteq deadLetter' /\ deadLetter' \subseteq Messages
  BY DEF Withdraws, Moved
<1>2. TypeOK'
  BY <1>1 DEF IngestInv, TypeOK, Withdraws, Moved
<1>3. SlotsOK'
  BY <1>1, SlotsKept DEF IngestInv
<1>4. LastDay' = LastDay
  BY <1>1 DEF LastDay
<1>5. LockOK'
  BY <1>1, <1>4 DEF IngestInv, LockOK
<1>6. DupOK'
  BY <1>1 DEF IngestInv, DupOK, DuplicateNeedsOverlap
<1>7. QuotaHeld'
  BY <1>4 DEF IngestInv, QuotaHeld
<1>8. NoSilentLoss'
  <2>1. ASSUME NEW k \in Messages, call'[k].end \in {"duplicate", "failed", "stored"}
        PROVE  k \in deadLetter' \/ \E i \in 1..Len(rows') : rows'[i].payload = PayloadOf[k]
    <3>1. CASE call'[k].end = call[k].end
      BY <2>1, <3>1, <1>1 DEF IngestInv, NoSilentLoss
    <3>2. CASE k = m /\ Accounted(m)
      BY <2>1, <3>2 DEF Accounted
    <3>. QED
      BY <3>1, <3>2, <1>1 DEF Withdraws
  <2>. QED
    BY <2>1 DEF NoSilentLoss
<1>9. StoredOK => StoredOK'
  <2>. SUFFICES ASSUME StoredOK  PROVE StoredOK'
    OBVIOUS
  <2>1. \A i \in 1..Len(rows) : rows[i].by \in Messages
    BY RowFields DEF IngestInv, TypeOK
  <2>2. ASSUME NEW i \in 1..Len(rows), call'[rows[i].by].pc \notin {"new", "done"}
        PROVE  rows[i].age \in {"window", "deleted"}
    BY <2>1, <2>2, <1>1 DEF StoredOK, Running
  <2>3. \A i \in 1..Len(rows) :
          call'[rows[i].by].pc \in {"new", "quota", "insert"} => rows[i].age = "deleted"
    BY <2>1, <1>1 DEF StoredOK
  <2>4. StoredOncePerMessage'
    BY <1>1 DEF StoredOK, StoredOncePerMessage
  <2>. QED
    BY <2>2, <2>3, <2>4, <1>1 DEF StoredOK, Running
<1>. QED
  BY <1>2, <1>3, <1>5, <1>6, <1>7, <1>8, <1>9 DEF IngestInv

\* A row is stored by a call that held the lock while there was room, and that
\* found no row in the window among those it had seen.
LEMMA StoresKeeps ==
  ASSUME IngestInv, NEW m \in Messages, Stores(m), SlotsMove(m)
  PROVE  IngestInv'
<1>1. /\ call' \in [Messages -> Call]
      /\ \A k \in Messages : k # m => call'[k] = call[k]
      /\ call[m].pc = "insert" /\ call'[m].pc \in {"finish", "sleep", "done"}
      /\ call'[m].seen = call[m].seen
      /\ device' = device /\ device /\ lock' = lock \ {m}
      /\ deadLetter \subseteq deadLetter' /\ deadLetter' \subseteq Messages
  BY DEF Stores, Moved
<1>2. call[m] \in Call /\ rows \in Seq(Row) /\ Len(rows) \in Nat
  BY DEF IngestInv, TypeOK
<1>3. /\ NewRow(m) \in Row /\ NewRow(m).payload = PayloadOf[m] /\ NewRow(m).by = m
      /\ NewRow(m).seen = call[m].seen /\ NewRow(m).age = "window"
  BY <1>2 DEF NewRow, Row, Call, Payloads
<1>4. /\ rows' = Append(rows, NewRow(m)) /\ rows' \in Seq(Row) /\ Len(rows') = Len(rows) + 1
      /\ rows'[Len(rows) + 1] = NewRow(m) /\ \A i \in 1..Len(rows) : rows'[i] = rows[i]
  BY <1>2, <1>3 DEF Stores
<1>5. \A i \in 1..Len(rows') : i \in 1..Len(rows) \/ i = Len(rows) + 1
  BY <1>2, <1>4
<1>6. TypeOK'
  BY <1>1, <1>4 DEF IngestInv, TypeOK, Stores, Moved
<1>7. SlotsOK'
  BY <1>1, SlotsKept DEF IngestInv
<1>8. Cardinality(LastDay') = Cardinality(LastDay) + 1 /\ Cardinality(LastDay) \in Nat
  BY <1>2, <1>3, <1>4, LastDayGrows, LastDayFinite
<1>9. EventsPerDay > 0 => lock = {m} /\ Cardinality(LastDay) < EventsPerDay
  <2>1. EventsPerDay > 0 => lock = {m}
    BY <1>1 DEF IngestInv, LockOK
  <2>2. lock = {m} => Cardinality(LastDay) < EventsPerDay
    BY DEF IngestInv, LockOK
  <2>. QED
    BY <2>1, <2>2
<1>10. lock' = {}
  <2>1. EventsPerDay = 0 => lock = {}
    BY <1>8 DEF IngestInv, LockOK
  <2>. QED
    BY <2>1, <1>1, <1>9
<1>11. LockOK'
  BY <1>1, <1>9, <1>10 DEF IngestInv, LockOK
<1>12. QuotaHeld'
  BY <1>8, <1>9 DEF QuotaHeld
<1>13. DupOK'
  <2>1. \A i \in 1..Len(rows') : rows'[i].payload = PayloadOf[rows'[i].by]
    BY <1>3, <1>4, <1>5 DEF IngestInv, DupOK
  <2>2. \A k \in Messages : call'[k].seen = call[k].seen /\ call[k].seen \in Nat
    <3>1. \A k \in Messages : call[k] \in Call
      BY DEF IngestInv, TypeOK
    <3>2. \A k \in Messages : call[k].seen \in Nat
      BY <3>1 DEF Call
    <3>. QED
      BY <3>2, <1>1
  <2>3. \A k \in Messages : call'[k].seen <= Len(rows')
    <3>1. \A k \in Messages : call[k].seen <= Len(rows)
      BY DEF IngestInv, DupOK
    <3>. QED
      BY <3>1, <2>2, <1>2, <1>4, SMTT(20)
  <2>4. ASSUME NEW k \in Messages, call'[k].pc \in {"quota", "insert"},
               NEW i \in 1..call'[k].seen, rows'[i].payload = PayloadOf[k]
        PROVE  rows'[i].age # "window"
    <3>1. k # m /\ call[k].pc \in {"quota", "insert"}
      BY <1>1, <2>4
    <3>2. i \in 1..call[k].seen /\ i \in 1..Len(rows) /\ rows'[i] = rows[i]
      BY <2>2, <2>3, <1>2, <1>4 DEF IngestInv, DupOK
    <3>. QED
      BY <3>1, <3>2, <2>4 DEF IngestInv, DupOK
  <2>5. DuplicateNeedsOverlap'
    <3>1. ASSUME NEW j \in 1..Len(rows'), NEW i \in 1..(j - 1),
                 rows'[i].payload = rows'[j].payload, rows'[i].age = "window"
          PROVE  rows'[j].seen < i
      <4>1. i \in 1..Len(rows) /\ rows'[i] = rows[i]
        BY <1>2, <1>4
      <4>2. CASE j \in 1..Len(rows)
        BY <3>1, <4>1, <4>2, <1>4 DEF IngestInv, DupOK, DuplicateNeedsOverlap
      <4>3. CASE j = Len(rows) + 1
        <5>1. rows[i].payload = PayloadOf[m] /\ rows[i].age = "window"
          BY <3>1, <4>1, <4>3, <1>3, <1>4
        <5>2. i \notin 1..call[m].seen
          BY <5>1, <1>1 DEF IngestInv, DupOK
        <5>. QED
          BY <5>2, <4>3, <2>2, <1>3, <1>4
      <4>. QED
        BY <4>2, <4>3, <1>5
    <3>. QED
      BY <3>1 DEF DuplicateNeedsOverlap
  <2>. QED
    BY <2>1, <2>3, <2>4, <2>5 DEF DupOK
<1>14. NoSilentLoss'
  <2>1. ASSUME NEW k \in Messages, call'[k].end \in {"duplicate", "failed", "stored"}
        PROVE  k \in deadLetter' \/ \E i \in 1..Len(rows') : rows'[i].payload = PayloadOf[k]
    <3>1. CASE k = m
      <4>1. Len(rows) + 1 \in 1..Len(rows') /\ rows'[Len(rows) + 1].payload = PayloadOf[k]
        BY <3>1, <1>2, <1>3, <1>4
      <4>. QED
        BY <4>1
    <3>2. CASE k # m
      <4>1. k \in deadLetter \/ \E i \in 1..Len(rows) : rows[i].payload = PayloadOf[k]
        BY <2>1, <3>2, <1>1 DEF IngestInv, NoSilentLoss
      <4>2. \A i \in 1..Len(rows) : i \in 1..Len(rows') /\ rows'[i] = rows[i]
        BY <1>2, <1>4
      <4>. QED
        BY <4>1, <4>2, <1>1
    <3>. QED
      BY <3>1, <3>2
  <2>. QED
    BY <2>1 DEF NoSilentLoss
<1>15. StoredOK => StoredOK'
  <2>. SUFFICES ASSUME StoredOK  PROVE StoredOK'
    OBVIOUS
  <2>1. \A i \in 1..Len(rows) : rows[i].by \in Messages
    BY <1>2, RowFields
  <2>2. \A i \in 1..Len(rows) : rows[i].by = m => rows[i].age = "deleted"
    BY <1>1 DEF StoredOK
  <2>3. ASSUME NEW i \in 1..Len(rows'), call'[rows'[i].by].pc \notin {"new", "done"}
        PROVE  rows'[i].age \in {"window", "deleted"}
    <3>1. CASE i = Len(rows) + 1
      BY <3>1, <1>3, <1>4
    <3>2. CASE i \in 1..Len(rows) /\ rows[i].by = m
      BY <3>2, <2>2, <1>4
    <3>3. CASE i \in 1..Len(rows) /\ rows[i].by # m
      BY <2>3, <3>3, <2>1, <1>1, <1>4 DEF StoredOK, Running
    <3>. QED
      BY <3>1, <3>2, <3>3, <1>5
  <2>4. ASSUME NEW i \in 1..Len(rows'), call'[rows'[i].by].pc \in {"new", "quota", "insert"}
        PROVE  rows'[i].age = "deleted"
    <3>1. rows'[i].by # m
      BY <2>4, <1>1
    <3>2. i \in 1..Len(rows)
      BY <3>1, <1>3, <1>4, <1>5
    <3>. QED
      BY <2>4, <3>1, <3>2, <2>1, <1>1, <1>4 DEF StoredOK
  <2>5. StoredOncePerMessage'
    BY <2>2, <1>2, <1>3, <1>4, <1>5 DEF StoredOK, StoredOncePerMessage
  <2>. QED
    BY <2>3, <2>4, <2>5 DEF StoredOK, Running
<1>. QED
  BY <1>6, <1>7, <1>11, <1>12, <1>13, <1>14, <1>15 DEF IngestInv

\* A call is past the duplicate check: none of the rows is in the window.
LEMMA DupCheckKeeps ==
  ASSUME IngestInv, NEW m \in Messages, DupCheck(m)
  PROVE  IngestInv'
<1>1. /\ call' \in [Messages -> Call] /\ SlotsMove(m)
      /\ \A k \in Messages : k # m => call'[k] = call[k]
      /\ call'[m].pc = IF EventsPerDay = 0 THEN "insert" ELSE "quota"
      /\ call'[m].seen = Len(rows) /\ call'[m].end = call[m].end
  BY DupCheckShape DEF Moved
<1>2. /\ rows' = rows /\ device' = device /\ lock' = lock /\ deadLetter' = deadLetter
      /\ call[m].pc = "dupcheck" /\ ~Duplicate(m)
  BY DEF DupCheck
<1>3. rows \in Seq(Row) /\ Len(rows) \in Nat
  BY DEF IngestInv, TypeOK
<1>4. TypeOK'
  BY <1>1, <1>2, DupCheckShape DEF IngestInv, TypeOK, Moved
<1>5. SlotsOK'
  BY <1>1, SlotsKept DEF IngestInv
<1>6. LastDay' = LastDay
  BY <1>2 DEF LastDay
<1>7. LockOK'
  BY <1>1, <1>2, <1>6 DEF IngestInv, LockOK
<1>8. DupOK'
  <2>1. \A k \in Messages : call'[k].seen <= Len(rows')
    BY <1>1, <1>2, <1>3 DEF IngestInv, DupOK
  <2>2. \A k \in Messages : call'[k].pc \in {"quota", "insert"} =>
          \A i \in 1..call'[k].seen : rows'[i].payload = PayloadOf[k] => rows'[i].age # "window"
    BY <1>1, <1>2 DEF IngestInv, DupOK, Duplicate
  <2>. QED
    BY <2>1, <2>2, <1>2 DEF IngestInv, DupOK, DuplicateNeedsOverlap
<1>9. QuotaHeld' /\ NoSilentLoss'
  BY <1>1, <1>2, <1>6 DEF IngestInv, QuotaHeld, NoSilentLoss
<1>10. StoredOK => StoredOK'
  <2>. SUFFICES ASSUME StoredOK  PROVE StoredOK'
    OBVIOUS
  <2>1. \A i \in 1..Len(rows) : rows[i].by \in Messages /\ rows[i].payload = PayloadOf[rows[i].by]
    BY <1>3, RowFields DEF IngestInv, DupOK
  <2>2. \A i \in 1..Len(rows) : rows[i].by = m => rows[i].age = "deleted"
    BY <2>1, <1>2 DEF StoredOK, Running, Duplicate
  <2>. QED
    BY <2>1, <2>2, <1>1, <1>2 DEF StoredOK, StoredOncePerMessage, Running
<1>. QED
  BY <1>4, <1>5, <1>7, <1>8, <1>9, <1>10 DEF IngestInv

\* A call takes the lock while there is room.
LEMMA QuotaLockKeeps ==
  ASSUME IngestInv, NEW m \in Messages, QuotaLock(m)
  PROVE  IngestInv'
<1>1. /\ call' \in [Messages -> Call] /\ SlotsMove(m)
      /\ \A k \in Messages : k # m => call'[k] = call[k]
      /\ call'[m].pc = "insert"
      /\ call'[m].seen = call[m].seen /\ call'[m].end = call[m].end
  BY QuotaLockShape DEF Moved
<1>2. /\ rows' = rows /\ device' = device /\ lock' = {m} /\ deadLetter' = deadLetter
      /\ call[m].pc = "quota" /\ lock = {} /\ ~QuotaFull
  BY DEF QuotaLock
<1>3. TypeOK'
  BY <1>1, <1>2, QuotaLockShape DEF IngestInv, TypeOK, Moved
<1>4. SlotsOK'
  BY <1>1, SlotsKept DEF IngestInv
<1>5. LastDay' = LastDay /\ Cardinality(LastDay) \in Nat
  BY <1>2, LastDayFinite DEF LastDay, IngestInv, TypeOK
<1>6. LockOK'
  <2>1. EventsPerDay > 0 /\ Cardinality(LastDay) < EventsPerDay
    BY <1>2, <1>5 DEF IngestInv, LockOK, QuotaFull
  <2>2. \A k \in Messages : call'[k].pc = "insert" => k = m
    BY <2>1, <1>1, <1>2 DEF IngestInv, LockOK
  <2>. QED
    BY <2>1, <2>2, <1>1, <1>2, <1>5 DEF LockOK
<1>7. DupOK'
  BY <1>1, <1>2 DEF IngestInv, DupOK, DuplicateNeedsOverlap
<1>8. QuotaHeld' /\ NoSilentLoss'
  BY <1>1, <1>2, <1>5 DEF IngestInv, QuotaHeld, NoSilentLoss
<1>9. StoredOK => StoredOK'
  <2>1. \A i \in 1..Len(rows) : rows[i].by \in Messages
    BY RowFields DEF IngestInv, TypeOK
  <2>. QED
    BY <2>1, <1>1, <1>2 DEF StoredOK, StoredOncePerMessage, Running
<1>. QED
  BY <1>3, <1>4, <1>6, <1>7, <1>8, <1>9 DEF IngestInv

-----------------------------------------------------------------------------
(* Time, deletion, process death.                                           *)

\* Rows only age: whoever was in the window, or of the last day, was before.
Ages ==
    /\ rows' \in Seq(Row) /\ Len(rows') = Len(rows)
    /\ \A i \in 1..Len(rows) :
          /\ rows'[i].payload = rows[i].payload /\ rows'[i].by = rows[i].by
          /\ rows'[i].seen = rows[i].seen
          /\ rows'[i].age = "window" => rows[i].age = "window"
          /\ rows'[i].age \in {"window", "day"} => rows[i].age \in {"window", "day"}
          /\ rows[i].age = "deleted" => rows'[i].age = "deleted"
          /\ RetrySpan < DedupWindow /\ Running(rows[i].by) =>
                rows'[i].age = rows[i].age \/ rows'[i].age = "deleted"
    /\ UNCHANGED <<call, lock, slots, deadLetter, faults, crashes>>
    /\ device' \in BOOLEAN

\* Rows that only age keep the invariant.
LEMMA AgesKeeps ==
  ASSUME IngestInv, Ages
  PROVE  IngestInv'
<1>1. rows \in Seq(Row) /\ \A i \in 1..Len(rows) : rows[i].by \in Messages
  BY RowFields DEF IngestInv, TypeOK
<1>2. TypeOK'
  BY DEF IngestInv, TypeOK, Ages
<1>3. SlotsOK'
  BY DEF IngestInv, SlotsOK, Ages, Retrying, Running
<1>4. /\ Cardinality(LastDay') <= Cardinality(LastDay)
      /\ Cardinality(LastDay') \in Nat /\ Cardinality(LastDay) \in Nat
  <2>1. Cardinality(LastDay') \in Nat
    <3>1. LastDay' \subseteq LastDay
      BY DEF LastDay, Ages
    <3>. QED
      BY <3>1, <1>1, LastDayFinite, FS_Subset, FS_CardinalityType
  <2>. QED
    BY <2>1, <1>1, LastDayShrinks, LastDayFinite DEF Ages
<1>5. LockOK'
  <2>1. lock # {} => Cardinality(LastDay') < EventsPerDay
    BY <1>4 DEF IngestInv, LockOK
  <2>. QED
    BY <2>1 DEF IngestInv, LockOK, Ages
<1>6. QuotaHeld'
  BY <1>4 DEF IngestInv, QuotaHeld
<1>7. DupOK'
  <2>1. \A m \in Messages : call[m].seen <= Len(rows) /\ call[m].seen \in Nat /\ Len(rows) \in Nat
    <3>1. \A m \in Messages : call[m] \in Call
      BY DEF IngestInv, TypeOK
    <3>2. \A m \in Messages : call[m].seen \in Nat
      BY <3>1 DEF Call
    <3>. QED
      BY <3>2, <1>1 DEF IngestInv, DupOK
  <2>2. ASSUME NEW m \in Messages, call[m].pc \in {"quota", "insert"},
               NEW i \in 1..call[m].seen, rows'[i].payload = PayloadOf[m]
        PROVE  rows'[i].age # "window"
    <3>1. i \in 1..Len(rows)
      BY <2>1
    <3>. QED
      BY <2>2, <3>1 DEF IngestInv, DupOK, Ages
  <2>3. DuplicateNeedsOverlap'
    <3>1. ASSUME NEW j \in 1..Len(rows), NEW i \in 1..(j - 1),
                 rows'[i].payload = rows'[j].payload, rows'[i].age = "window"
          PROVE  rows'[j].seen < i
      <4>1. i \in 1..Len(rows)
        BY <1>1
      <4>. QED
        BY <3>1, <4>1 DEF IngestInv, DupOK, DuplicateNeedsOverlap, Ages
    <3>. QED
      BY <3>1 DEF DuplicateNeedsOverlap, Ages
  <2>. QED
    BY <2>1, <2>2, <2>3 DEF IngestInv, DupOK, Ages
<1>8. NoSilentLoss'
  BY DEF IngestInv, NoSilentLoss, Ages
<1>9. RetrySpan < DedupWindow => StoredOK'
  <2>. SUFFICES ASSUME RetrySpan < DedupWindow, StoredOK  PROVE StoredOK'
    BY DEF IngestInv
  <2>1. ASSUME NEW i \in 1..Len(rows), Running(rows[i].by)
        PROVE  rows'[i].age \in {"window", "deleted"}
    BY <2>1 DEF StoredOK, Ages
  <2>2. ASSUME NEW i \in 1..Len(rows), call[rows[i].by].pc \in {"new", "quota", "insert"}
        PROVE  rows'[i].age = "deleted"
    BY <2>2 DEF StoredOK, Ages
  <2>3. StoredOncePerMessage'
    <3>1. \A i \in 1..Len(rows) : rows'[i].age # "deleted" => rows[i].age # "deleted"
      BY DEF Ages
    <3>. QED
      BY <3>1 DEF StoredOK, StoredOncePerMessage, Ages
  <2>. QED
    BY <2>1, <2>2, <2>3 DEF StoredOK, Ages, Running
<1>. QED
  BY <1>2, <1>3, <1>5, <1>6, <1>7, <1>8, <1>9 DEF IngestInv

\* A row of another age is a row.
LEMMA RowAges ==
  ASSUME NEW x \in Row, NEW age \in {"window", "day", "old", "deleted"}
  PROVE  /\ [x EXCEPT !.age = age] \in Row
         /\ [x EXCEPT !.age = age].payload = x.payload /\ [x EXCEPT !.age = age].by = x.by
         /\ [x EXCEPT !.age = age].seen = x.seen /\ [x EXCEPT !.age = age].age = age
BY DEF Row

\* One row leaves the window, or the last day.
LEMMA LeaveShape ==
  ASSUME IngestInv, NEW i \in 1..Len(rows), LeaveWindow(i) \/ LeaveDay(i)
  PROVE  Ages
<1>1. rows \in Seq(Row) /\ rows[i] \in Row /\ device \in BOOLEAN
  BY RowFields DEF IngestInv, TypeOK
<1>2. PICK age \in {"day", "old"} :
        /\ rows' = [rows EXCEPT ![i].age = age]
        /\ age = "day" => rows[i].age = "window"
        /\ age = "old" => rows[i].age = "day"
        /\ age = "day" /\ RetrySpan < DedupWindow => ~Running(rows[i].by)
  BY DEF LeaveWindow, LeaveDay
<1> DEFINE x == [rows[i] EXCEPT !.age = age]
<1>3. x \in Row /\ x.payload = rows[i].payload /\ x.by = rows[i].by /\ x.seen = rows[i].seen
      /\ x.age = age
  <2>1. age \in {"window", "day", "old", "deleted"}
    BY <1>2
  <2>. QED
    BY <1>1, <2>1 DEF Row
<1>4. rows' = [rows EXCEPT ![i] = x]
  BY <1>2
<1>. HIDE DEF x
<1>5. /\ rows' \in Seq(Row) /\ Len(rows') = Len(rows) /\ rows'[i] = x
      /\ \A j \in 1..Len(rows) : j # i => rows'[j] = rows[j]
  BY <1>1, <1>3, <1>4
<1>6. age = "old" /\ RetrySpan < DedupWindow => ~Running(rows[i].by)
  <2>1. Running(rows[i].by) /\ RetrySpan < DedupWindow => rows[i].age \in {"window", "deleted"}
    BY DEF IngestInv, StoredOK
  <2>. QED
    BY <2>1, <1>2
<1>7. ASSUME NEW j \in 1..Len(rows)
      PROVE  /\ rows'[j].payload = rows[j].payload /\ rows'[j].by = rows[j].by
             /\ rows'[j].seen = rows[j].seen
             /\ rows'[j].age = "window" => rows[j].age = "window"
             /\ rows'[j].age \in {"window", "day"} => rows[j].age \in {"window", "day"}
             /\ rows[j].age = "deleted" => rows'[j].age = "deleted"
             /\ RetrySpan < DedupWindow /\ Running(rows[j].by) =>
                   rows'[j].age = rows[j].age \/ rows'[j].age = "deleted"
  <2>1. CASE j = i
    BY <2>1, <1>2, <1>3, <1>5, <1>6
  <2>2. CASE j # i
    BY <2>2, <1>5
  <2>. QED
    BY <2>1, <2>2
<1>8. UNCHANGED <<call, lock, slots, deadLetter, faults, crashes>> /\ device' = device
  BY DEF LeaveWindow, LeaveDay
<1>. QED
  BY <1>1, <1>5, <1>7, <1>8 DEF Ages

\* All rows go with the device.
LEMMA DeleteShape ==
  ASSUME IngestInv, DeleteDevice
  PROVE  Ages
<1>1. rows \in Seq(Row) /\ Len(rows) \in Nat /\ \A i \in 1..Len(rows) : rows[i] \in Row
  BY RowFields DEF IngestInv, TypeOK
<1>2. rows' = [i \in 1..Len(rows) |-> [rows[i] EXCEPT !.age = "deleted"]]
  BY DEF DeleteDevice
<1>3. \A i \in 1..Len(rows) :
        /\ rows'[i] \in Row
        /\ rows'[i].payload = rows[i].payload /\ rows'[i].by = rows[i].by
        /\ rows'[i].seen = rows[i].seen /\ rows'[i].age = "deleted"
  BY <1>1, <1>2, RowAges
<1>4. rows' \in Seq(Row) /\ Len(rows') = Len(rows)
  BY <1>1, <1>2, <1>3
<1>. QED
  BY <1>3, <1>4 DEF DeleteDevice, Ages

\* The process dies: no call runs, no lock is held, no slot is taken.
LEMMA CrashKeeps ==
  ASSUME IngestInv, Crash
  PROVE  IngestInv'
<1>1. \A m \in Messages : call[m] \in Call
  BY DEF IngestInv, TypeOK
<1>2. ASSUME NEW m \in Messages
      PROVE  /\ call'[m] \in Call
             /\ call'[m].pc \in {"new", "done"} /\ call'[m].seen = call[m].seen
             /\ call'[m].attempt = call[m].attempt
             /\ call'[m].pc = "new" => call[m].pc = "new"
             /\ call'[m].end = call[m].end \/ call'[m].end = "killed"
  <2>1. CASE Running(m)
    <3>1. call'[m] = [call[m] EXCEPT !.pc = "done", !.end = "killed"]
      BY <2>1 DEF Crash
    <3>. QED
      BY <3>1, <1>1 DEF Call
  <2>2. CASE ~Running(m)
    BY <2>2, <1>1 DEF Crash, Running
  <2>. QED
    BY <2>1, <2>2
<1>3. rows' = rows /\ device' = device /\ lock' = {} /\ deadLetter' = deadLetter /\ slots' = 0
      /\ faults' = faults
  BY DEF Crash
<1>4. TypeOK'
  <2>1. call' \in [Messages -> Call]
    <3>1. call' = [m \in Messages |-> call'[m]]
      BY DEF Crash
    <3>. QED
      BY <1>2, <3>1
  <2>2. crashes' \in Nat
    <3>1. crashes \in Nat
      BY DEF IngestInv, TypeOK
    <3>2. crashes' = crashes + 1
      BY DEF Crash
    <3>. QED
      BY <3>1, <3>2
  <2>. QED
    BY <2>1, <2>2, <1>3 DEF IngestInv, TypeOK
<1>5. SlotsOK'
  <2>1. Retrying' = {}
    BY <1>2 DEF Retrying, Running
  <2>. QED
    BY <2>1, <1>2, <1>3, FS_EmptySet DEF IngestInv, SlotsOK
<1>6. LockOK'
  BY <1>2, <1>3 DEF LockOK
<1>7. DupOK'
  BY <1>2, <1>3 DEF IngestInv, DupOK, DuplicateNeedsOverlap
<1>8. QuotaHeld'
  BY <1>3 DEF IngestInv, QuotaHeld, LastDay
<1>9. NoSilentLoss'
  BY <1>2, <1>3 DEF IngestInv, NoSilentLoss
<1>10. StoredOK => StoredOK'
  <2>1. \A i \in 1..Len(rows) : rows[i].by \in Messages
    BY RowFields DEF IngestInv, TypeOK
  <2>. QED
    BY <2>1, <1>2, <1>3 DEF StoredOK, StoredOncePerMessage, Running
<1>. QED
  BY <1>4, <1>5, <1>6, <1>7, <1>8, <1>9, <1>10 DEF IngestInv

\* Every step keeps the invariant.
LEMMA NextKeeps ==
  ASSUME IngestInv, [Next]_vars
  PROVE  IngestInv'
<1>1. ASSUME NEW m \in Messages, Ignore(m) \/ BumpFails(m) \/ Handle(m)
      PROVE  IngestInv'
  <2>1. CASE DupCheck(m)
    BY <2>1, DupCheckKeeps
  <2>2. CASE QuotaLock(m)
    BY <2>2, QuotaLockKeeps
  <2>3. CASE InsertRow(m) \/ InsertAckLost(m)
    BY <2>3, StoresShape, StoresKeeps
  <2>4. CASE \/ Ignore(m) \/ BumpSeen(m) \/ BumpFails(m) \/ DropDuplicate(m) \/ QuotaRefused(m)
             \/ InsertError(m) \/ Wake(m) \/ FinishAlert(m) \/ RetryPanic(m) \/ HandlerPanic(m)
    BY <2>4, WithdrawsShape, WithdrawsKeeps
  <2>. QED
    BY <1>1, <2>1, <2>2, <2>3, <2>4 DEF Handle
<1>2. ASSUME NEW i \in 1..Len(rows), LeaveWindow(i) \/ LeaveDay(i)
      PROVE  IngestInv'
  BY <1>2, LeaveShape, AgesKeeps
<1>3. CASE DeleteDevice
  BY <1>3, DeleteShape, AgesKeeps
<1>4. CASE Crash
  BY <1>4, CrashKeeps
<1>5. CASE UNCHANGED vars
  <2>1. \A i \in 1..Len(rows) : rows'[i] = rows[i]
    BY <1>5 DEF vars
  <2>2. Ages
    BY <1>5, <2>1 DEF vars, Ages, IngestInv, TypeOK
  <2>. QED
    BY <2>2, AgesKeeps
<1>. QED
  BY <1>1, <1>2, <1>3, <1>4, <1>5 DEF Next

\* A started process has stored nothing and runs nothing.
LEMMA InitHolds ==
  ASSUME Init
  PROVE  IngestInv
<1>1. \A m \in Messages : /\ call[m].pc = "new" /\ call[m].attempt = 0 /\ call[m].seen = 0
                          /\ call[m].end = "none"
  BY DEF Init
<1>2. TypeOK
  <2>1. call \in [Messages -> Call]
    BY DEF Init, Call
  <2>. QED
    BY <2>1 DEF Init, TypeOK
<1>3. SlotsOK
  <2>1. Retrying = {}
    BY <1>1 DEF Retrying, Running
  <2>. QED
    BY <2>1, <1>1, FS_EmptySet DEF Init, SlotsOK
<1>4. LockOK /\ DupOK /\ NoSilentLoss /\ StoredOK
  BY <1>1 DEF Init, LockOK, DupOK, DuplicateNeedsOverlap, NoSilentLoss, StoredOK,
              StoredOncePerMessage
<1>5. QuotaHeld
  <2>1. LastDay = {}
    BY DEF Init, LastDay
  <2>. QED
    BY <2>1, FS_EmptySet DEF QuotaHeld
<1>. QED
  BY <1>2, <1>3, <1>4, <1>5 DEF IngestInv

-----------------------------------------------------------------------------
(* The theorems.                                                            *)

\* The invariant holds throughout (handleAlert, retryAlertInsert, InsertAlert).
THEOREM IngestInvariant == Spec => []IngestInv
<1>1. Init => IngestInv
  BY InitHolds
<1>2. IngestInv /\ [Next]_vars => IngestInv'
  BY NextKeeps
<1>. QED
  BY <1>1, <1>2, PTL DEF Spec

\* However many handlers and retries insert at once, the last 24 hours never
\* hold more rows than the quota: the advisory lock spans count and insert.
THEOREM QuotaIsHeld == Spec => []QuotaHeld
<1>1. IngestInv => QuotaHeld
  BY DEF IngestInv
<1>. QED
  BY <1>1, IngestInvariant, PTL

\* How far the dedup window holds: it lets a second row of a payload in, and
\* with it a second notification (RedeliveryNotifiesOnce), only when the first
\* row was committed after the second call's duplicate check (InsertAlert).
THEOREM DuplicatesOverlap == Spec => []DuplicateNeedsOverlap
<1>1. IngestInv => DuplicateNeedsOverlap
  BY DEF IngestInv, DupOK
<1>. QED
  BY <1>1, IngestInvariant, PTL

\* A call that ends as stored, as a duplicate or with its retries used up has
\* its payload in a row or in an error line, whatever panics in a retry; a
\* failed bump, a panic in the handler and the death of the process are not
\* among these ends (finishAlert, retryAlertInsert).
THEOREM NothingLostSilently == Spec => []NoSilentLoss
<1>1. IngestInv => NoSilentLoss
  BY DEF IngestInv
<1>. QED
  BY <1>1, IngestInvariant, PTL

\* As long as the retries' sleeps fit into the dedup window, which they do with
\* the constants of pkg/mqtt, a message is stored once, however many commits
\* lose their acknowledgement.
THEOREM StoredOnce ==
  ASSUME RetrySpan < DedupWindow
  PROVE  Spec => []StoredOncePerMessage
<1>1. IngestInv => StoredOncePerMessage
  BY DEF IngestInv, StoredOK
<1>. QED
  BY <1>1, IngestInvariant, PTL

\* The slot count is exactly the number of retry goroutines that run, and never
\* exceeds its capacity: none leaks on an error, a panic or a restart.
SlotsExact == slots = Cardinality(Retrying) /\ slots <= RetrySlots

\* No retry slot leaks, and no more retries run than there are slots
\* (insertRetrySlots, the deferred receive of retryAlertInsert).
THEOREM SlotsNeverLeak == Spec => []SlotsExact
<1>1. IngestInv => SlotsExact
  BY DEF IngestInv, SlotsOK, SlotsExact
<1>. QED
  BY <1>1, IngestInvariant, PTL
=============================================================================
