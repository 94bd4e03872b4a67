---------------------------- MODULE DeviceWrite ----------------------------
(***************************************************************************)
(* Writing a file to a device and reading its configuration from the admin  *)
(* pages (pkg/web admin_config.go, request_store.go; DeviceFilesService     *)
(* Upsert), over the CLI of module DeviceCLI.                               *)
(*                                                                          *)
(* One device and one file.  A writer is one POST of config/write, a reader *)
(* one POST of config/cmd with config.dump; more of either are more         *)
(* elements.  Content is a sequence of chunks <<writer, i>>, all the same   *)
(* length, the case in which byte counts tell the least.                    *)
(***************************************************************************)
EXTENDS Integers, Sequences, FiniteSets

CONSTANTS
    Writers, Readers,
    NoOne,
    ChunksOf,       \* chunks of each writer's content
    DumpPages,      \* pages of a config.dump answer
    EchoReqID,
    Mixes,          \* bound: the sets of requests posted in one behaviour
    MaxFaults

Callers == Writers \cup Readers
ASSUME WriteAssumption ==
    /\ Writers \cap Readers = {} /\ NoOne \notin Callers
    /\ EchoReqID \in BOOLEAN /\ MaxFaults \in Nat
    /\ ChunksOf \in [Writers -> Nat \ {0}]
    /\ DumpPages \in Nat \ {0}
    /\ Mixes \subseteq SUBSET Callers

Content(w) == [i \in 1..ChunksOf[w] |-> <<w, i>>]
Original == << <<NoOne, 1>> >>
Mixed == << <<NoOne, 0>> >>
Nothing == <<>>

VARIABLES lock, call, toDevice, fromDevice, faults
CLI == INSTANCE DeviceCLI

VARIABLES
    live,           \* <path> on the device
    staged,         \* <path>.new: {} or {its content}
    claimed,        \* deviceWrites holds the device
    pc,             \* where each goroutine is
    sent,           \* chunks of the content acknowledged
    status,         \* the writeFailure's status
    entry,          \* s.cliRequests
    read,           \* content a reader got
    prev,           \* prev_sha256 an Upsert has read
    rows, history,  \* device_files and device_file_history
    dirty           \* (history) "leavings": a write began on top of another one's,
                    \* "taken": a write lost its claim to the release of another

deviceVars == <<live, staged>>
cliVars == <<lock, call, toDevice, fromDevice>>
vars == <<lock, call, toDevice, fromDevice, faults, live, staged, claimed, pc,
          sent, status, entry, read, prev, rows, history, dirty>>

Paths == {"config.json", "/config.json"}
\* The page reads config.json and writes /config.json.
PathOf(p) == IF p \in Readers THEN "config.json" ELSE "/config.json"
Terminal == {"done", "timeout", "error"}

Init ==
    /\ CLI!CLIInit
    /\ live = Original
    /\ staged = {}
    /\ claimed = FALSE
    /\ pc = [p \in Callers |-> "new"]
    /\ sent = [w \in Writers |-> 0]
    /\ status = [p \in Callers |-> "done"]
    /\ entry = [p \in Callers |-> "none"]
    /\ read = [r \in Readers |-> Nothing]
    /\ prev = [p \in Callers |-> Nothing]
    /\ rows = [a \in Paths |-> Nothing]
    /\ history = [a \in Paths |-> <<>>]
    /\ dirty = {}

Goto(p, l) == pc' = [pc EXCEPT ![p] = l]

-----------------------------------------------------------------------------
(* The device (external): what the firmware does with a command.            *)

ReplyTo(c, ok, line, n) ==
    [to |-> c, ok |-> ok, line |-> line, n |-> n, data |-> Nothing, page |-> 0, more |-> FALSE]

\* fs.write truncates, fs.append creates a missing file.
Before(c) == IF c.cmd = "fs.append" /\ staged # {} THEN staged ELSE {Nothing}

DeviceStores(c) ==
    /\ c.cmd \in {"fs.write", "fs.append"}
    /\ \/ /\ staged' = {Append(s, <<c.by, c.chunk>>) : s \in Before(c)}
          /\ CLI!Answer(<<ReplyTo(c, TRUE, "ack", 1)>>)
          /\ UNCHANGED <<live, faults>>
       \/ \* a short write, or one whose close fails after the count was taken
          /\ CLI!Fault
          /\ staged' = Before(c)
          /\ \E n \in {0, 1} : CLI!Answer(<<ReplyTo(c, TRUE, "ack", n)>>)
          /\ UNCHANGED live
       \/ \* refused: nothing is created
          /\ CLI!Fault
          /\ CLI!Answer(<<ReplyTo(c, FALSE, "other", 0)>>)
          /\ UNCHANGED deviceVars

DeviceSizes(c) ==
    /\ c.cmd = "fs.cat"
    /\ \/ \E s \in staged : CLI!Answer(<<ReplyTo(c, TRUE, "other", Len(s))>>)
       \/ staged = {} /\ CLI!Answer(<<ReplyTo(c, FALSE, "other", 0)>>)
    /\ UNCHANGED <<live, staged, faults>>

\* fs.mv prints a failure with ok:true.
DeviceMoves(c) ==
    /\ c.cmd = "fs.mv"
    /\ \/ /\ live' \in staged
          /\ staged' = {}
          /\ CLI!Answer(<<ReplyTo(c, TRUE, "renamed", 0)>>)
          /\ UNCHANGED faults
       \/ /\ IF staged = {} THEN UNCHANGED faults ELSE CLI!Fault
          /\ CLI!Answer(<<ReplyTo(c, TRUE, "other", 0)>>)
          /\ UNCHANGED deviceVars

DeviceRemoves(c) ==
    /\ c.cmd = "fs.rm"
    /\ staged' = {}
    /\ CLI!Answer(<<ReplyTo(c, TRUE, IF staged = {} THEN "other" ELSE "removed", 0)>>)
    /\ UNCHANGED <<live, faults>>

DeviceDumps(c) ==
    /\ c.cmd = "config.dump"
    /\ \/ /\ CLI!Answer([i \in 1..DumpPages |->
                [ReplyTo(c, TRUE, "other", 0) EXCEPT
                    !.data = live, !.page = i - 1, !.more = (i < DumpPages)]])
          /\ UNCHANGED faults
       \/ CLI!Fault /\ CLI!Answer(<<ReplyTo(c, FALSE, "other", 0)>>)
    /\ UNCHANGED deviceVars

Device ==
    /\ toDevice # <<>>
    /\ LET c == Head(toDevice) IN
        DeviceStores(c) \/ DeviceSizes(c) \/ DeviceMoves(c) \/ DeviceRemoves(c) \/ DeviceDumps(c)
    /\ UNCHANGED <<claimed, pc, sent, status, entry, read, prev, rows, history, dirty>>

\* The network and the caller's own clock.
Transport ==
    /\ \/ CLI!Deliver
       \/ CLI!DeliverGarbled
       \/ CLI!LoseCommand
       \/ CLI!LoseReply
    /\ UNCHANGED <<live, staged, claimed, pc, sent, status, entry, read, prev, rows, history, dirty>>

Waiting(p) ==
    /\ CLI!Acquire(p)
    /\ UNCHANGED <<live, staged, claimed, pc, sent, status, entry, read, prev, rows, history, dirty>>

Deadline(p) ==
    /\ CLI!Expire(p)
    /\ UNCHANGED <<live, staged, claimed, pc, sent, status, entry, read, prev, rows, history, dirty>>

-----------------------------------------------------------------------------
(* The request store and the claim.                                         *)

\* failPending
MarkedPending(p) == [entry EXCEPT ![p] = IF @ = "pending" THEN "error" ELSE @]

\* markDone, markError
Marked(p, s) == [entry EXCEPT ![p] = IF @ = "gone" THEN @ ELSE s]

\* The last poll reads a finished entry and drops it, or it is pruned.
Forget(p) ==
    /\ entry[p] \in Terminal
    /\ entry' = [entry EXCEPT ![p] = "gone"]
    /\ UNCHANGED <<cliVars, faults, live, staged, claimed, pc, sent, status, read, prev, rows, history, dirty>>

\* The bound on what is posted together.
Admitted(p) == \E mix \in Mixes : {q \in Callers : q = p \/ pc[q] # "new"} \subseteq mix

\* A write at work on the staged file.
Running(w) == pc[w] \in {"chunk", "cat", "mv", "rm"}

\* A write whose goroutine has not given its claim back.
Holds(w) == Running(w) \/ pc[w] \in {"prev", "commit", "release", "panicked"}

\* A staged file, a write at work or a command of one in the queue.
Leavings == \/ staged # {}
            \/ \E v \in Writers : Running(v)
            \/ \E i \in DOMAIN toDevice : toDevice[i].by \in Writers

\* POST config/write: claimDeviceWrite, then the goroutine starts.
HandleWrite(w) ==
    /\ pc[w] = "new" /\ Admitted(w)
    /\ ~claimed
    /\ claimed' = TRUE
    /\ entry' = [entry EXCEPT ![w] = "pending"]
    /\ Goto(w, "chunk")
    /\ dirty' = IF Leavings THEN dirty \cup {"leavings"} ELSE dirty
    /\ UNCHANGED <<cliVars, faults, live, staged, sent, status, read, prev, rows, history>>

\* 409: a write to this device is already running.
HandleWriteBusy(w) ==
    /\ pc[w] = "new" /\ Admitted(w)
    /\ claimed
    /\ Goto(w, "refused")
    /\ UNCHANGED <<cliVars, faults, live, staged, claimed, sent, status, entry, read, prev, rows, history, dirty>>

\* POST config/cmd.
HandleCmd(r) ==
    /\ pc[r] = "new" /\ Admitted(r)
    /\ entry' = [entry EXCEPT ![r] = "pending"]
    /\ Goto(r, "dump")
    /\ UNCHANGED <<cliVars, faults, live, staged, claimed, sent, status, read, prev, rows, history, dirty>>

-----------------------------------------------------------------------------
(* stagedWrite: every step is one CLI round trip and the look at its answer. *)

\* What the goroutine at p asks next.
CommandOf(p) ==
    CASE pc[p] = "chunk" -> [by |-> p, cmd |-> IF sent[p] = 0 THEN "fs.write" ELSE "fs.append",
                             chunk |-> sent[p] + 1]
      [] pc[p] = "cat"   -> [by |-> p, cmd |-> "fs.cat", chunk |-> 0]
      [] pc[p] = "mv"    -> [by |-> p, cmd |-> "fs.mv", chunk |-> 0]
      [] pc[p] = "rm"    -> [by |-> p, cmd |-> "fs.rm", chunk |-> 0]
      [] pc[p] = "dump"  -> [by |-> p, cmd |-> "config.dump", chunk |-> 0]

Ask(p) ==
    /\ pc[p] \in {"chunk", "cat", "mv", "rm", "dump"}
    /\ CLI!Request(p, CommandOf(p))
    /\ UNCHANGED <<live, staged, claimed, pc, sent, status, entry, read, prev, rows, history, dirty>>

\* The reply came and says ok.
Accepted(p) == call[p].st = "answered" /\ \A f \in call[p].fin : f.ok
\* The reply came at all.
Replied(p) == call[p].st = "answered"

\* The status the failed step leaves.
StepStatus(p) == IF call[p].st = "late" THEN "timeout" ELSE "error"

\* The path is refused before anything is sent.
RefusePath(w) ==
    /\ pc[w] = "chunk" /\ sent[w] = 0 /\ call[w].st = "idle"
    /\ status' = [status EXCEPT ![w] = "error"]
    /\ Goto(w, "release")
    /\ UNCHANGED <<cliVars, faults, live, staged, claimed, sent, entry, read, prev, rows, history, dirty>>

\* ackedBytes(resp.Output, staged) = len(chunk)
AckedBytes(f) == f.line = "ack" /\ f.n = 1

\* Mutant of SizeOK: the committed size is not looked at.
SizeAny(w, f) == TRUE

SizeOK(w, f) == f.n = ChunksOf[w]

\* The step at w went well.
Succeeded(w) ==
    /\ Accepted(w)
    /\ \A f \in call[w].fin :
        CASE pc[w] = "chunk" -> AckedBytes(f)
          [] pc[w] = "cat"   -> SizeOK(w, f)
          [] pc[w] = "mv"    -> f.line = "renamed"

StepSucceeds(w) ==
    /\ pc[w] \in {"chunk", "cat", "mv"}
    /\ CLI!Returned(w)
    /\ Succeeded(w)
    /\ sent' = IF pc[w] = "chunk" THEN [sent EXCEPT ![w] = @ + 1] ELSE sent
    /\ Goto(w, CASE pc[w] = "chunk" -> IF sent'[w] = ChunksOf[w] THEN "cat" ELSE "chunk"
                 [] pc[w] = "cat" -> "mv"
                 [] pc[w] = "mv" -> "prev")
    /\ CLI!Consume(w)
    /\ UNCHANGED <<live, staged, claimed, status, entry, read, prev, rows, history, dirty>>

\* Cleanup follows, except after a first chunk the device refused.
StepFails(w) ==
    /\ pc[w] \in {"chunk", "cat", "mv"}
    /\ CLI!Returned(w)
    /\ ~Succeeded(w)
    /\ status' = [status EXCEPT ![w] = StepStatus(w)]
    /\ Goto(w, IF pc[w] = "chunk" /\ sent[w] = 0 /\ Replied(w) /\ ~Accepted(w)
               THEN "release" ELSE "rm")
    /\ CLI!Consume(w)
    /\ UNCHANGED <<live, staged, claimed, sent, entry, read, prev, rows, history, dirty>>

\* The answer to fs.rm only words the message.
CleanedUp(w) ==
    /\ pc[w] = "rm"
    /\ CLI!Returned(w)
    /\ Goto(w, "release")
    /\ CLI!Consume(w)
    /\ UNCHANGED <<live, staged, claimed, sent, status, entry, read, prev, rows, history, dirty>>

-----------------------------------------------------------------------------
(* runCLIWrite after stagedWrite, runCLICmd after the answer, and Upsert.   *)

\* What the caller stores: a writer its content, a reader what it assembled.
Stored(p) == IF p \in Readers THEN read[p] ELSE Content(p)

\* Mutant of ReadPrev: the claim is given back before the row is written.
ReadPrevReleased(p) ==
    /\ pc[p] = "prev"
    /\ prev' = [prev EXCEPT ![p] = rows[PathOf(p)]]
    /\ claimed' = FALSE
    /\ Goto(p, "commit")
    /\ UNCHANGED <<cliVars, faults, live, staged, sent, status, entry, read, rows, history, dirty>>

\* Upsert, first statement: the prior sha.
ReadPrev(p) ==
    /\ pc[p] = "prev"
    /\ prev' = [prev EXCEPT ![p] = rows[PathOf(p)]]
    /\ Goto(p, "commit")
    /\ UNCHANGED <<cliVars, faults, live, staged, claimed, sent, status, entry, read, rows, history, dirty>>

AfterUpsert(p) == IF p \in Readers THEN "end" ELSE "release"

\* The row and, when the sha changed or an operator wrote, the history entry.
CommitUpsert(p) ==
    /\ pc[p] = "commit"
    /\ rows' = [rows EXCEPT ![PathOf(p)] = Stored(p)]
    /\ history' = IF prev[p] # Stored(p) \/ p \in Writers
                  THEN [history EXCEPT ![PathOf(p)] =
                            Append(@, [content |-> Stored(p), prev |-> prev[p]])]
                  ELSE history
    /\ Goto(p, AfterUpsert(p))
    /\ UNCHANGED <<cliVars, faults, live, staged, claimed, sent, status, entry, read, prev, dirty>>

\* Upsert fails: logged, the request is still done.
UpsertFails(p) ==
    /\ pc[p] \in {"prev", "commit"}
    /\ CLI!Fault
    /\ Goto(p, AfterUpsert(p))
    /\ UNCHANGED <<cliVars, live, staged, claimed, sent, status, entry, read, prev, rows, history, dirty>>

\* A panic in it: the deferred release runs, then guardCLI.
Panic(p) ==
    /\ pc[p] \in {"prev", "commit"}
    /\ CLI!Fault
    /\ Goto(p, IF p \in Writers THEN "panicked" ELSE "failPending")
    /\ UNCHANGED <<cliVars, live, staged, claimed, sent, status, entry, read, prev, rows, history, dirty>>

\* The release before the entry turns terminal.
Release(w) ==
    /\ pc[w] = "release"
    /\ claimed' = FALSE
    /\ Goto(w, "mark")
    /\ UNCHANGED <<cliVars, faults, live, staged, sent, status, entry, read, prev, rows, history, dirty>>

MarkWrite(w) ==
    /\ pc[w] = "mark"
    /\ entry' = Marked(w, status[w])
    /\ Goto(w, "deferred")
    /\ UNCHANGED <<cliVars, faults, live, staged, claimed, sent, status, read, prev, rows, history, dirty>>

\* The deferred release: it deletes the claim whoever holds it now.
DeferredRelease(w) ==
    /\ pc[w] \in {"deferred", "panicked"}
    /\ claimed' = FALSE
    /\ Goto(w, IF pc[w] = "panicked" THEN "failPending" ELSE "end")
    /\ dirty' = IF \E v \in Writers \ {w} : Holds(v) THEN dirty \cup {"taken"} ELSE dirty
    /\ UNCHANGED <<cliVars, faults, live, staged, sent, status, entry, read, prev, rows, history>>

FailPending(p) ==
    /\ pc[p] = "failPending"
    /\ entry' = MarkedPending(p)
    /\ Goto(p, "end")
    /\ UNCHANGED <<cliVars, faults, live, staged, claimed, sent, status, read, prev, rows, history, dirty>>

\* joinOutput of the assembled pages.
Joined(r) ==
    LET parts == {x.data : x \in call[r].got}
    IN IF Cardinality(parts) = 1 THEN CHOOSE d \in parts : TRUE ELSE Mixed

\* runCLICmd: done is recorded before the snapshot is stored.
DumpReturns(r) ==
    /\ pc[r] = "dump"
    /\ CLI!Returned(r)
    /\ entry' = Marked(r, IF Replied(r) THEN "done" ELSE StepStatus(r))
    /\ IF Accepted(r)
       THEN read' = [read EXCEPT ![r] = Joined(r)] /\ Goto(r, "prev")
       ELSE UNCHANGED read /\ Goto(r, "end")
    /\ CLI!Consume(r)
    /\ UNCHANGED <<live, staged, claimed, sent, status, prev, rows, history, dirty>>

-----------------------------------------------------------------------------
\* A goroutine's own next step.
Step(p) ==
    \/ Waiting(p) \/ Ask(p)
    \/ ReadPrev(p) \/ CommitUpsert(p) \/ FailPending(p)
    \/ /\ p \in Writers
       /\ StepSucceeds(p) \/ StepFails(p) \/ CleanedUp(p)
          \/ Release(p) \/ MarkWrite(p) \/ DeferredRelease(p)
    \/ p \in Readers /\ DumpReturns(p)

Next ==
    \/ Device
    \/ Transport
    \/ \E p \in Callers : Step(p) \/ Deadline(p) \/ Forget(p) \/ UpsertFails(p) \/ Panic(p)
    \/ \E w \in Writers : HandleWrite(w) \/ HandleWriteBusy(w) \/ RefusePath(w)
    \/ \E r \in Readers : HandleCmd(r)

Spec == Init /\ [][Next]_vars

\* A goroutine that can run does, and a context's deadline comes; the device
\* and the network owe nothing.
FairSpec == Spec /\ \A p \in Callers : WF_vars(Step(p)) /\ WF_vars(Deadline(p))

-----------------------------------------------------------------------------
(* Properties.                                                              *)

\* docs/invariants.md, "A device file write never leaves the live file half
\* written": the live file is the original or one writer's whole content, never
\* a part of one or a mixture of two (stagedWrite's acks, size check, rename).
LiveWhole == live = Original \/ \E w \in Writers : live = Content(w)

\* However chunks, acks and cleanups are lost, late or short, a live file that
\* is not whole takes a write that began while another ran or while another's
\* staged file, or a command to it, was still there (stagedWrite, claimDeviceWrite).
HalfNeedsLeftover == LiveWhole \/ "leavings" \in dirty

\* An answer CLIRequest returns is the answer to its own command, and holds
\* every page of it, however late the answers to earlier commands arrive and
\* whatever pages are lost (cliMatchesRequest, awaitPagedCLIResponse).
AnswerIsOwn ==
    /\ \A p \in Callers : (\A c \in call[p].cur : c.cmd \notin CLI!Raw) => CLI!AnswersOwn(p)
    /\ \A r \in Readers :
        call[r].st = "answered" /\ Accepted(r) =>
            {x.page : x \in call[r].got} = 0..(DumpPages - 1)

\* The row a finished write stores is what the device holds at that moment
\* (runCLIWrite stores it while the claim is held), unless a write took over
\* leavings or the second, deferred release of one deleted the claim of the next.
StoredIsHeld ==
    [][rows'["/config.json"] # rows["/config.json"] =>
         rows'["/config.json"] = live \/ dirty # {}]_vars

\* request_store.go: a pending entry's goroutine always ends, and the claim is
\* given back, though the device may never answer: as requests are posted once
\* each, there is always a later moment with none pending and no claim.
EveryRequestEnds == []<>(~claimed /\ \A p \in Callers : entry[p] # "pending")
=============================================================================
