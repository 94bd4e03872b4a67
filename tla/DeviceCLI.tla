----------------------------- MODULE DeviceCLI -----------------------------
(***************************************************************************)
(* One command and its answer over MQTT (pkg/mqtt CLIRequest and            *)
(* CLIRequestRaw): the per-device mutex, the tap on the response topic, the *)
(* matching of replies and the assembly of paged ones.  One device.         *)
(*                                                                          *)
(* Commands and replies travel at QoS 0: in order, any of them may be lost, *)
(* and an answer may come after its caller gave up.  A caller sends each    *)
(* command at most once, so the command record is its own req_id.           *)
(*                                                                          *)
(* The operators here are the steps; DeviceWrite says who takes them and    *)
(* what the device does with a command.                                     *)
(***************************************************************************)
EXTENDS Integers, Sequences, FiniteSets

CONSTANTS
    Callers,        \* goroutines that send commands
    NoOne,          \* the mutex is free
    EchoReqID,      \* the firmware echoes req_id (v1.4.5 and later)
    MaxFaults       \* bound on losses, refusals and failed statements

VARIABLES
    lock,           \* cliLocks[topicPrefix]: its holder, or NoOne
    call,           \* the CLIRequest each caller is in
    toDevice,       \* commands on their way
    fromDevice,     \* replies on their way
    faults

cliVars == <<lock, call, toDevice, fromDevice>>

\* Sent by CLIRequestRaw, without an envelope.
Raw == {"fs.write", "fs.append"}

\* A command: by, chunk, and cmd, one of Raw, fs.cat, fs.mv, fs.rm and
\* config.dump.  A reply: to (history), the command it answers, ok, its first
\* line ("ack", "renamed", "removed" or "other"), n, its byte count or total,
\* data, page and more.
\*
\* A call: st ("idle", "lock", "sent", then "answered", "failed" or "late"), cur,
\* the command, got, one reply per page, and fin, the last one without More.
Idle == [st |-> "idle", cur |-> {}, got |-> {}, fin |-> {}]

CLIInit ==
    /\ lock = NoOne
    /\ call = [p \in Callers |-> Idle]
    /\ toDevice = <<>>
    /\ fromDevice = <<>>
    /\ faults = 0

Fault == faults < MaxFaults /\ faults' = faults + 1

-----------------------------------------------------------------------------
(* CLIRequest and CLIRequestRaw.                                            *)

\* Under the lock: the tap is registered and the command published.
Published(p, c) ==
    /\ lock' = p
    /\ call' = [call EXCEPT ![p] = [Idle EXCEPT !.st = "sent", !.cur = {c}]]
    /\ toDevice' = Append(toDevice, c)
    /\ UNCHANGED <<fromDevice, faults>>

\* Not connected, or the publish is refused; the lock, if taken, is given back.
NotPublished(p) ==
    /\ Fault
    /\ call' = [call EXCEPT ![p].st = "failed"]
    /\ UNCHANGED <<lock, toDevice, fromDevice>>

\* The caller's context starts here; a busy lock is waited for without a deadline.
Request(p, c) ==
    /\ call[p].st = "idle"
    /\ \/ lock = NoOne /\ Published(p, c)
       \/ NotPublished(p)
       \/ /\ lock # NoOne
          /\ call' = [call EXCEPT ![p].st = "lock", ![p].cur = {c}]
          /\ UNCHANGED <<lock, toDevice, fromDevice, faults>>

\* lock.Lock returns: a context that ran out meanwhile sends nothing.
Acquire(p) ==
    /\ call[p].st = "lock"
    /\ lock = NoOne
    /\ \/ \E c \in call[p].cur : Published(p, c)
       \/ NotPublished(p)
       \/ /\ call' = [call EXCEPT ![p].st = "late"]
          /\ UNCHANGED <<lock, toDevice, fromDevice, faults>>

\* Mutant of ReqIDOf: no reply is told apart from another to the same command.
ReqIDOfNone(c) == {}

\* The req_id a command travels with.
ReqIDOf(c) == IF c.cmd \in Raw THEN {} ELSE {c}

\* The req_id the device echoes.
EchoOf(c) == IF EchoReqID THEN ReqIDOf(c) ELSE {}

\* cliMatchesRequest
Matches(reply, c) ==
    IF EchoOf(reply.to) # {} /\ ReqIDOf(c) # {}
    THEN EchoOf(reply.to) = ReqIDOf(c)
    ELSE reply.to.cmd = c.cmd

\* The last page and every page below it are there.
Complete(fin, got) ==
    \E f \in fin : \A i \in 0..f.page : \E r \in got : r.page = i

\* Mutant of Unlocked: the early return forgets the lock.
UnlockedOnAnswer(p, st) == IF st = "answered" THEN NoOne ELSE lock

\* The deferred Unlock of the caller that returns.
Unlocked(p, st) == NoOne

\* awaitPagedCLIResponse takes one reply.
Take(p, reply) ==
    LET fin == IF reply.more THEN call[p].fin ELSE {reply}
        got == {r \in call[p].got : r.page # reply.page} \cup {reply}
    IN IF Complete(fin, got)
       THEN /\ call' = [call EXCEPT ![p].st = "answered", ![p].fin = fin,
                                    ![p].got = {r \in got : \E f \in fin : r.page <= f.page}]
            /\ lock' = Unlocked(p, "answered")
       ELSE /\ call' = [call EXCEPT ![p].fin = fin, ![p].got = got]
            /\ UNCHANGED lock

Listens(p, reply) ==
    /\ call[p].st = "sent"
    /\ \E c \in call[p].cur : Matches(reply, c)

\* fanoutTaps: the reply at the head goes to the caller waiting for one like it.
Deliver ==
    /\ fromDevice # <<>>
    /\ fromDevice' = Tail(fromDevice)
    /\ IF \E p \in Callers : Listens(p, Head(fromDevice))
       THEN \E p \in Callers : Listens(p, Head(fromDevice)) /\ Take(p, Head(fromDevice))
       ELSE UNCHANGED <<call, lock>>
    /\ UNCHANGED <<toDevice, faults>>

\* A reply that is not JSON reaches whoever waits, and fails it.
DeliverGarbled ==
    /\ fromDevice # <<>>
    /\ Fault
    /\ fromDevice' = Tail(fromDevice)
    /\ \E p \in Callers :
        /\ call[p].st = "sent"
        /\ call' = [call EXCEPT ![p].st = "failed"]
        /\ lock' = Unlocked(p, "failed")
    /\ UNCHANGED toDevice

\* The context ends first.
Expire(p) ==
    /\ call[p].st = "sent"
    /\ call' = [call EXCEPT ![p].st = "late"]
    /\ lock' = Unlocked(p, "late")
    /\ UNCHANGED <<toDevice, fromDevice, faults>>

LoseCommand ==
    /\ toDevice # <<>>
    /\ Fault
    /\ toDevice' = Tail(toDevice)
    /\ UNCHANGED <<lock, call, fromDevice>>

LoseReply ==
    /\ fromDevice # <<>>
    /\ Fault
    /\ fromDevice' = Tail(fromDevice)
    /\ UNCHANGED <<lock, call, toDevice>>

\* The device takes the next command and sends these replies to it.
Answer(replies) ==
    /\ toDevice' = Tail(toDevice)
    /\ fromDevice' = fromDevice \o replies
    /\ UNCHANGED <<lock, call>>

Returned(p) == call[p].st \in {"answered", "failed", "late"}

\* The caller reads what its request returned.
Consume(p) ==
    /\ call' = [call EXCEPT ![p] = Idle]
    /\ UNCHANGED <<lock, toDevice, fromDevice, faults>>

-----------------------------------------------------------------------------
(* An answered call: every page assembled answers the command that asked.   *)
AnswersOwn(p) ==
    call[p].st = "answered" => \A r \in call[p].got \cup call[p].fin : {r.to} = call[p].cur
=============================================================================
