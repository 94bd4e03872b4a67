-------------------------- MODULE DeviceWriteProofs --------------------------
(***************************************************************************)
(* Proofs about DeviceWrite for any writers, readers, chunk and page counts *)
(* and faults, over a firmware that echoes req_id: what CLIRequest returns  *)
(* is the answer to its own command, the live file is whole unless a write  *)
(* began on leavings, and the row that is stored is the file that is held.  *)
(***************************************************************************)
EXTENDS DeviceWrite, SequenceTheorems, TLAPS

-----------------------------------------------------------------------------
(* The types.                                                               *)

WriterCmds == {"fs.write", "fs.append", "fs.cat", "fs.mv", "fs.rm"}

Command ==
    {c \in [by : Callers, cmd : WriterCmds \cup {"config.dump"}, chunk : Nat] :
        IF c.by \in Writers THEN c.cmd \in WriterCmds ELSE c.cmd = "config.dump"}

Contents == Seq((Callers \cup {NoOne}) \X Nat)

Reply == [to : Command, ok : BOOLEAN, line : {"ack", "renamed", "removed", "other"},
          n : Nat, data : Contents, page : Nat, more : BOOLEAN]

CallRecord == [st : {"idle", "lock", "sent", "answered", "failed", "late"},
               cur : SUBSET Command, got : SUBSET Reply, fin : SUBSET Reply]

PcOfWriter == {"new", "refused", "chunk", "cat", "mv", "rm", "prev", "commit", "release",
               "panicked", "mark", "deferred", "failPending", "end"}
PcOfReader == {"new", "dump", "prev", "commit", "failPending", "end"}

TypeOK ==
    /\ call \in [Callers -> CallRecord]
    /\ toDevice \in Seq(Command) /\ fromDevice \in Seq(Reply)
    /\ live \in Contents /\ staged \in SUBSET Contents
    /\ \A s, t \in staged : s = t
    /\ claimed \in BOOLEAN /\ dirty \in SUBSET {"leavings", "taken"}
    /\ pc \in [Callers -> PcOfWriter \cup PcOfReader]
    /\ \A w \in Writers : pc[w] \in PcOfWriter
    /\ \A r \in Readers : pc[r] \in PcOfReader
    /\ sent \in [Writers -> Nat]
    /\ rows = [a \in Paths |-> rows[a]]

-----------------------------------------------------------------------------
(* Requests and their answers.                                              *)

Asking == {"chunk", "cat", "mv", "rm", "dump"}

\* A request carries the command its goroutine is at.
Asks ==
    \A p \in Callers :
        /\ call[p].st # "idle" => pc[p] \in Asking
        /\ call[p].st \in {"lock", "sent", "answered"} => call[p].cur = {CommandOf(p)}

\* A writer that is at a chunk has one left to send.
ChunksLeft == \A w \in Writers : pc[w] \in {"new", "chunk"} => sent[w] < ChunksOf[w]

\* The replies on their way and those a caller has.
InFlight == {fromDevice[i] : i \in DOMAIN fromDevice}
Had(p) == IF call[p].st \in {"sent", "answered"} THEN call[p].got \cup call[p].fin ELSE {}

\* What a page of a dump says of itself.
PageOK(r) == r.to.cmd = "config.dump" /\ r.ok =>
                /\ r.page \in 0..(DumpPages - 1)
                /\ ~r.more => r.page = DumpPages - 1

PagesTell ==
    /\ \A r \in InFlight : PageOK(r)
    /\ \A p \in Callers : \A r \in Had(p) : PageOK(r)

\* A command sent without an envelope.
IsRaw(c) == c.cmd \in CLI!Raw

\* Every answer taken for a command with an envelope answers that command.
TakenIsOwn ==
    \A p \in Callers : \A c \in call[p].cur : ~IsRaw(c) => \A r \in Had(p) : r.to = c

\* An answered call is complete.
AnsweredIsWhole ==
    \A p \in Callers :
        /\ call[p].st \in {"sent", "answered"} => \A f \in call[p].fin : ~f.more
        /\ call[p].st = "answered" =>
              /\ CLI!Complete(call[p].fin, call[p].got)
              /\ \A r \in call[p].got : \E f \in call[p].fin : r.page <= f.page

\* What is on its way was asked at an earlier step of its writer, or at this one.
AskedOK(c) ==
    c.by \in Writers =>
        /\ pc[c.by] # "new"
        /\ c.cmd = "fs.cat" => pc[c.by] # "chunk"
        /\ c.cmd = "fs.mv" => pc[c.by] \notin {"chunk", "cat"}
        /\ c.cmd = "fs.rm" => pc[c.by] \notin {"chunk", "cat", "mv"}

Asked ==
    /\ \A k \in DOMAIN toDevice : AskedOK(toDevice[k])
    /\ \A r \in InFlight : AskedOK(r.to)

AnswerInv == TypeOK /\ Asks /\ ChunksLeft /\ PagesTell /\ TakenIsOwn /\ AnsweredIsWhole /\ Asked

-----------------------------------------------------------------------------
(* One writer's file.                                                       *)

About(w) == pc[w] = "chunk" /\ call[w].st \in {"idle", "lock"}

\* The chunk numbers that w has sent so far.
SentBy(w) == {j \in 1..ChunksOf[w] : j <= sent[w] + 1 /\ (About(w) => j <= sent[w])}

\* Each entry is at least as far on in the content as in the file.
InOrder(s) == \A i, j \in DOMAIN s : i <= j => s[j][2] - s[i][2] >= j - i

\* Nobody but u is at work, and the staged file and the queue are all u's.
Sole(u) ==
    /\ \A v \in Writers : Running(v) \/ (dirty = {} /\ Holds(v)) => v = u
    /\ \A k \in DOMAIN toDevice : toDevice[k].by \in Writers => toDevice[k].by = u
    /\ \A s \in staged : \A i \in DOMAIN s : s[i][1] = u

\* The queue holds u's chunks in order, and what u asks after them behind them.
QueueOK(u) ==
    \A k \in DOMAIN toDevice : toDevice[k].by = u =>
        /\ IsRaw(toDevice[k]) => toDevice[k].chunk \in SentBy(u)
        /\ toDevice[k].cmd = "fs.write" => toDevice[k].chunk = 1
        /\ \A l \in DOMAIN toDevice : k < l /\ toDevice[l].by = u /\ IsRaw(toDevice[l]) =>
              IsRaw(toDevice[k]) /\ toDevice[k].chunk < toDevice[l].chunk

\* The staged file holds chunks u sent, in order, and none that is still to come.
StagedOK(u) ==
    \A s \in staged :
        /\ InOrder(s)
        /\ \A i \in DOMAIN s :
            /\ s[i][2] \in SentBy(u)
            /\ \A k \in DOMAIN toDevice : toDevice[k].by = u /\ IsRaw(toDevice[k]) =>
                  s[i][2] < toDevice[k].chunk

NoChunksQueued == \A k \in DOMAIN toDevice : ~IsRaw(toDevice[k])

\* The size u is told is the size of the staged file, which nothing changes.
SizeTold(u) ==
    pc[u] = "cat" => \A r \in InFlight \cup Had(u) :
        r.to = CommandOf(u) /\ r.ok => NoChunksQueued /\ \E s \in staged : Len(s) = r.n

\* A file that u is about to rename, or has asked to, is u's whole content.
RenameWhole(u) ==
    pc[u] = "mv" \/ (\E k \in DOMAIN toDevice : toDevice[k].cmd = "fs.mv") =>
        NoChunksQueued /\ staged \subseteq {Content(u)}

\* A rename u is told of happened.
Renamed(u) ==
    pc[u] = "mv" => \A r \in InFlight \cup Had(u) :
        r.to = CommandOf(u) /\ r.line = "renamed" => live = Content(u)

\* What u is about to store is what the device holds.
Holding(u) == dirty = {} /\ pc[u] \in {"prev", "commit"} => live = Content(u)

OwnFile(u) ==
    QueueOK(u) /\ StagedOK(u) /\ SizeTold(u) /\ RenameWhole(u) /\ Renamed(u) /\ Holding(u)

FileInv ==
    "leavings" \notin dirty =>
        LiveWhole /\ \E u \in Writers \cup {NoOne} : Sole(u) /\ (u \in Writers => OwnFile(u))

\* A write that was not overtaken holds the claim.
ClaimInv == dirty = {} => \A w \in Writers : Holds(w) => claimed

DeviceWriteInv == AnswerInv /\ FileInv /\ ClaimInv

-----------------------------------------------------------------------------
(* What the operators give.                                                 *)

\* What each goroutine asks at its place.
LEMMA CommandIs ==
  ASSUME AnswerInv, NEW p \in Callers, pc[p] \in Asking
  PROVE  /\ CommandOf(p) \in Command /\ CommandOf(p).by = p
         /\ p \in Writers <=> pc[p] # "dump"
         /\ pc[p] = "chunk" => /\ IsRaw(CommandOf(p)) /\ CommandOf(p).chunk = sent[p] + 1
                               /\ CommandOf(p).cmd = "fs.write" => sent[p] = 0
         /\ pc[p] = "cat" => CommandOf(p).cmd = "fs.cat"
         /\ pc[p] = "mv" => CommandOf(p).cmd = "fs.mv"
         /\ pc[p] = "rm" => CommandOf(p).cmd = "fs.rm"
         /\ pc[p] = "dump" => CommandOf(p).cmd = "config.dump"
<1>1. \/ p \in Writers /\ pc[p] \in {"chunk", "cat", "mv", "rm"} /\ sent[p] \in Nat
      \/ p \in Readers /\ p \notin Writers /\ pc[p] = "dump"
  BY WriteAssumption DEF AnswerInv, TypeOK, Asking, Callers, PcOfWriter, PcOfReader
<1>2. CASE pc[p] = "chunk"
  <2> DEFINE c == [by |-> p, cmd |-> IF sent[p] = 0 THEN "fs.write" ELSE "fs.append",
                   chunk |-> sent[p] + 1]
  <2>1. CommandOf(p) = c
    BY <1>2 DEF CommandOf
  <2>2. c \in Command
    BY <1>1, <1>2 DEF Command, WriterCmds
  <2>3. c.by = p /\ IsRaw(c) /\ c.chunk = sent[p] + 1 /\ (c.cmd = "fs.write" => sent[p] = 0)
    BY DEF IsRaw, CLI!Raw
  <2>. QED
    BY <1>1, <1>2, <2>1, <2>2, <2>3
<1>3. ASSUME NEW x \in {"fs.cat", "fs.mv", "fs.rm", "config.dump"},
             CommandOf(p) = [by |-> p, cmd |-> x, chunk |-> 0],
             x = "config.dump" <=> p \notin Writers
      PROVE  /\ CommandOf(p) \in Command /\ CommandOf(p).by = p /\ CommandOf(p).cmd = x
  BY <1>3 DEF Command, WriterCmds
<1>4. CASE pc[p] = "cat"
  <2>1. CommandOf(p) = [by |-> p, cmd |-> "fs.cat", chunk |-> 0]
    BY <1>4 DEF CommandOf
  <2>. QED
    BY <1>1, <1>3, <1>4, <2>1
<1>5. CASE pc[p] = "mv"
  <2>1. CommandOf(p) = [by |-> p, cmd |-> "fs.mv", chunk |-> 0]
    BY <1>5 DEF CommandOf
  <2>. QED
    BY <1>1, <1>3, <1>5, <2>1
<1>6. CASE pc[p] = "rm"
  <2>1. CommandOf(p) = [by |-> p, cmd |-> "fs.rm", chunk |-> 0]
    BY <1>6 DEF CommandOf
  <2>. QED
    BY <1>1, <1>3, <1>6, <2>1
<1>7. CASE pc[p] = "dump"
  <2>1. CommandOf(p) = [by |-> p, cmd |-> "config.dump", chunk |-> 0]
    BY <1>7 DEF CommandOf
  <2>. QED
    BY <1>1, <1>3, <1>7, <2>1
<1>. QED
  BY <1>1, <1>2, <1>4, <1>5, <1>6, <1>7

\* A call that has taken a page.
LEMMA CallTakes ==
  ASSUME NEW x \in CallRecord, NEW fin \in SUBSET Reply, NEW got \in SUBSET Reply,
         NEW s \in {"sent", "answered"}
  PROVE  LET y == [x EXCEPT !.st = s, !.fin = fin, !.got = got]
         IN y \in CallRecord /\ y.st = s /\ y.cur = x.cur /\ y.fin = fin /\ y.got = got
BY DEF CallRecord

\* A call that has begun.
LEMMA CallBegins ==
  ASSUME NEW c \in Command, NEW s \in {"lock", "sent"}
  PROVE  LET y == [CLI!Idle EXCEPT !.st = s, !.cur = {c}]
         IN y \in CallRecord /\ y.st = s /\ y.cur = {c} /\ y.got = {} /\ y.fin = {}
BY DEF CallRecord, CLI!Idle

\* A goroutine that asks nothing has an idle call.
LEMMA NoCallElsewhere ==
  ASSUME AnswerInv, NEW p \in Callers, pc[p] \notin Asking
  PROVE  call[p].st = "idle" /\ Had(p) = {}
BY DEF AnswerInv, Asks, Had

\* The queue of a device or network step is a tail of the one before.
Follows(q, r) == \E d \in Nat : \A k \in DOMAIN r : k + d \in DOMAIN q /\ r[k] = q[k + d]

\* A queue follows itself, and its tail follows it.
LEMMA TailFollows ==
  ASSUME NEW S, NEW q \in Seq(S)
  PROVE  /\ Follows(q, q)
         /\ q # <<>> => /\ Tail(q) \in Seq(S) /\ Head(q) \in S /\ 1 \in DOMAIN q /\ Head(q) = q[1]
                        /\ \A k \in DOMAIN Tail(q) : k + 1 \in DOMAIN q /\ Tail(q)[k] = q[k + 1]
                        /\ Follows(q, Tail(q))
<1>1. Follows(q, q)
  <2>1. \A k \in DOMAIN q : k + 0 = k
    BY LenProperties
  <2>. QED
    BY <2>1 DEF Follows
<1>2. ASSUME q # <<>>
      PROVE  /\ Tail(q) \in Seq(S) /\ Head(q) \in S /\ 1 \in DOMAIN q /\ Head(q) = q[1]
             /\ \A k \in DOMAIN Tail(q) : k + 1 \in DOMAIN q /\ Tail(q)[k] = q[k + 1]
  BY <1>2
<1>3. ASSUME q # <<>>
      PROVE  Follows(q, Tail(q))
  BY <1>2, <1>3 DEF Follows
<1>. QED
  BY <1>1, <1>2, <1>3

-----------------------------------------------------------------------------
(* The steps of the network and of the callers' clocks.                     *)

\* A goroutine that stays where it is asks the same.
LEMMA CommandStays ==
  ASSUME NEW p \in Callers, UNCHANGED <<pc, sent>>
  PROVE  CommandOf(p)' = CommandOf(p)
BY DEF CommandOf

\* A call that has taken a reply: it is the answer to what was asked, and the
\* call returns when it has every page.
TakesPage(q) ==
    /\ call[q].st = "sent" /\ call'[q].st \in {"sent", "answered"}
    /\ call'[q].cur = call[q].cur
    /\ call'[q].got \cup call'[q].fin \subseteq Had(q) \cup InFlight
    /\ \A c \in call[q].cur : ~IsRaw(c) => \A r \in call'[q].got \cup call'[q].fin : r.to = c
    /\ \A f \in call'[q].fin : ~f.more
    /\ call'[q].st = "answered" =>
          /\ CLI!Complete(call'[q].fin, call'[q].got)
          /\ \A r \in call'[q].got : \E f \in call'[q].fin : r.page <= f.page

\* A call fails, runs out of time, waits for the lock or takes a reply; commands
\* and replies arrive or are lost, in order.
Shrinks ==
    /\ UNCHANGED <<live, staged, claimed, pc, sent, rows, dirty>>
    /\ toDevice' \in Seq(Command) /\ Follows(toDevice, toDevice')
    /\ fromDevice' \in Seq(Reply) /\ Follows(fromDevice, fromDevice')
    /\ call' \in [Callers -> CallRecord]
    /\ \A q \in Callers :
        \/ call'[q] = call[q]
        \/ call'[q].st \in {"failed", "late"} /\ call[q].st # "answered" /\ pc[q] \in Asking
        \/ /\ call'[q].st = "lock" /\ call[q].st = "idle" /\ pc[q] \in Asking
           /\ call'[q].cur = {CommandOf(q)}
        \/ TakesPage(q)

\* What was on its way in either direction, or had, was so before.
LEMMA ShrinksHad ==
  ASSUME AnswerInv, Shrinks
  PROVE  /\ InFlight' \subseteq InFlight
         /\ \A q \in Callers : Had(q)' \subseteq Had(q) \cup InFlight
<1>1. InFlight' \subseteq InFlight
  BY DEF Shrinks, Follows, InFlight
<1>2. ASSUME NEW q \in Callers
      PROVE  Had(q)' \subseteq Had(q) \cup InFlight
  BY DEF Shrinks, Had, TakesPage
<1>. QED
  BY <1>1, <1>2

\* Such a step keeps every answer with its command.
LEMMA ShrinksAnswers ==
  ASSUME AnswerInv, Shrinks
  PROVE  AnswerInv'
<1>1. TypeOK'
  BY DEF AnswerInv, TypeOK, Shrinks
<1>2. \A q \in Callers : CommandOf(q)' = CommandOf(q)
  BY CommandStays DEF Shrinks
<1>3. Asks'
  BY <1>2 DEF AnswerInv, Asks, Shrinks, TakesPage
<1>4. ChunksLeft'
  BY DEF AnswerInv, ChunksLeft, Shrinks
<1>5. PagesTell'
  BY ShrinksHad DEF AnswerInv, PagesTell, PageOK
<1>6. TakenIsOwn'
  BY DEF AnswerInv, TakenIsOwn, Had, Shrinks, TakesPage, IsRaw
<1>7. AnsweredIsWhole'
  BY DEF AnswerInv, AnsweredIsWhole, Shrinks, TakesPage, CLI!Complete
<1>8. Asked'
  <2>1. \A k \in DOMAIN toDevice' : AskedOK(toDevice'[k])
    BY DEF AnswerInv, Asked, Shrinks, Follows
  <2>2. \A c : AskedOK(c)' = AskedOK(c)
    BY DEF AskedOK, Shrinks
  <2>3. \A r \in InFlight' : AskedOK(r.to)
    BY ShrinksHad DEF AnswerInv, Asked
  <2>. QED
    BY <2>1, <2>2, <2>3 DEF Asked
<1>. QED
  BY <1>1, <1>3, <1>4, <1>5, <1>6, <1>7, <1>8 DEF AnswerInv

\* It leaves the file and what is on its way to it in order.
LEMMA ShrinksFile ==
  ASSUME AnswerInv, FileInv, ClaimInv, Shrinks
  PROVE  FileInv' /\ ClaimInv'
<1>1. ClaimInv'
  BY DEF ClaimInv, Holds, Running, Shrinks
<1>2. UNCHANGED <<live, staged, pc, sent, dirty>>
  BY DEF Shrinks
<1>3. PICK d \in Nat : \A k \in DOMAIN toDevice' : k + d \in DOMAIN toDevice
                                                   /\ toDevice'[k] = toDevice[k + d]
  BY DEF Shrinks, Follows
<1> SUFFICES ASSUME "leavings" \notin dirty
             PROVE  LiveWhole' /\ \E u \in Writers \cup {NoOne} :
                                    (Sole(u) /\ (u \in Writers => OwnFile(u)))'
  BY <1>1, <1>2 DEF FileInv
<1>4. LiveWhole'
  BY <1>2 DEF FileInv, LiveWhole
<1>5. PICK u \in Writers \cup {NoOne} : Sole(u) /\ (u \in Writers => OwnFile(u))
  BY DEF FileInv
<1>6. Sole(u)'
  BY <1>2, <1>3, <1>5 DEF Sole, Running, Holds
<1>7. ASSUME u \in Writers
      PROVE  OwnFile(u)'
  <2>1. SentBy(u) \subseteq SentBy(u)'
    BY <1>2, <1>7 DEF SentBy, About, Shrinks, TakesPage, Callers
  <2>2. QueueOK(u)'
    <3>1. QueueOK(u)
      BY <1>5, <1>7 DEF OwnFile
    <3>2. \A k, l \in DOMAIN toDevice' : k < l => k + d < l + d
      BY LenProperties DEF Shrinks
    <3>. QED
      BY <1>3, <2>1, <3>1, <3>2 DEF QueueOK, IsRaw
  <2>3. StagedOK(u)'
    BY <1>2, <1>3, <1>5, <1>7, <2>1 DEF OwnFile, StagedOK, InOrder, IsRaw
  <2>4. NoChunksQueued => NoChunksQueued'
    BY <1>3 DEF NoChunksQueued, IsRaw
  <2>5. InFlight' \cup Had(u)' \subseteq InFlight \cup Had(u) /\ CommandOf(u)' = CommandOf(u)
    BY <1>2, <1>7, ShrinksHad, CommandStays DEF Callers
  <2>6. SizeTold(u)'
    BY <1>2, <1>5, <1>7, <2>4, <2>5 DEF OwnFile, SizeTold
  <2>7. RenameWhole(u)'
    BY <1>2, <1>3, <1>5, <1>7, <2>4 DEF OwnFile, RenameWhole
  <2>8. Renamed(u)'
    BY <1>2, <1>5, <1>7, <2>5 DEF OwnFile, Renamed
  <2>9. Holding(u)'
    BY <1>2, <1>5, <1>7 DEF OwnFile, Holding
  <2>. QED
    BY <2>2, <2>3, <2>6, <2>7, <2>8, <2>9 DEF OwnFile
<1>. QED
  BY <1>4, <1>5, <1>6, <1>7

\* A reply a caller takes answers its command, if that has an envelope: the
\* firmware echoes the req_id of such a command and of no other.
LEMMA MatchIsOwn ==
  ASSUME EchoReqID, NEW reply \in Reply, NEW c \in Command, ~IsRaw(c), CLI!Matches(reply, c)
  PROVE  reply.to = c
<1>1. CLI!ReqIDOf(c) = {c}
  BY DEF CLI!ReqIDOf, IsRaw
<1>2. CASE IsRaw(reply.to)
  <2>1. CLI!EchoOf(reply.to) = {}
    BY <1>2 DEF CLI!EchoOf, CLI!ReqIDOf, IsRaw
  <2>2. reply.to.cmd = c.cmd
    BY <2>1 DEF CLI!Matches
  <2>. QED
    BY <1>2, <2>2 DEF IsRaw
<1>3. CASE ~IsRaw(reply.to)
  <2>1. CLI!EchoOf(reply.to) = {reply.to}
    BY <1>3 DEF CLI!EchoOf, CLI!ReqIDOf, IsRaw
  <2>. QED
    BY <1>1, <2>1 DEF CLI!Matches
<1>. QED
  BY <1>2, <1>3

\* awaitPagedCLIResponse takes the reply at the head.
LEMMA TakesShrinks ==
  ASSUME EchoReqID, AnswerInv, NEW p \in Callers, fromDevice # <<>>,
         CLI!Listens(p, Head(fromDevice)), CLI!Take(p, Head(fromDevice)),
         fromDevice' = Tail(fromDevice), UNCHANGED toDevice,
         UNCHANGED <<live, staged, claimed, pc, sent, rows, dirty>>
  PROVE  Shrinks
<1> DEFINE reply == Head(fromDevice)
           fin == IF reply.more THEN call[p].fin ELSE {reply}
           got == {r \in call[p].got : r.page # reply.page} \cup {reply}
           kept == {r \in got : \E f \in fin : r.page <= f.page}
<1>1. /\ reply \in Reply /\ reply \in InFlight /\ fromDevice' \in Seq(Reply)
      /\ Follows(fromDevice, fromDevice')
  BY TailFollows DEF AnswerInv, TypeOK, InFlight
<1>2. /\ call[p] \in CallRecord /\ call[p].st = "sent" /\ pc[p] \in Asking
      /\ call[p].cur = {CommandOf(p)} /\ CommandOf(p) \in Command
      /\ CLI!Matches(reply, CommandOf(p))
  BY CommandIs DEF AnswerInv, TypeOK, Asks, CLI!Listens
<1>3. Had(p) = call[p].got \cup call[p].fin
  BY <1>2 DEF Had
<1>4. ~IsRaw(CommandOf(p)) => \A r \in Had(p) \cup {reply} : r.to = CommandOf(p)
  BY <1>1, <1>2, MatchIsOwn DEF AnswerInv, TakenIsOwn
<1>5. \A f \in fin : ~f.more
  BY <1>1, <1>2 DEF AnswerInv, AnsweredIsWhole
<1>6. fin \in SUBSET Reply /\ got \in SUBSET Reply /\ kept \in SUBSET Reply
  BY <1>1, <1>2 DEF CallRecord
<1>7. got \cup fin \subseteq Had(p) \cup {reply} /\ kept \subseteq got
  BY <1>3
<1>8. \/ /\ CLI!Complete(fin, got)
         /\ call' = [call EXCEPT ![p] = [call[p] EXCEPT !.st = "answered", !.fin = fin, !.got = kept]]
      \/ call' = [call EXCEPT ![p] = [call[p] EXCEPT !.st = "sent", !.fin = fin, !.got = got]]
  <2>1. call \in [Callers -> CallRecord]
    BY DEF AnswerInv, TypeOK
  <2>2. CASE CLI!Complete(fin, got)
    <3>1. call' = [call EXCEPT ![p].st = "answered", ![p].fin = fin, ![p].got = kept]
      BY <2>2 DEF CLI!Take
    <3>. HIDE DEF fin, got, kept
    <3>. QED
      BY <2>1, <2>2, <3>1
  <2>3. CASE ~CLI!Complete(fin, got)
    <3>1. call' = [call EXCEPT ![p].fin = fin, ![p].got = got]
      BY <2>3 DEF CLI!Take
    <3>2. [call[p] EXCEPT !.st = "sent", !.fin = fin, !.got = got]
            = [call[p] EXCEPT !.fin = fin, !.got = got]
      BY <1>2 DEF CallRecord
    <3>. HIDE DEF fin, got, kept
    <3>. QED
      BY <2>1, <3>1, <3>2
  <2>. QED
    BY <2>2, <2>3
<1>9. CLI!Complete(fin, got) => CLI!Complete(fin, kept)
  <2> SUFFICES ASSUME NEW f \in fin, \A i \in 0..f.page : \E r \in got : r.page = i
               PROVE  \A i \in 0..f.page : \E r \in kept : r.page = i
    BY DEF CLI!Complete
  <2>1. f.page \in Nat
    BY <1>6 DEF Reply
  <2>. QED
    BY <2>1
<1>10. \A r \in kept : \E f \in fin : r.page <= f.page
  OBVIOUS
<1>. HIDE DEF reply, fin, got, kept
<1>11. /\ call' \in [Callers -> CallRecord] /\ \A q \in Callers : q # p => call'[q] = call[q]
       /\ call'[p].cur = call[p].cur /\ call'[p].fin = fin
       /\ \/ /\ call'[p].st = "answered" /\ call'[p].got = kept /\ CLI!Complete(fin, got)
          \/ call'[p].st = "sent" /\ call'[p].got = got
  <2>1. call \in [Callers -> CallRecord]
    BY DEF AnswerInv, TypeOK
  <2>2. CASE /\ CLI!Complete(fin, got)
             /\ call' = [call EXCEPT ![p] = [call[p] EXCEPT !.st = "answered", !.fin = fin,
                                                           !.got = kept]]
    <3> DEFINE y == [call[p] EXCEPT !.st = "answered", !.fin = fin, !.got = kept]
    <3>1. y \in CallRecord /\ y.st = "answered" /\ y.cur = call[p].cur /\ y.fin = fin /\ y.got = kept
      BY ONLY <1>2, <1>6, CallTakes, ZenonT(40)
    <3>. HIDE DEF y
    <3>2. call' = [call EXCEPT ![p] = y]
      BY <2>2 DEF y
    <3>. QED
      BY <2>1, <2>2, <3>1, <3>2
  <2>3. CASE call' = [call EXCEPT ![p] = [call[p] EXCEPT !.st = "sent", !.fin = fin, !.got = got]]
    <3> DEFINE y == [call[p] EXCEPT !.st = "sent", !.fin = fin, !.got = got]
    <3>1. y \in CallRecord /\ y.st = "sent" /\ y.cur = call[p].cur /\ y.fin = fin /\ y.got = got
      BY ONLY <1>2, <1>6, CallTakes, ZenonT(40)
    <3>. HIDE DEF y
    <3>2. call' = [call EXCEPT ![p] = y]
      BY <2>3 DEF y
    <3>. QED
      BY <2>1, <3>1, <3>2
  <2>. QED
    BY <1>8, <2>2, <2>3
<1>12. TakesPage(p)
  BY <1>1, <1>2, <1>4, <1>5, <1>7, <1>9, <1>10, <1>11 DEF TakesPage
<1>13. toDevice' \in Seq(Command) /\ Follows(toDevice, toDevice')
  BY TailFollows DEF AnswerInv, TypeOK
<1>. QED
  BY <1>1, <1>11, <1>12, <1>13 DEF Shrinks

\* One call fails, is too late or starts to wait, or nothing happens to any.
LEMMA CallShrinks ==
  ASSUME AnswerInv,
         \/ UNCHANGED call
         \/ \E p \in Callers :
              /\ pc[p] \in Asking
              /\ \/ /\ call[p].st # "answered"
                    /\ \E s \in {"failed", "late"} : call' = [call EXCEPT ![p].st = s]
                 \/ /\ call[p].st = "idle"
                    /\ call' = [call EXCEPT ![p].st = "lock", ![p].cur = {CommandOf(p)}],
         \/ UNCHANGED toDevice
         \/ toDevice # <<>> /\ toDevice' = Tail(toDevice),
         \/ UNCHANGED fromDevice
         \/ fromDevice # <<>> /\ fromDevice' = Tail(fromDevice),
         UNCHANGED <<live, staged, claimed, pc, sent, rows, dirty>>
  PROVE  Shrinks
<1>1. /\ toDevice' \in Seq(Command) /\ Follows(toDevice, toDevice')
      /\ fromDevice' \in Seq(Reply) /\ Follows(fromDevice, fromDevice')
  <2>1. toDevice \in Seq(Command) /\ fromDevice \in Seq(Reply)
    BY DEF AnswerInv, TypeOK
  <2>2. toDevice' \in Seq(Command) /\ Follows(toDevice, toDevice')
    <3>1. Follows(toDevice, toDevice) /\ (toDevice # <<>> => /\ Tail(toDevice) \in Seq(Command)
                                                           /\ Follows(toDevice, Tail(toDevice)))
      BY ONLY <2>1, TailFollows
    <3>. QED
      BY <2>1, <3>1
  <2>3. fromDevice' \in Seq(Reply) /\ Follows(fromDevice, fromDevice')
    <3>1. Follows(fromDevice, fromDevice) /\ (fromDevice # <<>> => /\ Tail(fromDevice) \in Seq(Reply)
                                                               /\ Follows(fromDevice, Tail(fromDevice)))
      BY ONLY <2>1, TailFollows
    <3>. QED
      BY <2>1, <3>1
  <2>. QED
    BY <2>2, <2>3
<1>2. call \in [Callers -> CallRecord]
  BY DEF AnswerInv, TypeOK
<1>3. CASE UNCHANGED call
  BY <1>1, <1>2, <1>3 DEF Shrinks
<1>4. ASSUME NEW p \in Callers, pc[p] \in Asking, call[p].st # "answered",
             NEW s \in {"failed", "late"}, call' = [call EXCEPT ![p].st = s]
      PROVE  Shrinks
  <2>1. call[p] \in CallRecord
    BY <1>2
  <2>2. [call[p] EXCEPT !.st = s] \in CallRecord /\ [call[p] EXCEPT !.st = s].st = s
    BY <2>1, <1>4 DEF CallRecord
  <2>. QED
    BY <1>1, <1>2, <1>4, <2>2 DEF Shrinks
<1>5. ASSUME NEW p \in Callers, pc[p] \in Asking, call[p].st = "idle",
             call' = [call EXCEPT ![p].st = "lock", ![p].cur = {CommandOf(p)}]
      PROVE  Shrinks
  <2> DEFINE y == [call[p] EXCEPT !.st = "lock", !.cur = {CommandOf(p)}]
  <2>1. call[p] \in CallRecord /\ CommandOf(p) \in Command
    BY <1>2, <1>5, CommandIs
  <2>2. y \in CallRecord /\ y.st = "lock" /\ y.cur = {CommandOf(p)}
    BY <2>1 DEF CallRecord
  <2>3. call' = [call EXCEPT ![p] = y]
    BY <1>2, <1>5
  <2>. HIDE DEF y
  <2>. QED
    BY <1>1, <1>2, <1>5, <2>2, <2>3 DEF Shrinks
<1>. QED
  BY <1>3, <1>4, <1>5

\* The steps of the network that take no reply, and the deadlines.
LEMMA NetworkShrinks ==
  ASSUME EchoReqID, AnswerInv, Transport \/ \E p \in Callers : Deadline(p)
  PROVE  Shrinks
<1>1. UNCHANGED <<live, staged, claimed, pc, sent, rows, dirty>>
  BY DEF Transport, Deadline
<1>2. CASE CLI!Deliver
  <2>1. CASE \E p \in Callers : CLI!Listens(p, Head(fromDevice))
    BY <1>1, <1>2, <2>1, TakesShrinks DEF CLI!Deliver
  <2>2. CASE ~ \E p \in Callers : CLI!Listens(p, Head(fromDevice))
    BY <1>1, <1>2, <2>2, CallShrinks DEF CLI!Deliver
  <2>. QED
    BY <2>1, <2>2
<1>3. CASE CLI!DeliverGarbled \/ \E p \in Callers : CLI!Expire(p)
  <2>1. PICK p \in Callers : /\ call[p].st = "sent"
                             /\ \E s \in {"failed", "late"} : call' = [call EXCEPT ![p].st = s]
    BY <1>3 DEF CLI!DeliverGarbled, CLI!Expire
  <2>2. pc[p] \in Asking
    BY <2>1 DEF AnswerInv, Asks
  <2>3. UNCHANGED toDevice
    BY <1>3 DEF CLI!DeliverGarbled, CLI!Expire
  <2>4. UNCHANGED fromDevice \/ (fromDevice # <<>> /\ fromDevice' = Tail(fromDevice))
    BY <1>3 DEF CLI!DeliverGarbled, CLI!Expire
  <2>. QED
    BY <1>1, <2>1, <2>2, <2>3, <2>4, CallShrinks
<1>4. CASE CLI!LoseCommand \/ CLI!LoseReply
  BY <1>1, <1>4, CallShrinks DEF CLI!LoseCommand, CLI!LoseReply
<1>. QED
  BY <1>2, <1>3, <1>4 DEF Transport, Deadline

\* A request goes out, or it fails, runs out of time or waits for the lock.
LEMMA RequestShrinks ==
  ASSUME AnswerInv, NEW p \in Callers, Ask(p) \/ Waiting(p)
  PROVE  \/ Shrinks
         \/ /\ pc[p] \in Asking /\ call[p].st \in {"idle", "lock"}
            /\ CLI!Published(p, CommandOf(p))
            /\ UNCHANGED <<live, staged, claimed, pc, sent, rows, dirty>>
<1>1. UNCHANGED <<live, staged, claimed, pc, sent, rows, dirty>>
  BY DEF Ask, Waiting
<1>2. /\ pc[p] \in Asking /\ call[p].st \in {"idle", "lock"}
      /\ call[p].st = "lock" => call[p].cur = {CommandOf(p)}
  BY DEF Ask, Waiting, CLI!Request, CLI!Acquire, Asking, AnswerInv, Asks
<1>3. CASE CLI!Published(p, CommandOf(p))
  BY <1>1, <1>2, <1>3
<1>4. CASE ~CLI!Published(p, CommandOf(p))
  <2>1. \/ \E s \in {"failed", "late"} : call' = [call EXCEPT ![p].st = s]
        \/ /\ call[p].st = "idle"
           /\ call' = [call EXCEPT ![p].st = "lock", ![p].cur = {CommandOf(p)}]
    BY <1>2, <1>4 DEF Ask, Waiting, CLI!Request, CLI!Acquire, CLI!NotPublished
  <2>2. UNCHANGED <<toDevice, fromDevice>>
    BY <1>2, <1>4 DEF Ask, Waiting, CLI!Request, CLI!Acquire, CLI!NotPublished
  <2>. QED
    BY <1>1, <1>2, <2>1, <2>2, CallShrinks
<1>. QED
  BY <1>3, <1>4

-----------------------------------------------------------------------------
(* A command is published.                                                  *)

Sends(p) ==
    /\ pc[p] \in Asking /\ call[p].st \in {"idle", "lock"}
    /\ CLI!Published(p, CommandOf(p))
    /\ UNCHANGED <<live, staged, claimed, pc, sent, rows, dirty>>

\* The queue has the command at its end, and the call is fresh.
LEMMA SendIs ==
  ASSUME AnswerInv, NEW p \in Callers, Sends(p)
  PROVE  /\ toDevice' \in Seq(Command) /\ DOMAIN toDevice \subseteq DOMAIN toDevice'
         /\ \A k \in DOMAIN toDevice : toDevice'[k] = toDevice[k]
         /\ \A k \in DOMAIN toDevice' \ DOMAIN toDevice :
              toDevice'[k] = CommandOf(p) /\ \A l \in DOMAIN toDevice' : l <= k
         /\ call' \in [Callers -> CallRecord] /\ \A q \in Callers : q # p => call'[q] = call[q]
         /\ call'[p].st = "sent" /\ call'[p].cur = {CommandOf(p)}
         /\ call'[p].got = {} /\ call'[p].fin = {}
         /\ UNCHANGED <<fromDevice, live, staged, claimed, pc, sent, rows, dirty>>
<1>1. CommandOf(p) \in Command
  BY CommandIs DEF Sends
<1>2. /\ toDevice \in Seq(Command) /\ toDevice' = Append(toDevice, CommandOf(p))
      /\ call \in [Callers -> CallRecord]
      /\ UNCHANGED <<fromDevice, live, staged, claimed, pc, sent, rows, dirty>>
  BY DEF AnswerInv, TypeOK, Sends, CLI!Published
<1>3. /\ toDevice' \in Seq(Command) /\ DOMAIN toDevice \subseteq DOMAIN toDevice'
      /\ \A k \in DOMAIN toDevice : toDevice'[k] = toDevice[k]
      /\ \A k \in DOMAIN toDevice' \ DOMAIN toDevice :
           toDevice'[k] = CommandOf(p) /\ \A l \in DOMAIN toDevice' : l <= k
  BY ONLY <1>1, <1>2
<1> DEFINE x == [CLI!Idle EXCEPT !.st = "sent", !.cur = {CommandOf(p)}]
<1>4. x \in CallRecord /\ x.st = "sent" /\ x.cur = {CommandOf(p)} /\ x.got = {} /\ x.fin = {}
  BY <1>1, CallBegins
<1>5. call' = [call EXCEPT ![p] = x]
  BY DEF Sends, CLI!Published
<1>. HIDE DEF x
<1>. QED
  BY <1>2, <1>3, <1>4, <1>5

\* Every answer keeps its command.
LEMMA SendAnswers ==
  ASSUME AnswerInv, NEW p \in Callers, Sends(p)
  PROVE  AnswerInv'
<1>1. \A q \in Callers : CommandOf(q)' = CommandOf(q)
  BY SendIs, CommandStays
<1>2. TypeOK'
  BY SendIs DEF AnswerInv, TypeOK
<1>3. Asks'
  BY <1>1, SendIs DEF AnswerInv, Asks, Sends
<1>4. ChunksLeft'
  BY SendIs DEF AnswerInv, ChunksLeft
<1>5. InFlight' = InFlight /\ Had(p)' = {} /\ \A q \in Callers : q # p => Had(q)' = Had(q)
  <2>1. InFlight' = InFlight
    BY SendIs DEF InFlight
  <2>2. Had(p)' = {}
    BY SendIs DEF Had
  <2>3. \A q \in Callers : q # p => Had(q)' = Had(q)
    BY SendIs DEF Had
  <2>. QED
    BY <2>1, <2>2, <2>3
<1>6. PagesTell'
  BY <1>5 DEF AnswerInv, PagesTell, PageOK
<1>7. TakenIsOwn'
  BY <1>5, SendIs DEF AnswerInv, TakenIsOwn, IsRaw
<1>8. AnsweredIsWhole'
  BY SendIs DEF AnswerInv, AnsweredIsWhole, CLI!Complete
<1>9. Asked'
  <2>1. \A c : AskedOK(c)' = AskedOK(c)
    BY SendIs DEF AskedOK
  <2>2. AskedOK(CommandOf(p))
    BY CommandIs DEF AskedOK, Sends, Asking, IsRaw, CLI!Raw
  <2>3. \A k \in DOMAIN toDevice' : AskedOK(toDevice'[k])
    BY <2>2, SendIs DEF AnswerInv, Asked
  <2>. QED
    BY <1>5, <2>1, <2>3 DEF AnswerInv, Asked
<1>. QED
  BY <1>2, <1>3, <1>4, <1>6, <1>7, <1>8, <1>9 DEF AnswerInv

\* A chunk goes behind the chunks before it, a command to look at the file, to
\* rename it or to remove it behind them all.
LEMMA SendFile ==
  ASSUME AnswerInv, FileInv, ClaimInv, NEW p \in Callers, Sends(p)
  PROVE  FileInv' /\ ClaimInv'
<1> DEFINE c == CommandOf(p)
<1>1. UNCHANGED <<fromDevice, live, staged, claimed, pc, sent, dirty>>
  BY SendIs
<1>2. ClaimInv'
  BY <1>1 DEF ClaimInv, Holds, Running
<1> SUFFICES ASSUME "leavings" \notin dirty
             PROVE  LiveWhole' /\ \E u \in Writers \cup {NoOne} :
                                    (Sole(u) /\ (u \in Writers => OwnFile(u)))'
  BY <1>1, <1>2 DEF FileInv
<1>3. LiveWhole'
  BY <1>1 DEF FileInv, LiveWhole
<1>4. PICK u \in Writers \cup {NoOne} : Sole(u) /\ (u \in Writers => OwnFile(u))
  BY DEF FileInv
<1>5. c \in Command /\ c.by = p /\ pc[p] \in Asking
  BY CommandIs DEF Sends
<1>6. p \in Writers => p = u
  BY <1>4, <1>5, CommandIs DEF Sole, Running, Asking
<1>7. p \notin Writers => ~IsRaw(c) /\ c.cmd # "fs.mv"
  BY <1>5 DEF Command, IsRaw, CLI!Raw
<1>8. \A k \in DOMAIN toDevice' : k \notin DOMAIN toDevice =>
        toDevice'[k] = c /\ \A l \in DOMAIN toDevice' : l <= k
  BY SendIs
<1>9. \A k \in DOMAIN toDevice : k \in DOMAIN toDevice' /\ toDevice'[k] = toDevice[k]
  BY SendIs
<1>10. Sole(u)'
  BY <1>1, <1>4, <1>5, <1>6, <1>8, <1>9 DEF Sole, Running, Holds
<1>11. ASSUME u \in Writers
       PROVE  OwnFile(u)'
  <2>1. SentBy(u) \subseteq SentBy(u)'
    BY <1>1, <1>11, SendIs DEF SentBy, About, Sends, Callers
  <2>2. ASSUME p = u, IsRaw(c)
        PROVE  /\ pc[u] = "chunk" /\ About(u) /\ c.chunk = sent[u] + 1
               /\ c.cmd = "fs.write" => c.chunk = 1
               /\ c.chunk \in SentBy(u)'
    <3>1. pc[u] = "chunk" /\ c.chunk = sent[u] + 1 /\ (c.cmd = "fs.write" => c.chunk = 1)
      BY <1>5, <1>11, <2>2, CommandIs DEF IsRaw, CLI!Raw, Asking
    <3>2. About(u) /\ ~About(u)'
      BY <2>2, <3>1, SendIs DEF About, Sends
    <3>3. sent[u] \in Nat /\ ChunksOf[u] \in Nat /\ sent[u] < ChunksOf[u]
      BY <1>11, <3>1, WriteAssumption DEF AnswerInv, TypeOK, ChunksLeft
    <3>. QED
      BY <1>1, <3>1, <3>2, <3>3 DEF SentBy
  <2>3. \A j \in SentBy(u) : About(u) => j < sent[u] + 1
    BY <1>11 DEF SentBy, AnswerInv, TypeOK
  <2>4. QueueOK(u)'
    <3>1. QueueOK(u)
      BY <1>4, <1>11 DEF OwnFile
    <3> SUFFICES ASSUME NEW k \in DOMAIN toDevice', toDevice'[k].by = u
                 PROVE  /\ IsRaw(toDevice'[k]) => toDevice'[k].chunk \in SentBy(u)'
                        /\ toDevice'[k].cmd = "fs.write" => toDevice'[k].chunk = 1
                        /\ \A l \in DOMAIN toDevice' :
                             k < l /\ toDevice'[l].by = u /\ IsRaw(toDevice'[l]) =>
                               IsRaw(toDevice'[k]) /\ toDevice'[k].chunk < toDevice'[l].chunk
      BY DEF QueueOK, IsRaw
    <3>2. CASE k \in DOMAIN toDevice
      <4>1. ASSUME NEW l \in DOMAIN toDevice', l \notin DOMAIN toDevice,
                   toDevice'[l].by = u, IsRaw(toDevice'[l])
            PROVE  IsRaw(toDevice'[k]) /\ toDevice'[k].chunk < toDevice'[l].chunk
        <5>1. toDevice'[l] = c /\ p = u /\ IsRaw(c)
          BY <1>5, <1>8, <4>1
        <5>2. toDevice[k] \in Command /\ toDevice[k].by = u /\ AskedOK(toDevice[k])
          BY <1>9, <3>2 DEF AnswerInv, TypeOK, Asked
        <5>3. IsRaw(toDevice[k])
          BY <1>11, <2>2, <5>1, <5>2 DEF AskedOK, Command, WriterCmds, IsRaw, CLI!Raw
        <5>4. toDevice[k].chunk \in SentBy(u)
          BY <3>1, <3>2, <5>2, <5>3 DEF QueueOK
        <5>. QED
          BY <1>9, <2>2, <2>3, <3>2, <5>1, <5>3, <5>4
      <4>. QED
        BY <1>9, <2>1, <3>1, <3>2, <4>1 DEF QueueOK
    <3>3. CASE k \notin DOMAIN toDevice
      <4>1. toDevice'[k] = c /\ p = u /\ \A l \in DOMAIN toDevice' : ~(k < l)
        <5>1. \A l \in DOMAIN toDevice' : l \in Int /\ k \in Int
          BY SendIs, LenProperties
        <5>. QED
          BY <1>5, <1>8, <3>3, <5>1
      <4>2. c.cmd = "fs.write" => IsRaw(c)
        BY DEF IsRaw, CLI!Raw
      <4>. QED
        BY <2>2, <4>1, <4>2
    <3>. QED
      BY <3>2, <3>3
  <2>5. StagedOK(u)'
    <3>1. StagedOK(u)
      BY <1>4, <1>11 DEF OwnFile
    <3>2. ASSUME NEW s \in staged, NEW i \in DOMAIN s
          PROVE  /\ s[i][2] \in SentBy(u)'
                 /\ \A k \in DOMAIN toDevice' : toDevice'[k].by = u /\ IsRaw(toDevice'[k]) =>
                       s[i][2] < toDevice'[k].chunk
      BY <1>5, <1>8, <1>9, <2>1, <2>2, <2>3, <3>1 DEF StagedOK
    <3>3. \A s \in staged : InOrder(s)
      BY <3>1 DEF StagedOK
    <3>. QED
      BY <1>1, <3>2, <3>3 DEF StagedOK, InOrder, IsRaw
  <2>6. ASSUME pc[u] # "chunk", NoChunksQueued
        PROVE  NoChunksQueued'
    BY <1>5, <1>6, <1>7, <1>8, <1>9, <2>2, <2>6 DEF NoChunksQueued, IsRaw
  <2>7. InFlight' \cup Had(u)' \subseteq InFlight \cup Had(u) /\ CommandOf(u)' = CommandOf(u)
    BY <1>1, <1>11, SendIs, CommandStays DEF InFlight, Had, Callers
  <2>8. SizeTold(u)'
    BY <1>1, <1>4, <1>11, <2>6, <2>7 DEF OwnFile, SizeTold
  <2>9. RenameWhole(u)'
    <3>1. ASSUME \E k \in DOMAIN toDevice' : toDevice'[k].cmd = "fs.mv"
          PROVE  pc[u] = "mv" \/ \E k \in DOMAIN toDevice : toDevice[k].cmd = "fs.mv"
      BY <1>5, <1>6, <1>7, <1>8, <1>9, <3>1, CommandIs DEF Asking, IsRaw, CLI!Raw
    <3>2. pc[u] = "mv" \/ (\E k \in DOMAIN toDevice : toDevice[k].cmd = "fs.mv")
            => pc[u] # "chunk" /\ NoChunksQueued /\ staged \subseteq {Content(u)}
      <4>1. ASSUME NEW k \in DOMAIN toDevice, toDevice[k].cmd = "fs.mv"
            PROVE  pc[u] # "chunk"
        <5>1. toDevice[k] \in Command /\ AskedOK(toDevice[k])
          BY DEF AnswerInv, TypeOK, Asked
        <5>2. toDevice[k].by \in Writers
          BY <4>1, <5>1 DEF Command
        <5>. QED
          BY <1>4, <4>1, <5>1, <5>2 DEF AskedOK, Sole
      <4>. QED
        BY <1>4, <1>11, <4>1 DEF OwnFile, RenameWhole
    <3>. QED
      BY <1>1, <2>6, <3>1, <3>2 DEF RenameWhole
  <2>10. Renamed(u)'
    BY <1>1, <1>4, <1>11, <2>7 DEF OwnFile, Renamed
  <2>11. Holding(u)'
    BY <1>1, <1>4, <1>11 DEF OwnFile, Holding
  <2>. QED
    BY <2>4, <2>5, <2>8, <2>9, <2>10, <2>11 DEF OwnFile
<1>. QED
  BY <1>3, <1>4, <1>10, <1>11

-----------------------------------------------------------------------------
(* The device.                                                              *)

\* What the device does with the command at the head of the queue, and what its
\* replies are worth: a size is the staged file's, a rename happened.
ReplyTells(c, r) ==
    /\ r.to = c /\ PageOK(r)
    /\ c.cmd = "fs.cat" /\ r.ok => \E s \in staged : Len(s) = r.n
    /\ c.cmd = "fs.mv" /\ r.line = "renamed" => live' \in staged

FileChanges(c) ==
    \/ UNCHANGED <<live, staged>>
    \/ /\ IsRaw(c) /\ UNCHANGED live
       /\ \E s \in Before(c) : staged' = {s} \/ staged' = {Append(s, <<c.by, c.chunk>>)}
    \/ c.cmd = "fs.mv" /\ live' \in staged /\ staged' = {}
    \/ c.cmd = "fs.rm" /\ UNCHANGED live /\ staged' = {}

Handles(c) ==
    /\ toDevice # <<>> /\ c = Head(toDevice) /\ toDevice' = Tail(toDevice)
    /\ fromDevice' \in Seq(Reply)
    /\ \A r \in InFlight' : r \in InFlight \/ ReplyTells(c, r)
    /\ FileChanges(c)
    /\ UNCHANGED <<call, claimed, pc, sent, rows, dirty>>

\* A reply of one page.
LEMMA ReplyIs ==
  ASSUME NEW c \in Command, NEW ok \in BOOLEAN,
         NEW line \in {"ack", "renamed", "removed", "other"}, NEW n \in Nat
  PROVE  LET r == ReplyTo(c, ok, line, n)
         IN  /\ r \in Reply /\ r.to = c /\ r.ok = ok /\ r.line = line /\ r.n = n
             /\ c.cmd # "config.dump" \/ ~ok => PageOK(r)
<1>1. Nothing \in Contents
  BY DEF Nothing, Contents
<1>. QED
  BY <1>1 DEF ReplyTo, Reply, PageOK

\* A page of a dump.
LEMMA PageIs ==
  ASSUME AnswerInv, NEW c \in Command, c.cmd = "config.dump", NEW i \in 1..DumpPages
  PROVE  LET r == [ReplyTo(c, TRUE, "other", 0) EXCEPT
                      !.data = live, !.page = i - 1, !.more = (i < DumpPages)]
         IN  r \in Reply /\ r.to = c /\ PageOK(r)
<1> DEFINE r == [ReplyTo(c, TRUE, "other", 0) EXCEPT
                    !.data = live, !.page = i - 1, !.more = (i < DumpPages)]
           b == i < DumpPages
           k == i - 1
<1>1. live \in Contents /\ DumpPages \in Nat \ {0}
  BY WriteAssumption DEF AnswerInv, TypeOK
<1>2. b \in BOOLEAN
  OBVIOUS
<1>3. i - 1 \in 0..(DumpPages - 1) /\ (~(i < DumpPages) => i - 1 = DumpPages - 1) /\ i - 1 \in Nat
  BY <1>1
<1>4. r \in Reply /\ r.to = c /\ r.page = k /\ r.more = b
  <2> HIDE DEF b, k
  <2>1. k \in Nat
    BY <1>3 DEF k
  <2> SUFFICES LET x == [ReplyTo(c, TRUE, "other", 0) EXCEPT !.data = live, !.page = k, !.more = b]
               IN x \in Reply /\ x.to = c /\ x.page = k /\ x.more = b
    BY DEF b, k
  <2>. QED
    BY <1>1, <1>2, <2>1 DEF ReplyTo, Reply
<1>5. PageOK(r)
  <2> HIDE DEF r
  <2>. QED
    BY <1>3, <1>4 DEF PageOK
<1>. QED
  BY <1>4, <1>5 DEF r

\* The replies to a command follow those on their way.
LEMMA AnswerIs ==
  ASSUME AnswerInv, NEW replies \in Seq(Reply), CLI!Answer(replies)
  PROVE  /\ fromDevice' \in Seq(Reply) /\ toDevice' = Tail(toDevice) /\ UNCHANGED call
         /\ \A r \in InFlight' : r \in InFlight \/ \E i \in DOMAIN replies : r = replies[i]
<1>1. fromDevice \in Seq(Reply) /\ fromDevice' = fromDevice \o replies
  BY DEF AnswerInv, TypeOK, CLI!Answer
<1>2. fromDevice' \in Seq(Reply) /\ Len(fromDevice') = Len(fromDevice) + Len(replies)
      /\ \A i \in 1..Len(fromDevice') :
           fromDevice'[i] = IF i <= Len(fromDevice) THEN fromDevice[i]
                            ELSE replies[i - Len(fromDevice)]
  BY <1>1, ConcatProperties
<1>3. ASSUME NEW i \in DOMAIN fromDevice'
      PROVE  \/ i \in DOMAIN fromDevice /\ fromDevice'[i] = fromDevice[i]
             \/ i - Len(fromDevice) \in DOMAIN replies
                /\ fromDevice'[i] = replies[i - Len(fromDevice)]
  <2>1. i \in 1..Len(fromDevice')
    BY <1>2
  <2>2. i <= Len(fromDevice) => i \in DOMAIN fromDevice
    BY <1>1, <2>1
  <2>3. ~(i <= Len(fromDevice)) => i - Len(fromDevice) \in DOMAIN replies
    BY <1>1, <1>2, <2>1
  <2>. QED
    BY <1>2, <2>1, <2>2, <2>3
<1>. QED
  BY <1>2, <1>3 DEF InFlight, CLI!Answer

\* One reply.
LEMMA OneReply ==
  ASSUME AnswerInv, NEW r \in Reply, CLI!Answer(<<r>>)
  PROVE  /\ fromDevice' \in Seq(Reply) /\ toDevice' = Tail(toDevice) /\ UNCHANGED call
         /\ \A x \in InFlight' : x \in InFlight \/ x = r
<1>1. <<r>> \in Seq(Reply) /\ \A i \in DOMAIN <<r>> : <<r>>[i] = r
  OBVIOUS
<1>. QED
  BY <1>1, AnswerIs

\* Each command is handled.
LEMMA DeviceHandles ==
  ASSUME AnswerInv, Device
  PROVE  Head(toDevice) \in Command /\ Handles(Head(toDevice))
<1> DEFINE c == Head(toDevice)
<1>1. toDevice # <<>> /\ c \in Command
  BY TailFollows DEF AnswerInv, TypeOK, Device
<1>2. UNCHANGED <<claimed, pc, sent, rows, dirty>>
  BY DEF Device
<1>3. DeviceStores(c) \/ DeviceSizes(c) \/ DeviceMoves(c) \/ DeviceRemoves(c) \/ DeviceDumps(c)
  BY DEF Device
<1>4. \A s \in staged : Len(s) \in Nat
  BY DEF AnswerInv, TypeOK, Contents
<1>. SUFFICES Handles(c)
  BY <1>1
<1>. HIDE DEF c
<1>5. ASSUME NEW ok \in BOOLEAN, NEW line \in {"ack", "renamed", "removed", "other"},
             NEW n \in Nat, CLI!Answer(<<ReplyTo(c, ok, line, n)>>),
             c.cmd # "config.dump" \/ ~ok, FileChanges(c),
             c.cmd = "fs.cat" /\ ok => \E s \in staged : Len(s) = n,
             c.cmd = "fs.mv" /\ line = "renamed" => live' \in staged
      PROVE  Handles(c)
  <2> DEFINE r == ReplyTo(c, ok, line, n)
  <2>1. r \in Reply /\ r.to = c /\ PageOK(r) /\ r.ok = ok /\ r.line = line /\ r.n = n
    BY <1>1, <1>5, ReplyIs
  <2>2. /\ fromDevice' \in Seq(Reply) /\ toDevice' = Tail(toDevice) /\ UNCHANGED call
        /\ \A x \in InFlight' : x \in InFlight \/ x = r
    <3>1. CLI!Answer(<<r>>)
      BY <1>5
    <3>. HIDE DEF r
    <3>. QED
      BY <2>1, <3>1, OneReply
  <2>. HIDE DEF r
  <2>3. ReplyTells(c, r)
    BY <1>5, <2>1 DEF ReplyTells
  <2>. QED
    BY <1>1, <1>2, <1>5, <2>2, <2>3 DEF Handles, c
<1>6. CASE DeviceStores(c)
  <2>1. IsRaw(c) /\ c.cmd \notin {"fs.cat", "fs.mv", "config.dump"}
    BY <1>6 DEF DeviceStores, IsRaw, CLI!Raw
  <2>2. FileChanges(c)
    <3>1. PICK s \in Before(c) : Before(c) = {s}
      <4>1. \A s, t \in staged : s = t
        BY DEF AnswerInv, TypeOK
      <4>. QED
        BY <4>1 DEF Before
    <3>2. {Append(t, <<c.by, c.chunk>>) : t \in Before(c)} = {Append(s, <<c.by, c.chunk>>)}
      BY <3>1
    <3>. QED
      BY <1>6, <2>1, <3>1, <3>2 DEF DeviceStores, FileChanges, deviceVars
  <2>3. PICK ok \in BOOLEAN, line \in {"ack", "other"}, n \in {0, 1} :
           CLI!Answer(<<ReplyTo(c, ok, line, n)>>)
    BY <1>6 DEF DeviceStores
  <2>. QED
    BY <1>5, <2>1, <2>2, <2>3
<1>7. CASE DeviceSizes(c)
  <2>1. c.cmd = "fs.cat" /\ FileChanges(c)
    BY <1>7 DEF DeviceSizes, FileChanges
  <2>2. CASE \E s \in staged : CLI!Answer(<<ReplyTo(c, TRUE, "other", Len(s))>>)
    BY <1>4, <1>5, <2>1, <2>2
  <2>3. CASE CLI!Answer(<<ReplyTo(c, FALSE, "other", 0)>>)
    BY <1>5, <2>1, <2>3
  <2>. QED
    BY <1>7, <2>2, <2>3 DEF DeviceSizes
<1>8. CASE DeviceMoves(c)
  <2>1. c.cmd = "fs.mv" /\ FileChanges(c)
    BY <1>8 DEF DeviceMoves, FileChanges, deviceVars
  <2>2. \/ live' \in staged /\ CLI!Answer(<<ReplyTo(c, TRUE, "renamed", 0)>>)
        \/ CLI!Answer(<<ReplyTo(c, TRUE, "other", 0)>>)
    BY <1>8 DEF DeviceMoves
  <2>. QED
    BY <1>5, <2>1, <2>2
<1>9. CASE DeviceRemoves(c)
  <2>1. c.cmd = "fs.rm" /\ FileChanges(c)
    BY <1>9 DEF DeviceRemoves, FileChanges
  <2>2. PICK line \in {"other", "removed"} : CLI!Answer(<<ReplyTo(c, TRUE, line, 0)>>)
    BY <1>9 DEF DeviceRemoves
  <2>. QED
    BY <1>5, <2>1, <2>2
<1>10. CASE DeviceDumps(c)
  <2>1. c.cmd = "config.dump" /\ FileChanges(c)
    BY <1>10 DEF DeviceDumps, FileChanges, deviceVars
  <2> DEFINE page(i) == [ReplyTo(c, TRUE, "other", 0) EXCEPT
                            !.data = live, !.page = i - 1, !.more = (i < DumpPages)]
             pages == [i \in 1..DumpPages |-> page(i)]
  <2>2. ASSUME CLI!Answer(pages)
        PROVE  Handles(c)
    <3>1. \A i \in 1..DumpPages : page(i) \in Reply /\ page(i).to = c /\ PageOK(page(i))
      BY <1>1, <2>1, PageIs
    <3>. HIDE DEF page
    <3>2. DumpPages \in Nat /\ DOMAIN pages = 1..DumpPages
      BY WriteAssumption
    <3>3. pages \in Seq(Reply) /\ \A i \in 1..DumpPages : pages[i] = page(i)
      BY <3>1, <3>2
    <3>. HIDE DEF pages
    <3>4. /\ fromDevice' \in Seq(Reply) /\ toDevice' = Tail(toDevice) /\ UNCHANGED call
          /\ \A r \in InFlight' : r \in InFlight \/ \E i \in DOMAIN pages : r = pages[i]
      BY <2>2, <3>3, AnswerIs
    <3>. QED
      BY <1>1, <1>2, <2>1, <3>1, <3>2, <3>3, <3>4 DEF Handles, ReplyTells, c
  <2>3. CASE CLI!Answer(<<ReplyTo(c, FALSE, "other", 0)>>)
    BY <1>5, <2>1, <2>3
  <2>. QED
    BY <1>10, <2>2, <2>3 DEF DeviceDumps
<1>. QED
  BY <1>3, <1>6, <1>7, <1>8, <1>9, <1>10

\* The queue without its head, and what the file may become.
LEMMA HandlesIs ==
  ASSUME AnswerInv, NEW c \in Command, Handles(c)
  PROVE  /\ 1 \in DOMAIN toDevice /\ toDevice[1] = c /\ AskedOK(c)
         /\ toDevice' \in Seq(Command)
         /\ \A k \in DOMAIN toDevice' : /\ k + 1 \in DOMAIN toDevice /\ 1 < k + 1
                                        /\ toDevice'[k] = toDevice[k + 1]
<1>1. toDevice \in Seq(Command) /\ toDevice # <<>> /\ toDevice' = Tail(toDevice)
      /\ c = Head(toDevice)
  BY DEF AnswerInv, TypeOK, Handles
<1>2. /\ 1 \in DOMAIN toDevice /\ toDevice[1] = c /\ toDevice' \in Seq(Command)
      /\ \A k \in DOMAIN toDevice' : k + 1 \in DOMAIN toDevice /\ toDevice'[k] = toDevice[k + 1]
  BY ONLY <1>1, TailFollows
<1>3. \A k \in DOMAIN toDevice' : 1 < k + 1
  BY <1>2
<1>. QED
  BY <1>2, <1>3 DEF AnswerInv, Asked

\* What the staged file becomes is a file.
LEMMA StagedIs ==
  ASSUME AnswerInv, NEW c \in Command, Handles(c)
  PROVE  /\ live' \in Contents /\ staged' \in SUBSET Contents
         /\ \A s, t \in staged' : s = t
<1>1. live \in Contents /\ staged \in SUBSET Contents /\ \A s, t \in staged : s = t
  BY DEF AnswerInv, TypeOK
<1>2. ASSUME NEW s \in Before(c)
      PROVE  s \in Contents /\ Append(s, <<c.by, c.chunk>>) \in Contents
  <2>1. s \in Contents
    <3>1. Nothing \in Contents
      BY DEF Nothing, Contents
    <3>. QED
      BY <1>1, <1>2, <3>1 DEF Before
  <2>2. <<c.by, c.chunk>> \in (Callers \cup {NoOne}) \X Nat
    BY DEF Command
  <2>. QED
    BY <2>1, <2>2 DEF Contents
<1>. QED
  BY <1>1, <1>2 DEF Handles, FileChanges

\* Every answer keeps its command.
LEMMA HandlesAnswers ==
  ASSUME AnswerInv, NEW c \in Command, Handles(c)
  PROVE  AnswerInv'
<1>1. UNCHANGED <<call, claimed, pc, sent, rows, dirty>> /\ fromDevice' \in Seq(Reply)
      /\ \A r \in InFlight' : r \in InFlight \/ (r.to = c /\ PageOK(r))
  BY DEF Handles, ReplyTells
<1>2. \A q \in Callers : CommandOf(q)' = CommandOf(q) /\ Had(q)' = Had(q)
  BY <1>1, CommandStays DEF Had
<1>3. TypeOK'
  BY <1>1, HandlesIs, StagedIs DEF AnswerInv, TypeOK
<1>4. Asks' /\ ChunksLeft' /\ AnsweredIsWhole'
  BY <1>1, <1>2 DEF AnswerInv, Asks, ChunksLeft, AnsweredIsWhole, CLI!Complete
<1>5. PagesTell'
  BY <1>1, <1>2 DEF AnswerInv, PagesTell, PageOK
<1>6. TakenIsOwn'
  BY <1>1, <1>2 DEF AnswerInv, TakenIsOwn, IsRaw
<1>7. Asked'
  <2>1. \A x : AskedOK(x)' = AskedOK(x)
    BY <1>1 DEF AskedOK
  <2>2. \A k \in DOMAIN toDevice' : AskedOK(toDevice'[k])
    BY HandlesIs DEF AnswerInv, Asked
  <2>3. \A r \in InFlight' : AskedOK(r.to)
    BY <1>1, HandlesIs DEF AnswerInv, Asked
  <2>. QED
    BY <2>1, <2>2, <2>3 DEF Asked
<1>. QED
  BY <1>3, <1>4, <1>5, <1>6, <1>7 DEF AnswerInv

\* An entry behind a file in order, for a later chunk, leaves it in order.
LEMMA AppendInOrder ==
  ASSUME NEW S, NEW s \in Seq(S \X Nat), InOrder(s), NEW x \in S, NEW n \in Nat,
         \A i \in DOMAIN s : s[i][2] < n
  PROVE  /\ InOrder(Append(s, <<x, n>>))
         /\ \A i \in DOMAIN Append(s, <<x, n>>) :
               \/ i \in DOMAIN s /\ Append(s, <<x, n>>)[i] = s[i]
               \/ Append(s, <<x, n>>)[i] = <<x, n>>
<1> DEFINE t == Append(s, <<x, n>>)
<1>1. Len(s) \in Nat /\ DOMAIN s = 1..Len(s) /\ DOMAIN t = 1..(Len(s) + 1)
      /\ t[Len(s) + 1] = <<x, n>> /\ \A i \in 1..Len(s) : t[i] = s[i] /\ s[i][2] \in Nat
  OBVIOUS
<1>. HIDE DEF t
<1>2. ASSUME NEW i \in DOMAIN t, NEW j \in DOMAIN t, i <= j
      PROVE  t[j][2] - t[i][2] >= j - i
  <2>1. CASE j \in DOMAIN s
    <3>1. i \in DOMAIN s
      BY <1>1, <1>2, <2>1
    <3>. QED
      BY <1>1, <1>2, <2>1, <3>1 DEF InOrder
  <2>2. CASE j = Len(s) + 1 /\ i = j
    BY <1>1, <2>2
  <2>3. CASE j = Len(s) + 1 /\ i # j
    <3>1. i \in 1..Len(s) /\ Len(s) \in DOMAIN s /\ i <= Len(s)
      BY <1>1, <1>2, <2>3
    <3>2. s[Len(s)][2] - s[i][2] >= Len(s) - i
      BY <1>1, <3>1 DEF InOrder
    <3>3. s[Len(s)][2] < n /\ s[Len(s)][2] \in Nat /\ s[i][2] \in Nat
      BY <1>1, <3>1
    <3>4. t[j][2] = n /\ t[i][2] = s[i][2]
      BY <1>1, <2>3, <3>1
    <3>. QED
      BY <1>1, <2>3, <3>1, <3>2, <3>3, <3>4
  <2>. QED
    BY <1>1, <2>1, <2>2, <2>3
<1>3. InOrder(t)
  BY <1>2 DEF InOrder
<1>. QED
  BY <1>1, <1>3 DEF t

\* As many chunks as the content has, in order, are the content.
LEMMA WholeWhenLong ==
  ASSUME NEW u \in Writers, NEW s \in Contents, InOrder(s), Len(s) = ChunksOf[u],
         \A i \in DOMAIN s : s[i][1] = u /\ s[i][2] \in 1..ChunksOf[u]
  PROVE  s = Content(u)
<1> DEFINE T == (Callers \cup {NoOne}) \X Nat
<1>1. s \in Seq(T) /\ ChunksOf[u] \in Nat \ {0}
  BY WriteAssumption DEF Contents
<1>2. ASSUME NEW i \in 1..Len(s)
      PROVE  s[i] = <<u, i>>
  <2>1. i \in DOMAIN s /\ 1 \in DOMAIN s /\ Len(s) \in DOMAIN s /\ 1 <= i /\ i <= Len(s)
    BY <1>1
  <2>2. s[i][2] - s[1][2] >= i - 1 /\ s[Len(s)][2] - s[i][2] >= Len(s) - i
    BY <2>1 DEF InOrder
  <2>3. s[1][2] \in 1..ChunksOf[u] /\ s[i][2] \in 1..ChunksOf[u]
        /\ s[Len(s)][2] \in 1..ChunksOf[u]
    BY <2>1
  <2>4. s[i][2] = i
    <3> DEFINE first == s[1][2]
               mid == s[i][2]
               last == s[Len(s)][2]
               n == ChunksOf[u]
    <3>1. /\ n \in Nat /\ Len(s) = n /\ i \in 1..n
          /\ first \in 1..n /\ mid \in 1..n /\ last \in 1..n
          /\ mid - first >= i - 1 /\ last - mid >= n - i
      BY <1>1, <2>2, <2>3
    <3>. HIDE DEF first, mid, last, n
    <3>2. mid = i
      BY ONLY <3>1
    <3>. QED
      BY <3>2 DEF mid
  <2>5. s[i] \in T /\ s[i][1] = u
    BY <1>1, <2>1
  <2>. QED
    BY <2>4, <2>5
<1>3. Content(u) \in Seq(T) /\ Len(Content(u)) = ChunksOf[u]
      /\ \A i \in 1..ChunksOf[u] : Content(u)[i] = <<u, i>>
  BY <1>1 DEF Content, Callers
<1>. HIDE DEF T
<1>. QED
  BY <1>1, <1>2, <1>3, SeqEqual

\* The chunks still to come are later than those in the file, what is measured or
\* renamed is not changed, and what is renamed is whole.
LEMMA HandlesFile ==
  ASSUME AnswerInv, FileInv, ClaimInv, NEW c \in Command, Handles(c)
  PROVE  FileInv' /\ ClaimInv'
<1>1. UNCHANGED <<call, claimed, pc, sent, dirty>>
      /\ \A r \in InFlight' : r \in InFlight \/ ReplyTells(c, r)
  BY DEF Handles
<1>2. ClaimInv'
  BY <1>1 DEF ClaimInv, Holds, Running
<1> SUFFICES ASSUME "leavings" \notin dirty
             PROVE  LiveWhole' /\ \E u \in Writers \cup {NoOne} :
                                    (Sole(u) /\ (u \in Writers => OwnFile(u)))'
  BY <1>1, <1>2 DEF FileInv
<1>3. PICK u \in Writers \cup {NoOne} : Sole(u) /\ (u \in Writers => OwnFile(u))
  BY DEF FileInv
<1>4. /\ 1 \in DOMAIN toDevice /\ toDevice[1] = c /\ AskedOK(c)
      /\ \A k \in DOMAIN toDevice' : /\ k + 1 \in DOMAIN toDevice /\ 1 < k + 1
                                     /\ toDevice'[k] = toDevice[k + 1]
  BY HandlesIs
<1>5. c.by \in Writers => c.by = u /\ u \in Writers
  BY <1>3, <1>4 DEF Sole
<1>6. IsRaw(c) \/ c.cmd \in {"fs.cat", "fs.mv", "fs.rm"} => c.by = u /\ u \in Writers
  BY <1>5 DEF Command, IsRaw, CLI!Raw
<1>7. c.cmd = "fs.mv" => NoChunksQueued /\ staged \subseteq {Content(u)} /\ u \in Writers
  BY <1>3, <1>4, <1>6 DEF OwnFile, RenameWhole
<1>8. \/ UNCHANGED live
      \/ c.cmd = "fs.mv" /\ u \in Writers /\ live' = Content(u)
  BY <1>7 DEF Handles, FileChanges
<1>9. LiveWhole'
  BY <1>8 DEF FileInv, LiveWhole, Content
<1>10. ASSUME NEW s \in staged', u \in Writers
       PROVE  /\ \A i \in DOMAIN s : s[i][1] = u /\ s[i][2] \in SentBy(u)
              /\ InOrder(s)
              /\ \A i \in DOMAIN s : \A k \in DOMAIN toDevice' :
                   toDevice'[k].by = u /\ IsRaw(toDevice'[k]) => s[i][2] < toDevice'[k].chunk
  <2>1. StagedOK(u) /\ QueueOK(u) /\ Sole(u)
    BY <1>3, <1>10 DEF OwnFile
  <2>2. CASE s \in staged
    BY <1>4, <2>1, <2>2 DEF StagedOK, Sole
  <2>3. ASSUME IsRaw(c), NEW b \in Before(c), s = b \/ s = Append(b, <<c.by, c.chunk>>),
               staged' = {s}
        PROVE  /\ \A i \in DOMAIN s : s[i][1] = u /\ s[i][2] \in SentBy(u)
               /\ InOrder(s)
               /\ \A i \in DOMAIN s : \A k \in DOMAIN toDevice' :
                    toDevice'[k].by = u /\ IsRaw(toDevice'[k]) => s[i][2] < toDevice'[k].chunk
    <3>1. c.by = u /\ c.chunk \in SentBy(u) /\ c.chunk \in Nat /\ u \in Callers \cup {NoOne}
      BY <1>4, <1>6, <1>10, <2>1, <2>3 DEF QueueOK, Command, Callers
    <3>2. b \in Seq((Callers \cup {NoOne}) \X Nat) /\ InOrder(b)
          /\ \A i \in DOMAIN b : b[i][1] = u /\ b[i][2] \in SentBy(u) /\ b[i][2] < c.chunk
      <4>1. CASE b \in staged
        BY <1>4, <2>1, <2>3, <3>1, <4>1 DEF StagedOK, Sole, AnswerInv, TypeOK, Contents
      <4>2. CASE b = <<>>
        BY <4>2 DEF InOrder
      <4>. QED
        BY <2>3, <4>1, <4>2 DEF Before, Nothing
    <3>3. \A k \in DOMAIN toDevice' : toDevice'[k].by = u /\ IsRaw(toDevice'[k]) =>
             c.chunk < toDevice'[k].chunk /\ toDevice'[k].chunk \in Nat
      <4> SUFFICES ASSUME NEW k \in DOMAIN toDevice', toDevice'[k].by = u, IsRaw(toDevice'[k])
                   PROVE  c.chunk < toDevice'[k].chunk /\ toDevice'[k].chunk \in Nat
        OBVIOUS
      <4>1. k + 1 \in DOMAIN toDevice /\ 1 < k + 1 /\ toDevice[k + 1] = toDevice'[k]
        BY <1>4
      <4>2. toDevice[1].chunk < toDevice[k + 1].chunk
        BY <1>4, <2>1, <3>1, <4>1 DEF QueueOK
      <4>3. toDevice'[k] \in Command
        BY HandlesIs
      <4>. QED
        BY <1>4, <4>1, <4>2, <4>3 DEF Command
    <3>4. InOrder(s)
      <4>1. InOrder(Append(b, <<u, c.chunk>>))
        BY <3>1, <3>2, AppendInOrder
      <4>. QED
        BY <2>3, <3>1, <3>2, <4>1
    <3>5. \A i \in DOMAIN s : s[i][1] = u /\ s[i][2] \in SentBy(u) /\ s[i][2] <= c.chunk
                              /\ s[i][2] \in Nat
      <4>1. CASE s = b
        BY <3>1, <3>2, <4>1
      <4>2. CASE s = Append(b, <<u, c.chunk>>)
        <5>1. \A i \in DOMAIN s : (i \in DOMAIN b /\ s[i] = b[i]) \/ s[i] = <<u, c.chunk>>
          BY <3>1, <3>2, <4>2, AppendInOrder
        <5>. QED
          BY <3>1, <3>2, <5>1
      <4>. QED
        BY <2>3, <3>1, <4>1, <4>2
    <3>. QED
      BY <3>1, <3>3, <3>4, <3>5
  <2>. QED
    BY <2>2, <2>3 DEF Handles, FileChanges
<1>11. Sole(u)'
  <2>1. \A s \in staged' : \A i \in DOMAIN s : s[i][1] = u
    <3>1. CASE u \in Writers
      BY <1>10, <3>1
    <3>2. CASE u \notin Writers
      BY <1>3, <1>6, <3>2 DEF Sole, Handles, FileChanges
    <3>. QED
      BY <3>1, <3>2
  <2>. QED
    BY <1>1, <1>3, <1>4, <2>1 DEF Sole, Running, Holds
<1>12. ASSUME u \in Writers
       PROVE  OwnFile(u)'
  <2>1. SentBy(u)' = SentBy(u) /\ Had(u)' = Had(u) /\ CommandOf(u)' = CommandOf(u)
    BY <1>1, <1>12, CommandStays DEF SentBy, About, Had, Callers
  <2>2. QueueOK(u)'
    <3>1. QueueOK(u)
      BY <1>3, <1>12 DEF OwnFile
    <3>2. \A k, l \in DOMAIN toDevice' : k < l => k + 1 < l + 1
      BY HandlesIs
    <3>. QED
      BY <1>4, <2>1, <3>1, <3>2 DEF QueueOK, IsRaw
  <2>3. StagedOK(u)'
    BY <1>10, <1>12, <2>1 DEF StagedOK, InOrder, IsRaw
  <2>4. NoChunksQueued => NoChunksQueued' /\ ~IsRaw(c)
    BY <1>4 DEF NoChunksQueued, IsRaw
  <2>5. \/ UNCHANGED staged \/ IsRaw(c) \/ (c.cmd \in {"fs.mv", "fs.rm"} /\ staged' = {})
    BY DEF Handles, FileChanges
  <2>6. c.cmd = "fs.cat" => NoChunksQueued'
    <3>1. ASSUME c.cmd = "fs.cat", NEW k \in DOMAIN toDevice', IsRaw(toDevice'[k])
          PROVE  FALSE
      <4>1. k + 1 \in DOMAIN toDevice /\ 1 < k + 1 /\ toDevice[k + 1] = toDevice'[k]
            /\ toDevice[k + 1] \in Command
        BY <1>4, HandlesIs
      <4>2. toDevice[k + 1].by \in Writers
        BY <3>1, <4>1 DEF Command, IsRaw, CLI!Raw
      <4>3. toDevice[k + 1].by = u /\ toDevice[1].by = u
        BY <1>3, <1>4, <1>6, <3>1, <4>1, <4>2 DEF Sole
      <4>4. IsRaw(toDevice[1])
        BY <1>3, <1>4, <1>12, <3>1, <4>1, <4>3 DEF OwnFile, QueueOK
      <4>. QED
        BY <1>4, <3>1, <4>4 DEF IsRaw, CLI!Raw
    <3>. QED
      BY <3>1 DEF NoChunksQueued, IsRaw
  <2>7. SizeTold(u)'
    <3> SUFFICES ASSUME pc[u] = "cat", NEW r \in InFlight' \cup Had(u),
                        r.to = CommandOf(u), r.ok
                 PROVE  NoChunksQueued' /\ \E s \in staged' : Len(s) = r.n
      BY <1>1, <2>1 DEF SizeTold
    <3>1. CommandOf(u).cmd = "fs.cat"
      BY <1>12, CommandIs DEF Asking, Callers
    <3>2. CASE r \in InFlight \cup Had(u)
      <4>1. NoChunksQueued /\ \E s \in staged : Len(s) = r.n
        BY <1>3, <1>12, <3>2 DEF OwnFile, SizeTold
      <4>2. c.cmd \notin {"fs.mv", "fs.rm"}
        BY <1>4, <1>6 DEF AskedOK
      <4>. QED
        BY <2>4, <2>5, <4>1, <4>2
    <3>3. CASE ReplyTells(c, r)
      <4>1. c.cmd = "fs.cat"
        BY <3>1, <3>3 DEF ReplyTells
      <4>2. \E s \in staged : Len(s) = r.n
        BY <3>3, <4>1 DEF ReplyTells
      <4>. QED
        BY <2>5, <2>6, <4>1, <4>2 DEF IsRaw, CLI!Raw
    <3>. QED
      BY <1>1, <3>2, <3>3
  <2>8. RenameWhole(u)'
    <3> SUFFICES ASSUME pc[u] = "mv" \/ \E k \in DOMAIN toDevice' : toDevice'[k].cmd = "fs.mv"
                 PROVE  NoChunksQueued' /\ staged' \subseteq {Content(u)}
      BY <1>1 DEF RenameWhole
    <3>1. NoChunksQueued /\ staged \subseteq {Content(u)}
      BY <1>3, <1>4, <1>12 DEF OwnFile, RenameWhole
    <3>. QED
      BY <2>4, <2>5, <3>1
  <2>9. Renamed(u)'
    <3> SUFFICES ASSUME pc[u] = "mv", NEW r \in InFlight' \cup Had(u),
                        r.to = CommandOf(u), r.line = "renamed"
                 PROVE  live' = Content(u)
      BY <1>1, <2>1 DEF Renamed
    <3>1. CommandOf(u).cmd = "fs.mv"
      BY <1>12, CommandIs DEF Asking, Callers
    <3>2. CASE r \in InFlight \cup Had(u)
      BY <1>3, <1>8, <1>12, <3>2 DEF OwnFile, Renamed
    <3>3. CASE ReplyTells(c, r)
      BY <1>7, <3>1, <3>3 DEF ReplyTells
    <3>. QED
      BY <1>1, <3>2, <3>3
  <2>10. Holding(u)'
    BY <1>1, <1>3, <1>8, <1>12 DEF OwnFile, Holding, Content
  <2>. QED
    BY <2>2, <2>3, <2>7, <2>8, <2>9, <2>10 DEF OwnFile
<1>. QED
  BY <1>3, <1>9, <1>11, <1>12

-----------------------------------------------------------------------------
(* The goroutines.                                                          *)

\* The goroutine p goes on, with no request under way; a write goes from its
\* chunks to the look at the size and from there to the rename.
Goes(p) ==
    /\ UNCHANGED <<toDevice, fromDevice, live, staged>>
    /\ call' \in [Callers -> CallRecord] /\ call'[p].st = "idle"
    /\ pc' \in [Callers -> PcOfWriter \cup PcOfReader]
    /\ \A q \in Callers \ {p} : call'[q] = call[q] /\ pc'[q] = pc[q]
    /\ IF p \in Writers THEN pc'[p] \in PcOfWriter ELSE pc'[p] \in PcOfReader
    /\ sent' \in [Writers -> Nat] /\ \A w \in Writers \ {p} : sent'[w] = sent[w]
    /\ pc'[p] # "new"
    /\ pc'[p] = "chunk" => pc[p] = "new" \/ (pc[p] = "chunk" /\ sent'[p] = sent[p] + 1)
    /\ pc'[p] = "cat" => pc[p] = "chunk"
    /\ pc'[p] = "mv" => pc[p] = "cat"
    /\ p \in Writers => /\ sent'[p] = sent[p] \/ (pc[p] = "chunk" /\ sent'[p] = sent[p] + 1)
                        /\ pc'[p] = "chunk" => sent'[p] < ChunksOf[p]
    /\ rows' = [a \in Paths |-> rows'[a]]
    /\ claimed' \in BOOLEAN /\ dirty' \in SUBSET {"leavings", "taken"}

\* Every answer keeps its command.
LEMMA GoesAnswers ==
  ASSUME AnswerInv, NEW p \in Callers, Goes(p)
  PROVE  AnswerInv'
<1>1. Had(p)' = {} /\ InFlight' = InFlight /\ \A q \in Callers \ {p} : Had(q)' = Had(q)
  <2>1. Had(p)' = {}
    BY DEF Goes, Had
  <2>2. InFlight' = InFlight
    BY DEF Goes, InFlight
  <2>3. \A q \in Callers \ {p} : Had(q)' = Had(q)
    BY DEF Goes, Had
  <2>. QED
    BY <2>1, <2>2, <2>3
<1>2. ASSUME NEW q \in Callers \ {p}, pc[q] \in Asking
      PROVE  CommandOf(q)' = CommandOf(q)
  <2>1. pc'[q] = pc[q] /\ (q \in Writers => sent'[q] = sent[q])
    BY DEF Goes
  <2>2. CASE pc[q] = "chunk"
    <3>1. q \in Writers
      BY <1>2, <2>2, CommandIs
    <3>2. CommandOf(q) = [by |-> q, cmd |-> IF sent[q] = 0 THEN "fs.write" ELSE "fs.append",
                          chunk |-> sent[q] + 1]
      BY <2>2 DEF CommandOf
    <3>3. CommandOf(q)' = [by |-> q, cmd |-> IF sent'[q] = 0 THEN "fs.write" ELSE "fs.append",
                           chunk |-> sent'[q] + 1]
      BY <2>1, <2>2 DEF CommandOf
    <3>. QED
      BY <2>1, <3>1, <3>2, <3>3
  <2>3. CASE pc[q] # "chunk"
    BY <1>2, <2>1, <2>3 DEF CommandOf, Asking
  <2>. QED
    BY <2>2, <2>3
<1>3. TypeOK'
  <2>1. \A w \in Writers : pc'[w] \in PcOfWriter
    BY DEF AnswerInv, TypeOK, Goes, Callers
  <2>2. \A r \in Readers : pc'[r] \in PcOfReader
    <3>1. \A r \in Readers : r \in Callers /\ r \notin Writers /\ pc[r] \in PcOfReader
      BY WriteAssumption DEF AnswerInv, TypeOK, Callers
    <3>. QED
      BY <3>1 DEF Goes
  <2>. QED
    BY <2>1, <2>2 DEF AnswerInv, TypeOK, Goes
<1>4. Asks'
  BY <1>2 DEF AnswerInv, Asks, Goes
<1>5. ChunksLeft'
  BY DEF AnswerInv, ChunksLeft, Goes, Callers
<1>6. PagesTell'
  BY <1>1 DEF AnswerInv, PagesTell, PageOK
<1>7. TakenIsOwn'
  BY <1>1 DEF AnswerInv, TakenIsOwn, IsRaw, Goes
<1>8. AnsweredIsWhole'
  BY DEF AnswerInv, AnsweredIsWhole, Goes, CLI!Complete
<1>9. Asked'
  <2>1. \A c : AskedOK(c) => AskedOK(c)'
    BY DEF AskedOK, Goes, Callers
  <2>2. \A k \in DOMAIN toDevice' : AskedOK(toDevice'[k])
    BY DEF AnswerInv, Asked, Goes
  <2>3. \A r \in InFlight' : AskedOK(r.to)
    BY <1>1 DEF AnswerInv, Asked
  <2>. QED
    BY <2>1, <2>2, <2>3 DEF Asked
<1>. QED
  BY <1>3, <1>4, <1>5, <1>6, <1>7, <1>8, <1>9 DEF AnswerInv

\* The goroutine p starts nothing, and when it goes on to the rename or to the row
\* the file is ready for it.
Progresses(p) ==
    /\ Goes(p)
    /\ dirty' \in {dirty, dirty \cup {"taken"}}
    /\ p \in Writers =>
          /\ Running(p)' => Running(p)
          /\ Holds(p)' => Holds(p)
          /\ pc'[p] = "mv" /\ Sole(p) /\ OwnFile(p) =>
                NoChunksQueued /\ staged \subseteq {Content(p)}
          /\ pc'[p] \in {"prev", "commit"} /\ Sole(p) /\ OwnFile(p) /\ dirty = {} =>
                live = Content(p)

\* The file and what is on its way to it stay in order.
LEMMA ProgressFile ==
  ASSUME AnswerInv, FileInv, NEW p \in Callers, Progresses(p)
  PROVE  FileInv'
<1>1. UNCHANGED <<toDevice, fromDevice, live, staged>> /\ dirty \subseteq dirty'
      /\ (dirty' = {} => dirty = {}) /\ ("leavings" \in dirty' => "leavings" \in dirty)
  BY DEF Progresses, Goes
<1> SUFFICES ASSUME "leavings" \notin dirty
             PROVE  LiveWhole' /\ \E u \in Writers \cup {NoOne} :
                                    (Sole(u) /\ (u \in Writers => OwnFile(u)))'
  BY <1>1 DEF FileInv
<1>2. LiveWhole'
  BY <1>1 DEF FileInv, LiveWhole
<1>3. PICK u \in Writers \cup {NoOne} : Sole(u) /\ (u \in Writers => OwnFile(u))
  BY DEF FileInv
<1>4. ASSUME NEW v \in Writers
      PROVE  (Running(v)' => Running(v)) /\ (Holds(v)' => Holds(v))
  <2>1. CASE v = p
    BY <2>1 DEF Progresses
  <2>2. CASE v # p
    BY <2>2 DEF Progresses, Goes, Running, Holds, Callers
  <2>. QED
    BY <2>1, <2>2
<1>5. Sole(u)'
  BY <1>1, <1>3, <1>4 DEF Sole
<1>6. ASSUME u \in Writers
      PROVE  OwnFile(u)'
  <2>1. u \in Callers /\ sent[u] \in Nat
    BY <1>6 DEF Callers, AnswerInv, TypeOK
  <2>2. InFlight' = InFlight /\ (NoChunksQueued => NoChunksQueued')
    BY <1>1 DEF InFlight, NoChunksQueued, IsRaw
  <2>3. SentBy(u) \subseteq SentBy(u)'
    <3>1. \/ sent'[u] = sent[u] /\ (About(u)' => About(u))
          \/ sent'[u] = sent[u] + 1
      <4>1. CASE u = p
        BY <1>6, <4>1 DEF Progresses, Goes, About, Running
      <4>2. CASE u # p
        BY <1>6, <2>1, <4>2 DEF Progresses, Goes, About
      <4>. QED
        BY <4>1, <4>2
    <3>. QED
      BY <2>1, <3>1 DEF SentBy
  <2>4. QueueOK(u)'
    BY <1>1, <1>3, <1>6, <2>3 DEF OwnFile, QueueOK, IsRaw
  <2>5. StagedOK(u)'
    BY <1>1, <1>3, <1>6, <2>3 DEF OwnFile, StagedOK, InOrder, IsRaw
  <2>6. CASE u # p
    <3>1. pc'[u] = pc[u] /\ Had(u)' = Had(u) /\ CommandOf(u)' = CommandOf(u)
      <4>1. pc'[u] = pc[u] /\ call'[u] = call[u] /\ sent'[u] = sent[u]
        BY <1>6, <2>1, <2>6 DEF Progresses, Goes
      <4>. QED
        BY <4>1 DEF Had, CommandOf
    <3>2. SizeTold(u)' /\ Renamed(u)'
      BY <1>1, <1>3, <1>6, <2>2, <3>1 DEF OwnFile, SizeTold, Renamed
    <3>3. RenameWhole(u)' /\ Holding(u)'
      BY <1>1, <1>3, <1>6, <2>2, <3>1 DEF OwnFile, RenameWhole, Holding, Content
    <3>. QED
      BY <2>4, <2>5, <3>2, <3>3 DEF OwnFile
  <2>7. CASE u = p
    <3>1. Had(u)' = {}
      BY <2>7 DEF Progresses, Goes, Had
    <3>2. ASSUME NEW r \in InFlight, r.to = CommandOf(u)'
          PROVE  pc'[u] \notin {"cat", "mv"}
      <4>1. CASE pc'[u] = "cat"
        <5>1. CommandOf(u)' = [by |-> u, cmd |-> "fs.cat", chunk |-> 0]
          BY <4>1 DEF CommandOf
        <5>2. AskedOK(r.to) /\ r.to.by = u /\ r.to.cmd = "fs.cat"
          BY <3>2, <5>1 DEF AnswerInv, Asked
        <5>3. pc[u] = "chunk"
          BY <2>7, <4>1 DEF Progresses, Goes
        <5>. QED
          BY <1>6, <5>2, <5>3 DEF AskedOK
      <4>2. CASE pc'[u] = "mv"
        <5>1. CommandOf(u)' = [by |-> u, cmd |-> "fs.mv", chunk |-> 0]
          BY <4>2 DEF CommandOf
        <5>2. AskedOK(r.to) /\ r.to.by = u /\ r.to.cmd = "fs.mv"
          BY <3>2, <5>1 DEF AnswerInv, Asked
        <5>3. pc[u] = "cat"
          BY <2>7, <4>2 DEF Progresses, Goes
        <5>. QED
          BY <1>6, <5>2, <5>3 DEF AskedOK
      <4>. QED
        BY <4>1, <4>2
    <3>3. SizeTold(u)' /\ Renamed(u)'
      BY <2>2, <3>1, <3>2 DEF SizeTold, Renamed
    <3>4. RenameWhole(u)'
      <4>1. CASE pc'[u] = "mv"
        BY <1>1, <1>3, <1>6, <2>2, <2>7, <4>1 DEF Progresses, RenameWhole, Content
      <4>2. CASE pc'[u] # "mv"
        BY <1>1, <1>3, <1>6, <2>2, <4>2 DEF OwnFile, RenameWhole, Content
      <4>. QED
        BY <4>1, <4>2
    <3>5. Holding(u)'
      BY <1>1, <1>3, <1>6, <2>7 DEF Progresses, Holding, Content
    <3>. QED
      BY <2>4, <2>5, <3>3, <3>4, <3>5 DEF OwnFile
  <2>. QED
    BY <2>6, <2>7
<1>. QED
  BY <1>2, <1>3, <1>5, <1>6

\* A goroutine leaves its place for one that starts no write.
LEMMA LeavesProgress ==
  ASSUME AnswerInv, NEW p \in Callers,
         NEW l \in (IF p \in Writers THEN PcOfWriter ELSE PcOfReader) \ {"new", "chunk", "cat", "mv"},
         Goto(p, l),
         CLI!Consume(p) \/ (UNCHANGED <<call, toDevice, fromDevice>> /\ call[p].st = "idle"),
         UNCHANGED <<live, staged, sent>>, rows' = [a \in Paths |-> rows'[a]],
         claimed' \in BOOLEAN, dirty' \in {dirty, dirty \cup {"taken"}},
         p \in Writers => /\ l = "rm" => Running(p)
                          /\ l \in {"prev", "commit", "release", "panicked"} => Holds(p)
                          /\ l \in {"prev", "commit"} /\ Sole(p) /\ OwnFile(p) /\ dirty = {} =>
                                live = Content(p)
  PROVE  Progresses(p)
<1>1. /\ call \in [Callers -> CallRecord] /\ pc \in [Callers -> PcOfWriter \cup PcOfReader]
      /\ sent \in [Writers -> Nat] /\ dirty \in SUBSET {"leavings", "taken"}
  BY DEF AnswerInv, TypeOK
<1>2. /\ call' \in [Callers -> CallRecord] /\ call'[p].st = "idle"
      /\ \A q \in Callers \ {p} : call'[q] = call[q]
      /\ UNCHANGED <<toDevice, fromDevice>>
  <2>1. CLI!Idle \in CallRecord /\ CLI!Idle.st = "idle"
    BY DEF CLI!Idle, CallRecord
  <2>. QED
    BY <1>1, <2>1 DEF CLI!Consume
<1>3. /\ pc' \in [Callers -> PcOfWriter \cup PcOfReader] /\ pc'[p] = l
      /\ \A q \in Callers \ {p} : pc'[q] = pc[q]
  BY <1>1 DEF Goto
<1>4. Goes(p)
  BY <1>1, <1>2, <1>3 DEF Goes
<1>5. p \in Writers => (Running(p)' => Running(p)) /\ (Holds(p)' => Holds(p))
  BY <1>3 DEF Running, Holds
<1>. QED
  BY <1>3, <1>4, <1>5 DEF Progresses

\* The size that a write is told is its own file's: the file is its content.
LEMMA SizedIsWhole ==
  ASSUME AnswerInv, NEW w \in Writers, pc[w] = "cat", StepSucceeds(w), Sole(w), OwnFile(w)
  PROVE  NoChunksQueued /\ staged \subseteq {Content(w)}
<1>1. w \in Callers /\ call[w].st = "answered" /\ \A f \in call[w].fin : f.ok /\ f.n = ChunksOf[w]
  BY DEF StepSucceeds, Succeeded, Accepted, SizeOK, Callers
<1>2. PICK f \in call[w].fin : TRUE
  BY <1>1 DEF AnswerInv, AnsweredIsWhole, CLI!Complete
<1>3. f \in Had(w) /\ call[w].cur = {CommandOf(w)}
  BY <1>1, <1>2 DEF Had, AnswerInv, Asks
<1>4. CommandOf(w).cmd = "fs.cat"
  BY <1>1, CommandIs DEF Asking
<1>5. f.to = CommandOf(w)
  BY <1>1, <1>3, <1>4 DEF AnswerInv, TakenIsOwn, IsRaw, CLI!Raw
<1>6. NoChunksQueued /\ \E s \in staged : Len(s) = ChunksOf[w]
  BY <1>1, <1>2, <1>3, <1>5 DEF OwnFile, SizeTold
<1>7. PICK s \in staged : Len(s) = ChunksOf[w]
  BY <1>6
<1>8. s \in Contents /\ staged = {s}
  BY <1>7 DEF AnswerInv, TypeOK
<1>9. InOrder(s) /\ \A i \in DOMAIN s : s[i][1] = w /\ s[i][2] \in 1..ChunksOf[w]
  BY <1>7 DEF OwnFile, StagedOK, SentBy, Sole
<1>. QED
  BY <1>6, <1>7, <1>8, <1>9, WholeWhenLong

\* The rename that a write is told of put its content live.
LEMMA RenamedIsLive ==
  ASSUME AnswerInv, NEW w \in Writers, pc[w] = "mv", StepSucceeds(w), OwnFile(w)
  PROVE  live = Content(w)
<1>1. w \in Callers /\ call[w].st = "answered" /\ \A f \in call[w].fin : f.line = "renamed"
  BY DEF StepSucceeds, Succeeded, Accepted, Callers
<1>2. PICK f \in call[w].fin : TRUE
  BY <1>1 DEF AnswerInv, AnsweredIsWhole, CLI!Complete
<1>3. f \in Had(w) /\ call[w].cur = {CommandOf(w)}
  BY <1>1, <1>2 DEF Had, AnswerInv, Asks
<1>4. CommandOf(w).cmd = "fs.mv"
  BY <1>1, CommandIs DEF Asking
<1>5. f.to = CommandOf(w)
  BY <1>1, <1>3, <1>4 DEF AnswerInv, TakenIsOwn, IsRaw, CLI!Raw
<1>. QED
  BY <1>1, <1>2, <1>3, <1>5 DEF OwnFile, Renamed

\* A step of stagedWrite that went well.
LEMMA SucceedsProgress ==
  ASSUME AnswerInv, NEW w \in Writers, StepSucceeds(w)
  PROVE  Progresses(w)
<1>1. /\ w \in Callers /\ pc[w] \in {"chunk", "cat", "mv"} /\ CLI!Consume(w)
      /\ UNCHANGED <<live, staged, claimed, rows, dirty>>
  BY DEF StepSucceeds, Callers
<1>2. /\ call \in [Callers -> CallRecord] /\ pc \in [Callers -> PcOfWriter \cup PcOfReader]
      /\ sent \in [Writers -> Nat] /\ dirty \in SUBSET {"leavings", "taken"}
      /\ rows = [a \in Paths |-> rows[a]] /\ claimed \in BOOLEAN
  BY DEF AnswerInv, TypeOK
<1>3. Running(w) /\ Holds(w)
  BY <1>1 DEF Running, Holds
<1>4. /\ call' \in [Callers -> CallRecord] /\ call'[w].st = "idle"
      /\ \A q \in Callers \ {w} : call'[q] = call[q]
      /\ UNCHANGED <<toDevice, fromDevice>>
  <2>1. CLI!Idle \in CallRecord /\ CLI!Idle.st = "idle"
    BY DEF CLI!Idle, CallRecord
  <2>. QED
    BY <1>1, <1>2, <2>1 DEF CLI!Consume
<1>5. CASE pc[w] = "mv"
  <2>1. Goto(w, "prev") /\ UNCHANGED sent
    BY <1>5 DEF StepSucceeds
  <2>2. OwnFile(w) => live = Content(w)
    BY <1>5, RenamedIsLive
  <2>. QED
    BY <1>1, <1>2, <1>3, <2>1, <2>2, LeavesProgress DEF PcOfWriter
<1>6. CASE pc[w] = "cat"
  <2>1. pc' = [pc EXCEPT ![w] = "mv"] /\ UNCHANGED sent
    BY <1>6 DEF StepSucceeds, Goto
  <2>2. /\ pc' \in [Callers -> PcOfWriter \cup PcOfReader] /\ pc'[w] = "mv"
        /\ \A q \in Callers \ {w} : pc'[q] = pc[q]
    BY <1>1, <1>2, <2>1 DEF PcOfWriter
  <2>3. Goes(w)
    BY <1>1, <1>2, <1>4, <1>6, <2>1, <2>2 DEF Goes, PcOfWriter
  <2>4. Sole(w) /\ OwnFile(w) => NoChunksQueued /\ staged \subseteq {Content(w)}
    BY <1>6, SizedIsWhole
  <2>. QED
    BY <1>1, <1>3, <2>2, <2>3, <2>4 DEF Progresses
<1>7. CASE pc[w] = "chunk"
  <2>1. sent[w] \in Nat /\ ChunksOf[w] \in Nat /\ sent[w] < ChunksOf[w]
    BY <1>2, <1>7, WriteAssumption DEF AnswerInv, ChunksLeft
  <2>2. sent' = [sent EXCEPT ![w] = @ + 1]
    BY <1>7 DEF StepSucceeds
  <2>3. sent' \in [Writers -> Nat] /\ sent'[w] = sent[w] + 1
        /\ \A v \in Writers \ {w} : sent'[v] = sent[v]
    BY <1>2, <2>2
  <2>4. pc' = [pc EXCEPT ![w] = IF sent'[w] = ChunksOf[w] THEN "cat" ELSE "chunk"]
    BY <1>7 DEF StepSucceeds, Goto
  <2>5. /\ pc' \in [Callers -> PcOfWriter \cup PcOfReader]
        /\ pc'[w] = IF sent'[w] = ChunksOf[w] THEN "cat" ELSE "chunk"
        /\ \A q \in Callers \ {w} : pc'[q] = pc[q]
    BY <1>1, <1>2, <2>4 DEF PcOfWriter
  <2>6. Goes(w)
    BY <1>1, <1>2, <1>4, <1>7, <2>1, <2>3, <2>5 DEF Goes, PcOfWriter
  <2>. QED
    BY <1>1, <1>3, <2>5, <2>6 DEF Progresses
<1>. QED
  BY <1>1, <1>5, <1>6, <1>7

\* Every step of a goroutine but its first and its requests.
LEMMA StepsProgress ==
  ASSUME AnswerInv, NEW p \in Callers,
         \/ ReadPrev(p) \/ CommitUpsert(p) \/ UpsertFails(p) \/ Panic(p) \/ FailPending(p)
         \/ p \in Writers /\ \/ HandleWriteBusy(p) \/ RefusePath(p) \/ StepFails(p) \/ CleanedUp(p)
                             \/ Release(p) \/ MarkWrite(p) \/ DeferredRelease(p)
         \/ p \in Readers /\ (HandleCmd(p) \/ DumpReturns(p))
  PROVE  Progresses(p)
<1> DEFINE Places == (IF p \in Writers THEN PcOfWriter ELSE PcOfReader)
                       \ {"new", "chunk", "cat", "mv"}
<1>1. /\ rows = [a \in Paths |-> rows[a]] /\ claimed \in BOOLEAN /\ p \in Writers \cup Readers
      /\ Writers \cap Readers = {}
      /\ pc[p] \notin Asking => call[p].st = "idle"
  BY WriteAssumption, NoCallElsewhere DEF AnswerInv, TypeOK, Callers
<1>2. {"refused", "commit", "release", "rm", "panicked", "mark", "deferred", "failPending", "end"}
        \subseteq PcOfWriter /\ {"dump", "prev", "commit", "failPending", "end"} \subseteq PcOfReader
  BY DEF PcOfWriter, PcOfReader
<1>3. p \in Writers /\ OwnFile(p) /\ dirty = {} /\ pc[p] \in {"prev", "commit"}
        => live = Content(p)
  BY DEF OwnFile, Holding
<1>4. CASE ReadPrev(p)
  <2>1. Goto(p, "commit") /\ "commit" \in Places /\ pc[p] = "prev"
    BY <1>2, <1>4 DEF ReadPrev
  <2>2. UNCHANGED <<call, toDevice, fromDevice, live, staged, sent, rows, claimed, dirty>>
    BY <1>4 DEF ReadPrev, cliVars
  <2>. QED
    BY <1>1, <1>3, <2>1, <2>2, LeavesProgress DEF Asking, Holds
<1>5. CASE CommitUpsert(p) \/ UpsertFails(p)
  <2>1. AfterUpsert(p) \in Places /\ (p \in Writers => AfterUpsert(p) = "release")
        /\ AfterUpsert(p) \notin {"rm", "prev", "commit"}
    BY <1>1, <1>2 DEF AfterUpsert
  <2>2. Goto(p, AfterUpsert(p)) /\ pc[p] \in {"prev", "commit"}
    BY <1>5 DEF CommitUpsert, UpsertFails
  <2>3. UNCHANGED <<call, toDevice, fromDevice, live, staged, sent, claimed, dirty>>
    BY <1>5 DEF CommitUpsert, UpsertFails, cliVars
  <2>4. rows' = [a \in Paths |-> rows'[a]]
    BY <1>1, <1>5 DEF CommitUpsert, UpsertFails
  <2>. QED
    BY <1>1, <2>1, <2>2, <2>3, <2>4, LeavesProgress DEF Asking, Holds
<1>6. CASE Panic(p)
  <2>1. PICK l \in Places : Goto(p, l) /\ l \in {"panicked", "failPending"}
    BY <1>1, <1>2, <1>6 DEF Panic
  <2>2. pc[p] \in {"prev", "commit"}
        /\ UNCHANGED <<call, toDevice, fromDevice, live, staged, sent, rows, claimed, dirty>>
    BY <1>6 DEF Panic, cliVars
  <2>. QED
    BY <1>1, <2>1, <2>2, LeavesProgress DEF Asking, Holds
<1>7. CASE FailPending(p)
  <2>1. Goto(p, "end") /\ "end" \in Places /\ pc[p] = "failPending"
        /\ UNCHANGED <<call, toDevice, fromDevice, live, staged, sent, rows, claimed, dirty>>
    BY <1>2, <1>7 DEF FailPending, cliVars
  <2>. QED
    BY <1>1, <2>1, LeavesProgress DEF Asking
<1>8. CASE p \in Writers /\ (HandleWriteBusy(p) \/ RefusePath(p))
  <2>1. PICK l \in Places : Goto(p, l) /\ l \in {"refused", "release"} /\ (l = "release" => Holds(p))
    BY <1>2, <1>8 DEF HandleWriteBusy, RefusePath, Holds, Running
  <2>2. call[p].st = "idle"
        /\ UNCHANGED <<call, toDevice, fromDevice, live, staged, sent, rows, claimed, dirty>>
    BY <1>1, <1>8 DEF HandleWriteBusy, RefusePath, Asking, cliVars
  <2>. QED
    BY <1>1, <2>1, <2>2, LeavesProgress
<1>9. CASE p \in Writers /\ (StepFails(p) \/ CleanedUp(p))
  <2>1. PICK l \in Places : Goto(p, l) /\ l \in {"rm", "release"}
    BY <1>2, <1>9 DEF StepFails, CleanedUp
  <2>2. Running(p) /\ Holds(p) /\ CLI!Consume(p)
        /\ UNCHANGED <<live, staged, sent, rows, claimed, dirty>>
    BY <1>9 DEF StepFails, CleanedUp, Running, Holds
  <2>. QED
    BY <1>1, <2>1, <2>2, LeavesProgress
<1>10. CASE p \in Writers /\ (Release(p) \/ MarkWrite(p) \/ DeferredRelease(p))
  <2>1. PICK l \in Places : Goto(p, l) /\ l \in {"mark", "deferred", "failPending", "end"}
    BY <1>2, <1>10 DEF Release, MarkWrite, DeferredRelease
  <2>2. /\ pc[p] \in {"release", "mark", "deferred", "panicked"}
        /\ UNCHANGED <<call, toDevice, fromDevice, live, staged, sent, rows>>
        /\ claimed' \in BOOLEAN /\ dirty' \in {dirty, dirty \cup {"taken"}}
    BY <1>1, <1>10 DEF Release, MarkWrite, DeferredRelease, cliVars
  <2>. QED
    BY <1>1, <2>1, <2>2, LeavesProgress DEF Asking
<1>11. CASE p \in Readers /\ HandleCmd(p)
  <2>1. Goto(p, "dump") /\ "dump" \in Places /\ pc[p] = "new" /\ p \notin Writers
        /\ UNCHANGED <<call, toDevice, fromDevice, live, staged, sent, rows, claimed, dirty>>
    BY <1>1, <1>2, <1>11 DEF HandleCmd, cliVars
  <2>. QED
    BY <1>1, <2>1, LeavesProgress DEF Asking
<1>12. CASE p \in Readers /\ DumpReturns(p)
  <2>1. PICK l \in Places : Goto(p, l) /\ p \notin Writers
    BY <1>1, <1>2, <1>12 DEF DumpReturns
  <2>2. CLI!Consume(p) /\ UNCHANGED <<live, staged, sent, rows, claimed, dirty>>
    BY <1>12 DEF DumpReturns
  <2>. QED
    BY <1>1, <2>1, <2>2, LeavesProgress
<1>. QED
  BY <1>4, <1>5, <1>6, <1>7, <1>8, <1>9, <1>10, <1>11, <1>12

\* A write begins: on a clean file, with nobody else's claim, the file is its own.
LEMMA WriteBegins ==
  ASSUME AnswerInv, FileInv, ClaimInv, NEW w \in Writers, HandleWrite(w)
  PROVE  AnswerInv' /\ FileInv' /\ ClaimInv'
<1>1. /\ w \in Callers /\ pc[w] = "new" /\ call[w].st = "idle" /\ ~claimed /\ claimed' = TRUE
      /\ pc' = [pc EXCEPT ![w] = "chunk"]
      /\ UNCHANGED <<call, toDevice, fromDevice, live, staged, sent, rows>>
      /\ dirty' = IF Leavings THEN dirty \cup {"leavings"} ELSE dirty
  BY NoCallElsewhere DEF HandleWrite, Goto, cliVars, Callers, Asking
<1>2. /\ call \in [Callers -> CallRecord] /\ pc \in [Callers -> PcOfWriter \cup PcOfReader]
      /\ sent \in [Writers -> Nat] /\ dirty \in SUBSET {"leavings", "taken"}
      /\ rows = [a \in Paths |-> rows[a]]
  BY DEF AnswerInv, TypeOK
<1>3. /\ pc' \in [Callers -> PcOfWriter \cup PcOfReader] /\ pc'[w] = "chunk"
      /\ \A q \in Callers \ {w} : pc'[q] = pc[q]
  BY <1>1, <1>2 DEF PcOfWriter
<1>4. sent[w] < ChunksOf[w]
  BY <1>1 DEF AnswerInv, ChunksLeft
<1>5. Goes(w)
  BY <1>1, <1>2, <1>3, <1>4 DEF Goes, PcOfWriter
<1>6. AnswerInv'
  BY <1>1, <1>5, GoesAnswers
<1>7. ClaimInv'
  BY <1>1 DEF ClaimInv
<1>8. ASSUME "leavings" \notin dirty'
      PROVE  LiveWhole' /\ \E u \in Writers \cup {NoOne} :
                             (Sole(u) /\ (u \in Writers => OwnFile(u)))'
  <2>1. ~Leavings /\ dirty' = dirty /\ "leavings" \notin dirty
    BY <1>1, <1>8
  <2>2. /\ staged' = {} /\ \A v \in Writers : ~Running(v)
        /\ \A k \in DOMAIN toDevice' : toDevice'[k].by \notin Writers
    BY <1>1, <2>1 DEF Leavings
  <2>3. LiveWhole'
    BY <1>1, <2>1 DEF FileInv, LiveWhole
  <2>4. ASSUME NEW v \in Writers, Running(v)' \/ (dirty' = {} /\ Holds(v)')
        PROVE  v = w
    <3>1. dirty = {} => ~Holds(v)
      BY <1>1 DEF ClaimInv
    <3>. QED
      BY <1>3, <2>1, <2>2, <2>4, <3>1 DEF Running, Holds, Callers
  <2>5. Sole(w)'
    BY <2>2, <2>4 DEF Sole
  <2>6. QueueOK(w)' /\ StagedOK(w)'
    BY <2>2 DEF QueueOK, StagedOK
  <2>7. SizeTold(w)' /\ Renamed(w)' /\ Holding(w)'
    BY <1>3 DEF SizeTold, Renamed, Holding
  <2>8. RenameWhole(w)'
    <3>1. \A k \in DOMAIN toDevice' : toDevice'[k].cmd # "fs.mv"
      <4>1. \A k \in DOMAIN toDevice' : toDevice'[k] \in Command
        BY <1>6 DEF AnswerInv, TypeOK
      <4>. QED
        BY <2>2, <4>1 DEF Command
    <3>. QED
      BY <1>3, <3>1 DEF RenameWhole
  <2>. QED
    BY <2>3, <2>5, <2>6, <2>7, <2>8 DEF OwnFile
<1>. QED
  BY <1>6, <1>7, <1>8 DEF FileInv

\* The claim is given back by its holder, or a write is known to have lost it.
LEMMA ClaimStays ==
  ASSUME AnswerInv, FileInv, ClaimInv, NEW p \in Callers, Progresses(p),
         UNCHANGED claimed \/ (p \in Writers /\ (Release(p) \/ DeferredRelease(p)))
  PROVE  ClaimInv'
<1> SUFFICES ASSUME dirty' = {}, NEW v \in Writers, Holds(v)'
             PROVE  claimed'
  BY DEF ClaimInv
<1>1. dirty = {}
  BY DEF Progresses
<1>2. Holds(v)
  <2>1. CASE v = p
    BY <2>1 DEF Progresses
  <2>2. CASE v # p
    BY <2>2 DEF Progresses, Goes, Holds, Running, Callers
  <2>. QED
    BY <2>1, <2>2
<1>3. claimed
  BY <1>1, <1>2 DEF ClaimInv
<1>4. CASE UNCHANGED claimed
  BY <1>3, <1>4
<1>5. CASE p \in Writers /\ Release(p)
  <2>1. Holds(p) /\ ~Holds(p)'
    BY <1>5 DEF Release, Goto, Holds, Running, AnswerInv, TypeOK
  <2>2. p = v
    BY <1>1, <1>2, <1>5, <2>1 DEF FileInv, Sole
  <2>. QED
    BY <2>1, <2>2
<1>6. CASE p \in Writers /\ DeferredRelease(p)
  <2>1. ~Holds(p)'
    BY <1>6 DEF DeferredRelease, Goto, Holds, Running, AnswerInv, TypeOK
  <2>2. v \in Writers \ {p}
    BY <2>1
  <2>3. dirty' = dirty \cup {"taken"}
    BY <1>2, <1>6, <2>2 DEF DeferredRelease
  <2>. QED
    BY <2>3
<1>. QED
  BY <1>4, <1>5, <1>6

-----------------------------------------------------------------------------
(* The invariant and the theorems.                                          *)

\* Nothing has been asked or written, and the file is the original one.
LEMMA InitHolds == Init => DeviceWriteInv
<1> SUFFICES ASSUME Init
             PROVE  DeviceWriteInv
  OBVIOUS
<1>1. /\ call = [p \in Callers |-> CLI!Idle] /\ toDevice = <<>> /\ fromDevice = <<>>
      /\ live = Original /\ staged = {} /\ claimed = FALSE /\ dirty = {}
      /\ pc = [p \in Callers |-> "new"] /\ sent = [w \in Writers |-> 0]
      /\ rows = [a \in Paths |-> Nothing]
  BY DEF Init, CLI!CLIInit
<1>2. \A p \in Callers : call[p] \in CallRecord /\ call[p].st = "idle" /\ call[p].cur = {}
                         /\ pc[p] = "new" /\ Had(p) = {}
  BY <1>1 DEF CLI!Idle, CallRecord, Had
<1>3. InFlight = {} /\ \A k : k \notin DOMAIN toDevice
  BY <1>1 DEF InFlight
<1>4. TypeOK
  <2>1. live \in Contents
    BY <1>1 DEF Original, Contents
  <2>2. call \in [Callers -> CallRecord]
    BY <1>1, <1>2
  <2>3. toDevice \in Seq(Command) /\ fromDevice \in Seq(Reply)
    BY <1>1
  <2>4. /\ pc \in [Callers -> PcOfWriter \cup PcOfReader]
        /\ \A w \in Writers : pc[w] \in PcOfWriter
        /\ \A r \in Readers : pc[r] \in PcOfReader
    BY <1>1 DEF PcOfWriter, PcOfReader, Callers
  <2>. QED
    BY <1>1, <2>1, <2>2, <2>3, <2>4 DEF TypeOK
<1>5. Asks /\ TakenIsOwn /\ AnsweredIsWhole
  BY <1>2 DEF Asks, TakenIsOwn, AnsweredIsWhole
<1>6. ChunksLeft
  BY <1>1, WriteAssumption DEF ChunksLeft
<1>7. PagesTell /\ Asked
  BY <1>2, <1>3 DEF PagesTell, Asked
<1>8. FileInv
  <2>1. LiveWhole
    BY <1>1 DEF LiveWhole
  <2>2. Sole(NoOne)
    BY <1>1, <1>2, <1>3 DEF Sole, Running, Holds, Callers
  <2>3. NoOne \notin Writers
    BY WriteAssumption DEF Callers
  <2>. QED
    BY <2>1, <2>2, <2>3 DEF FileInv
<1>9. ClaimInv
  BY <1>2 DEF ClaimInv, Running, Holds, Callers
<1>. QED
  BY <1>4, <1>5, <1>6, <1>7, <1>8, <1>9 DEF DeviceWriteInv, AnswerInv

\* Whatever the invariant speaks of is untouched.
LEMMA NothingShrinks ==
  ASSUME AnswerInv,
         UNCHANGED <<call, toDevice, fromDevice, live, staged, claimed, pc, sent, rows, dirty>>
  PROVE  Shrinks
BY CallShrinks

\* Every step keeps the invariant.
LEMMA NextKeeps ==
  ASSUME EchoReqID
  PROVE  DeviceWriteInv /\ [Next]_vars => DeviceWriteInv'
<1> SUFFICES ASSUME DeviceWriteInv, [Next]_vars
             PROVE  AnswerInv' /\ FileInv' /\ ClaimInv'
  BY DEF DeviceWriteInv
<1>1. AnswerInv /\ FileInv /\ ClaimInv
  BY DEF DeviceWriteInv
<1>2. Shrinks => AnswerInv' /\ FileInv' /\ ClaimInv'
  BY <1>1, ShrinksAnswers, ShrinksFile
<1>3. ASSUME NEW p \in Callers, Progresses(p),
             UNCHANGED claimed \/ (p \in Writers /\ (Release(p) \/ DeferredRelease(p)))
      PROVE  AnswerInv' /\ FileInv' /\ ClaimInv'
  <2>1. Goes(p)
    BY <1>3 DEF Progresses
  <2>. QED
    BY <1>1, <1>3, <2>1, GoesAnswers, ProgressFile, ClaimStays
<1>4. CASE UNCHANGED vars
  BY <1>1, <1>2, <1>4, NothingShrinks DEF vars
<1>5. CASE Device
  BY <1>1, <1>5, DeviceHandles, HandlesAnswers, HandlesFile
<1>6. CASE Transport \/ \E p \in Callers : Deadline(p)
  BY <1>1, <1>2, <1>6, NetworkShrinks
<1>7. ASSUME NEW p \in Callers, Ask(p) \/ Waiting(p)
      PROVE  AnswerInv' /\ FileInv' /\ ClaimInv'
  <2>1. Shrinks \/ Sends(p)
    BY <1>1, <1>7, RequestShrinks DEF Sends
  <2>. QED
    BY <1>1, <1>2, <2>1, SendAnswers, SendFile
<1>8. ASSUME NEW p \in Callers, Forget(p)
      PROVE  AnswerInv' /\ FileInv' /\ ClaimInv'
  BY <1>1, <1>2, <1>8, NothingShrinks DEF Forget, cliVars
<1>9. ASSUME NEW p \in Callers,
             ReadPrev(p) \/ CommitUpsert(p) \/ UpsertFails(p) \/ Panic(p) \/ FailPending(p)
      PROVE  AnswerInv' /\ FileInv' /\ ClaimInv'
  <2>1. UNCHANGED claimed
    BY <1>9 DEF ReadPrev, CommitUpsert, UpsertFails, Panic, FailPending
  <2>2. Progresses(p)
    BY <1>1, <1>9, StepsProgress
  <2>. QED
    BY <1>3, <2>1, <2>2
<1>10. ASSUME NEW w \in Writers,
              \/ HandleWriteBusy(w) \/ RefusePath(w) \/ StepFails(w) \/ CleanedUp(w)
              \/ Release(w) \/ MarkWrite(w) \/ DeferredRelease(w)
       PROVE  AnswerInv' /\ FileInv' /\ ClaimInv'
  <2>1. UNCHANGED claimed \/ Release(w) \/ DeferredRelease(w)
    BY <1>10 DEF HandleWriteBusy, RefusePath, StepFails, CleanedUp, MarkWrite
  <2>2. w \in Callers /\ Progresses(w)
    BY <1>1, <1>10, StepsProgress DEF Callers
  <2>. QED
    BY <1>3, <2>1, <2>2
<1>11. ASSUME NEW w \in Writers, StepSucceeds(w)
       PROVE  AnswerInv' /\ FileInv' /\ ClaimInv'
  <2>1. UNCHANGED claimed
    BY <1>11 DEF StepSucceeds
  <2>2. w \in Callers /\ Progresses(w)
    BY <1>1, <1>11, SucceedsProgress DEF Callers
  <2>. QED
    BY <1>3, <2>1, <2>2
<1>12. ASSUME NEW r \in Readers, HandleCmd(r) \/ DumpReturns(r)
       PROVE  AnswerInv' /\ FileInv' /\ ClaimInv'
  <2>1. UNCHANGED claimed
    BY <1>12 DEF HandleCmd, DumpReturns
  <2>2. r \in Callers /\ Progresses(r)
    BY <1>1, <1>12, StepsProgress DEF Callers
  <2>. QED
    BY <1>3, <2>1, <2>2
<1>13. ASSUME NEW w \in Writers, HandleWrite(w)
       PROVE  AnswerInv' /\ FileInv' /\ ClaimInv'
  BY <1>1, <1>13, WriteBegins
<1>. QED
  BY <1>4, <1>5, <1>6, <1>7, <1>8, <1>9, <1>10, <1>11, <1>12, <1>13 DEF Next, Step

\* The types, the answers on their way and taken, the file that is written and the
\* claim on it are in order at all times.
THEOREM DeviceWriteInvariant ==
  ASSUME EchoReqID
  PROVE  Spec => []DeviceWriteInv
BY InitHolds, NextKeeps, PTL DEF Spec

\* What CLIRequest returns answers the command it was given, and a dump that went
\* well has every page.
THEOREM AnswersAreOwn ==
  ASSUME EchoReqID
  PROVE  Spec => []AnswerIsOwn
<1>1. ASSUME DeviceWriteInv
      PROVE  AnswerIsOwn
  <2>1. AnswerInv
    BY <1>1 DEF DeviceWriteInv
  <2>2. ASSUME NEW p \in Callers, \A c \in call[p].cur : c.cmd \notin CLI!Raw,
               call[p].st = "answered", NEW r \in call[p].got \cup call[p].fin
        PROVE  {r.to} = call[p].cur
    <3>1. call[p].cur = {CommandOf(p)} /\ r \in Had(p)
      BY <2>1, <2>2 DEF AnswerInv, Asks, Had
    <3>2. r.to = CommandOf(p)
      BY <2>1, <2>2, <3>1 DEF AnswerInv, TakenIsOwn, IsRaw
    <3>. QED
      BY <3>1, <3>2
  <2>3. ASSUME NEW r \in Readers, call[r].st = "answered", Accepted(r)
        PROVE  {x.page : x \in call[r].got} = 0..(DumpPages - 1)
    <3>1. r \in Callers /\ r \notin Writers /\ call[r].cur = {CommandOf(r)} /\ pc[r] \in Asking
      BY <2>1, <2>3, WriteAssumption DEF AnswerInv, Asks, Callers
    <3>2. CommandOf(r).cmd = "config.dump" /\ ~IsRaw(CommandOf(r))
      BY <2>1, <3>1, CommandIs DEF Asking, IsRaw, CLI!Raw
    <3>3. call[r].got \in SUBSET Reply /\ call[r].fin \in SUBSET Reply
          /\ Had(r) = call[r].got \cup call[r].fin
      BY <2>1, <2>3, <3>1 DEF AnswerInv, TypeOK, CallRecord, Had
    <3>4. \A f \in call[r].fin : f.ok /\ ~f.more /\ f.to.cmd = "config.dump" /\ PageOK(f)
      BY <2>1, <2>3, <3>1, <3>2, <3>3
         DEF AnswerInv, TakenIsOwn, PagesTell, AnsweredIsWhole, Accepted
    <3>5. \A f \in call[r].fin : f.page = DumpPages - 1
      BY <3>4 DEF PageOK
    <3>6. \A x \in call[r].got : x.page \in 0..(DumpPages - 1)
      <4>1. \A x \in call[r].got : x.page \in Nat
        BY <3>3 DEF Reply
      <4>2. \A x \in call[r].got : x.page <= DumpPages - 1
        BY <2>1, <2>3, <3>1, <3>5 DEF AnswerInv, AnsweredIsWhole
      <4>. QED
        BY <4>1, <4>2, WriteAssumption
    <3>7. \A i \in 0..(DumpPages - 1) : \E x \in call[r].got : x.page = i
      BY <2>1, <2>3, <3>1, <3>5 DEF AnswerInv, AnsweredIsWhole, CLI!Complete
    <3>. QED
      BY <3>6, <3>7
  <2>. QED
    BY <2>2, <2>3 DEF AnswerIsOwn, CLI!AnswersOwn
<1>. QED
  BY <1>1, DeviceWriteInvariant, PTL

\* The live file is whole, unless a write began on the leavings of another.
THEOREM HalfFilesNeedLeftovers ==
  ASSUME EchoReqID
  PROVE  Spec => []HalfNeedsLeftover
<1>1. DeviceWriteInv => HalfNeedsLeftover
  BY DEF DeviceWriteInv, FileInv, HalfNeedsLeftover
<1>. QED
  BY <1>1, DeviceWriteInvariant, PTL

\* The row a write stores is the file the device holds, unless a write began on the
\* leavings of another or lost its claim to the deferred release of one.
THEOREM RowIsWhatIsHeld ==
  ASSUME EchoReqID
  PROVE  Spec => StoredIsHeld
<1>1. ASSUME DeviceWriteInv, [Next]_vars
      PROVE  [rows'["/config.json"] # rows["/config.json"] =>
                rows'["/config.json"] = live \/ dirty # {}]_vars
  <2> SUFFICES ASSUME rows'["/config.json"] # rows["/config.json"], dirty = {}
               PROVE  rows'["/config.json"] = live
    OBVIOUS
  <2>1. PICK p \in Callers : CommitUpsert(p)
    BY <1>1
       DEF Next, Step, vars, Device, Transport, Waiting, Deadline, Forget, HandleWrite,
           HandleWriteBusy, HandleCmd, Ask, RefusePath, StepSucceeds, StepFails, CleanedUp,
           ReadPrev, UpsertFails, Panic, Release, MarkWrite, DeferredRelease, FailPending,
           DumpReturns
  <2>2. rows = [a \in Paths |-> rows[a]]
    BY <1>1 DEF DeviceWriteInv, AnswerInv, TypeOK
  <2>3. p \notin Readers /\ p \in Writers /\ pc[p] = "commit"
        /\ rows'["/config.json"] = Content(p)
    BY <2>1, <2>2 DEF CommitUpsert, PathOf, Stored, Paths, Callers
  <2>4. PICK u \in Writers \cup {NoOne} : Sole(u) /\ (u \in Writers => OwnFile(u))
    BY <1>1 DEF DeviceWriteInv, FileInv
  <2>5. p = u
    BY <2>3, <2>4 DEF Sole, Holds
  <2>6. live = Content(p)
    BY <2>3, <2>4, <2>5 DEF OwnFile, Holding
  <2>. QED
    BY <2>3, <2>6
<1>2. DeviceWriteInv /\ [Next]_vars =>
        [rows'["/config.json"] # rows["/config.json"] =>
           rows'["/config.json"] = live \/ dirty # {}]_vars
  BY <1>1
<1>. QED
  BY <1>2, DeviceWriteInvariant, PTL DEF Spec, StoredIsHeld

=============================================================================
