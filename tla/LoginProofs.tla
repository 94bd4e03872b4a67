----------------------------- MODULE LoginProofs -----------------------------
(***************************************************************************)
(* Proofs about Login for any numbers of requests, secrets, links,          *)
(* challenges and time steps, any cap and any number of faults.             *)
(***************************************************************************)
EXTENDS Login, TLAPS

FirstFactor == {"verify", "consume", "lookup", "begin", "check", "reset", "clear"}
OnChallenge == {"select", "drop", "wrong", "delete"}

\* What the place a call has reached says of its fields.
CallOK(call) ==
    /\ call.pc \in FirstFactor \/ call.kind = "json" => call.chal = NoChallenge
    /\ call.pc \in OnChallenge \cup {"begin"} => call.kind # "json"
    /\ call.pc \in OnChallenge \/ (call.pc = "accept" /\ call.kind # "json") =>
          call.chal \in Challenges
    /\ call.pc \notin {"check", "reset"} => call.link \in LoginLinks \cup {NoLink}
    /\ call.pc = "verify" \/ call.kind = "json" => call.link = NoLink
    /\ call.pc = "consume" => call.link \in LoginLinks
    /\ call.pc \in {"check", "reset"} =>
          call.link \in ResetLinks /\ call.password \in 1..MaxPasswords
    /\ call.pc # "session" => call.via = NoCode

CallsOK == \A k \in Calls : CallOK(calls[k])

\* A call that has updated the users row holds its lock until it ends, and the
\* step it will store is still newer than the stored one.
LockOK ==
    \A k \in Calls : /\ At(k, "delete") <=> lock = k
                     /\ At(k, "delete") => user.last < calls[k].code.step

\* Each code that signed in, or is about to, has been stored, and no other has
\* the same step.
StepsOK ==
    /\ \A i \in 1..Len(sessions) : sessions[i].via.step <= user.last
    /\ \A k \in Calls : At(k, "session") => calls[k].via.step <= user.last
    /\ \A i \in 1..Len(sessions), k \in Calls :
          At(k, "session") /\ calls[k].via.step # 0 =>
              sessions[i].via.step # calls[k].via.step
    /\ \A j, k \in Calls :
          At(j, "session") /\ At(k, "session") /\ j # k /\ calls[k].via.step # 0 =>
              calls[j].via.step # calls[k].via.step
    /\ CodeSignsInOnce

\* A challenge that still exists has guesses left, and each one used was counted.
GuessesOK ==
    \A c \in Challenges : /\ told[c] = challenges[c].attempts
                          /\ challenges[c].state # "gone" =>
                                challenges[c].attempts < MaxWrongCodes

\* Each challenge that signed in, or is about to, is deleted, and did so once.
ChallengesOK ==
    /\ \A i \in 1..Len(sessions) : sessions[i].chal # NoChallenge =>
          challenges[sessions[i].chal].state = "gone"
    /\ \A k \in Calls : At(k, "session") /\ calls[k].chal # NoChallenge =>
          challenges[calls[k].chal].state = "gone"
    /\ \A i \in 1..Len(sessions), k \in Calls :
          At(k, "session") /\ calls[k].chal # NoChallenge =>
              sessions[i].chal # calls[k].chal
    /\ \A j, k \in Calls :
          At(j, "session") /\ At(k, "session") /\ j # k /\ calls[k].chal # NoChallenge =>
              calls[j].chal # calls[k].chal
    /\ ChallengeSignsInOnce

\* A consumed link is held by one call, one challenge or one session opened
\* without a challenge.
CallHolds(k, l) ==
    /\ calls[k].link = l
    /\ calls[k].pc \in {"lookup", "begin", "session"} /\ calls[k].chal = NoChallenge

SessionHolds(i, l) == sessions[i].link = l /\ sessions[i].chal = NoChallenge

LinksOK ==
    /\ \A l \in LoginLinks :
          /\ \A k \in Calls : CallHolds(k, l) => links[l] = "used"
          /\ \A c \in Challenges : challenges[c].link = l => links[l] = "used"
          /\ \A i \in 1..Len(sessions) : SessionHolds(i, l) => links[l] = "used"
          /\ \A j, k \in Calls : CallHolds(j, l) /\ CallHolds(k, l) => j = k
          /\ \A k \in Calls, c \in Challenges : ~(CallHolds(k, l) /\ challenges[c].link = l)
          /\ \A k \in Calls, i \in 1..Len(sessions) : ~(CallHolds(k, l) /\ SessionHolds(i, l))
          /\ \A c, d \in Challenges :
                challenges[c].link = l /\ challenges[d].link = l => c = d
          /\ \A c \in Challenges, i \in 1..Len(sessions) :
                ~(challenges[c].link = l /\ SessionHolds(i, l))
          /\ \A i, j \in 1..Len(sessions) : SessionHolds(i, l) /\ SessionHolds(j, l) => i = j
    /\ \A c \in Challenges : challenges[c].state = "none" => challenges[c].link = NoLink
    /\ \A i \in 1..Len(sessions) : sessions[i].chal # NoChallenge =>
          sessions[i].link = challenges[sessions[i].chal].link
    /\ \A l \in ResetLinks : resets[l] = 0 \/ (resets[l] = 1 /\ links[l] = "used")

\* A call knows a secret that was enrolled since it began, and passed with it.
FactorOK ==
    \A k \in Calls :
        /\ ~At(k, "idle") => user.secret \in calls[k].seen
        /\ calls[k].pc \in {"accept", "wrong", "delete"} => calls[k].secret \in calls[k].seen
        /\ At(k, "delete") => calls[k].code.secret = calls[k].secret
        /\ At(k, "session") => calls[k].via.secret \in calls[k].seen

LoginInv ==
    /\ TypeOK /\ CallsOK /\ LockOK /\ StepsOK
    /\ GuessesOK /\ ChallengesOK /\ LinksOK /\ FactorOK

USE LoginAssumption

-----------------------------------------------------------------------------
(* The shapes of a step.                                                    *)

\* Call k becomes r and no other call changes.
Becomes(k, r) == calls' = [calls EXCEPT ![k] = r]

\* Nothing but calls, the lock and the bounds' counters changes.
Rest == <<user, offered, now, links, challenges, sessions, told, resets>>

Counters == arrived' \in 0..MaxCalls /\ faults' \in 0..MaxFaults

\* A request arrives.
Arrives(k) ==
    \E r \in Call :
        /\ Becomes(k, r)
        /\ r.pc \in {"verify", "consume", "select", "check", "clear"}
        /\ CallOK(r)
        /\ r.seen = {user.secret}
        /\ At(k, "idle")
        /\ UNCHANGED Rest /\ UNCHANGED lock /\ Counters

\* A call ends, with its transaction rolled back if it has one open.
Leaves(k) ==
    /\ End(k)
    /\ lock' = IF lock = k THEN NoOne ELSE lock
    /\ UNCHANGED Rest /\ Counters

\* A call goes on, having read and not written.
Advances(k) ==
    \E r \in Call :
        /\ Becomes(k, r)
        /\ CallOK(r)
        /\ r.chal = calls[k].chal /\ r.link = calls[k].link
        /\ r.seen = calls[k].seen /\ r.via = NoCode
        /\ ~At(k, "idle") /\ ~At(k, "delete") /\ r.pc \notin {"delete", "idle"}
        /\ r.pc = "lookup" => r.link = NoLink
        /\ r.pc \in {"begin", "session"} => At(k, "lookup")
        /\ r.pc = "session" => NoSecret \in r.seen
        /\ r.pc \in {"accept", "wrong"} => r.secret \in r.seen
        /\ UNCHANGED Rest /\ UNCHANGED lock /\ Counters

\* A free slot is a call that meets every condition.
LEMMA NoCallOK == /\ NoCall \in Call
                  /\ CallOK(NoCall)
                  /\ NoCall.pc = "idle"
  <1>1. NoCall \in Call
    BY DEF NoCall, Call, NoCode, Code, Step
  <1>2. NoCall.pc = "idle"
    BY DEF NoCall
  <1>. QED
    BY <1>1, <1>2 DEF CallOK, NoCall, FirstFactor, OnChallenge

\* A call that becomes another leaves the others alone.
LEMMA BecomesFields ==
  ASSUME NEW k \in Calls, NEW r \in Call, calls \in [Calls -> Call], Becomes(k, r)
  PROVE  /\ calls' \in [Calls -> Call]
         /\ calls'[k] = r
         /\ \A j \in Calls : j # k => calls'[j] = calls[j]
  BY DEF Becomes

\* The part of TypeOK that most steps need.
LEMMA Types ==
  ASSUME TypeOK
  PROVE  /\ calls \in [Calls -> Call]
         /\ user \in User
         /\ challenges \in [Challenges -> Challenge]
  BY DEF TypeOK

\* A step that changes only calls, lock and counters keeps the types.
LEMMA RestTypes ==
  ASSUME TypeOK, UNCHANGED Rest, calls' \in [Calls -> Call],
         lock' \in Calls \cup {NoOne}, Counters
  PROVE  TypeOK'
  BY DEF TypeOK, Rest, Counters

\* Sessions are opened by a challenge of this system, or by none.
LEMMA Openings ==
  ASSUME TypeOK, NEW i \in 1..Len(sessions)
  PROVE  /\ sessions[i] \in Opening
         /\ sessions[i].chal \in Challenges \cup {NoChallenge}
         /\ sessions[i].via.step \in Step
<1>1. sessions \in Seq(Opening)
  BY DEF TypeOK
<1>2. sessions[i] \in Opening
  BY <1>1
<1>. QED
  BY <1>2 DEF Opening, Code

\* A call that has passed with a code keeps its other fields.
LEMMA PassFields ==
  ASSUME NEW k \in Calls, NEW code \in Code, calls \in [Calls -> Call],
         calls' = [calls EXCEPT ![k].pc = "session", ![k].via = code]
  PROVE  /\ calls' \in [Calls -> Call]
         /\ \A j \in Calls : j # k => calls'[j] = calls[j]
         /\ calls'[k].pc = "session" /\ calls'[k].via = code
         /\ calls'[k].kind = calls[k].kind /\ calls'[k].chal = calls[k].chal
         /\ calls'[k].link = calls[k].link /\ calls'[k].seen = calls[k].seen
<1> DEFINE r == [calls[k] EXCEPT !.pc = "session", !.via = code]
<1>1. calls[k] \in Call
  OBVIOUS
<1>2. /\ r \in Call /\ r.pc = "session" /\ r.via = code
      /\ r.kind = calls[k].kind /\ r.chal = calls[k].chal
      /\ r.link = calls[k].link /\ r.seen = calls[k].seen
  BY <1>1 DEF Call
<1>3. calls' = [calls EXCEPT ![k] = r]
  BY <1>1 DEF Call
<1>. HIDE DEF r
<1>4. calls' \in [Calls -> Call] /\ calls'[k] = r
  <2>1. r \in Call
    BY <1>2
  <2>. QED
    BY <2>1, <1>3
<1>5. \A j \in Calls : j # k => calls'[j] = calls[j]
  BY <1>3
<1>. QED
  BY <1>2, <1>4, <1>5

\* A step newer than the stored one is newer than those of all sessions and of
\* all calls about to open one.
LEMMA PassKeepsSteps ==
  ASSUME LoginInv, NEW k \in Calls, NEW code \in Code, user.last < code.step,
         user'.last = code.step, sessions' = sessions,
         calls' = [calls EXCEPT ![k].pc = "session", ![k].via = code]
  PROVE  StepsOK'
<1>1. calls \in [Calls -> Call] /\ user.last \in Nat /\ code.step \in Nat
  BY DEF LoginInv, TypeOK, User, Code, Step
<1>2. /\ calls'[k].via = code
      /\ \A j \in Calls : j # k => calls'[j] = calls[j]
  BY <1>1, PassFields
<1>3. \A i \in 1..Len(sessions) : sessions[i].via.step \in Nat
  BY Openings DEF LoginInv, Step
<1>4. \A j \in Calls : calls[j].via.step \in Nat
  BY <1>1 DEF Call, Code, Step
<1>5. \A i \in 1..Len(sessions) : sessions[i].via.step < code.step
  BY <1>1, <1>3 DEF LoginInv, StepsOK
<1>6. \A j \in Calls : At(j, "session") => calls[j].via.step < code.step
  BY <1>1, <1>4 DEF LoginInv, StepsOK
<1>7. \A j \in Calls : j # k /\ At(j, "session")' => At(j, "session") /\ calls'[j] = calls[j]
  BY <1>2 DEF At
<1>8. \A i \in 1..Len(sessions') : sessions'[i].via.step <= user'.last
  BY <1>1, <1>3, <1>5
<1>9. \A j \in Calls : At(j, "session")' => calls'[j].via.step <= user'.last
  BY <1>1, <1>2, <1>4, <1>6, <1>7
<1>10. \A i \in 1..Len(sessions'), j \in Calls :
         At(j, "session")' /\ calls'[j].via.step # 0 => sessions'[i].via.step # calls'[j].via.step
  <2>1. ASSUME NEW i \in 1..Len(sessions), NEW j \in Calls, At(j, "session")',
               calls'[j].via.step # 0
        PROVE  sessions[i].via.step # calls'[j].via.step
    <3>1. CASE j = k
      BY <3>1, <1>1, <1>2, <1>3, <1>5
    <3>2. CASE j # k
      <4>1. At(j, "session") /\ calls'[j] = calls[j]
        BY <2>1, <3>2, <1>7
      <4>. QED
        BY <2>1, <4>1 DEF LoginInv, StepsOK
    <3>. QED
      BY <3>1, <3>2
  <2>. QED
    BY <2>1
<1>11. ASSUME NEW i \in Calls, NEW j \in Calls, At(i, "session")', At(j, "session")', i # j,
              calls'[j].via.step # 0
       PROVE  calls'[i].via.step # calls'[j].via.step
  <2>1. CASE i # k /\ j # k
    <3>1. /\ At(i, "session") /\ calls'[i] = calls[i]
          /\ At(j, "session") /\ calls'[j] = calls[j]
      BY <1>11, <2>1, <1>7
    <3>. QED
      BY <1>11, <3>1 DEF LoginInv, StepsOK
  <2>2. CASE i = k \/ j = k
    BY <1>11, <2>2, <1>1, <1>2, <1>4, <1>6, <1>7
  <2>. QED
    BY <2>1, <2>2
<1>12. CodeSignsInOnce'
  BY DEF LoginInv, StepsOK, CodeSignsInOnce, TwoSessions
<1>. QED
  BY <1>8, <1>9, <1>10, <1>11, <1>12 DEF StepsOK

-----------------------------------------------------------------------------
(* Each shape preserves the invariant.                                      *)

\* A request that arrives has seen the secret of that moment and holds nothing.
LEMMA ArrivesPreserves ==
  ASSUME LoginInv, NEW k \in Calls, Arrives(k)
  PROVE  LoginInv'
<1>1. PICK r \in Call :
        /\ Becomes(k, r)
        /\ r.pc \in {"verify", "consume", "select", "check", "clear"}
        /\ CallOK(r)
        /\ r.seen = {user.secret}
        /\ At(k, "idle")
        /\ UNCHANGED Rest /\ UNCHANGED lock /\ Counters
  BY DEF Arrives
<1>2. /\ calls' \in [Calls -> Call]
      /\ calls'[k] = r
      /\ \A j \in Calls : j # k => calls'[j] = calls[j]
  BY <1>1, BecomesFields, Types DEF LoginInv
<1>3. /\ user' = user /\ links' = links /\ challenges' = challenges /\ sessions' = sessions
      /\ told' = told /\ resets' = resets /\ lock' = lock
  BY <1>1 DEF Rest
<1>4. TypeOK'
  BY <1>1, <1>2, RestTypes DEF LoginInv, TypeOK
<1>5. CallsOK'
  BY <1>1, <1>2 DEF LoginInv, CallsOK
<1>6. LockOK'
  BY <1>1, <1>2, <1>3 DEF LoginInv, LockOK, At
<1>7. StepsOK'
  BY <1>1, <1>2, <1>3 DEF LoginInv, StepsOK, At, CodeSignsInOnce, TwoSessions
<1>8. GuessesOK'
  BY <1>3 DEF LoginInv, GuessesOK
<1>9. ChallengesOK'
  BY <1>1, <1>2, <1>3 DEF LoginInv, ChallengesOK, At, ChallengeSignsInOnce, TwoSessions
<1>10. LinksOK'
  BY <1>1, <1>2, <1>3 DEF LoginInv, LinksOK, CallHolds, SessionHolds
<1>11. FactorOK'
  BY <1>1, <1>2, <1>3 DEF LoginInv, FactorOK, At
<1>. QED
  BY <1>4, <1>5, <1>6, <1>7, <1>8, <1>9, <1>10, <1>11 DEF LoginInv

\* A call that ends gives up its lock and what it was about to use.
LEMMA LeavesPreserves ==
  ASSUME LoginInv, NEW k \in Calls, Leaves(k)
  PROVE  LoginInv'
<1>1. /\ calls' \in [Calls -> Call]
      /\ calls'[k] = NoCall
      /\ \A j \in Calls : j # k => calls'[j] = calls[j]
  BY BecomesFields, Types, NoCallOK DEF LoginInv, Leaves, End, Becomes
<1>2. /\ user' = user /\ links' = links /\ challenges' = challenges /\ sessions' = sessions
      /\ told' = told /\ resets' = resets
      /\ lock' = IF lock = k THEN NoOne ELSE lock
  BY DEF Leaves, Rest
<1>3. NoCall.pc = "idle" /\ CallOK(NoCall)
  BY NoCallOK
<1>4. TypeOK'
  BY <1>1, <1>2, RestTypes DEF LoginInv, TypeOK, Leaves
<1>5. CallsOK'
  BY <1>1, <1>3 DEF LoginInv, CallsOK
<1>6. LockOK'
  BY <1>1, <1>2, <1>3 DEF LoginInv, LockOK, At
<1>7. StepsOK'
  BY <1>1, <1>2, <1>3 DEF LoginInv, StepsOK, At, CodeSignsInOnce, TwoSessions
<1>8. GuessesOK'
  BY <1>2 DEF LoginInv, GuessesOK
<1>9. ChallengesOK'
  BY <1>1, <1>2, <1>3 DEF LoginInv, ChallengesOK, At, ChallengeSignsInOnce, TwoSessions
<1>10. LinksOK'
  BY <1>1, <1>2, <1>3 DEF LoginInv, LinksOK, CallHolds, SessionHolds
<1>11. FactorOK'
  BY <1>1, <1>2, <1>3 DEF LoginInv, FactorOK, At
<1>. QED
  BY <1>4, <1>5, <1>6, <1>7, <1>8, <1>9, <1>10, <1>11 DEF LoginInv

\* A call that goes on holds what it held, except that a session without a code
\* needs the authenticator to have been off.
LEMMA AdvancesPreserves ==
  ASSUME LoginInv, NEW k \in Calls, Advances(k)
  PROVE  LoginInv'
<1>1. PICK r \in Call :
        /\ Becomes(k, r)
        /\ CallOK(r)
        /\ r.chal = calls[k].chal /\ r.link = calls[k].link
        /\ r.seen = calls[k].seen /\ r.via = NoCode
        /\ ~At(k, "idle") /\ ~At(k, "delete") /\ r.pc \notin {"delete", "idle"}
        /\ r.pc = "lookup" => r.link = NoLink
        /\ r.pc \in {"begin", "session"} => At(k, "lookup")
        /\ r.pc = "session" => NoSecret \in r.seen
        /\ r.pc \in {"accept", "wrong"} => r.secret \in r.seen
        /\ UNCHANGED Rest /\ UNCHANGED lock /\ Counters
  BY DEF Advances
<1>2. /\ calls' \in [Calls -> Call]
      /\ calls'[k] = r
      /\ \A j \in Calls : j # k => calls'[j] = calls[j]
  BY <1>1, BecomesFields, Types DEF LoginInv
<1>3. /\ user' = user /\ links' = links /\ challenges' = challenges /\ sessions' = sessions
      /\ told' = told /\ resets' = resets /\ lock' = lock
  BY <1>1 DEF Rest
<1>4. r.via.step = 0 /\ r.via.secret = NoSecret
  BY <1>1 DEF NoCode
<1>5. r.pc = "session" => r.chal = NoChallenge
  BY <1>1 DEF LoginInv, CallsOK, CallOK, FirstFactor, At
<1>6. user.last >= 0
  BY DEF LoginInv, TypeOK, User, Step
<1>7. TypeOK'
  BY <1>1, <1>2, RestTypes DEF LoginInv, TypeOK
<1>8. CallsOK'
  BY <1>1, <1>2 DEF LoginInv, CallsOK
<1>9. LockOK'
  BY <1>1, <1>2, <1>3 DEF LoginInv, LockOK, At
<1>10. StepsOK'
  BY <1>1, <1>2, <1>3, <1>4, <1>6 DEF LoginInv, StepsOK, At, CodeSignsInOnce, TwoSessions
<1>11. GuessesOK'
  BY <1>3 DEF LoginInv, GuessesOK
<1>12. ChallengesOK'
  BY <1>1, <1>2, <1>3, <1>5 DEF LoginInv, ChallengesOK, At, ChallengeSignsInOnce, TwoSessions
<1>13. LinksOK'
  BY <1>1, <1>2, <1>3 DEF LoginInv, LinksOK, CallHolds, SessionHolds, At
<1>14. FactorOK'
  BY <1>1, <1>2, <1>3, <1>4 DEF LoginInv, FactorOK, At
<1>. QED
  BY <1>7, <1>8, <1>9, <1>10, <1>11, <1>12, <1>13, <1>14 DEF LoginInv

-----------------------------------------------------------------------------
(* The steps that write.                                                    *)

\* ConsumeMagicLink, when it wins: the call is the first to hold the link.
LEMMA ConsumePreserves ==
  ASSUME LoginInv, NEW k \in Calls, ConsumeMagicLink(k), links[calls[k].link] = "live"
  PROVE  LoginInv'
<1> DEFINE l == calls[k].link
<1>1. calls \in [Calls -> Call] /\ calls[k] \in Call
  BY Types DEF LoginInv
<1>2. /\ calls' = [calls EXCEPT ![k].pc = "lookup"]
      /\ links' = [links EXCEPT ![l] = "used"]
      /\ user' = user /\ challenges' = challenges /\ sessions' = sessions
      /\ told' = told /\ resets' = resets /\ lock' = lock /\ At(k, "consume")
      /\ arrived' = arrived /\ faults' = faults /\ offered' = offered /\ now' = now
  BY DEF ConsumeMagicLink, LinkLive, Go, history
<1>3. /\ calls' \in [Calls -> Call]
      /\ \A j \in Calls : j # k => calls'[j] = calls[j]
      /\ calls'[k].pc = "lookup" /\ calls'[k].chal = calls[k].chal
      /\ calls'[k].via = calls[k].via /\ calls'[k].kind = calls[k].kind
      /\ calls'[k].link = l /\ calls'[k].seen = calls[k].seen
  BY <1>1, <1>2 DEF Call
<1>4. l \in LoginLinks /\ l \in Links /\ calls[k].chal = NoChallenge /\ calls[k].via = NoCode
  BY <1>2 DEF LoginInv, CallsOK, CallOK, FirstFactor, At, Links
<1>5. links \in [Links -> {"unsent", "live", "expired", "used"}]
  BY DEF LoginInv, TypeOK
<1>6. /\ links'[l] = "used"
      /\ \A m \in Links : m # l => links'[m] = links[m]
  BY <1>2, <1>4, <1>5
<1>. HIDE DEF l
<1>7. TypeOK'
  BY <1>2, <1>3, <1>4, <1>5 DEF LoginInv, TypeOK
<1>8. CallsOK'
  BY <1>2, <1>3, <1>4 DEF LoginInv, CallsOK, CallOK, FirstFactor, OnChallenge, At
<1>9. LockOK'
  BY <1>2, <1>3 DEF LoginInv, LockOK, At
<1>10. StepsOK'
  BY <1>2, <1>3 DEF LoginInv, StepsOK, At, CodeSignsInOnce, TwoSessions
<1>11. GuessesOK'
  BY <1>2 DEF LoginInv, GuessesOK
<1>12. ChallengesOK'
  BY <1>2, <1>3 DEF LoginInv, ChallengesOK, At, ChallengeSignsInOnce, TwoSessions
<1>13. LinksOK'
  <2>1. links[l] # "used"
    BY DEF l
  <2>2. l \notin ResetLinks /\ LoginLinks \subseteq Links /\ ResetLinks \subseteq Links
    BY <1>4 DEF Links
  <2>. QED
    BY <1>2, <1>3, <1>4, <1>6, <2>1, <2>2 DEF LoginInv, LinksOK, CallHolds, SessionHolds, At
<1>14. FactorOK'
  BY <1>2, <1>3 DEF LoginInv, FactorOK, At
<1>. QED
  BY <1>7, <1>8, <1>9, <1>10, <1>11, <1>12, <1>13, <1>14 DEF LoginInv

\* ResetPassword: the reset link had set no password before.
LEMMA ResetPreserves ==
  ASSUME LoginInv, NEW k \in Calls, ResetPassword(k)
  PROVE  LoginInv'
<1> DEFINE l == calls[k].link
<1>1. /\ calls \in [Calls -> Call]
      /\ links \in [Links -> {"unsent", "live", "expired", "used"}]
      /\ resets \in [ResetLinks -> Nat] /\ user \in User
  BY DEF LoginInv, TypeOK
<1>2. /\ End(k) /\ At(k, "reset") /\ links[l] = "live"
      /\ links' = [links EXCEPT ![l] = "used"]
      /\ resets' = [resets EXCEPT ![l] = @ + 1]
      /\ user' = [user EXCEPT !.password = calls[k].password]
      /\ challenges' = challenges /\ sessions' = sessions /\ told' = told /\ lock' = lock
      /\ arrived' = arrived /\ faults' = faults /\ offered' = offered /\ now' = now
  BY DEF ResetPassword, LinkLive
<1>3. /\ calls' \in [Calls -> Call]
      /\ calls'[k] = NoCall
      /\ \A j \in Calls : j # k => calls'[j] = calls[j]
  BY <1>1, <1>2, BecomesFields, NoCallOK DEF End, Becomes
<1>4. l \in ResetLinks /\ l \in Links /\ l \notin LoginLinks /\ calls[k].password \in 1..MaxPasswords
  BY <1>2 DEF LoginInv, CallsOK, CallOK, At, Links
<1>5. NoCall.pc = "idle" /\ CallOK(NoCall)
  BY NoCallOK
<1>6. /\ links'[l] = "used" /\ links' \in [Links -> {"unsent", "live", "expired", "used"}]
      /\ \A m \in Links : m # l => links'[m] = links[m]
      /\ resets'[l] = resets[l] + 1 /\ resets' \in [ResetLinks -> Nat]
      /\ \A m \in ResetLinks : m # l => resets'[m] = resets[m]
  BY <1>1, <1>2, <1>4
<1>7. user' \in User /\ user'.last = user.last /\ user'.secret = user.secret
  BY <1>1, <1>2, <1>4 DEF User
<1>8. links[l] # "used"
  BY <1>2
<1>. HIDE DEF l
<1>9. TypeOK'
  BY <1>2, <1>3, <1>6, <1>7 DEF LoginInv, TypeOK
<1>10. CallsOK'
  BY <1>3, <1>5 DEF LoginInv, CallsOK
<1>11. LockOK'
  BY <1>2, <1>3, <1>5, <1>7 DEF LoginInv, LockOK, At
<1>12. StepsOK'
  <2>1. \A j \in Calls : At(j, "session")' => At(j, "session") /\ calls'[j] = calls[j]
    BY <1>3, <1>5 DEF At
  <2>2. CodeSignsInOnce'
    BY <1>2 DEF LoginInv, StepsOK, CodeSignsInOnce, TwoSessions
  <2>. QED
    BY <1>2, <1>7, <2>1, <2>2 DEF LoginInv, StepsOK
<1>13. GuessesOK'
  BY <1>2 DEF LoginInv, GuessesOK
<1>14. ChallengesOK'
  <2>1. \A j \in Calls : At(j, "session")' => At(j, "session") /\ calls'[j] = calls[j]
    BY <1>3, <1>5 DEF At
  <2>2. ChallengeSignsInOnce'
    BY <1>2 DEF LoginInv, ChallengesOK, ChallengeSignsInOnce, TwoSessions
  <2>. QED
    BY <1>2, <2>1, <2>2 DEF LoginInv, ChallengesOK
<1>15. LinksOK'
  <2>1. LoginLinks \subseteq Links /\ ResetLinks \subseteq Links
    BY DEF Links
  <2>2. \A m \in LoginLinks : links'[m] = links[m]
    BY <1>4, <1>6, <2>1
  <2>3. \A m \in ResetLinks : resets'[m] = 0 \/ (resets'[m] = 1 /\ links'[m] = "used")
    BY <1>4, <1>6, <1>8, <2>1 DEF LoginInv, LinksOK
  <2>4. \A j \in Calls, m \in LoginLinks : CallHolds(j, m)' => CallHolds(j, m)
    BY <1>3, <1>5 DEF CallHolds
  <2>. QED
    BY <1>2, <2>2, <2>3, <2>4 DEF LoginInv, LinksOK, SessionHolds
<1>16. FactorOK'
  BY <1>2, <1>3, <1>5, <1>7 DEF LoginInv, FactorOK, At
<1>. QED
  BY <1>9, <1>10, <1>11, <1>12, <1>13, <1>14, <1>15, <1>16 DEF LoginInv

\* BeginTOTPLogin: the link passes from the call to the challenge.
LEMMA BeginPreserves ==
  ASSUME LoginInv, NEW k \in Calls, BeginTOTPLogin(k)
  PROVE  LoginInv'
<1>1. PICK c \in Challenges :
        /\ challenges[c].state = "none"
        /\ challenges' = [challenges EXCEPT ![c].state = "open", ![c].link = calls[k].link]
        /\ IF calls[k].code = NoCode THEN End(k)
           ELSE calls' = [calls EXCEPT ![k].pc = "select", ![k].chal = c]
  BY DEF BeginTOTPLogin
<1>2. /\ At(k, "begin")
      /\ user' = user /\ links' = links /\ sessions' = sessions
      /\ told' = told /\ resets' = resets /\ lock' = lock
      /\ arrived' = arrived /\ faults' = faults /\ offered' = offered /\ now' = now
  BY DEF BeginTOTPLogin, history
<1>3. calls \in [Calls -> Call] /\ challenges \in [Challenges -> Challenge]
  BY Types DEF LoginInv
<1>4. calls[k].link \in LoginLinks \cup {NoLink} /\ calls[k].chal = NoChallenge /\ calls[k].via = NoCode
  BY <1>2 DEF LoginInv, CallsOK, CallOK, FirstFactor, At
<1>5. /\ challenges' \in [Challenges -> Challenge]
      /\ challenges'[c].state = "open" /\ challenges'[c].link = calls[k].link
      /\ challenges'[c].attempts = challenges[c].attempts
      /\ \A d \in Challenges : d # c => challenges'[d] = challenges[d]
  <2>1. challenges[c] \in Challenge
    BY <1>3
  <2>2. challenges' \in [Challenges -> Challenge]
    BY <1>1, <1>3, <1>4, <2>1 DEF Challenge
  <2>3. /\ challenges'[c].state = "open" /\ challenges'[c].link = calls[k].link
        /\ challenges'[c].attempts = challenges[c].attempts
    BY <1>1, <1>3, <2>1 DEF Challenge
  <2>4. \A d \in Challenges : d # c => challenges'[d] = challenges[d]
    BY <1>1, <1>3
  <2>. QED
    BY <2>2, <2>3, <2>4
<1>6. NoCall.pc = "idle" /\ CallOK(NoCall) /\ NoCall \in Call
  BY NoCallOK
<1>7. /\ calls' \in [Calls -> Call]
      /\ \A j \in Calls : j # k => calls'[j] = calls[j]
      /\ \/ calls'[k] = NoCall
         \/ /\ calls'[k].pc = "select" /\ calls'[k].chal = c
            /\ calls'[k].via = calls[k].via /\ calls'[k].kind = calls[k].kind
            /\ calls'[k].seen = calls[k].seen /\ calls'[k].link = calls[k].link
  <2>1. CASE calls[k].code = NoCode
    BY <2>1, <1>1, <1>3, <1>6 DEF End
  <2>2. CASE calls[k].code # NoCode
    BY <2>2, <1>1, <1>3 DEF Call
  <2>. QED
    BY <2>1, <2>2
<1>8. calls'[k].pc \in {"idle", "select"}
  BY <1>6, <1>7
<1>9. calls[k].kind # "json"
  BY <1>2 DEF LoginInv, CallsOK, CallOK, At
<1>10. TypeOK'
  BY <1>2, <1>5, <1>7 DEF LoginInv, TypeOK
<1>11. CallsOK'
  <2>1. CallOK(calls'[k])
    BY <1>4, <1>6, <1>7, <1>9 DEF CallOK, FirstFactor, OnChallenge
  <2>. QED
    BY <2>1, <1>7 DEF LoginInv, CallsOK
<1>12. LockOK'
  BY <1>2, <1>7, <1>8 DEF LoginInv, LockOK, At
<1>13. StepsOK'
  BY <1>2, <1>7, <1>8 DEF LoginInv, StepsOK, At, CodeSignsInOnce, TwoSessions
<1>14. GuessesOK'
  BY <1>1, <1>2, <1>5 DEF LoginInv, GuessesOK
<1>15. \A i \in 1..Len(sessions) : sessions[i].chal \in Challenges \cup {NoChallenge}
  BY Openings DEF LoginInv
<1>16. \A j \in Calls : calls[j].chal \in Challenges \cup {NoChallenge}
  BY <1>3 DEF Call
<1>17. ChallengesOK'
  BY <1>1, <1>2, <1>5, <1>7, <1>8, <1>15, <1>16
     DEF LoginInv, ChallengesOK, At, ChallengeSignsInOnce, TwoSessions
<1>18. LinksOK'
  <2>1. \A j \in Calls, l \in LoginLinks : CallHolds(j, l)' => j # k /\ CallHolds(j, l)
    BY <1>7, <1>8 DEF CallHolds
  <2>2. \A l \in LoginLinks : challenges'[c].link = l => CallHolds(k, l)
    BY <1>2, <1>4, <1>5 DEF CallHolds, At
  <2>3. \A i \in 1..Len(sessions) : sessions[i].chal # c
    BY <1>1 DEF LoginInv, ChallengesOK
  <2>. QED
    BY <1>2, <1>5, <1>15, <2>1, <2>2, <2>3 DEF LoginInv, LinksOK, SessionHolds
<1>19. FactorOK'
  BY <1>2, <1>6, <1>7, <1>8 DEF LoginInv, FactorOK, At
<1>. QED
  BY <1>10, <1>11, <1>12, <1>13, <1>14, <1>17, <1>18, <1>19 DEF LoginInv

\* A challenge is deleted, and nothing is counted or opened by that.
LEMMA DropPreserves ==
  ASSUME LoginInv, NEW k \in Calls, DropChallenge(k)
  PROVE  LoginInv'
<1> DEFINE c == calls[k].chal
<1>1. /\ At(k, "drop") /\ End(k)
      /\ challenges' = [challenges EXCEPT ![c].state = "gone"]
      /\ user' = user /\ links' = links /\ sessions' = sessions
      /\ told' = told /\ resets' = resets /\ lock' = lock
      /\ arrived' = arrived /\ faults' = faults /\ offered' = offered /\ now' = now
  BY DEF DropChallenge, history
<1>2. calls \in [Calls -> Call] /\ challenges \in [Challenges -> Challenge]
  BY Types DEF LoginInv
<1>3. c \in Challenges
  BY <1>1 DEF LoginInv, CallsOK, CallOK, OnChallenge, At
<1>4. /\ calls' \in [Calls -> Call] /\ calls'[k] = NoCall
      /\ \A j \in Calls : j # k => calls'[j] = calls[j]
  BY <1>1, <1>2, BecomesFields, NoCallOK DEF End, Becomes
<1>5. NoCall.pc = "idle" /\ CallOK(NoCall)
  BY NoCallOK
<1>6. /\ challenges' \in [Challenges -> Challenge]
      /\ \A d \in Challenges : /\ challenges'[d].link = challenges[d].link
                               /\ challenges'[d].attempts = challenges[d].attempts
                               /\ challenges'[d].state \in {challenges[d].state, "gone"}
  BY <1>1, <1>2, <1>3 DEF Challenge
<1>. HIDE DEF c
<1>7. \A i \in 1..Len(sessions) : sessions[i].chal \in Challenges \cup {NoChallenge}
  BY Openings DEF LoginInv
<1>8. \A j \in Calls : calls[j].chal \in Challenges \cup {NoChallenge}
  BY <1>2 DEF Call
<1>9. TypeOK'
  BY <1>1, <1>4, <1>6 DEF LoginInv, TypeOK
<1>10. CallsOK'
  BY <1>4, <1>5 DEF LoginInv, CallsOK
<1>11. LockOK'
  BY <1>1, <1>4, <1>5 DEF LoginInv, LockOK, At
<1>12. StepsOK'
  BY <1>1, <1>4, <1>5 DEF LoginInv, StepsOK, At, CodeSignsInOnce, TwoSessions
<1>13. GuessesOK'
  BY <1>1, <1>6 DEF LoginInv, GuessesOK
<1>14. ChallengesOK'
  <2>1. \A j \in Calls : At(j, "session")' => At(j, "session") /\ calls'[j] = calls[j]
    BY <1>4, <1>5 DEF At
  <2>2. ChallengeSignsInOnce'
    BY <1>1 DEF LoginInv, ChallengesOK, ChallengeSignsInOnce, TwoSessions
  <2>. QED
    BY <1>1, <1>6, <1>7, <1>8, <2>1, <2>2 DEF LoginInv, ChallengesOK
<1>15. LinksOK'
  <2>1. \A j \in Calls, l \in LoginLinks : CallHolds(j, l)' => CallHolds(j, l)
    BY <1>4, <1>5 DEF CallHolds
  <2>2. \A d \in Challenges : challenges'[d].state = "none" => challenges[d].state = "none"
    BY <1>6
  <2>. QED
    BY <1>1, <1>6, <1>7, <2>1, <2>2 DEF LoginInv, LinksOK, SessionHolds
<1>16. FactorOK'
  BY <1>1, <1>4, <1>5 DEF LoginInv, FactorOK, At
<1>. QED
  BY <1>9, <1>10, <1>11, <1>12, <1>13, <1>14, <1>15, <1>16 DEF LoginInv

\* A wrong code is counted while the challenge exists.
LEMMA WrongPreserves ==
  ASSUME LoginInv, NEW k \in Calls, NoteWrongTOTP(k)
  PROVE  LoginInv'
<1> DEFINE c == calls[k].chal
           n == challenges[c].attempts + 1
<1>1. /\ At(k, "wrong") /\ End(k)
      /\ challenges' = IF challenges[c].state = "gone" THEN challenges
                       ELSE [challenges EXCEPT ![c].attempts = n,
                               ![c].state = IF n >= MaxWrongCodes THEN "gone" ELSE @]
      /\ told' = IF challenges[c].state # "gone" THEN [told EXCEPT ![c] = @ + 1] ELSE told
      /\ user' = user /\ links' = links /\ sessions' = sessions
      /\ resets' = resets /\ lock' = lock
      /\ arrived' = arrived /\ faults' = faults /\ offered' = offered /\ now' = now
  BY DEF NoteWrongTOTP, AtCap, Reported
<1>2. /\ calls \in [Calls -> Call] /\ challenges \in [Challenges -> Challenge]
      /\ told \in [Challenges -> Nat]
  BY DEF LoginInv, TypeOK
<1>3. c \in Challenges
  BY <1>1 DEF LoginInv, CallsOK, CallOK, OnChallenge, At
<1>4. /\ calls' \in [Calls -> Call] /\ calls'[k] = NoCall
      /\ \A j \in Calls : j # k => calls'[j] = calls[j]
  BY <1>1, <1>2, BecomesFields, NoCallOK DEF End, Becomes
<1>5. NoCall.pc = "idle" /\ CallOK(NoCall)
  BY NoCallOK
<1>6. challenges[c].state # "gone" => challenges[c].attempts < MaxWrongCodes
  BY <1>3 DEF LoginInv, GuessesOK
<1>7. /\ challenges' \in [Challenges -> Challenge]
      /\ told' \in [Challenges -> Nat]
      /\ \A d \in Challenges : /\ challenges'[d].link = challenges[d].link
                               /\ challenges'[d].state \in {challenges[d].state, "gone"}
                               /\ told[d] = challenges[d].attempts =>
                                     told'[d] = challenges'[d].attempts
                               /\ (challenges[d].state # "gone" =>
                                     challenges[d].attempts < MaxWrongCodes) =>
                                  (challenges'[d].state # "gone" =>
                                     challenges'[d].attempts < MaxWrongCodes)
  <2>1. CASE challenges[c].state = "gone"
    BY <2>1, <1>1, <1>2
  <2>2. CASE challenges[c].state # "gone"
    <3>1. challenges[c].attempts \in 0..MaxWrongCodes /\ n \in 0..MaxWrongCodes
      BY <2>2, <1>2, <1>3, <1>6 DEF Challenge
    <3>. HIDE DEF n
    <3>2. /\ challenges' \in [Challenges -> Challenge]
          /\ challenges'[c].link = challenges[c].link
          /\ challenges'[c].attempts = n
          /\ challenges'[c].state = IF n >= MaxWrongCodes THEN "gone" ELSE challenges[c].state
          /\ \A d \in Challenges : d # c => challenges'[d] = challenges[d]
      BY <2>2, <3>1, <1>1, <1>2, <1>3 DEF Challenge
    <3>3. /\ told' \in [Challenges -> Nat] /\ told'[c] = told[c] + 1
          /\ \A d \in Challenges : d # c => told'[d] = told[d]
      BY <2>2, <1>1, <1>2, <1>3
    <3>. QED
      BY <3>1, <3>2, <3>3 DEF n
  <2>. QED
    BY <2>1, <2>2
<1>. HIDE DEF c
<1>8. \A i \in 1..Len(sessions) : sessions[i].chal \in Challenges \cup {NoChallenge}
  BY Openings DEF LoginInv
<1>9. \A j \in Calls : calls[j].chal \in Challenges \cup {NoChallenge}
  BY <1>2 DEF Call
<1>10. TypeOK'
  BY <1>1, <1>4, <1>7 DEF LoginInv, TypeOK
<1>11. CallsOK'
  BY <1>4, <1>5 DEF LoginInv, CallsOK
<1>12. LockOK'
  BY <1>1, <1>4, <1>5 DEF LoginInv, LockOK, At
<1>13. StepsOK'
  BY <1>1, <1>4, <1>5 DEF LoginInv, StepsOK, At, CodeSignsInOnce, TwoSessions
<1>14. GuessesOK'
  BY <1>7 DEF LoginInv, GuessesOK
<1>15. ChallengesOK'
  <2>1. \A d \in Challenges : challenges[d].state = "gone" => challenges'[d].state = "gone"
    BY <1>7
  <2>2. sessions' = sessions
    BY <1>1
  <2>. QED
    BY <1>4, <1>5, <1>8, <1>9, <2>1, <2>2
       DEF LoginInv, ChallengesOK, At, ChallengeSignsInOnce, TwoSessions
<1>16. LinksOK'
  <2>1. \A j \in Calls, l \in LoginLinks : CallHolds(j, l)' => CallHolds(j, l)
    BY <1>4, <1>5 DEF CallHolds
  <2>2. \A d \in Challenges : challenges'[d].state = "none" => challenges[d].state = "none"
    BY <1>7
  <2>3. \A i \in 1..Len(sessions), l \in LoginLinks : SessionHolds(i, l)' <=> SessionHolds(i, l)
    BY <1>1 DEF SessionHolds
  <2>4. links' = links /\ sessions' = sessions /\ resets' = resets
    BY <1>1
  <2>5. \A d \in Challenges : challenges'[d].link = challenges[d].link
    BY <1>7
  <2>6. LinksOK
    BY DEF LoginInv
  <2>. QED
    BY <1>8, <2>1, <2>2, <2>3, <2>4, <2>5, <2>6 DEF LinksOK
<1>17. FactorOK'
  BY <1>1, <1>4, <1>5 DEF LoginInv, FactorOK, At
<1>. QED
  BY <1>10, <1>11, <1>12, <1>13, <1>14, <1>15, <1>16, <1>17 DEF LoginInv

\* The JSON login stores the step and passes in one transaction.
LEMMA AcceptLoginPreserves ==
  ASSUME LoginInv, NEW k \in Calls, AcceptTOTPLogin(k), Accepts(k)
  PROVE  LoginInv'
<1> DEFINE code == calls[k].code
<1>1. /\ At(k, "accept") /\ calls[k].kind = "json" /\ lock \in {NoOne, k}
      /\ user' = [user EXCEPT !.last = code.step]
      /\ calls' = [calls EXCEPT ![k].pc = "session", ![k].via = code]
      /\ links' = links /\ challenges' = challenges /\ sessions' = sessions
      /\ told' = told /\ resets' = resets /\ lock' = lock
      /\ arrived' = arrived /\ faults' = faults /\ offered' = offered /\ now' = now
  BY DEF AcceptTOTPLogin, Free, history
<1>2. calls \in [Calls -> Call] /\ user \in User
  BY Types DEF LoginInv
<1>3. code \in Code /\ code.step \in Step
  BY <1>2 DEF Call, Code
<1>4. /\ calls' \in [Calls -> Call]
      /\ \A j \in Calls : j # k => calls'[j] = calls[j]
      /\ calls'[k].pc = "session" /\ calls'[k].via = code
      /\ calls'[k].kind = calls[k].kind /\ calls'[k].chal = calls[k].chal
      /\ calls'[k].link = calls[k].link /\ calls'[k].seen = calls[k].seen
  BY <1>1, <1>2, <1>3, PassFields
<1>5. code.secret = calls[k].secret /\ user.last < code.step
  BY DEF Accepts, Matches, NewerStep
<1>6. user' \in User /\ user'.last = code.step /\ user'.secret = user.secret
  BY <1>1, <1>2, <1>3 DEF User
<1>7. user.last \in Nat /\ code.step \in Nat
  BY <1>2, <1>3 DEF User, Step
<1>. HIDE DEF code
<1>8. calls[k].chal = NoChallenge /\ calls[k].link = NoLink
  BY <1>1 DEF LoginInv, CallsOK, CallOK, At
<1>9. lock = NoOne /\ \A j \in Calls : ~At(j, "delete")
  BY <1>1 DEF LoginInv, LockOK, At
<1>10. TypeOK'
  BY <1>1, <1>4, <1>6 DEF LoginInv, TypeOK
<1>11. CallsOK'
  <2>1. CallOK(calls'[k])
    BY <1>1, <1>4, <1>8 DEF CallOK, FirstFactor, OnChallenge
  <2>. QED
    BY <2>1, <1>4 DEF LoginInv, CallsOK
<1>12. LockOK'
  BY <1>1, <1>4, <1>9 DEF LoginInv, LockOK, At
<1>13. StepsOK'
  BY <1>1, <1>3, <1>5, <1>6, PassKeepsSteps
<1>14. GuessesOK'
  BY <1>1 DEF LoginInv, GuessesOK
<1>15. ChallengesOK'
  BY <1>1, <1>4, <1>8 DEF LoginInv, ChallengesOK, At, ChallengeSignsInOnce, TwoSessions
<1>16. LinksOK'
  <2>1. \A j \in Calls, l \in LoginLinks : CallHolds(j, l)' => CallHolds(j, l)
    BY <1>4, <1>8 DEF CallHolds
  <2>. QED
    BY <1>1, <2>1 DEF LoginInv, LinksOK, SessionHolds
<1>17. FactorOK'
  BY <1>1, <1>4, <1>5, <1>6 DEF LoginInv, FactorOK, At
<1>. QED
  BY <1>10, <1>11, <1>12, <1>13, <1>14, <1>15, <1>16, <1>17 DEF LoginInv

\* acceptTOTPCode inside a finish: the call takes the lock.
LEMMA AcceptCodePreserves ==
  ASSUME LoginInv, NEW k \in Calls, AcceptTOTPCode(k), Accepts(k)
  PROVE  LoginInv'
<1>1. /\ At(k, "accept") /\ calls[k].kind # "json" /\ lock \in {NoOne, k}
      /\ calls' = [calls EXCEPT ![k].pc = "delete"]
      /\ lock' = k
      /\ user' = user /\ links' = links /\ challenges' = challenges /\ sessions' = sessions
      /\ told' = told /\ resets' = resets
      /\ arrived' = arrived /\ faults' = faults /\ offered' = offered /\ now' = now
  BY DEF AcceptTOTPCode, Free, Go, history
<1>2. calls \in [Calls -> Call]
  BY Types DEF LoginInv
<1>3. /\ calls' \in [Calls -> Call]
      /\ \A j \in Calls : j # k => calls'[j] = calls[j]
      /\ calls'[k].pc = "delete" /\ calls'[k].via = calls[k].via
      /\ calls'[k].kind = calls[k].kind /\ calls'[k].chal = calls[k].chal
      /\ calls'[k].link = calls[k].link /\ calls'[k].seen = calls[k].seen
      /\ calls'[k].code = calls[k].code /\ calls'[k].secret = calls[k].secret
  BY <1>1, <1>2 DEF Call
<1>4. calls[k].code.secret = calls[k].secret /\ user.last < calls[k].code.step
  BY DEF Accepts, Matches, NewerStep
<1>5. lock = NoOne /\ \A j \in Calls : ~At(j, "delete")
  BY <1>1 DEF LoginInv, LockOK, At
<1>6. TypeOK'
  BY <1>1, <1>3 DEF LoginInv, TypeOK
<1>7. CallsOK'
  <2>1. CallOK(calls[k])
    BY DEF LoginInv, CallsOK
  <2>2. CallOK(calls'[k])
    BY <1>1, <1>3, <2>1 DEF CallOK, FirstFactor, OnChallenge, At
  <2>. QED
    BY <2>2, <1>3 DEF LoginInv, CallsOK
<1>8. LockOK'
  BY <1>1, <1>3, <1>4, <1>5 DEF LoginInv, LockOK, At
<1>9. StepsOK'
  BY <1>1, <1>3 DEF LoginInv, StepsOK, At, CodeSignsInOnce, TwoSessions
<1>10. GuessesOK'
  BY <1>1 DEF LoginInv, GuessesOK
<1>11. ChallengesOK'
  BY <1>1, <1>3 DEF LoginInv, ChallengesOK, At, ChallengeSignsInOnce, TwoSessions
<1>12. LinksOK'
  <2>1. \A j \in Calls, l \in LoginLinks : CallHolds(j, l)' => CallHolds(j, l)
    BY <1>3 DEF CallHolds
  <2>. QED
    BY <1>1, <2>1 DEF LoginInv, LinksOK, SessionHolds
<1>13. FactorOK'
  BY <1>1, <1>3, <1>4 DEF LoginInv, FactorOK, At
<1>. QED
  BY <1>6, <1>7, <1>8, <1>9, <1>10, <1>11, <1>12, <1>13 DEF LoginInv

\* A finish that deletes its challenge: no other call passes by it any more.
LEMMA FinishPreserves ==
  ASSUME LoginInv, NEW k \in Calls, FinishTOTPLogin(k), OneDeleted(calls[k].chal)
  PROVE  LoginInv'
<1> DEFINE code == calls[k].code
           c == calls[k].chal
<1>1. /\ At(k, "delete") /\ lock' = NoOne
      /\ challenges' = [challenges EXCEPT ![c].state = "gone"]
      /\ user' = [user EXCEPT !.last = code.step]
      /\ calls' = [calls EXCEPT ![k].pc = "session", ![k].via = code]
      /\ links' = links /\ sessions' = sessions /\ told' = told /\ resets' = resets
      /\ arrived' = arrived /\ faults' = faults /\ offered' = offered /\ now' = now
  BY DEF FinishTOTPLogin, history
<1>2. calls \in [Calls -> Call] /\ user \in User /\ challenges \in [Challenges -> Challenge]
  BY Types DEF LoginInv
<1>3. code \in Code /\ code.step \in Step
  BY <1>2 DEF Call, Code
<1>4. /\ calls' \in [Calls -> Call]
      /\ \A j \in Calls : j # k => calls'[j] = calls[j]
      /\ calls'[k].pc = "session" /\ calls'[k].via = code
      /\ calls'[k].kind = calls[k].kind /\ calls'[k].chal = c
      /\ calls'[k].link = calls[k].link /\ calls'[k].seen = calls[k].seen
  BY <1>1, <1>2, <1>3, PassFields
<1>5. code.secret = calls[k].secret /\ calls[k].secret \in calls[k].seen
  BY <1>1 DEF LoginInv, FactorOK, At
<1>6. user.last < code.step /\ \A j \in Calls : j # k => ~At(j, "delete")
  BY <1>1 DEF LoginInv, LockOK
<1>7. user' \in User /\ user'.last = code.step /\ user'.secret = user.secret
  BY <1>1, <1>2, <1>3 DEF User
<1>8. user.last \in Nat /\ code.step \in Nat
  BY <1>2, <1>3 DEF User, Step
<1>9. c \in Challenges /\ calls[k].kind # "json"
  BY <1>1 DEF LoginInv, CallsOK, CallOK, OnChallenge, At
<1>10. challenges[c].state # "gone"
  BY DEF OneDeleted
<1>. HIDE DEF code, c
<1>11. /\ challenges' \in [Challenges -> Challenge]
       /\ challenges'[c].state = "gone"
       /\ \A d \in Challenges : d # c => challenges'[d] = challenges[d]
       /\ challenges'[c].link = challenges[c].link
       /\ challenges'[c].attempts = challenges[c].attempts
  BY <1>1, <1>2, <1>9 DEF Challenge
<1>12. \A i \in 1..Len(sessions) : /\ sessions[i].chal \in Challenges \cup {NoChallenge}
                                   /\ sessions[i].via.step \in Nat
  BY Openings DEF LoginInv, Step
<1>13. \A j \in Calls : calls[j].chal \in Challenges \cup {NoChallenge}
  BY <1>2 DEF Call
<1>14. TypeOK'
  BY <1>1, <1>4, <1>7, <1>11 DEF LoginInv, TypeOK
<1>15. CallsOK'
  <2>1. CallOK(calls'[k])
    <3>1. calls[k].link \in LoginLinks \cup {NoLink}
      BY <1>1 DEF LoginInv, CallsOK, CallOK, At
    <3>. QED
      BY <3>1, <1>4, <1>9 DEF CallOK, FirstFactor, OnChallenge
  <2>. QED
    BY <2>1, <1>4 DEF LoginInv, CallsOK
<1>16. LockOK'
  BY <1>1, <1>4, <1>6 DEF LoginInv, LockOK, At
<1>17. StepsOK'
  BY <1>1, <1>3, <1>6, <1>7, PassKeepsSteps
<1>18. GuessesOK'
  BY <1>1, <1>11 DEF LoginInv, GuessesOK
<1>19. ChallengesOK'
  <2>1. \A i \in 1..Len(sessions) : sessions[i].chal # c
    BY <1>9, <1>10 DEF LoginInv, ChallengesOK
  <2>2. \A j \in Calls : At(j, "session") => calls[j].chal # c
    BY <1>9, <1>10 DEF LoginInv, ChallengesOK
  <2>3. ChallengeSignsInOnce'
    BY <1>1 DEF LoginInv, ChallengesOK, ChallengeSignsInOnce, TwoSessions
  <2>. QED
    BY <1>1, <1>4, <1>9, <1>11, <1>12, <1>13, <2>1, <2>2, <2>3 DEF LoginInv, ChallengesOK, At
<1>20. LinksOK'
  <2>1. \A j \in Calls, l \in LoginLinks : CallHolds(j, l)' => CallHolds(j, l)
    BY <1>4, <1>9 DEF CallHolds
  <2>2. \A d \in Challenges : /\ challenges'[d].link = challenges[d].link
                              /\ challenges'[d].state = "none" => challenges[d].state = "none"
    BY <1>11
  <2>. QED
    BY <1>1, <1>12, <2>1, <2>2 DEF LoginInv, LinksOK, SessionHolds
<1>21. FactorOK'
  BY <1>1, <1>4, <1>5, <1>7 DEF LoginInv, FactorOK, At
<1>. QED
  BY <1>14, <1>15, <1>16, <1>17, <1>18, <1>19, <1>20, <1>21 DEF LoginInv

\* A session is opened by a call that held its code, challenge and link alone.
LEMMA StartPreserves ==
  ASSUME LoginInv, NEW k \in Calls, StartSession(k)
  PROVE  LoginInv'
<1> DEFINE s == Opened(k)
           n == Len(sessions) + 1
<1>1. /\ At(k, "session") /\ End(k) /\ Len(sessions) < MaxSessions
      /\ sessions' = Append(sessions, s)
      /\ user' = user /\ links' = links /\ challenges' = challenges
      /\ told' = told /\ resets' = resets /\ lock' = lock
      /\ arrived' = arrived /\ faults' = faults /\ offered' = offered /\ now' = now
  BY DEF StartSession
<1>2. /\ calls \in [Calls -> Call] /\ challenges \in [Challenges -> Challenge]
      /\ sessions \in Seq(Opening) /\ user \in User
  BY DEF LoginInv, TypeOK
<1>3. /\ calls' \in [Calls -> Call] /\ calls'[k] = NoCall
      /\ \A j \in Calls : j # k => calls'[j] = calls[j]
  BY <1>1, <1>2, BecomesFields, NoCallOK DEF End, Becomes
<1>4. NoCall.pc = "idle" /\ CallOK(NoCall)
  BY NoCallOK
<1>5. calls[k].link \in LoginLinks \cup {NoLink}
  BY <1>1 DEF LoginInv, CallsOK, CallOK, At
<1>6. /\ calls[k].via \in Code /\ calls[k].via.step \in Nat
      /\ calls[k].chal \in Challenges \cup {NoChallenge}
  BY <1>2 DEF Call, Code, Step
<1>7. /\ s.via = calls[k].via /\ s.chal = calls[k].chal
      /\ s.chal = NoChallenge => s.link = calls[k].link
      /\ s.chal # NoChallenge => s.link = challenges[s.chal].link
      /\ s \in Opening
  <2>1. calls[k].chal # NoChallenge => challenges[calls[k].chal].link \in LoginLinks \cup {NoLink}
    BY <1>2, <1>6 DEF Challenge
  <2>. QED
    BY <1>5, <1>6, <2>1 DEF Opened, Opening
<1>. HIDE DEF s
<1>8. /\ sessions' \in Seq(Opening) /\ Len(sessions') = n /\ sessions'[n] = s
      /\ \A i \in 1..Len(sessions) : sessions'[i] = sessions[i]
      /\ n \in Nat /\ n = Len(sessions) + 1 /\ Len(sessions) \in Nat /\ n <= MaxSessions
  BY <1>1, <1>2, <1>7
<1>. HIDE DEF n
<1>9. \A i \in 1..n : i = n \/ i \in 1..Len(sessions)
  BY <1>8
<1>10. \A i \in 1..Len(sessions) : /\ sessions[i].via.step \in Nat
                                   /\ sessions[i].chal \in Challenges \cup {NoChallenge}
  BY Openings DEF LoginInv, Step
<1>11. TypeOK'
  BY <1>1, <1>3, <1>8 DEF LoginInv, TypeOK
<1>12. CallsOK'
  BY <1>3, <1>4 DEF LoginInv, CallsOK
<1>13. LockOK'
  BY <1>1, <1>3, <1>4 DEF LoginInv, LockOK, At
<1>14. StepsOK'
  <2>1. /\ s.via.step <= user.last /\ s.via.step \in Nat
        /\ \A i \in 1..Len(sessions) : s.via.step # 0 => sessions[i].via.step # s.via.step
    BY <1>1, <1>6, <1>7 DEF LoginInv, StepsOK
  <2>2. \A j \in Calls : At(j, "session")' => j # k /\ At(j, "session") /\ calls'[j] = calls[j]
    BY <1>3, <1>4 DEF At
  <2>3. \A j \in Calls : At(j, "session") /\ j # k /\ calls[j].via.step # 0 =>
           calls[j].via.step # s.via.step
    BY <1>1, <1>7 DEF LoginInv, StepsOK
  <2>4. \A i \in 1..n : sessions'[i].via.step <= user.last
    BY <1>8, <1>9, <2>1 DEF LoginInv, StepsOK
  <2>5. \A i \in 1..n, j \in Calls : At(j, "session")' /\ calls'[j].via.step # 0 =>
           sessions'[i].via.step # calls'[j].via.step
    BY <1>8, <1>9, <2>2, <2>3 DEF LoginInv, StepsOK
  <2>6. CodeSignsInOnce'
    <3>1. ASSUME NEW i \in 1..n, NEW j \in 1..n, i < j, sessions'[i].via.step # 0
          PROVE  sessions'[i].via.step # sessions'[j].via.step
      <4>1. i \in 1..Len(sessions)
        BY <3>1, <1>8
      <4>2. CASE j = n
        BY <4>1, <4>2, <3>1, <1>8, <1>10, <2>1
      <4>3. CASE j \in 1..Len(sessions)
        BY <4>1, <4>3, <3>1, <1>8 DEF LoginInv, StepsOK, CodeSignsInOnce, TwoSessions
      <4>. QED
        BY <4>2, <4>3, <1>9
    <3>. QED
      BY <3>1, <1>8 DEF CodeSignsInOnce, TwoSessions
  <2>7. \A j \in Calls : At(j, "session")' => calls'[j].via.step <= user.last
    BY <2>2 DEF LoginInv, StepsOK
  <2>8. \A i, j \in Calls :
          At(i, "session")' /\ At(j, "session")' /\ i # j /\ calls'[j].via.step # 0 =>
              calls'[i].via.step # calls'[j].via.step
    BY <2>2 DEF LoginInv, StepsOK
  <2>. QED
    BY <1>1, <1>8, <2>4, <2>5, <2>6, <2>7, <2>8 DEF StepsOK
<1>15. GuessesOK'
  BY <1>1 DEF LoginInv, GuessesOK
<1>16. ChallengesOK'
  <2>1. s.chal # NoChallenge =>
          /\ challenges[s.chal].state = "gone"
          /\ \A i \in 1..Len(sessions) : sessions[i].chal # s.chal
          /\ \A j \in Calls : At(j, "session") /\ j # k => calls[j].chal # s.chal
    BY <1>1, <1>7 DEF LoginInv, ChallengesOK
  <2>2. \A j \in Calls : At(j, "session")' => j # k /\ At(j, "session") /\ calls'[j] = calls[j]
    BY <1>3, <1>4 DEF At
  <2>3. \A i \in 1..n : sessions'[i].chal # NoChallenge =>
          challenges[sessions'[i].chal].state = "gone"
    BY <1>8, <1>9, <2>1 DEF LoginInv, ChallengesOK
  <2>4. \A i \in 1..n, j \in Calls : At(j, "session")' /\ calls'[j].chal # NoChallenge =>
           sessions'[i].chal # calls'[j].chal
    BY <1>8, <1>9, <2>1, <2>2 DEF LoginInv, ChallengesOK
  <2>5. ChallengeSignsInOnce'
    <3>1. ASSUME NEW i \in 1..n, NEW j \in 1..n, i < j, sessions'[i].chal # NoChallenge
          PROVE  sessions'[i].chal # sessions'[j].chal
      <4>1. i \in 1..Len(sessions)
        BY <3>1, <1>8
      <4>2. CASE j = n
        BY <4>1, <4>2, <3>1, <1>8, <2>1
      <4>3. CASE j \in 1..Len(sessions)
        BY <4>1, <4>3, <3>1, <1>8 DEF LoginInv, ChallengesOK, ChallengeSignsInOnce, TwoSessions
      <4>. QED
        BY <4>2, <4>3, <1>9
    <3>. QED
      BY <3>1, <1>8 DEF ChallengeSignsInOnce, TwoSessions
  <2>6. \A j \in Calls : At(j, "session")' /\ calls'[j].chal # NoChallenge =>
          challenges[calls'[j].chal].state = "gone"
    BY <2>2 DEF LoginInv, ChallengesOK
  <2>7. \A i, j \in Calls :
          At(i, "session")' /\ At(j, "session")' /\ i # j /\ calls'[j].chal # NoChallenge =>
              calls'[i].chal # calls'[j].chal
    BY <2>2 DEF LoginInv, ChallengesOK
  <2>. QED
    BY <1>1, <1>8, <2>3, <2>4, <2>5, <2>6, <2>7 DEF ChallengesOK
<1>17. LinksOK'
  <2>1. \A j \in Calls, l \in LoginLinks : CallHolds(j, l)' => j # k /\ CallHolds(j, l)
    BY <1>3, <1>4 DEF CallHolds
  <2>2. \A l \in LoginLinks :
          sessions'[n].link = l /\ sessions'[n].chal = NoChallenge => CallHolds(k, l)
    BY <1>1, <1>7, <1>8 DEF CallHolds, At
  <2>3. \A i \in 1..n : sessions'[i].chal # NoChallenge =>
          sessions'[i].link = challenges[sessions'[i].chal].link
    BY <1>7, <1>8, <1>9 DEF LoginInv, LinksOK
  <2>4. ASSUME NEW l \in LoginLinks, NEW i \in 1..n,
               sessions'[i].link = l, sessions'[i].chal = NoChallenge
        PROVE  \/ i = n /\ CallHolds(k, l)
               \/ i \in 1..Len(sessions) /\ SessionHolds(i, l)
    BY <1>8, <1>9, <2>2, <2>4 DEF SessionHolds
  <2>5. ASSUME NEW l \in LoginLinks
        PROVE  /\ \A j \in Calls : CallHolds(j, l)' => links[l] = "used"
               /\ \A i, j \in Calls : CallHolds(i, l)' /\ CallHolds(j, l)' => i = j
               /\ \A j \in Calls, c \in Challenges : ~(CallHolds(j, l)' /\ challenges[c].link = l)
    BY <2>1 DEF LoginInv, LinksOK
  <2>6. ASSUME NEW l \in LoginLinks, NEW i \in 1..n,
               sessions'[i].link = l, sessions'[i].chal = NoChallenge
        PROVE  /\ links[l] = "used"
               /\ \A j \in Calls : ~CallHolds(j, l)'
               /\ \A c \in Challenges : challenges[c].link # l
    <3>1. CASE i = n /\ CallHolds(k, l)
      BY <3>1, <2>1 DEF LoginInv, LinksOK
    <3>2. CASE i \in 1..Len(sessions) /\ SessionHolds(i, l)
      BY <3>2, <2>1 DEF LoginInv, LinksOK
    <3>. QED
      BY <3>1, <3>2, <2>4, <2>6
  <2>7. ASSUME NEW l \in LoginLinks, NEW i \in 1..n, NEW j \in 1..n,
               sessions'[i].link = l, sessions'[i].chal = NoChallenge,
               sessions'[j].link = l, sessions'[j].chal = NoChallenge
        PROVE  i = j
    <3>1. /\ (i = n /\ CallHolds(k, l)) \/ (i \in 1..Len(sessions) /\ SessionHolds(i, l))
          /\ (j = n /\ CallHolds(k, l)) \/ (j \in 1..Len(sessions) /\ SessionHolds(j, l))
      BY <2>4, <2>7
    <3>. QED
      BY <3>1 DEF LoginInv, LinksOK
  <2>8. ASSUME NEW l \in LoginLinks
        PROVE  /\ \A i \in 1..Len(sessions') : SessionHolds(i, l)' => links'[l] = "used"
               /\ \A j \in Calls, i \in 1..Len(sessions') :
                     ~(CallHolds(j, l)' /\ SessionHolds(i, l)')
               /\ \A c \in Challenges, i \in 1..Len(sessions') :
                     ~(challenges'[c].link = l /\ SessionHolds(i, l)')
               /\ \A i, j \in 1..Len(sessions') :
                     SessionHolds(i, l)' /\ SessionHolds(j, l)' => i = j
    BY <1>1, <1>8, <2>6, <2>7 DEF SessionHolds
  <2>9. \A l \in LoginLinks, c \in Challenges : challenges'[c].link = l => links'[l] = "used"
    BY <1>1 DEF LoginInv, LinksOK
  <2>10. \A l \in LoginLinks, c \in Challenges, d \in Challenges :
           challenges'[c].link = l /\ challenges'[d].link = l => c = d
    BY <1>1 DEF LoginInv, LinksOK
  <2>11. /\ \A c \in Challenges : challenges'[c].state = "none" => challenges'[c].link = NoLink
         /\ \A l \in ResetLinks : resets'[l] = 0 \/ (resets'[l] = 1 /\ links'[l] = "used")
    BY <1>1 DEF LoginInv, LinksOK
  <2>12. \A i \in 1..Len(sessions') : sessions'[i].chal # NoChallenge =>
           sessions'[i].link = challenges'[sessions'[i].chal].link
    BY <1>1, <1>8, <2>3
  <2>. QED
    BY <1>1, <2>5, <2>8, <2>9, <2>10, <2>11, <2>12 DEF LinksOK
<1>18. FactorOK'
  BY <1>1, <1>3, <1>4 DEF LoginInv, FactorOK, At
<1>. QED
  BY <1>11, <1>12, <1>13, <1>14, <1>15, <1>16, <1>17, <1>18 DEF LoginInv

-----------------------------------------------------------------------------
(* Settings, links and time.                                                *)

\* Enrolling or clearing the secret adds it to what each running call has seen.
LEMMA SecretPreserves ==
  ASSUME LoginInv, NEW s \in Secrets \cup {NoSecret}, SetSecret(s),
         calls' \in [Calls -> Call],
         \A j \in Calls :
            \/ calls'[j] = NoCall /\ ~At(j, "delete")
            \/ /\ calls'[j].kind = calls[j].kind /\ calls'[j].pc = calls[j].pc
               /\ calls'[j].code = calls[j].code /\ calls'[j].secret = calls[j].secret
               /\ calls'[j].link = calls[j].link /\ calls'[j].chal = calls[j].chal
               /\ calls'[j].password = calls[j].password /\ calls'[j].via = calls[j].via
               /\ ~At(j, "idle") => calls'[j].seen = calls[j].seen \cup {s},
         UNCHANGED <<arrived, lock, offered, now, links, challenges, history, faults>>
  PROVE  LoginInv'
<1>1. /\ lock' = lock /\ links' = links /\ challenges' = challenges /\ sessions' = sessions
      /\ told' = told /\ resets' = resets
      /\ arrived' = arrived /\ faults' = faults /\ offered' = offered /\ now' = now
  BY DEF history
<1>2. user' \in User /\ user'.secret = s /\ user'.last = user.last
  BY DEF LoginInv, TypeOK, SetSecret, User
<1>3. NoCall.pc = "idle" /\ CallOK(NoCall)
  BY NoCallOK
<1>4. \A j \in Calls : calls'[j].pc # "idle" =>
         /\ calls'[j].kind = calls[j].kind /\ calls'[j].pc = calls[j].pc
         /\ calls'[j].code = calls[j].code /\ calls'[j].secret = calls[j].secret
         /\ calls'[j].link = calls[j].link /\ calls'[j].chal = calls[j].chal
         /\ calls'[j].password = calls[j].password /\ calls'[j].via = calls[j].via
         /\ calls'[j].seen = calls[j].seen \cup {s}
  BY <1>3 DEF At
<1>5. \A j \in Calls : At(j, "delete") => calls'[j].pc = "delete"
  BY DEF At
<1>6. TypeOK'
  BY <1>1, <1>2 DEF LoginInv, TypeOK
<1>7. CallsOK'
  <2>1. ASSUME NEW j \in Calls
        PROVE  CallOK(calls'[j])
    <3>1. CASE calls'[j] = NoCall
      BY <3>1, <1>3
    <3>2. CASE calls'[j] # NoCall
      <4>1. CallOK(calls[j])
        BY DEF LoginInv, CallsOK
      <4>. QED
        BY <3>2, <4>1 DEF CallOK
    <3>. QED
      BY <3>1, <3>2
  <2>. QED
    BY <2>1 DEF CallsOK
<1>8. LockOK'
  BY <1>1, <1>2, <1>4, <1>5 DEF LoginInv, LockOK, At
<1>9. StepsOK'
  <2>1. \A j \in Calls : At(j, "session")' => At(j, "session") /\ calls'[j].via = calls[j].via
    BY <1>4 DEF At
  <2>. QED
    BY <1>1, <1>2, <2>1 DEF LoginInv, StepsOK, CodeSignsInOnce, TwoSessions
<1>10. GuessesOK'
  BY <1>1 DEF LoginInv, GuessesOK
<1>11. ChallengesOK'
  <2>1. \A j \in Calls : At(j, "session")' => At(j, "session") /\ calls'[j].chal = calls[j].chal
    BY <1>4 DEF At
  <2>. QED
    BY <1>1, <2>1 DEF LoginInv, ChallengesOK, ChallengeSignsInOnce, TwoSessions
<1>12. LinksOK'
  <2>1. \A j \in Calls, l \in LoginLinks : CallHolds(j, l)' => CallHolds(j, l)
    BY <1>4 DEF CallHolds
  <2>2. \A i \in 1..Len(sessions), l \in LoginLinks : SessionHolds(i, l)' <=> SessionHolds(i, l)
    BY <1>1 DEF SessionHolds
  <2>. QED
    BY <1>1, <2>1, <2>2 DEF LoginInv, LinksOK
<1>13. FactorOK'
  BY <1>2, <1>4 DEF LoginInv, FactorOK, At
<1>. QED
  BY <1>6, <1>7, <1>8, <1>9, <1>10, <1>11, <1>12, <1>13 DEF LoginInv

\* handleTOTPConfirm stores a secret that was handed out.
LEMMA ConfirmPreserves ==
  ASSUME LoginInv, TOTPConfirm
  PROVE  LoginInv'
<1>1. PICK s \in offered : SetSecret(s) /\ calls' = Seen(calls, s)
  BY DEF TOTPConfirm
<1>2. s \in Secrets /\ calls \in [Calls -> Call]
  BY DEF LoginInv, TypeOK
<1>3. ASSUME NEW j \in Calls
      PROVE  /\ calls'[j] \in Call
             /\ calls'[j].kind = calls[j].kind /\ calls'[j].pc = calls[j].pc
             /\ calls'[j].code = calls[j].code /\ calls'[j].secret = calls[j].secret
             /\ calls'[j].link = calls[j].link /\ calls'[j].chal = calls[j].chal
             /\ calls'[j].password = calls[j].password /\ calls'[j].via = calls[j].via
             /\ ~At(j, "idle") => calls'[j].seen = calls[j].seen \cup {s}
  <2>1. calls[j] \in Call
    BY <1>2
  <2>2. calls'[j] = IF calls[j].pc = "idle" THEN calls[j]
                    ELSE [calls[j] EXCEPT !.seen = @ \cup {s}]
    BY <1>1 DEF Seen
  <2>. QED
    BY <1>2, <2>1, <2>2 DEF Call, At
<1>4. calls' \in [Calls -> Call]
  <2>1. calls' = [j \in Calls |-> calls'[j]]
    BY <1>1 DEF Seen
  <2>. QED
    BY <1>3, <2>1
<1>5. UNCHANGED <<arrived, lock, offered, now, links, challenges, history, faults>>
  BY DEF TOTPConfirm
<1>. QED
  BY <1>1, <1>2, <1>3, <1>4, <1>5, SecretPreserves

\* handleTOTPDisable clears the secret and ends.
LEMMA ClearPreserves ==
  ASSUME LoginInv, NEW k \in Calls, TOTPClear(k)
  PROVE  LoginInv'
<1> DEFINE cs == [calls EXCEPT ![k] = NoCall]
<1>1. SetSecret(NoSecret) /\ calls' = Seen(cs, NoSecret) /\ At(k, "clear")
  BY DEF TOTPClear
<1>2. calls \in [Calls -> Call] /\ NoCall.pc = "idle" /\ NoCall \in Call
  BY NoCallOK DEF LoginInv, TypeOK
<1>3. cs \in [Calls -> Call] /\ cs[k] = NoCall /\ \A j \in Calls : j # k => cs[j] = calls[j]
  BY <1>2
<1>. HIDE DEF cs
<1>4. calls'[k] = NoCall /\ ~At(k, "delete")
  BY <1>1, <1>2, <1>3 DEF Seen, At
<1>5. ASSUME NEW j \in Calls, j # k
      PROVE  /\ calls'[j] \in Call
             /\ calls'[j].kind = calls[j].kind /\ calls'[j].pc = calls[j].pc
             /\ calls'[j].code = calls[j].code /\ calls'[j].secret = calls[j].secret
             /\ calls'[j].link = calls[j].link /\ calls'[j].chal = calls[j].chal
             /\ calls'[j].password = calls[j].password /\ calls'[j].via = calls[j].via
             /\ ~At(j, "idle") => calls'[j].seen = calls[j].seen \cup {NoSecret}
  <2>1. calls[j] \in Call
    BY <1>2
  <2>2. calls'[j] = IF calls[j].pc = "idle" THEN calls[j]
                    ELSE [calls[j] EXCEPT !.seen = @ \cup {NoSecret}]
    BY <1>1, <1>3, <1>5 DEF Seen
  <2>. QED
    BY <2>1, <2>2 DEF Call, At
<1>6. calls' \in [Calls -> Call]
  <2>1. calls' = [j \in Calls |-> calls'[j]]
    BY <1>1 DEF Seen
  <2>2. \A j \in Calls : calls'[j] \in Call
    BY <1>2, <1>4, <1>5
  <2>. QED
    BY <2>1, <2>2
<1>7. UNCHANGED <<arrived, lock, offered, now, links, challenges, history, faults>>
  BY DEF TOTPClear
<1>. QED
  BY <1>1, <1>4, <1>5, <1>6, <1>7, SecretPreserves

\* A link that is not used is sent or expires.
LEMMA LinkPreserves ==
  ASSUME LoginInv, NEW l \in Links, CreateLink(l) \/ LinkExpires(l)
  PROVE  LoginInv'
<1>1. /\ links[l] # "used"
      /\ links' \in [Links -> {"unsent", "live", "expired", "used"}]
      /\ \A m \in Links : m # l => links'[m] = links[m]
  BY DEF CreateLink, LinkExpires, LoginInv, TypeOK
<1>2. /\ user' = user /\ lock' = lock /\ challenges' = challenges /\ calls' = calls
      /\ sessions' = sessions /\ told' = told /\ resets' = resets
      /\ arrived' = arrived /\ faults' = faults /\ offered' = offered /\ now' = now
  BY DEF CreateLink, LinkExpires, history
<1>3. TypeOK'
  BY <1>1, <1>2 DEF LoginInv, TypeOK
<1>4. CallsOK' /\ LockOK' /\ GuessesOK' /\ FactorOK'
  BY <1>2 DEF LoginInv, CallsOK, LockOK, GuessesOK, FactorOK, At
<1>5. StepsOK' /\ ChallengesOK'
  BY <1>2 DEF LoginInv, StepsOK, ChallengesOK, At, CodeSignsInOnce, ChallengeSignsInOnce, TwoSessions
<1>6. LinksOK'
  <2>1. \A m \in LoginLinks \cup ResetLinks : links[m] = "used" => links'[m] = "used"
    BY <1>1 DEF Links
  <2>2. \A j \in Calls, m \in LoginLinks : CallHolds(j, m)' <=> CallHolds(j, m)
    BY <1>2 DEF CallHolds
  <2>3. \A i \in 1..Len(sessions), m \in LoginLinks : SessionHolds(i, m)' <=> SessionHolds(i, m)
    BY <1>2 DEF SessionHolds
  <2>. QED
    BY <1>2, <2>1, <2>2, <2>3 DEF LoginInv, LinksOK
<1>. QED
  BY <1>3, <1>4, <1>5, <1>6 DEF LoginInv

\* An open challenge expires; its row and its attempts stay.
LEMMA ExpiryPreserves ==
  ASSUME LoginInv, NEW c \in Challenges, ChallengeExpires(c)
  PROVE  LoginInv'
<1>1. /\ user' = user /\ lock' = lock /\ links' = links /\ calls' = calls
      /\ sessions' = sessions /\ told' = told /\ resets' = resets
      /\ arrived' = arrived /\ faults' = faults /\ offered' = offered /\ now' = now
      /\ challenges' = [challenges EXCEPT ![c].state = "expired"]
      /\ challenges[c].state = "open"
  BY DEF ChallengeExpires, history
<1>2. challenges \in [Challenges -> Challenge]
  BY DEF LoginInv, TypeOK
<1>3. /\ challenges' \in [Challenges -> Challenge]
      /\ \A d \in Challenges : /\ challenges'[d].attempts = challenges[d].attempts
                               /\ challenges'[d].link = challenges[d].link
                               /\ challenges[d].state = "gone" <=> challenges'[d].state = "gone"
                               /\ challenges[d].state = "none" <=> challenges'[d].state = "none"
  BY <1>1, <1>2 DEF Challenge
<1>4. TypeOK'
  BY <1>1, <1>3 DEF LoginInv, TypeOK
<1>5. CallsOK' /\ LockOK' /\ FactorOK'
  BY <1>1 DEF LoginInv, CallsOK, LockOK, FactorOK, At
<1>6. GuessesOK'
  BY <1>1, <1>3 DEF LoginInv, GuessesOK
<1>7. StepsOK'
  BY <1>1 DEF LoginInv, StepsOK, At, CodeSignsInOnce, TwoSessions
<1>8. ChallengesOK'
  <2>1. \A i \in 1..Len(sessions) : sessions[i].chal \in Challenges \cup {NoChallenge}
    BY Openings DEF LoginInv
  <2>2. \A k \in Calls : calls[k].chal \in Challenges \cup {NoChallenge}
    BY DEF LoginInv, TypeOK, Call
  <2>. QED
    BY <1>1, <1>3, <2>1, <2>2 DEF LoginInv, ChallengesOK, At, ChallengeSignsInOnce, TwoSessions
<1>9. LinksOK'
  <2>1. \A i \in 1..Len(sessions) : sessions[i].chal \in Challenges \cup {NoChallenge}
    BY Openings DEF LoginInv
  <2>2. \A j \in Calls, l \in LoginLinks : CallHolds(j, l)' <=> CallHolds(j, l)
    BY <1>1 DEF CallHolds
  <2>3. \A i \in 1..Len(sessions), l \in LoginLinks : SessionHolds(i, l)' <=> SessionHolds(i, l)
    BY <1>1 DEF SessionHolds
  <2>. QED
    BY <1>1, <1>3, <2>1, <2>2, <2>3 DEF LoginInv, LinksOK
<1>. QED
  BY <1>4, <1>5, <1>6, <1>7, <1>8, <1>9 DEF LoginInv

\* A key is handed out, or time passes, or nothing happens.
LEMMA QuietPreserves ==
  ASSUME LoginInv, TOTPBegin \/ Tick \/ UNCHANGED vars
  PROVE  LoginInv'
<1>1. /\ user' = user /\ lock' = lock /\ links' = links /\ calls' = calls
      /\ challenges' = challenges /\ sessions' = sessions /\ told' = told /\ resets' = resets
      /\ arrived' = arrived /\ faults' = faults
  BY DEF TOTPBegin, Tick, vars, history
<1>2. offered' \subseteq Secrets /\ now' \in 1..MaxStep
  BY DEF TOTPBegin, Tick, vars, LoginInv, TypeOK
<1>3. TypeOK'
  BY <1>1, <1>2 DEF LoginInv, TypeOK
<1>4. CallsOK' /\ LockOK' /\ GuessesOK' /\ FactorOK'
  BY <1>1 DEF LoginInv, CallsOK, LockOK, GuessesOK, FactorOK, At
<1>5. StepsOK' /\ ChallengesOK'
  BY <1>1 DEF LoginInv, StepsOK, ChallengesOK, At, CodeSignsInOnce, ChallengeSignsInOnce, TwoSessions
<1>6. LinksOK'
  BY <1>1 DEF LoginInv, LinksOK, CallHolds, SessionHolds
<1>. QED
  BY <1>3, <1>4, <1>5, <1>6 DEF LoginInv

-----------------------------------------------------------------------------
(* Which actions have which shape.                                          *)

\* A request of one of the handlers arrives with the fields its place needs.
LEMMA ArriveShape ==
  ASSUME LoginInv, NEW k \in Calls, NEW call \in Call, Arrive(k, call), CallOK(call),
         call.pc \in {"verify", "consume", "select", "check", "clear"}
  PROVE  Arrives(k)
<1> DEFINE r == [call EXCEPT !.seen = {user.secret}]
<1>1. user.secret \in Secrets \cup {NoSecret} /\ arrived \in 0..MaxCalls /\ faults \in 0..MaxFaults
  BY DEF LoginInv, TypeOK, User
<1>2. /\ r \in Call /\ r.seen = {user.secret} /\ r.pc = call.pc /\ r.kind = call.kind
      /\ r.link = call.link /\ r.chal = call.chal /\ r.password = call.password
      /\ r.via = call.via
  BY <1>1 DEF Call
<1>3. Becomes(k, r) /\ At(k, "idle")
  BY DEF Arrive, Becomes
<1>. HIDE DEF r
<1>4. CallOK(r)
  BY <1>2 DEF CallOK
<1>5. UNCHANGED Rest /\ UNCHANGED lock
  BY DEF Arrive, Rest, history
<1>6. arrived' \in 0..MaxCalls /\ faults' \in 0..MaxFaults
  BY <1>1 DEF Arrive
<1>. QED
  BY <1>2, <1>3, <1>4, <1>5, <1>6 DEF Arrives, Counters

\* Every handler starts its call in that way.
LEMMA RequestArrives ==
  ASSUME LoginInv, NEW k \in Calls,
         \/ SubmitForm(k) \/ SubmitJSON(k) \/ SubmitLink(k) \/ SubmitLinkJSON(k)
         \/ SubmitCode(k) \/ SubmitReset(k) \/ TOTPDisable(k)
  PROVE  Arrives(k)
<1>1. Typed \subseteq Code /\ NoCode \in Typed
  BY DEF Typed, NoCode, Code, Step
<1>2. user.password < MaxPasswords => user.password + 1 \in 1..MaxPasswords
  <2>1. user \in User
    BY DEF LoginInv, TypeOK
  <2>. QED
    BY <2>1 DEF User
<1>3. ASSUME NEW p \in 1..MaxPasswords,
             Arrive(k, [NoCall EXCEPT !.kind = "form", !.pc = "verify", !.password = p])
      PROVE  Arrives(k)
  <2> DEFINE r == [NoCall EXCEPT !.kind = "form", !.pc = "verify", !.password = p]
  <2>0. p \in 0..MaxPasswords
    OBVIOUS
  <2>1. r \in Call /\ r.pc = "verify"
    BY <2>0, NoCallOK DEF Call, Links
  <2>2. CallOK(r)
    BY <1>3 DEF CallOK, FirstFactor, OnChallenge, NoCall
  <2>3. Arrive(k, r)
    BY <1>3 DEF OpenLink
  <2>. HIDE DEF r
  <2>. QED
    BY <2>1, <2>2, <2>3, ArriveShape
<1>4. ASSUME NEW p \in 1..MaxPasswords, NEW code \in Typed,
             Arrive(k, [NoCall EXCEPT !.kind = "json", !.pc = "verify", !.password = p,
                                      !.code = code])
      PROVE  Arrives(k)
  <2> DEFINE r == [NoCall EXCEPT !.kind = "json", !.pc = "verify", !.password = p, !.code = code]
  <2>0. p \in 0..MaxPasswords
    OBVIOUS
  <2>1. r \in Call /\ r.pc = "verify"
    BY <2>0, <1>1, NoCallOK DEF Call, Links
  <2>2. CallOK(r)
    BY <1>4, <1>1 DEF CallOK, FirstFactor, OnChallenge, NoCall
  <2>3. Arrive(k, r)
    BY <1>4 DEF OpenLink
  <2>. HIDE DEF r
  <2>. QED
    BY <2>1, <2>2, <2>3, ArriveShape
<1>5. ASSUME NEW l \in LoginLinks, NEW code \in Typed, OpenLink(k, l, code)
      PROVE  Arrives(k)
  <2> DEFINE r == [NoCall EXCEPT !.kind = "link", !.pc = "consume", !.link = l, !.code = code]
  <2>1. r \in Call /\ r.pc = "consume"
    BY <1>1, NoCallOK DEF Call, Links
  <2>2. CallOK(r)
    BY <1>5, <1>1 DEF CallOK, FirstFactor, OnChallenge, NoCall
  <2>3. Arrive(k, r)
    BY <1>5 DEF OpenLink
  <2>. HIDE DEF r
  <2>. QED
    BY <2>1, <2>2, <2>3, ArriveShape
<1>6. ASSUME NEW c \in Challenges, NEW code \in Typed,
             Arrive(k, [NoCall EXCEPT !.kind = "finish", !.pc = "select", !.chal = c,
                                      !.code = code])
      PROVE  Arrives(k)
  <2> DEFINE r == [NoCall EXCEPT !.kind = "finish", !.pc = "select", !.chal = c, !.code = code]
  <2>1. r \in Call /\ r.pc = "select"
    BY <1>1, NoCallOK DEF Call, Links
  <2>2. CallOK(r)
    BY <1>6, <1>1 DEF CallOK, FirstFactor, OnChallenge, NoCall
  <2>3. Arrive(k, r)
    BY <1>6 DEF OpenLink
  <2>. HIDE DEF r
  <2>. QED
    BY <2>1, <2>2, <2>3, ArriveShape
<1>7. ASSUME NEW l \in ResetLinks, NEW p \in 1..MaxPasswords,
             Arrive(k, [NoCall EXCEPT !.kind = "reset", !.pc = "check", !.link = l,
                                      !.password = p])
      PROVE  Arrives(k)
  <2> DEFINE r == [NoCall EXCEPT !.kind = "reset", !.pc = "check", !.link = l, !.password = p]
  <2>0. p \in 0..MaxPasswords
    OBVIOUS
  <2>1. r \in Call /\ r.pc = "check"
    BY <2>0, NoCallOK DEF Call, Links
  <2>2. CallOK(r)
    BY <1>7 DEF CallOK, FirstFactor, OnChallenge, NoCall
  <2>3. Arrive(k, r)
    BY <1>7 DEF OpenLink
  <2>. HIDE DEF r
  <2>. QED
    BY <2>1, <2>2, <2>3, ArriveShape
<1>8. ASSUME Arrive(k, [NoCall EXCEPT !.kind = "disable", !.pc = "clear"])
      PROVE  Arrives(k)
  <2> DEFINE r == [NoCall EXCEPT !.kind = "disable", !.pc = "clear"]
  <2>1. r \in Call /\ r.pc = "clear"
    BY NoCallOK DEF Call, Links
  <2>2. CallOK(r)
    BY <1>8 DEF CallOK, FirstFactor, OnChallenge, NoCall
  <2>3. Arrive(k, r)
    BY <1>8 DEF OpenLink
  <2>. HIDE DEF r
  <2>. QED
    BY <2>1, <2>2, <2>3, ArriveShape
<1>9. CASE SubmitForm(k)
  BY <1>9, <1>3 DEF SubmitForm
<1>10. CASE SubmitJSON(k)
  BY <1>10, <1>4 DEF SubmitJSON
<1>11. CASE SubmitLink(k) \/ SubmitLinkJSON(k)
  BY <1>11, <1>1, <1>5 DEF SubmitLink, SubmitLinkJSON
<1>12. CASE SubmitCode(k)
  BY <1>12, <1>6 DEF SubmitCode
<1>13. CASE SubmitReset(k)
  BY <1>13, <1>2, <1>7 DEF SubmitReset
<1>14. CASE TOTPDisable(k)
  BY <1>14, <1>8 DEF TOTPDisable
<1>. QED
  BY <1>9, <1>10, <1>11, <1>12, <1>13, <1>14

\* A call that reads and goes on changes its place and what it knows.
LEMMA AdvanceShape ==
  ASSUME LoginInv, NEW k \in Calls,
         NEW pc \in {"lookup", "accept", "begin", "session", "drop", "wrong", "reset"},
         NEW secret \in Secrets \cup {NoSecret},
         calls' = [calls EXCEPT ![k].secret = secret, ![k].pc = pc],
         UNCHANGED Rest, UNCHANGED lock, Counters,
         ~At(k, "idle"), ~At(k, "delete"), ~At(k, "session"),
         pc = "lookup" => At(k, "verify"),
         pc \in {"begin", "session"} => At(k, "lookup"),
         pc = "begin" => calls[k].kind # "json",
         pc = "session" => NoSecret \in calls[k].seen,
         pc = "reset" => At(k, "check"),
         pc \in {"drop", "wrong"} => At(k, "select") \/ (At(k, "accept") /\ calls[k].kind # "json"),
         pc = "accept" => At(k, "select") \/ (At(k, "lookup") /\ calls[k].kind = "json"),
         pc \in {"accept", "wrong"} => secret \in calls[k].seen
  PROVE  Advances(k)
<1> DEFINE r == [calls[k] EXCEPT !.secret = secret, !.pc = pc]
<1>1. calls[k] \in Call /\ calls \in [Calls -> Call]
  BY DEF LoginInv, TypeOK
<1>2. /\ r \in Call /\ r.pc = pc /\ r.secret = secret /\ r.kind = calls[k].kind
      /\ r.link = calls[k].link /\ r.chal = calls[k].chal /\ r.password = calls[k].password
      /\ r.via = calls[k].via /\ r.seen = calls[k].seen
  <2>1. r \in Call
    BY <1>1 DEF Call
  <2>2. r.pc = pc /\ r.secret = secret /\ r.kind = calls[k].kind
    BY <1>1 DEF Call
  <2>3. r.link = calls[k].link /\ r.chal = calls[k].chal /\ r.password = calls[k].password
    BY <1>1 DEF Call
  <2>4. r.via = calls[k].via /\ r.seen = calls[k].seen
    BY <1>1 DEF Call
  <2>. QED
    BY <2>1, <2>2, <2>3, <2>4
<1>3. Becomes(k, r)
  BY <1>1 DEF Becomes, Call
<1>. HIDE DEF r
<1>4. CallOK(calls[k])
  BY DEF LoginInv, CallsOK
<1>5. CallOK(r)
  BY <1>2, <1>4 DEF CallOK, FirstFactor, OnChallenge, At
<1>6. r.via = NoCode
  BY <1>2, <1>4 DEF CallOK, At
<1>7. r.pc = "lookup" => r.link = NoLink
  BY <1>2, <1>4 DEF CallOK, At
<1>. QED
  BY <1>2, <1>3, <1>5, <1>6, <1>7 DEF Advances

\* So does one that only changes its place.
LEMMA GoShape ==
  ASSUME LoginInv, NEW k \in Calls, NEW pc, Go(k, pc)
  PROVE  calls' = [calls EXCEPT ![k].secret = calls[k].secret, ![k].pc = pc]
<1>1. calls[k] \in Call /\ calls \in [Calls -> Call]
  BY DEF LoginInv, TypeOK
<1>2. [calls[k] EXCEPT !.pc = pc] = [calls[k] EXCEPT !.secret = calls[k].secret, !.pc = pc]
  BY <1>1 DEF Call
<1>. QED
  BY <1>1, <1>2 DEF Go

\* A step without a request keeps the bounds' counters in range.
LEMMA SameCounters ==
  ASSUME LoginInv, arrived' = arrived,
         faults' = faults \/ (faults < MaxFaults /\ faults' = faults + 1)
  PROVE  Counters
  BY DEF LoginInv, TypeOK, Counters

\* A call that reads goes on or ends.
LEMMA ReadPreserves ==
  ASSUME LoginInv, NEW k \in Calls,
         \/ VerifyPassword(k) \/ CheckResetLink(k) \/ EnrolledTOTP(k) \/ SelectChallenge(k)
  PROVE  LoginInv'
<1>1. UNCHANGED Rest /\ lock' = lock /\ arrived' = arrived /\ faults' = faults
  BY DEF VerifyPassword, CheckResetLink, EnrolledTOTP, SelectChallenge, Rest, history
<1>2. Counters
  BY <1>1, SameCounters
<1>3. calls[k] \in Call /\ user.secret \in Secrets \cup {NoSecret}
  BY DEF LoginInv, TypeOK, User
<1>4. calls[k].secret \in Secrets \cup {NoSecret}
  BY <1>3 DEF Call
<1>5. ~At(k, "idle") /\ ~At(k, "delete") /\ ~At(k, "session")
  BY DEF VerifyPassword, CheckResetLink, EnrolledTOTP, SelectChallenge, At
<1>6. user.secret \in calls[k].seen
  BY <1>5 DEF LoginInv, FactorOK
<1>7. lock # k
  BY <1>5 DEF LoginInv, LockOK
<1>8. ASSUME End(k)
      PROVE  LoginInv'
  <2>1. Leaves(k)
    BY <1>1, <1>2, <1>7, <1>8 DEF Leaves
  <2>. QED
    BY <2>1, LeavesPreserves
<1>9. CASE VerifyPassword(k) /\ Go(k, "lookup")
  <2>1. calls' = [calls EXCEPT ![k].secret = calls[k].secret, ![k].pc = "lookup"]
    BY <1>9, GoShape
  <2>2. At(k, "verify")
    BY <1>9 DEF VerifyPassword
  <2>3. Advances(k)
    BY <1>1, <1>2, <1>4, <1>5, <2>1, <2>2, AdvanceShape
  <2>. QED
    BY <2>3, AdvancesPreserves
<1>10. CASE CheckResetLink(k) /\ Go(k, "reset")
  <2>1. calls' = [calls EXCEPT ![k].secret = calls[k].secret, ![k].pc = "reset"]
    BY <1>10, GoShape
  <2>2. At(k, "check")
    BY <1>10 DEF CheckResetLink
  <2>3. Advances(k)
    BY <1>1, <1>2, <1>4, <1>5, <2>1, <2>2, AdvanceShape
  <2>. QED
    BY <2>3, AdvancesPreserves
<1>11. CASE EnrolledTOTP(k)
  <2> DEFINE pc == AfterLookup(calls[k].kind, TOTPRequired(user.secret, FALSE))
  <2>1. /\ At(k, "lookup")
        /\ calls' = [calls EXCEPT ![k].secret = user.secret, ![k].pc = pc]
    BY <1>11 DEF EnrolledTOTP
  <2>2. \/ pc = "session" /\ user.secret = NoSecret
        \/ pc = "accept" /\ calls[k].kind = "json"
        \/ pc = "begin" /\ calls[k].kind # "json"
    BY DEF AfterLookup, TOTPRequired
  <2>. HIDE DEF pc
  <2>3. Advances(k)
    BY <1>1, <1>2, <1>3, <1>5, <1>6, <2>1, <2>2, AdvanceShape
  <2>. QED
    BY <2>3, AdvancesPreserves
<1>12. CASE SelectChallenge(k) /\ challenges[calls[k].chal].state = "open"
  <2> DEFINE pc == IF user.secret = NoSecret THEN "drop" ELSE "accept"
  <2>1. /\ At(k, "select")
        /\ calls' = [calls EXCEPT ![k].secret = user.secret, ![k].pc = pc]
    BY <1>12 DEF SelectChallenge
  <2>2. pc \in {"drop", "accept"}
    OBVIOUS
  <2>. HIDE DEF pc
  <2>3. Advances(k)
    BY <1>1, <1>2, <1>3, <1>5, <1>6, <2>1, <2>2, AdvanceShape
  <2>. QED
    BY <2>3, AdvancesPreserves
<1>. QED
  BY <1>8, <1>9, <1>10, <1>11, <1>12 DEF VerifyPassword, CheckResetLink, SelectChallenge

\* A call that is refused or fails ends; one whose code is wrong goes on to
\* count it.
LEMMA RefusedPreserves ==
  ASSUME LoginInv, NEW k \in Calls,
         \/ ConsumeMagicLink(k) /\ links[calls[k].link] # "live"
         \/ ResetRefused(k) \/ EnrolledTOTPFails(k) \/ CallFails(k)
         \/ AcceptTOTPLogin(k) /\ ~Accepts(k)
         \/ FinishTOTPLogin(k) /\ ~OneDeleted(calls[k].chal)
  PROVE  LoginInv'
<1>1. CASE ConsumeMagicLink(k) /\ links[calls[k].link] # "live"
  <2>1. /\ End(k) /\ UNCHANGED Rest /\ lock' = lock /\ lock # k
        /\ arrived' = arrived /\ faults' = faults
    BY <1>1 DEF ConsumeMagicLink, LinkLive, Rest, history, LoginInv, LockOK, At
  <2>2. Counters
    BY <2>1, SameCounters
  <2>. QED
    BY <2>1, <2>2, LeavesPreserves DEF Leaves
<1>2. CASE ResetRefused(k)
  <2>1. /\ End(k) /\ UNCHANGED Rest /\ lock' = lock /\ lock # k
        /\ arrived' = arrived /\ faults' = faults
    BY <1>2 DEF ResetRefused, Rest, history, LoginInv, LockOK, At
  <2>2. Counters
    BY <2>1, SameCounters
  <2>. QED
    BY <2>1, <2>2, LeavesPreserves DEF Leaves
<1>3. CASE EnrolledTOTPFails(k)
  <2>1. /\ End(k) /\ UNCHANGED Rest /\ lock' = lock /\ lock # k
        /\ arrived' = arrived /\ faults < MaxFaults /\ faults' = faults + 1
    BY <1>3 DEF EnrolledTOTPFails, TOTPRequired, Fault, Rest, history, LoginInv, LockOK, At
  <2>2. Counters
    BY <2>1, SameCounters
  <2>. QED
    BY <2>1, <2>2, LeavesPreserves DEF Leaves
<1>4. CASE CallFails(k)
  <2>1. /\ End(k) /\ UNCHANGED Rest /\ lock' = IF lock = k THEN NoOne ELSE lock
        /\ arrived' = arrived /\ faults < MaxFaults /\ faults' = faults + 1
    BY <1>4 DEF CallFails, Fault, Rest, history
  <2>2. Counters
    BY <2>1, SameCounters
  <2>. QED
    BY <2>1, <2>2, LeavesPreserves DEF Leaves
<1>5. CASE AcceptTOTPLogin(k) /\ ~Accepts(k)
  <2>1. /\ End(k) /\ UNCHANGED Rest /\ lock' = lock /\ lock # k
        /\ arrived' = arrived /\ faults' = faults
    BY <1>5 DEF AcceptTOTPLogin, Rest, history, LoginInv, LockOK, At
  <2>2. Counters
    BY <2>1, SameCounters
  <2>. QED
    BY <2>1, <2>2, LeavesPreserves DEF Leaves
<1>6. CASE FinishTOTPLogin(k) /\ ~OneDeleted(calls[k].chal)
  <2>1. /\ End(k) /\ UNCHANGED Rest /\ lock' = NoOne /\ lock = k
        /\ arrived' = arrived /\ faults' = faults
    BY <1>6 DEF FinishTOTPLogin, Rest, history, LoginInv, LockOK, At
  <2>2. Counters
    BY <2>1, SameCounters
  <2>. QED
    BY <2>1, <2>2, LeavesPreserves DEF Leaves
<1>. QED
  BY <1>1, <1>2, <1>3, <1>4, <1>5, <1>6

\* acceptTOTPCode refuses a code, and the call goes on to count it.
LEMMA WrongCodePreserves ==
  ASSUME LoginInv, NEW k \in Calls, AcceptTOTPCode(k), ~Accepts(k)
  PROVE  LoginInv'
<1>1. /\ Go(k, "wrong") /\ UNCHANGED Rest /\ lock' = lock
      /\ arrived' = arrived /\ faults' = faults
      /\ At(k, "accept") /\ calls[k].kind # "json"
  BY DEF AcceptTOTPCode, Rest, history
<1>2. Counters
  BY <1>1, SameCounters
<1>3. calls' = [calls EXCEPT ![k].secret = calls[k].secret, ![k].pc = "wrong"]
  BY <1>1, GoShape
<1>4. calls[k].secret \in Secrets \cup {NoSecret} /\ calls[k].secret \in calls[k].seen
  BY <1>1 DEF LoginInv, TypeOK, Call, FactorOK, At
<1>5. ~At(k, "idle") /\ ~At(k, "delete") /\ ~At(k, "session")
  BY <1>1 DEF At
<1>6. Advances(k)
  BY <1>1, <1>2, <1>3, <1>4, <1>5, AdvanceShape
<1>. QED
  BY <1>6, AdvancesPreserves

-----------------------------------------------------------------------------
(* The theorems.                                                            *)

\* The invariant holds initially.
LEMMA InitLoginInv == Init => LoginInv
<1>. SUFFICES ASSUME Init
              PROVE  LoginInv
  OBVIOUS
<1>1. /\ user = [secret |-> NoSecret, last |-> 0, password |-> 1]
      /\ lock = NoOne /\ offered = {} /\ now = 1
      /\ links = [l \in Links |-> "unsent"]
      /\ challenges = [c \in Challenges |-> [state |-> "none", attempts |-> 0, link |-> NoLink]]
      /\ calls = [k \in Calls |-> NoCall] /\ arrived = 0 /\ sessions = <<>>
      /\ told = [c \in Challenges |-> 0] /\ resets = [l \in ResetLinks |-> 0] /\ faults = 0
  BY DEF Init
<1>2. NoCall \in Call /\ CallOK(NoCall) /\ NoCall.pc = "idle"
  BY NoCallOK
<1>3. \A k \in Calls : calls[k] = NoCall /\ calls[k].pc = "idle"
  BY <1>1, <1>2
<1>4. /\ sessions \in Seq(Opening) /\ Len(sessions) = 0
      /\ \A i \in 1..Len(sessions) : FALSE
  BY <1>1
<1>5. TypeOK
  <2>1. user \in User /\ now \in 1..MaxStep
    BY <1>1 DEF User, Step
  <2>2. challenges \in [Challenges -> Challenge]
    BY <1>1 DEF Challenge
  <2>3. calls \in [Calls -> Call]
    BY <1>1, <1>2
  <2>4. told \in [Challenges -> Nat] /\ resets \in [ResetLinks -> Nat]
    BY <1>1
  <2>. QED
    BY <1>1, <1>4, <2>1, <2>2, <2>3, <2>4 DEF TypeOK
<1>6. CallsOK
  BY <1>2, <1>3 DEF CallsOK
<1>7. LockOK
  BY <1>1, <1>3 DEF LockOK, At
<1>8. StepsOK
  BY <1>3, <1>4 DEF StepsOK, CodeSignsInOnce, TwoSessions, At
<1>9. GuessesOK
  BY <1>1 DEF GuessesOK
<1>10. ChallengesOK
  BY <1>3, <1>4 DEF ChallengesOK, ChallengeSignsInOnce, TwoSessions, At
<1>11. LinksOK
  <2>1. \A k \in Calls, l \in LoginLinks : ~CallHolds(k, l)
    BY <1>3 DEF CallHolds
  <2>2. \A c \in Challenges : challenges[c].link = NoLink
    BY <1>1
  <2>3. \A l \in ResetLinks : resets[l] = 0
    BY <1>1
  <2>. QED
    BY <1>4, <2>1, <2>2, <2>3 DEF LinksOK
<1>12. FactorOK
  BY <1>3 DEF FactorOK, At
<1>. QED
  BY <1>5, <1>6, <1>7, <1>8, <1>9, <1>10, <1>11, <1>12 DEF LoginInv

\* Every action keeps the invariant.
LEMMA NextLoginInv == LoginInv /\ [Next]_vars => LoginInv'
<1>. SUFFICES ASSUME LoginInv, [Next]_vars
              PROVE  LoginInv'
  OBVIOUS
<1>1. ASSUME NEW k \in Calls,
             \/ SubmitForm(k) \/ SubmitJSON(k) \/ SubmitLink(k) \/ SubmitLinkJSON(k)
             \/ SubmitCode(k) \/ SubmitReset(k) \/ TOTPDisable(k)
      PROVE  LoginInv'
  BY <1>1, RequestArrives, ArrivesPreserves
<1>2. ASSUME NEW k \in Calls,
             \/ VerifyPassword(k) \/ CheckResetLink(k) \/ EnrolledTOTP(k) \/ SelectChallenge(k)
      PROVE  LoginInv'
  BY <1>2, ReadPreserves
<1>3. ASSUME NEW k \in Calls, ConsumeMagicLink(k)
      PROVE  LoginInv'
  BY <1>3, ConsumePreserves, RefusedPreserves
<1>4. ASSUME NEW k \in Calls,
             ResetPassword(k) \/ ResetRefused(k) \/ EnrolledTOTPFails(k) \/ CallFails(k)
      PROVE  LoginInv'
  BY <1>4, ResetPreserves, RefusedPreserves
<1>5. ASSUME NEW k \in Calls, BeginTOTPLogin(k) \/ DropChallenge(k) \/ NoteWrongTOTP(k)
      PROVE  LoginInv'
  BY <1>5, BeginPreserves, DropPreserves, WrongPreserves
<1>6. ASSUME NEW k \in Calls, AcceptTOTPLogin(k) \/ AcceptTOTPCode(k)
      PROVE  LoginInv'
  BY <1>6, AcceptLoginPreserves, AcceptCodePreserves, RefusedPreserves, WrongCodePreserves
<1>7. ASSUME NEW k \in Calls, FinishTOTPLogin(k) \/ StartSession(k) \/ TOTPClear(k)
      PROVE  LoginInv'
  BY <1>7, FinishPreserves, RefusedPreserves, StartPreserves, ClearPreserves
<1>8. CASE \/ TOTPBegin \/ TOTPConfirm \/ Tick \/ UNCHANGED vars
           \/ \E l \in Links : CreateLink(l) \/ LinkExpires(l)
           \/ \E c \in Challenges : ChallengeExpires(c)
  BY <1>8, QuietPreserves, ConfirmPreserves, LinkPreserves, ExpiryPreserves
<1>. QED
  BY <1>1, <1>2, <1>3, <1>4, <1>5, <1>6, <1>7, <1>8 DEF Next

\* The invariant holds in every reachable state of every instance.
THEOREM LoginInvariant == Spec => []LoginInv
<1>. QED
  BY InitLoginInv, NextLoginInv, PTL DEF Spec

\* The state keeps its types in every instance.
THEOREM LoginTypeCorrect == Spec => []TypeOK
<1>1. LoginInv => TypeOK
  BY DEF LoginInv
<1>. QED
  BY <1>1, LoginInvariant, PTL

\* However many requests carry it at once and whichever path takes it, a code
\* signs in once: acceptTOTPCode stores only newer steps, and the stored step
\* bounds those of all sessions and of the calls about to open one.
THEOREM CodesSignInOnce == Spec => []CodeSignsInOnce
<1>1. LoginInv => CodeSignsInOnce
  BY DEF LoginInv, StepsOK
<1>. QED
  BY <1>1, LoginInvariant, PTL

\* A challenge opens one session: the finish that deletes its row is the only
\* one that goes on (FinishTOTPLoginAny).
THEOREM ChallengesSignInOnce == Spec => []ChallengeSignsInOnce
<1>1. LoginInv => ChallengeSignsInOnce
  BY DEF LoginInv, ChallengesOK
<1>. QED
  BY <1>1, LoginInvariant, PTL

\* A one-time link opens one session, directly or through the one challenge it
\* was exchanged for, or sets one password (ConsumeMagicLink, ResetPassword).
THEOREM LinksWorkOnce == Spec => []LinkWorksOnce
<1>1. LoginInv => LinkWorksOnce
  <2>. SUFFICES ASSUME LoginInv
                PROVE  LinkWorksOnce
    OBVIOUS
  <2>1. ASSUME NEW i \in 1..Len(sessions), NEW j \in 1..Len(sessions), i < j,
               sessions[i].link # NoLink, sessions[i].link = sessions[j].link
        PROVE  FALSE
    <3> DEFINE l == sessions[i].link
    <3>1. sessions[i] \in Opening /\ sessions[j] \in Opening
      BY Openings DEF LoginInv
    <3>2. /\ l \in LoginLinks
          /\ sessions[i].chal \in Challenges \cup {NoChallenge}
          /\ sessions[j].chal \in Challenges \cup {NoChallenge}
      BY <2>1, <3>1 DEF Opening
    <3>3. /\ sessions[i].chal = NoChallenge => SessionHolds(i, l)
          /\ sessions[j].chal = NoChallenge => SessionHolds(j, l)
      BY <2>1 DEF SessionHolds
    <3>4. /\ sessions[i].chal # NoChallenge => challenges[sessions[i].chal].link = l
          /\ sessions[j].chal # NoChallenge => challenges[sessions[j].chal].link = l
      BY <2>1 DEF LoginInv, LinksOK
    <3>5. i # j
      BY <2>1
    <3>. HIDE DEF l
    <3>6. CASE sessions[i].chal = NoChallenge /\ sessions[j].chal = NoChallenge
      BY <3>2, <3>3, <3>5, <3>6 DEF LoginInv, LinksOK
    <3>7. CASE sessions[i].chal # NoChallenge /\ sessions[j].chal = NoChallenge
      BY <3>2, <3>3, <3>4, <3>7 DEF LoginInv, LinksOK
    <3>8. CASE sessions[i].chal = NoChallenge /\ sessions[j].chal # NoChallenge
      BY <3>2, <3>3, <3>4, <3>8 DEF LoginInv, LinksOK
    <3>9. CASE sessions[i].chal # NoChallenge /\ sessions[j].chal # NoChallenge
      <4>1. sessions[i].chal = sessions[j].chal
        BY <3>2, <3>4, <3>9 DEF LoginInv, LinksOK
      <4>. QED
        BY <2>1, <3>9, <4>1 DEF LoginInv, ChallengesOK, ChallengeSignsInOnce, TwoSessions
    <3>. QED
      BY <3>6, <3>7, <3>8, <3>9
  <2>2. \A l \in ResetLinks : resets[l] <= 1
    BY DEF LoginInv, LinksOK
  <2>. QED
    BY <2>1, <2>2 DEF LinkWorksOnce, TwoSessions
<1>. QED
  BY <1>1, LoginInvariant, PTL

\* A challenge rejects at most totpMaxWrongCodes codes, whatever the number of
\* guesses in flight: each rejection is an attempt counted on the row, and the
\* row is gone at the cap (noteWrongTOTP).
THEOREM GuessesAreBounded == Spec => []GuessesBounded
<1>1. LoginInv => GuessesBounded
  BY DEF LoginInv, TypeOK, Challenge, GuessesOK, GuessesBounded
<1>. QED
  BY <1>1, LoginInvariant, PTL

\* No login opens a session without a code of a secret that was enrolled while
\* it ran, unless the authenticator was off at some moment of it.
THEOREM SecondFactorHolds == Spec => SecondFactor
<1>1. LoginInv /\ [Next]_vars =>
        [\A k \in Calls :
           At(k, "session") /\ sessions' # sessions /\ calls'[k].pc = "idle" =>
               calls[k].via.secret \in calls[k].seen]_vars
  BY DEF LoginInv, FactorOK
<1>. QED
  BY <1>1, LoginInvariant, PTL DEF Spec, SecondFactor
=============================================================================
