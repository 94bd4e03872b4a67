-------------------------------- MODULE Login --------------------------------
(***************************************************************************)
(* Signing in to one password account: the password form, the JSON login,   *)
(* one-time links, the authenticator challenge with its wrong-code cap, the *)
(* reset link, and turning the authenticator on and off meanwhile           *)
(* (pkg/service/auth_totp.go, auth_magiclink.go, auth_users.go,             *)
(* pkg/web/web_totp.go, web_auth.go, pkg/api/v1/auth.go).                   *)
(*                                                                          *)
(* One action is one transaction, except FinishTOTPLoginAny, whose SELECT   *)
(* and whose two writes interleave with others.  A code is the secret and   *)
(* the time step it was computed from: two codes are equal only if both     *)
(* are.  The rate limits are not modelled: a refused call is not made.      *)
(***************************************************************************)
EXTENDS Naturals, Sequences

CONSTANTS
    Calls,          \* requests that may be under way
    Secrets,        \* authenticator secrets
    NoSecret,       \* totp_secret IS NULL
    LoginLinks,     \* magic_link_tokens rows with purpose login
    ResetLinks,     \* magic_link_tokens rows with purpose reset
    NoLink,
    Challenges,     \* totp_challenges rows
    NoChallenge,
    NoOne,          \* nobody holds the lock of the users row
    MaxWrongCodes,  \* totpMaxWrongCodes
    MaxCalls,       \* bound: requests in all
    MaxStep,        \* bound: 30 s time steps
    MaxPasswords,   \* bound: passwords
    MaxSessions,    \* bound: sessions
    MaxFaults       \* bound: failed transactions

ASSUME LoginAssumption ==
    /\ NoSecret \notin Secrets /\ NoChallenge \notin Challenges /\ NoOne \notin Calls
    /\ NoLink \notin LoginLinks \cup ResetLinks /\ LoginLinks \cap ResetLinks = {}
    /\ MaxWrongCodes \in Nat \ {0} /\ MaxStep \in Nat \ {0} /\ MaxPasswords \in Nat \ {0}
    /\ MaxCalls \in Nat /\ MaxSessions \in Nat /\ MaxFaults \in Nat

VARIABLES
    user,           \* the users row
    lock,           \* the call whose open transaction has updated the users row
    offered,        \* secrets handed out in a setup cookie
    now,            \* the current time step
    links,          \* magic_link_tokens
    challenges,     \* totp_challenges
    calls,          \* requests
    arrived,        \* requests so far
    sessions,       \* history: how each session was opened, in order
    told,           \* history: codes checked and rejected for each challenge
    resets,         \* history: passwords set with each reset link
    faults

vars == <<user, lock, offered, now, links, challenges, calls, arrived, sessions, told, resets, faults>>
history == <<sessions, told, resets>>

Links == LoginLinks \cup ResetLinks
Step == 0..MaxStep
Code == [secret : Secrets \cup {NoSecret}, step : Step]

\* No code, and one that matches nothing: both are refused the same way, and a
\* link login that brings nonsense is one without a code and a finish.
NoCode == [secret |-> NoSecret, step |-> 0]

User == [secret : Secrets \cup {NoSecret}, last : Step, password : 1..MaxPasswords]

Challenge == [state : {"none", "open", "expired", "gone"}, attempts : 0..MaxWrongCodes,
              link : LoginLinks \cup {NoLink}]

\* secret is what the call read, chal its challenge, link its link, via the
\* code it has passed; seen is history: the values totp_secret has had since
\* the call began.
Call == [kind : {"form", "json", "link", "finish", "reset", "disable"},
         pc : {"idle", "verify", "consume", "lookup", "begin", "select", "drop",
               "accept", "wrong", "delete", "session", "check", "reset", "clear"},
         code : Code, secret : Secrets \cup {NoSecret}, link : Links \cup {NoLink},
         chal : Challenges \cup {NoChallenge}, password : 0..MaxPasswords,
         via : Code, seen : SUBSET (Secrets \cup {NoSecret})]

NoCall == [kind |-> "form", pc |-> "idle", code |-> NoCode, secret |-> NoSecret,
           link |-> NoLink, chal |-> NoChallenge, password |-> 0, via |-> NoCode, seen |-> {}]

Init ==
    /\ user = [secret |-> NoSecret, last |-> 0, password |-> 1]
    /\ lock = NoOne
    /\ offered = {}
    /\ now = 1
    /\ links = [l \in Links |-> "unsent"]
    /\ challenges = [c \in Challenges |-> [state |-> "none", attempts |-> 0, link |-> NoLink]]
    /\ calls = [k \in Calls |-> NoCall]
    /\ arrived = 0
    /\ sessions = <<>>
    /\ told = [c \in Challenges |-> 0]
    /\ resets = [l \in ResetLinks |-> 0]
    /\ faults = 0

At(k, pc) == calls[k].pc = pc
Go(k, pc) == calls' = [calls EXCEPT ![k].pc = pc]
End(k) == calls' = [calls EXCEPT ![k] = NoCall]
Free(k) == lock \in {NoOne, k}
Fault == faults < MaxFaults /\ faults' = faults + 1

\* VerifyStep: the step before, the current one and the next.
InWindow(step) == step \in 1..MaxStep /\ step + 1 >= now /\ step <= now + 1
Matches(code, secret) == code.secret = secret /\ InWindow(code.step)

\* What can be typed into a code field: a code of a known secret, or nonsense.
Typed == {NoCode} \cup {code \in Code : code.secret \in offered /\ InWindow(code.step)}

-----------------------------------------------------------------------------
(* Requests arrive.                                                         *)

Arrive(k, call) ==
    /\ At(k, "idle")
    /\ arrived < MaxCalls
    /\ arrived' = arrived + 1
    /\ calls' = [calls EXCEPT ![k] = [call EXCEPT !.seen = {user.secret}]]
    /\ UNCHANGED <<user, lock, offered, now, links, challenges, history, faults>>

\* handleLoginSubmit
SubmitForm(k) ==
    \E p \in 1..MaxPasswords :
        Arrive(k, [NoCall EXCEPT !.kind = "form", !.pc = "verify", !.password = p])

\* handleAuthLogin
SubmitJSON(k) ==
    \E p \in 1..MaxPasswords, code \in Typed :
        Arrive(k, [NoCall EXCEPT !.kind = "json", !.pc = "verify", !.password = p,
                                 !.code = code])

OpenLink(k, l, code) ==
    /\ links[l] # "unsent"
    /\ Arrive(k, [NoCall EXCEPT !.kind = "link", !.pc = "consume", !.link = l, !.code = code])

\* handleMagicLinkVerify
SubmitLink(k) == \E l \in LoginLinks : OpenLink(k, l, NoCode)

\* handleAuthMagicLinkVerify with a code
SubmitLinkJSON(k) == \E l \in LoginLinks, code \in Typed \ {NoCode} : OpenLink(k, l, code)

\* handleTOTPSubmit, handleAuthTOTP
SubmitCode(k) ==
    \E c \in Challenges, code \in Typed :
        /\ challenges[c].state # "none"
        /\ Arrive(k, [NoCall EXCEPT !.kind = "finish", !.pc = "select", !.chal = c,
                                    !.code = code])

\* handleResetSubmit, with a password nobody has used yet.
SubmitReset(k) ==
    \E l \in ResetLinks :
        /\ links[l] # "unsent"
        /\ user.password < MaxPasswords
        /\ Arrive(k, [NoCall EXCEPT !.kind = "reset", !.pc = "check", !.link = l,
                                    !.password = user.password + 1])

-----------------------------------------------------------------------------
(* The first factor.                                                        *)

\* VerifyPasswordAnyTenant
VerifyPassword(k) ==
    /\ At(k, "verify")
    /\ IF user.password = calls[k].password THEN Go(k, "lookup") ELSE End(k)
    /\ UNCHANGED <<arrived, user, lock, offered, now, links, challenges, history, faults>>

\* Mutant of LinkLive: consumed_at IS NULL is missing from the UPDATE.
LinkSent(l) == links[l] \in {"live", "used"}

\* The WHERE of the consuming UPDATE.
LinkLive(l) == links[l] = "live"

\* ConsumeMagicLink: one UPDATE ... RETURNING, so one winner.
ConsumeMagicLink(k) ==
    /\ At(k, "consume")
    /\ IF LinkLive(calls[k].link)
       THEN links' = [links EXCEPT ![calls[k].link] = "used"] /\ Go(k, "lookup")
       ELSE UNCHANGED links /\ End(k)
    /\ UNCHANGED <<arrived, user, lock, offered, now, challenges, history, faults>>

\* ConsumeResetLink, which only reads.
CheckResetLink(k) ==
    /\ At(k, "check")
    /\ IF LinkLive(calls[k].link) THEN Go(k, "reset") ELSE End(k)
    /\ UNCHANGED <<arrived, user, lock, offered, now, links, challenges, history, faults>>

\* ResetPassword: the link and the password in one transaction.
ResetPassword(k) ==
    /\ At(k, "reset")
    /\ Free(k)
    /\ LinkLive(calls[k].link)
    /\ links' = [links EXCEPT ![calls[k].link] = "used"]
    /\ user' = [user EXCEPT !.password = calls[k].password]
    /\ resets' = [resets EXCEPT ![calls[k].link] = @ + 1]
    /\ End(k)
    /\ UNCHANGED <<arrived, lock, offered, now, challenges, sessions, told, faults>>

ResetRefused(k) ==
    /\ At(k, "reset")
    /\ ~LinkLive(calls[k].link)
    /\ End(k)
    /\ UNCHANGED <<arrived, user, lock, offered, now, links, challenges, history, faults>>

-----------------------------------------------------------------------------
(* The second factor.                                                       *)

\* Mutant of TOTPRequired: an error is taken for "off".
RequiredWhenRead(secret, failed) == secret # NoSecret /\ ~failed

\* TOTPRequired: an error is not "off".
TOTPRequired(secret, failed) == secret # NoSecret \/ failed

\* continueLocalLogin opens a session or a challenge; the JSON password login
\* has its code with it.
AfterLookup(kind, required) ==
    IF ~required THEN "session" ELSE IF kind = "json" THEN "accept" ELSE "begin"

EnrolledTOTP(k) ==
    /\ At(k, "lookup")
    /\ calls' = [calls EXCEPT
         ![k].secret = user.secret,
         ![k].pc = AfterLookup(calls[k].kind, TOTPRequired(user.secret, FALSE))]
    /\ UNCHANGED <<arrived, user, lock, offered, now, links, challenges, history, faults>>

EnrolledTOTPFails(k) ==
    /\ At(k, "lookup")
    /\ Fault
    /\ IF TOTPRequired(user.secret, TRUE) THEN End(k) ELSE Go(k, "session")
    /\ UNCHANGED <<arrived, user, lock, offered, now, links, challenges, history>>

\* BeginTOTPLogin; a JSON link login that brought a code goes on with it.
BeginTOTPLogin(k) ==
    /\ At(k, "begin")
    /\ \E c \in Challenges :
          /\ challenges[c].state = "none"
          /\ challenges' = [challenges EXCEPT ![c].state = "open", ![c].link = calls[k].link]
          /\ IF calls[k].code = NoCode THEN End(k)
             ELSE calls' = [calls EXCEPT ![k].pc = "select", ![k].chal = c]
    /\ UNCHANGED <<arrived, user, lock, offered, now, links, history, faults>>

\* FinishTOTPLoginAny, its SELECT: an unexpired challenge and the secret.
SelectChallenge(k) ==
    /\ At(k, "select")
    /\ IF challenges[calls[k].chal].state = "open"
       THEN calls' = [calls EXCEPT ![k].secret = user.secret,
                                   ![k].pc = IF user.secret = NoSecret THEN "drop" ELSE "accept"]
       ELSE End(k)
    /\ UNCHANGED <<arrived, user, lock, offered, now, links, challenges, history, faults>>

\* The authenticator is off: the challenge is deleted, if it is still there, and
\* the code rejected unchecked.
DropChallenge(k) ==
    /\ At(k, "drop")
    /\ challenges' = [challenges EXCEPT ![calls[k].chal].state = "gone"]
    /\ End(k)
    /\ UNCHANGED <<arrived, user, lock, offered, now, links, history, faults>>

\* Mutant of NewerStep: totp_last_step <= $2.
SameStep(step) == user.last <= step

\* The guard of acceptTOTPCode's UPDATE.
NewerStep(step) == user.last < step

Accepts(k) == Matches(calls[k].code, calls[k].secret) /\ NewerStep(calls[k].code.step)

\* AcceptTOTPLogin: acceptTOTPCode in a transaction of its own.
AcceptTOTPLogin(k) ==
    /\ At(k, "accept")
    /\ calls[k].kind = "json"
    /\ Free(k)
    /\ IF Accepts(k)
       THEN /\ user' = [user EXCEPT !.last = calls[k].code.step]
            /\ calls' = [calls EXCEPT ![k].pc = "session", ![k].via = calls[k].code]
       ELSE End(k) /\ UNCHANGED user
    /\ UNCHANGED <<arrived, lock, offered, now, links, challenges, history, faults>>

\* acceptTOTPCode inside FinishTOTPLoginAny: the users row stays locked, and
\* totp_last_step is not visible to others, until the commit.
AcceptTOTPCode(k) ==
    /\ At(k, "accept")
    /\ calls[k].kind # "json"
    /\ Free(k)
    /\ IF Accepts(k) THEN lock' = k /\ Go(k, "delete") ELSE UNCHANGED lock /\ Go(k, "wrong")
    /\ UNCHANGED <<arrived, user, offered, now, links, challenges, history, faults>>

\* Mutant of OneDeleted: RowsAffected is not looked at.
Deletes(c) == challenges[c].state \in {"open", "expired", "gone"}

\* The DELETE takes a row, expired or not.
OneDeleted(c) == challenges[c].state \in {"open", "expired"}

\* The DELETE of the challenge and the commit; zero rows roll everything back.
FinishTOTPLogin(k) ==
    /\ At(k, "delete")
    /\ lock' = NoOne
    /\ LET c == calls[k].chal IN
       IF OneDeleted(c)
       THEN /\ challenges' = [challenges EXCEPT ![c].state = "gone"]
            /\ user' = [user EXCEPT !.last = calls[k].code.step]
            /\ calls' = [calls EXCEPT ![k].pc = "session", ![k].via = calls[k].code]
       ELSE UNCHANGED <<user, challenges>> /\ End(k)
    /\ UNCHANGED <<arrived, offered, now, links, history, faults>>

AtCap(n) == n >= MaxWrongCodes

\* Mutant of Reported: pgx.ErrNoRows is not told apart.
ReportedAlways(c) == c \in Challenges

\* A row that a parallel finish has deleted makes it ErrExpired.
Reported(c) == challenges[c].state # "gone"

\* noteWrongTOTP: count, and delete the challenge at the cap.
NoteWrongTOTP(k) ==
    /\ At(k, "wrong")
    /\ LET c == calls[k].chal
           n == challenges[c].attempts + 1
       IN  /\ challenges' =
                 IF challenges[c].state = "gone" THEN challenges
                 ELSE [challenges EXCEPT ![c].attempts = n,
                                         ![c].state = IF AtCap(n) THEN "gone" ELSE @]
           /\ told' = IF Reported(c) THEN [told EXCEPT ![c] = @ + 1] ELSE told
    /\ End(k)
    /\ UNCHANGED <<arrived, user, lock, offered, now, links, sessions, resets, faults>>

\* startSession, finishAPILogin
Opened(k) ==
    [via |-> calls[k].via, chal |-> calls[k].chal,
     link |-> IF calls[k].chal = NoChallenge THEN calls[k].link
              ELSE challenges[calls[k].chal].link]

StartSession(k) ==
    /\ At(k, "session")
    /\ Len(sessions) < MaxSessions
    /\ sessions' = Append(sessions, Opened(k))
    /\ End(k)
    /\ UNCHANGED <<arrived, user, lock, offered, now, links, challenges, told, resets, faults>>

\* A transaction of the call fails and rolls back: the call is answered 500.
CallFails(k) ==
    /\ ~At(k, "idle") /\ ~At(k, "lookup")
    /\ Fault
    /\ lock' = IF lock = k THEN NoOne ELSE lock
    /\ End(k)
    /\ UNCHANGED <<arrived, user, offered, now, links, challenges, history>>

-----------------------------------------------------------------------------
(* Settings, links and time.                                                *)

\* SetTOTPSecret
SetSecret(secret) == user' = [user EXCEPT !.secret = secret]

Seen(cs, secret) ==
    [k \in Calls |-> IF cs[k].pc = "idle" THEN cs[k]
                     ELSE [cs[k] EXCEPT !.seen = @ \cup {secret}]]

\* handleTOTPBegin: a new key for the setup cookie.
TOTPBegin ==
    /\ user.secret = NoSecret
    /\ \E s \in Secrets \ offered : offered' = offered \cup {s}
    /\ UNCHANGED <<arrived, user, lock, now, links, challenges, calls, history, faults>>

\* handleTOTPConfirm stores the cookie's secret after a code of it.  It does
\* not look whether one is stored already.
TOTPConfirm ==
    /\ lock = NoOne
    /\ \E s \in offered : SetSecret(s) /\ calls' = Seen(calls, s)
    /\ UNCHANGED <<arrived, lock, offered, now, links, challenges, history, faults>>

\* handleTOTPDisable: the read and the check of the code, then the write.
TOTPDisable(k) ==
    /\ user.secret # NoSecret
    /\ Arrive(k, [NoCall EXCEPT !.kind = "disable", !.pc = "clear"])

TOTPClear(k) ==
    /\ At(k, "clear")
    /\ Free(k)
    /\ SetSecret(NoSecret)
    /\ calls' = Seen([calls EXCEPT ![k] = NoCall], NoSecret)
    /\ UNCHANGED <<arrived, lock, offered, now, links, challenges, history, faults>>

\* createLinkToken, and the mail
CreateLink(l) ==
    /\ links[l] = "unsent"
    /\ links' = [links EXCEPT ![l] = "live"]
    /\ UNCHANGED <<arrived, user, lock, offered, now, challenges, calls, history, faults>>

LinkExpires(l) ==
    /\ links[l] = "live"
    /\ links' = [links EXCEPT ![l] = "expired"]
    /\ UNCHANGED <<arrived, user, lock, offered, now, challenges, calls, history, faults>>

\* totpChallengeLifetime
ChallengeExpires(c) ==
    /\ challenges[c].state = "open"
    /\ challenges' = [challenges EXCEPT ![c].state = "expired"]
    /\ UNCHANGED <<arrived, user, lock, offered, now, links, calls, history, faults>>

Tick ==
    /\ now < MaxStep
    /\ now' = now + 1
    /\ UNCHANGED <<arrived, user, lock, offered, links, challenges, calls, history, faults>>

Next ==
    \/ \E k \in Calls :
          \/ SubmitForm(k) \/ SubmitJSON(k) \/ SubmitLink(k) \/ SubmitLinkJSON(k)
          \/ SubmitCode(k) \/ SubmitReset(k)
          \/ VerifyPassword(k) \/ ConsumeMagicLink(k)
          \/ CheckResetLink(k) \/ ResetPassword(k) \/ ResetRefused(k)
          \/ EnrolledTOTP(k) \/ EnrolledTOTPFails(k) \/ BeginTOTPLogin(k)
          \/ SelectChallenge(k) \/ DropChallenge(k) \/ AcceptTOTPLogin(k) \/ AcceptTOTPCode(k)
          \/ FinishTOTPLogin(k) \/ NoteWrongTOTP(k) \/ StartSession(k) \/ CallFails(k)
          \/ TOTPDisable(k) \/ TOTPClear(k)
    \/ TOTPBegin \/ TOTPConfirm \/ Tick
    \/ \E l \in Links : CreateLink(l) \/ LinkExpires(l)
    \/ \E c \in Challenges : ChallengeExpires(c)

Spec == Init /\ [][Next]_vars

-----------------------------------------------------------------------------
(* Properties.                                                              *)

Opening == [via : Code, chal : Challenges \cup {NoChallenge}, link : LoginLinks \cup {NoLink}]

\* The state keeps its types.
TypeOK ==
    /\ user \in User
    /\ lock \in Calls \cup {NoOne}
    /\ offered \subseteq Secrets
    /\ now \in 1..MaxStep
    /\ links \in [Links -> {"unsent", "live", "expired", "used"}]
    /\ challenges \in [Challenges -> Challenge]
    /\ calls \in [Calls -> Call]
    /\ arrived \in 0..MaxCalls
    /\ sessions \in Seq(Opening) /\ Len(sessions) <= MaxSessions
    /\ told \in [Challenges -> Nat]
    /\ resets \in [ResetLinks -> Nat]
    /\ faults \in 0..MaxFaults

TwoSessions(P(_, _)) ==
    \E i, j \in 1..Len(sessions) : i < j /\ P(sessions[i], sessions[j])

\* A code signs in once, whichever of the challenge and the JSON login takes it
\* and however many requests carry it at the same time (acceptTOTPCode).
CodeSignsInOnce ==
    LET SameCode(a, b) == a.via.step # 0 /\ a.via.step = b.via.step
    IN  ~TwoSessions(SameCode)

\* A challenge opens one session, though two requests may bring two codes that
\* are both right for it (FinishTOTPLoginAny).
ChallengeSignsInOnce ==
    LET SameChallenge(a, b) == a.chal # NoChallenge /\ a.chal = b.chal
    IN  ~TwoSessions(SameChallenge)

\* A one-time link opens one session, through a challenge or not, or sets one
\* password (consumeLinkTokenThen).
LinkWorksOnce ==
    LET SameLink(a, b) == a.link # NoLink /\ a.link = b.link
    IN  /\ ~TwoSessions(SameLink)
        /\ \A l \in ResetLinks : resets[l] <= 1

\* A challenge tells of at most totpMaxWrongCodes codes that they are not valid,
\* however many guesses run in parallel (noteWrongTOTP).
GuessesBounded == \A c \in Challenges : told[c] <= MaxWrongCodes

\* A session is opened with a code of a secret that was enrolled while the
\* login ran, or without one only if the authenticator was off at some moment
\* of the login; errors do not open a way around it (TOTPRequired).
SecondFactor ==
    [][\A k \in Calls :
         At(k, "session") /\ sessions' # sessions /\ calls'[k].pc = "idle" =>
             calls[k].via.secret \in calls[k].seen]_vars
=============================================================================
