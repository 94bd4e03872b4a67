------------------------------- MODULE Session -------------------------------
(***************************************************************************)
(* The life of one user_sessions row, of a super-admin, and of the browser  *)
(* that holds its cookie: parallel requests validate the token, one of them *)
(* rotates it, the answers carry the new cookie back, and handlers behind   *)
(* the middleware log out or change the impersonated tenant                 *)
(* (pkg/service/auth_sessions.go, pkg/authmw, pkg/web/web_auth.go).         *)
(*                                                                          *)
(* Tokens are numbered in the order they are drawn; 0 is no token.  A token *)
(* is random, so two are never equal.                                       *)
(***************************************************************************)
EXTENDS Naturals, Sequences

CONSTANTS
    Requests,       \* requests the browser may have under way
    Tenants,        \* tenants that can be impersonated
    NoTenant,       \* impersonated_tenant_id IS NULL
    NoOne,          \* nobody holds the row lock
    MaxTokens,      \* bound: tokens drawn
    MaxAudit,       \* bound: impersonation changes
    MaxFaults       \* bound: failed transactions and lost answers

ASSUME SessionAssumption ==
    /\ NoTenant \notin Tenants /\ NoOne \notin Requests
    /\ MaxTokens \in Nat \ {0} /\ MaxAudit \in Nat /\ MaxFaults \in Nat

VARIABLES
    row,            \* the user_sessions row
    drawn,          \* tokens drawn so far
    lock,           \* the request whose open transaction holds the row lock
    cookie,         \* thesada_session in the browser, 0 when absent
    req,            \* the requests
    audit,          \* admin_audit rows about this session
    missed,         \* history: tokens whose Set-Cookie never reached the browser
    faults

vars == <<row, drawn, lock, cookie, req, audit, missed, faults>>

Kinds == {"page", "api", "logout", "impersonate", "clear"}

\* A request.  token is the cookie it carries, new the token its validation
\* drew, session whether it has one, clears whether its answer drops the cookie.
\* good and late are history: the cookie was valid when the request left, and
\* the grace window closed (or a transaction failed) before it was validated.
NoRequest == [kind |-> "page", pc |-> "idle", token |-> 0, new |-> 0, session |-> FALSE,
              clears |-> FALSE, tenant |-> NoTenant, good |-> FALSE, late |-> FALSE]

\* CreateSession has stored the row and the login's answer set the cookie.
Init ==
    /\ row = [exists |-> TRUE, token |-> 1, prev |-> 0, fresh |-> FALSE,
              due |-> FALSE, expired |-> FALSE, imp |-> NoTenant]
    /\ drawn = 1
    /\ lock = NoOne
    /\ cookie = 1
    /\ req = [r \in Requests |-> NoRequest]
    /\ audit = <<>>
    /\ missed = {}
    /\ faults = 0

At(r, pc) == req[r].pc = pc
Go(r, pc) == req' = [req EXCEPT ![r].pc = pc]
Free(r) == lock \in {NoOne, r}
Fault == faults < MaxFaults /\ faults' = faults + 1

-----------------------------------------------------------------------------
(* ValidateSession, called by Middleware and APIMiddleware.                 *)

\* WHERE token_hash = $1 OR (previous_token_hash = $1 AND not yet expired)
Found(token) ==
    row.exists /\ (row.token = token \/ (row.prev = token /\ row.fresh))

Valid(token) == Found(token) /\ ~row.expired

\* The browser attaches the cookie it has now.
Send(r, kind, tenant) ==
    /\ At(r, "idle")
    /\ cookie # 0
    /\ tenant # NoTenant <=> kind = "impersonate"
    /\ kind \in {"impersonate", "clear"} => Len(audit) < MaxAudit
    /\ req' = [req EXCEPT ![r] = [NoRequest EXCEPT
                 !.kind = kind, !.pc = "sent", !.token = cookie, !.tenant = tenant,
                 !.good = Valid(cookie)]]
    /\ UNCHANGED <<row, drawn, lock, cookie, audit, missed, faults>>

\* The SELECT finds the session, which is not due or was found by its previous
\* token.  last_seen_at is not modelled.
Validate(r) ==
    /\ At(r, "sent")
    /\ Valid(req[r].token)
    /\ ~(row.token = req[r].token /\ row.due)
    /\ req' = [req EXCEPT ![r].pc = "handle", ![r].session = TRUE]
    /\ UNCHANGED <<row, drawn, lock, cookie, audit, missed, faults>>

ValidateDue(r) ==
    /\ At(r, "sent")
    /\ Valid(req[r].token)
    /\ row.token = req[r].token /\ row.due
    /\ Go(r, "rotate")
    /\ UNCHANGED <<row, drawn, lock, cookie, audit, missed, faults>>

\* ErrNotFound or ErrExpired: the request goes on without a session.
Refuse(r) ==
    /\ At(r, "sent")
    /\ ~Valid(req[r].token)
    /\ Go(r, "handle")
    /\ UNCHANGED <<row, drawn, lock, cookie, audit, missed, faults>>

\* The UPDATE's WHERE, evaluated once the row lock is free.
StillCurrent(r) == row.exists /\ row.token = req[r].token

\* Mutant of Swapped: the old token is not parked.
SwappedOnly(old, new) == [row EXCEPT !.token = new, !.due = FALSE]

\* The row after the swap: the old token is accepted for the grace time.
Swapped(old, new) ==
    [row EXCEPT !.token = new, !.prev = old, !.fresh = TRUE, !.due = FALSE]

RotateSession(r) ==
    /\ At(r, "rotate")
    /\ Free(r)
    /\ StillCurrent(r)
    /\ drawn < MaxTokens
    /\ drawn' = drawn + 1
    /\ row' = Swapped(req[r].token, drawn + 1)
    /\ req' = [req EXCEPT ![r].pc = "handle", ![r].session = TRUE, ![r].new = drawn + 1]
    /\ UNCHANGED <<lock, cookie, audit, missed, faults>>

\* Mutant of RotateLost: the drawn token is returned though no row took it.
RotateUnchecked(r) ==
    /\ At(r, "rotate")
    /\ Free(r)
    /\ ~StillCurrent(r)
    /\ drawn < MaxTokens
    /\ drawn' = drawn + 1
    /\ req' = [req EXCEPT ![r].pc = "handle", ![r].session = TRUE, ![r].new = drawn + 1]
    /\ UNCHANGED <<row, lock, cookie, audit, missed, faults>>

\* A parallel request rotated first, or the session is gone: zero rows.
RotateLost(r) ==
    /\ At(r, "rotate")
    /\ Free(r)
    /\ ~StillCurrent(r)
    /\ req' = [req EXCEPT ![r].pc = "handle", ![r].session = TRUE]
    /\ UNCHANGED <<row, drawn, lock, cookie, audit, missed, faults>>

\* The transaction fails, before its commit or after it.
ValidateFails(r) ==
    /\ At(r, "sent") \/ At(r, "rotate")
    /\ Fault
    /\ req' = [req EXCEPT ![r].pc = "handle", ![r].late = TRUE]
    /\ UNCHANGED <<row, drawn, lock, cookie, audit, missed>>

RotateAckLost(r) ==
    /\ At(r, "rotate")
    /\ Free(r)
    /\ StillCurrent(r)
    /\ drawn < MaxTokens
    /\ Fault
    /\ drawn' = drawn + 1
    /\ row' = Swapped(req[r].token, drawn + 1)
    /\ missed' = missed \cup {drawn + 1}
    /\ req' = [req EXCEPT ![r].pc = "handle", ![r].late = TRUE]
    /\ UNCHANGED <<lock, cookie, audit>>

-----------------------------------------------------------------------------
(* The handlers.                                                            *)

\* A page, or an api call, is answered; anything else without a session is
\* sent to /login or gets a 401.
HandlePage(r) ==
    /\ At(r, "handle")
    /\ req[r].kind \in {"page", "api"} \/ (req[r].kind # "logout" /\ ~req[r].session)
    /\ Go(r, "answer")
    /\ UNCHANGED <<row, drawn, lock, cookie, audit, missed, faults>>

\* An unsafe api call without proof of its origin: 403 after the validation,
\* and before the new cookie is set.
HandleCSRF(r) ==
    /\ At(r, "handle")
    /\ req[r].kind = "api" /\ req[r].session
    /\ req' = [req EXCEPT ![r].pc = "answer", ![r].new = 0]
    /\ missed' = missed \cup ({req[r].new} \ {0})
    /\ UNCHANGED <<row, drawn, lock, cookie, audit, faults>>

\* RevokeSession: DELETE WHERE token_hash = the token the request carried.
Deleted(token) ==
    IF row.exists /\ row.token = token THEN [row EXCEPT !.exists = FALSE] ELSE row

HandleLogout(r) ==
    /\ At(r, "handle")
    /\ req[r].kind = "logout"
    /\ Free(r)
    /\ row' = Deleted(req[r].token)
    /\ req' = [req EXCEPT ![r].pc = "answer", ![r].clears = TRUE]
    /\ UNCHANGED <<drawn, lock, cookie, audit, missed, faults>>

\* The delete fails: logged, and the cookie cleared all the same.
HandleLogoutFails(r) ==
    /\ At(r, "handle")
    /\ req[r].kind = "logout"
    /\ Fault
    /\ req' = [req EXCEPT ![r].pc = "answer", ![r].clears = TRUE]
    /\ UNCHANGED <<row, drawn, lock, cookie, audit, missed>>

Edge(action, tenant) == Append(audit, [action |-> action, tenant |-> tenant])

\* SetImpersonation: the guarded UPDATE and its audit row, one transaction.
SetImpersonation(r) ==
    /\ At(r, "handle")
    /\ req[r].kind = "impersonate" /\ req[r].session
    /\ row.exists
    /\ Free(r)
    /\ Len(audit) < MaxAudit
    /\ row' = [row EXCEPT !.imp = req[r].tenant]
    /\ audit' = Edge("set", req[r].tenant)
    /\ Go(r, "answer")
    /\ UNCHANGED <<drawn, lock, cookie, missed, faults>>

\* The session is gone, the tenant is gone, or the transaction rolled back.
SetImpersonationFails(r) ==
    /\ At(r, "handle")
    /\ req[r].kind = "impersonate" /\ req[r].session
    /\ IF row.exists THEN Fault ELSE UNCHANGED faults
    /\ Go(r, "answer")
    /\ UNCHANGED <<row, drawn, lock, cookie, audit, missed>>

\* Mutant of LockFor: a plain SELECT.
LockForNobody(r) == UNCHANGED lock

\* ClearImpersonation, SELECT ... FOR UPDATE: a row with a tenant is locked.
LockFor(r) == lock' = r

SomethingToClear == row.exists /\ row.imp # NoTenant

ClearProbe(r) ==
    /\ At(r, "handle")
    /\ req[r].kind = "clear" /\ req[r].session
    /\ Free(r)
    /\ SomethingToClear
    /\ LockFor(r)
    /\ req' = [req EXCEPT ![r].pc = "update", ![r].tenant = row.imp]
    /\ UNCHANGED <<row, drawn, cookie, audit, missed, faults>>

ClearNothing(r) ==
    /\ At(r, "handle")
    /\ req[r].kind = "clear" /\ req[r].session
    /\ Free(r)
    /\ ~SomethingToClear
    /\ Go(r, "answer")
    /\ UNCHANGED <<row, drawn, lock, cookie, audit, missed, faults>>

\* The UPDATE, the audit row that names the tenant read before, the commit.
ClearImpersonation(r) ==
    /\ At(r, "update")
    /\ Len(audit) < MaxAudit
    /\ row' = [row EXCEPT !.imp = NoTenant]
    /\ audit' = Edge("clear", req[r].tenant)
    /\ lock' = NoOne
    /\ Go(r, "answer")
    /\ UNCHANGED <<drawn, cookie, missed, faults>>

ClearFails(r) ==
    /\ At(r, "update")
    /\ Fault
    /\ lock' = NoOne
    /\ Go(r, "answer")
    /\ UNCHANGED <<row, drawn, cookie, audit, missed>>

-----------------------------------------------------------------------------
(* The answers and the clock.                                               *)

\* The last Set-Cookie of an answer wins: a logout clears after the rotation.
CookieAfter(r) ==
    IF req[r].clears THEN 0 ELSE IF req[r].new # 0 THEN req[r].new ELSE cookie

Receive(r) ==
    /\ At(r, "answer")
    /\ cookie' = CookieAfter(r)
    /\ req' = [req EXCEPT ![r] = NoRequest]
    /\ UNCHANGED <<row, drawn, lock, audit, missed, faults>>

LoseAnswer(r) ==
    /\ At(r, "answer")
    /\ Fault
    /\ missed' = missed \cup ({req[r].new} \ {0})
    /\ req' = [req EXCEPT ![r] = NoRequest]
    /\ UNCHANGED <<row, drawn, lock, cookie, audit>>

\* sessionRotationInterval has passed.  It is far longer than the grace time,
\* and no answer that carries a new token is under way for so long.
RotationDue ==
    /\ row.exists /\ ~row.due /\ ~row.fresh
    /\ \A r \in Requests : req[r].new = 0
    /\ row' = [row EXCEPT !.due = TRUE]
    /\ UNCHANGED <<drawn, lock, cookie, req, audit, missed, faults>>

\* previous_token_hash_expires_at has passed: requests that are still on
\* their way to the server took longer than the grace time.
GraceEnds ==
    /\ row.exists /\ row.fresh
    /\ row' = [row EXCEPT !.fresh = FALSE]
    /\ req' = [r \in Requests |->
                 IF At(r, "sent") THEN [req[r] EXCEPT !.late = TRUE] ELSE req[r]]
    /\ UNCHANGED <<drawn, lock, cookie, audit, missed, faults>>

SessionExpires ==
    /\ row.exists /\ ~row.expired
    /\ row' = [row EXCEPT !.expired = TRUE]
    /\ UNCHANGED <<drawn, lock, cookie, req, audit, missed, faults>>

Serve(r) ==
    \/ Validate(r) \/ ValidateDue(r) \/ Refuse(r) \/ RotateSession(r) \/ RotateLost(r)
    \/ ValidateFails(r) \/ RotateAckLost(r)
    \/ HandlePage(r) \/ HandleCSRF(r) \/ HandleLogout(r) \/ HandleLogoutFails(r)
    \/ SetImpersonation(r) \/ SetImpersonationFails(r)
    \/ ClearProbe(r) \/ ClearNothing(r) \/ ClearImpersonation(r) \/ ClearFails(r)

Next ==
    \/ \E r \in Requests :
          \/ \E kind \in Kinds, tenant \in Tenants \cup {NoTenant} : Send(r, kind, tenant)
          \/ Serve(r) \/ Receive(r) \/ LoseAnswer(r)
    \/ RotationDue
    \/ GraceEnds
    \/ SessionExpires

Spec == Init /\ [][Next]_vars

-----------------------------------------------------------------------------
(* Properties.                                                              *)

\* Rotation never strands a browser: while the session lives, the cookie it
\* holds is accepted, or the answer with the accepted one is on its way, or
\* that answer never came.  Parallel requests that find the session due at the
\* same time, and answers in any order, do not change that (rotateSession).
CookieLives ==
    row.exists /\ ~row.expired /\ cookie # 0 =>
        \/ Found(cookie)
        \/ \E r \in Requests : req[r].new = row.token
        \/ row.token \in missed

\* A request whose cookie was good when it left the browser is not treated as
\* anonymous because others rotated the token meanwhile: only a logout, the
\* session's end, a failed transaction or more than the grace time on the way
\* explain a refusal (sessionRotationGrace).
InFlightAccepted ==
    [][\A r \in Requests :
         At(r, "sent") /\ req'[r].pc = "handle" /\ ~req'[r].session /\ req[r].good =>
             ~row.exists \/ row.expired \/ req'[r].late]_vars

\* The audit names the tenant whose impersonation ended, and always tells which
\* tenant the session acts for (ClearImpersonation, auditImpersonationTx).
AuditNamesTenant ==
    /\ \A i \in 1..Len(audit) : audit[i].action = "clear" =>
          i > 1 /\ audit[i - 1] = [action |-> "set", tenant |-> audit[i].tenant]
    /\ row.imp = IF audit # <<>> /\ audit[Len(audit)].action = "set"
                 THEN audit[Len(audit)].tenant ELSE NoTenant

=============================================================================
