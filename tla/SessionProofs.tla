---------------------------- MODULE SessionProofs ----------------------------
(***************************************************************************)
(* Proofs about Session for any numbers of requests, tenants, tokens, audit *)
(* entries and faults.                                                      *)
(***************************************************************************)
EXTENDS Session, TLAPS

Places == {"idle", "sent", "rotate", "handle", "update", "answer"}

Request == [kind : Kinds, pc : Places, token : Nat, new : Nat, session : BOOLEAN,
            clears : BOOLEAN, tenant : Tenants \cup {NoTenant}, good : BOOLEAN, late : BOOLEAN]

Row == [exists : BOOLEAN, token : Nat, prev : Nat, fresh : BOOLEAN, due : BOOLEAN,
        expired : BOOLEAN, imp : Tenants \cup {NoTenant}]

Entry == [action : {"set", "clear"}, tenant : Tenants \cup {NoTenant}]

TypeOK ==
    /\ row \in Row
    /\ drawn \in 1..MaxTokens
    /\ lock \in Requests \cup {NoOne}
    /\ cookie \in 0..MaxTokens
    /\ req \in [Requests -> Request]
    /\ audit \in Seq(Entry) /\ Len(audit) <= MaxAudit
    /\ missed \subseteq Nat
    /\ faults \in 0..MaxFaults

\* Tokens in use have been drawn.  A row that is due stays so until it is
\* swapped, so the answers under way carry no token but the row's own.
TokensOK ==
    /\ row.token \in 1..drawn
    /\ cookie <= drawn
    /\ \A r \in Requests : req[r].token <= drawn
    /\ \A r \in Requests : req[r].new # 0 => req[r].new = row.token /\ ~At(r, "idle")
    /\ row.due => ~row.fresh /\ \A r \in Requests : req[r].new = 0
    /\ \A r \in Requests : At(r, "rotate") /\ req[r].token = row.token => row.due

\* The browser has the row's own token, or will get it, or missed it: that the
\* previous one is still accepted never has to save it.
CookieOK ==
    row.exists /\ ~row.expired /\ cookie # 0 =>
        \/ cookie = row.token
        \/ \E r \in Requests : req[r].new = row.token
        \/ row.token \in missed

\* A request that left with a good cookie, and is not late, would be accepted.
InFlightOK ==
    \A r \in Requests :
        At(r, "sent") /\ req[r].good /\ ~req[r].late /\ row.exists => Found(req[r].token)

\* The row is locked by the request that is about to clear its tenant, and
\* that request knows the tenant.
LockOK ==
    \A r \in Requests :
        /\ At(r, "update") <=> lock = r
        /\ At(r, "update") => req[r].tenant = row.imp /\ row.imp # NoTenant

SessionInv ==
    /\ TypeOK /\ TokensOK /\ CookieOK /\ InFlightOK /\ LockOK /\ AuditNamesTenant

USE SessionAssumption


-----------------------------------------------------------------------------
(* Types.                                                                   *)

\* A request that becomes another leaves the requests typed.
LEMMA PutTyped ==
  ASSUME TypeOK, NEW r \in Requests, NEW q \in Request, req' = [req EXCEPT ![r] = q]
  PROVE  req' \in [Requests -> Request]
BY DEF TypeOK

\* A free slot is a request.
LEMMA NoRequestTyped == NoRequest \in Request
BY DEF NoRequest, Request, Kinds, Places

\* Whatever a request does leaves the requests typed.
LEMMA RequestsTyped ==
  ASSUME TypeOK, NEW r \in Requests, Serve(r) \/ Receive(r) \/ LoseAnswer(r)
  PROVE  req' \in [Requests -> Request]
<1>. req[r] \in Request /\ req \in [Requests -> Request] /\ drawn + 1 \in Nat
     /\ row.imp \in Tenants \cup {NoTenant}
  BY DEF TypeOK, Row
<1>1. CASE Validate(r)
  <2>1. [req[r] EXCEPT !.pc = "handle", !.session = TRUE] \in Request
    BY DEF Request, Places
  <2>2. req' = [req EXCEPT ![r] = [req[r] EXCEPT !.pc = "handle", !.session = TRUE]]
    BY <1>1 DEF Validate
  <2>. QED
    BY <2>1, <2>2, PutTyped
<1>2. CASE ValidateDue(r)
  <2>1. [req[r] EXCEPT !.pc = "rotate"] \in Request
    BY DEF Request, Places
  <2>2. req' = [req EXCEPT ![r] = [req[r] EXCEPT !.pc = "rotate"]]
    BY <1>2 DEF ValidateDue, Go
  <2>. QED
    BY <2>1, <2>2, PutTyped
<1>3. CASE Refuse(r)
  <2>1. [req[r] EXCEPT !.pc = "handle"] \in Request
    BY DEF Request, Places
  <2>2. req' = [req EXCEPT ![r] = [req[r] EXCEPT !.pc = "handle"]]
    BY <1>3 DEF Refuse, Go
  <2>. QED
    BY <2>1, <2>2, PutTyped
<1>4. CASE RotateSession(r)
  <2>1. [req[r] EXCEPT !.pc = "handle", !.session = TRUE, !.new = drawn + 1] \in Request
    BY DEF Request, Places
  <2>2. req' = [req EXCEPT ![r] = [req[r] EXCEPT !.pc = "handle", !.session = TRUE, !.new = drawn + 1]]
    BY <1>4 DEF RotateSession
  <2>. QED
    BY <2>1, <2>2, PutTyped
<1>5. CASE RotateLost(r)
  <2>1. [req[r] EXCEPT !.pc = "handle", !.session = TRUE] \in Request
    BY DEF Request, Places
  <2>2. req' = [req EXCEPT ![r] = [req[r] EXCEPT !.pc = "handle", !.session = TRUE]]
    BY <1>5 DEF RotateLost
  <2>. QED
    BY <2>1, <2>2, PutTyped
<1>6. CASE ValidateFails(r)
  <2>1. [req[r] EXCEPT !.pc = "handle", !.late = TRUE] \in Request
    BY DEF Request, Places
  <2>2. req' = [req EXCEPT ![r] = [req[r] EXCEPT !.pc = "handle", !.late = TRUE]]
    BY <1>6 DEF ValidateFails
  <2>. QED
    BY <2>1, <2>2, PutTyped
<1>7. CASE RotateAckLost(r)
  <2>1. [req[r] EXCEPT !.pc = "handle", !.late = TRUE] \in Request
    BY DEF Request, Places
  <2>2. req' = [req EXCEPT ![r] = [req[r] EXCEPT !.pc = "handle", !.late = TRUE]]
    BY <1>7 DEF RotateAckLost
  <2>. QED
    BY <2>1, <2>2, PutTyped
<1>8. CASE HandlePage(r)
  <2>1. [req[r] EXCEPT !.pc = "answer"] \in Request
    BY DEF Request, Places
  <2>2. req' = [req EXCEPT ![r] = [req[r] EXCEPT !.pc = "answer"]]
    BY <1>8 DEF HandlePage, Go
  <2>. QED
    BY <2>1, <2>2, PutTyped
<1>9. CASE HandleCSRF(r)
  <2>1. [req[r] EXCEPT !.pc = "answer", !.new = 0] \in Request
    BY DEF Request, Places
  <2>2. req' = [req EXCEPT ![r] = [req[r] EXCEPT !.pc = "answer", !.new = 0]]
    BY <1>9 DEF HandleCSRF
  <2>. QED
    BY <2>1, <2>2, PutTyped
<1>10. CASE HandleLogout(r)
  <2>1. [req[r] EXCEPT !.pc = "answer", !.clears = TRUE] \in Request
    BY DEF Request, Places
  <2>2. req' = [req EXCEPT ![r] = [req[r] EXCEPT !.pc = "answer", !.clears = TRUE]]
    BY <1>10 DEF HandleLogout
  <2>. QED
    BY <2>1, <2>2, PutTyped
<1>11. CASE HandleLogoutFails(r)
  <2>1. [req[r] EXCEPT !.pc = "answer", !.clears = TRUE] \in Request
    BY DEF Request, Places
  <2>2. req' = [req EXCEPT ![r] = [req[r] EXCEPT !.pc = "answer", !.clears = TRUE]]
    BY <1>11 DEF HandleLogoutFails
  <2>. QED
    BY <2>1, <2>2, PutTyped
<1>12. CASE SetImpersonation(r)
  <2>1. [req[r] EXCEPT !.pc = "answer"] \in Request
    BY DEF Request, Places
  <2>2. req' = [req EXCEPT ![r] = [req[r] EXCEPT !.pc = "answer"]]
    BY <1>12 DEF SetImpersonation, Go
  <2>. QED
    BY <2>1, <2>2, PutTyped
<1>13. CASE SetImpersonationFails(r)
  <2>1. [req[r] EXCEPT !.pc = "answer"] \in Request
    BY DEF Request, Places
  <2>2. req' = [req EXCEPT ![r] = [req[r] EXCEPT !.pc = "answer"]]
    BY <1>13 DEF SetImpersonationFails, Go
  <2>. QED
    BY <2>1, <2>2, PutTyped
<1>14. CASE ClearProbe(r)
  <2>1. [req[r] EXCEPT !.pc = "update", !.tenant = row.imp] \in Request
    BY DEF Request, Places
  <2>2. req' = [req EXCEPT ![r] = [req[r] EXCEPT !.pc = "update", !.tenant = row.imp]]
    BY <1>14 DEF ClearProbe
  <2>. QED
    BY <2>1, <2>2, PutTyped
<1>15. CASE ClearNothing(r)
  <2>1. [req[r] EXCEPT !.pc = "answer"] \in Request
    BY DEF Request, Places
  <2>2. req' = [req EXCEPT ![r] = [req[r] EXCEPT !.pc = "answer"]]
    BY <1>15 DEF ClearNothing, Go
  <2>. QED
    BY <2>1, <2>2, PutTyped
<1>16. CASE ClearImpersonation(r)
  <2>1. [req[r] EXCEPT !.pc = "answer"] \in Request
    BY DEF Request, Places
  <2>2. req' = [req EXCEPT ![r] = [req[r] EXCEPT !.pc = "answer"]]
    BY <1>16 DEF ClearImpersonation, Go
  <2>. QED
    BY <2>1, <2>2, PutTyped
<1>17. CASE ClearFails(r)
  <2>1. [req[r] EXCEPT !.pc = "answer"] \in Request
    BY DEF Request, Places
  <2>2. req' = [req EXCEPT ![r] = [req[r] EXCEPT !.pc = "answer"]]
    BY <1>17 DEF ClearFails, Go
  <2>. QED
    BY <2>1, <2>2, PutTyped
<1>18. CASE Receive(r)
  BY <1>18, NoRequestTyped, PutTyped DEF Receive
<1>19. CASE LoseAnswer(r)
  BY <1>19, NoRequestTyped, PutTyped DEF LoseAnswer
<1>. QED
  BY <1>1, <1>2, <1>3, <1>4, <1>5, <1>6, <1>7, <1>8, <1>9, <1>10, <1>11, <1>12, <1>13, <1>14, <1>15, <1>16, <1>17, <1>18, <1>19
     DEF Serve

\* Whatever a request does keeps the types.
LEMMA TypesKept ==
  ASSUME SessionInv, NEW r \in Requests, Serve(r) \/ Receive(r) \/ LoseAnswer(r)
  PROVE  TypeOK'
<1>1. CASE Validate(r)
  <2>1. row' \in Row /\ drawn' \in 1..MaxTokens
    BY <1>1 DEF SessionInv, TypeOK, Request, Row, Validate
  <2>2. lock' \in Requests \cup {NoOne} /\ cookie' \in 0..MaxTokens
    BY <1>1 DEF SessionInv, TypeOK, TokensOK, Request, Row, Validate
  <2>3. audit' \in Seq(Entry) /\ Len(audit') <= MaxAudit
    BY <1>1 DEF SessionInv, TypeOK, Request, Entry, Validate
  <2>4. missed' \subseteq Nat
    BY <1>1 DEF SessionInv, TypeOK, Request, Validate
  <2>5. faults' \in 0..MaxFaults
    BY <1>1 DEF SessionInv, TypeOK, Validate
  <2>. QED
    BY <2>1, <2>2, <2>3, <2>4, <2>5, RequestsTyped DEF TypeOK, SessionInv
<1>2. CASE ValidateDue(r)
  <2>1. row' \in Row /\ drawn' \in 1..MaxTokens
    BY <1>2 DEF SessionInv, TypeOK, Request, Row, ValidateDue
  <2>2. lock' \in Requests \cup {NoOne} /\ cookie' \in 0..MaxTokens
    BY <1>2 DEF SessionInv, TypeOK, TokensOK, Request, Row, ValidateDue
  <2>3. audit' \in Seq(Entry) /\ Len(audit') <= MaxAudit
    BY <1>2 DEF SessionInv, TypeOK, Request, Entry, ValidateDue
  <2>4. missed' \subseteq Nat
    BY <1>2 DEF SessionInv, TypeOK, Request, ValidateDue
  <2>5. faults' \in 0..MaxFaults
    BY <1>2 DEF SessionInv, TypeOK, ValidateDue
  <2>. QED
    BY <2>1, <2>2, <2>3, <2>4, <2>5, RequestsTyped DEF TypeOK, SessionInv
<1>3. CASE Refuse(r)
  <2>1. row' \in Row /\ drawn' \in 1..MaxTokens
    BY <1>3 DEF SessionInv, TypeOK, Request, Row, Refuse
  <2>2. lock' \in Requests \cup {NoOne} /\ cookie' \in 0..MaxTokens
    BY <1>3 DEF SessionInv, TypeOK, TokensOK, Request, Row, Refuse
  <2>3. audit' \in Seq(Entry) /\ Len(audit') <= MaxAudit
    BY <1>3 DEF SessionInv, TypeOK, Request, Entry, Refuse
  <2>4. missed' \subseteq Nat
    BY <1>3 DEF SessionInv, TypeOK, Request, Refuse
  <2>5. faults' \in 0..MaxFaults
    BY <1>3 DEF SessionInv, TypeOK, Refuse
  <2>. QED
    BY <2>1, <2>2, <2>3, <2>4, <2>5, RequestsTyped DEF TypeOK, SessionInv
<1>4. CASE RotateSession(r)
  <2>1. row' \in Row /\ drawn' \in 1..MaxTokens
    <3>1. drawn + 1 \in Nat /\ drawn + 1 \in 1..MaxTokens /\ req[r].token \in Nat /\ row \in Row
      BY <1>4 DEF SessionInv, TypeOK, Request, RotateSession
    <3>2. Swapped(req[r].token, drawn + 1) \in Row
      BY <3>1 DEF Swapped, Row
    <3>. QED
      BY <1>4, <3>1, <3>2 DEF RotateSession
  <2>2. lock' \in Requests \cup {NoOne} /\ cookie' \in 0..MaxTokens
    BY <1>4 DEF SessionInv, TypeOK, TokensOK, Request, Row, RotateSession
  <2>3. audit' \in Seq(Entry) /\ Len(audit') <= MaxAudit
    BY <1>4 DEF SessionInv, TypeOK, Request, Entry, RotateSession
  <2>4. missed' \subseteq Nat
    BY <1>4 DEF SessionInv, TypeOK, Request, RotateSession
  <2>5. faults' \in 0..MaxFaults
    BY <1>4 DEF SessionInv, TypeOK, RotateSession
  <2>. QED
    BY <2>1, <2>2, <2>3, <2>4, <2>5, RequestsTyped DEF TypeOK, SessionInv
<1>5. CASE RotateLost(r)
  <2>1. row' \in Row /\ drawn' \in 1..MaxTokens
    BY <1>5 DEF SessionInv, TypeOK, Request, Row, RotateLost
  <2>2. lock' \in Requests \cup {NoOne} /\ cookie' \in 0..MaxTokens
    BY <1>5 DEF SessionInv, TypeOK, TokensOK, Request, Row, RotateLost
  <2>3. audit' \in Seq(Entry) /\ Len(audit') <= MaxAudit
    BY <1>5 DEF SessionInv, TypeOK, Request, Entry, RotateLost
  <2>4. missed' \subseteq Nat
    BY <1>5 DEF SessionInv, TypeOK, Request, RotateLost
  <2>5. faults' \in 0..MaxFaults
    BY <1>5 DEF SessionInv, TypeOK, RotateLost
  <2>. QED
    BY <2>1, <2>2, <2>3, <2>4, <2>5, RequestsTyped DEF TypeOK, SessionInv
<1>6. CASE ValidateFails(r)
  <2>1. row' \in Row /\ drawn' \in 1..MaxTokens
    BY <1>6 DEF SessionInv, TypeOK, Request, Row, ValidateFails
  <2>2. lock' \in Requests \cup {NoOne} /\ cookie' \in 0..MaxTokens
    BY <1>6 DEF SessionInv, TypeOK, TokensOK, Request, Row, ValidateFails
  <2>3. audit' \in Seq(Entry) /\ Len(audit') <= MaxAudit
    BY <1>6 DEF SessionInv, TypeOK, Request, Entry, ValidateFails
  <2>4. missed' \subseteq Nat
    BY <1>6 DEF SessionInv, TypeOK, Request, ValidateFails
  <2>5. faults' \in 0..MaxFaults
    BY <1>6 DEF SessionInv, TypeOK, ValidateFails, Fault
  <2>. QED
    BY <2>1, <2>2, <2>3, <2>4, <2>5, RequestsTyped DEF TypeOK, SessionInv
<1>7. CASE RotateAckLost(r)
  <2>1. row' \in Row /\ drawn' \in 1..MaxTokens
    <3>1. drawn + 1 \in Nat /\ drawn + 1 \in 1..MaxTokens /\ req[r].token \in Nat /\ row \in Row
      BY <1>7 DEF SessionInv, TypeOK, Request, RotateAckLost
    <3>2. Swapped(req[r].token, drawn + 1) \in Row
      BY <3>1 DEF Swapped, Row
    <3>. QED
      BY <1>7, <3>1, <3>2 DEF RotateAckLost
  <2>2. lock' \in Requests \cup {NoOne} /\ cookie' \in 0..MaxTokens
    BY <1>7 DEF SessionInv, TypeOK, TokensOK, Request, Row, RotateAckLost
  <2>3. audit' \in Seq(Entry) /\ Len(audit') <= MaxAudit
    BY <1>7 DEF SessionInv, TypeOK, Request, Entry, RotateAckLost
  <2>4. missed' \subseteq Nat
    BY <1>7 DEF SessionInv, TypeOK, Request, RotateAckLost
  <2>5. faults' \in 0..MaxFaults
    BY <1>7 DEF SessionInv, TypeOK, RotateAckLost, Fault
  <2>. QED
    BY <2>1, <2>2, <2>3, <2>4, <2>5, RequestsTyped DEF TypeOK, SessionInv
<1>8. CASE HandlePage(r)
  <2>1. row' \in Row /\ drawn' \in 1..MaxTokens
    BY <1>8 DEF SessionInv, TypeOK, Request, Row, HandlePage
  <2>2. lock' \in Requests \cup {NoOne} /\ cookie' \in 0..MaxTokens
    BY <1>8 DEF SessionInv, TypeOK, TokensOK, Request, Row, HandlePage
  <2>3. audit' \in Seq(Entry) /\ Len(audit') <= MaxAudit
    BY <1>8 DEF SessionInv, TypeOK, Request, Entry, HandlePage
  <2>4. missed' \subseteq Nat
    BY <1>8 DEF SessionInv, TypeOK, Request, HandlePage
  <2>5. faults' \in 0..MaxFaults
    BY <1>8 DEF SessionInv, TypeOK, HandlePage
  <2>. QED
    BY <2>1, <2>2, <2>3, <2>4, <2>5, RequestsTyped DEF TypeOK, SessionInv
<1>9. CASE HandleCSRF(r)
  <2>1. row' \in Row /\ drawn' \in 1..MaxTokens
    BY <1>9 DEF SessionInv, TypeOK, Request, Row, HandleCSRF
  <2>2. lock' \in Requests \cup {NoOne} /\ cookie' \in 0..MaxTokens
    BY <1>9 DEF SessionInv, TypeOK, TokensOK, Request, Row, HandleCSRF
  <2>3. audit' \in Seq(Entry) /\ Len(audit') <= MaxAudit
    BY <1>9 DEF SessionInv, TypeOK, Request, Entry, HandleCSRF
  <2>4. missed' \subseteq Nat
    BY <1>9 DEF SessionInv, TypeOK, Request, HandleCSRF
  <2>5. faults' \in 0..MaxFaults
    BY <1>9 DEF SessionInv, TypeOK, HandleCSRF
  <2>. QED
    BY <2>1, <2>2, <2>3, <2>4, <2>5, RequestsTyped DEF TypeOK, SessionInv
<1>10. CASE HandleLogout(r)
  <2>1. row' \in Row /\ drawn' \in 1..MaxTokens
    BY <1>10 DEF SessionInv, TypeOK, Request, Row, HandleLogout, Deleted
  <2>2. lock' \in Requests \cup {NoOne} /\ cookie' \in 0..MaxTokens
    BY <1>10 DEF SessionInv, TypeOK, TokensOK, Request, Row, HandleLogout
  <2>3. audit' \in Seq(Entry) /\ Len(audit') <= MaxAudit
    BY <1>10 DEF SessionInv, TypeOK, Request, Entry, HandleLogout
  <2>4. missed' \subseteq Nat
    BY <1>10 DEF SessionInv, TypeOK, Request, HandleLogout
  <2>5. faults' \in 0..MaxFaults
    BY <1>10 DEF SessionInv, TypeOK, HandleLogout
  <2>. QED
    BY <2>1, <2>2, <2>3, <2>4, <2>5, RequestsTyped DEF TypeOK, SessionInv
<1>11. CASE HandleLogoutFails(r)
  <2>1. row' \in Row /\ drawn' \in 1..MaxTokens
    BY <1>11 DEF SessionInv, TypeOK, Request, Row, HandleLogoutFails
  <2>2. lock' \in Requests \cup {NoOne} /\ cookie' \in 0..MaxTokens
    BY <1>11 DEF SessionInv, TypeOK, TokensOK, Request, Row, HandleLogoutFails
  <2>3. audit' \in Seq(Entry) /\ Len(audit') <= MaxAudit
    BY <1>11 DEF SessionInv, TypeOK, Request, Entry, HandleLogoutFails
  <2>4. missed' \subseteq Nat
    BY <1>11 DEF SessionInv, TypeOK, Request, HandleLogoutFails
  <2>5. faults' \in 0..MaxFaults
    BY <1>11 DEF SessionInv, TypeOK, HandleLogoutFails, Fault
  <2>. QED
    BY <2>1, <2>2, <2>3, <2>4, <2>5, RequestsTyped DEF TypeOK, SessionInv
<1>12. CASE SetImpersonation(r)
  <2>1. row' \in Row /\ drawn' \in 1..MaxTokens
    BY <1>12 DEF SessionInv, TypeOK, Request, Row, SetImpersonation
  <2>2. lock' \in Requests \cup {NoOne} /\ cookie' \in 0..MaxTokens
    BY <1>12 DEF SessionInv, TypeOK, TokensOK, Request, Row, SetImpersonation
  <2>3. audit' \in Seq(Entry) /\ Len(audit') <= MaxAudit
    BY <1>12 DEF SessionInv, TypeOK, Request, Entry, SetImpersonation, Edge
  <2>4. missed' \subseteq Nat
    BY <1>12 DEF SessionInv, TypeOK, Request, SetImpersonation
  <2>5. faults' \in 0..MaxFaults
    BY <1>12 DEF SessionInv, TypeOK, SetImpersonation
  <2>. QED
    BY <2>1, <2>2, <2>3, <2>4, <2>5, RequestsTyped DEF TypeOK, SessionInv
<1>13. CASE SetImpersonationFails(r)
  <2>1. row' \in Row /\ drawn' \in 1..MaxTokens
    BY <1>13 DEF SessionInv, TypeOK, Request, Row, SetImpersonationFails
  <2>2. lock' \in Requests \cup {NoOne} /\ cookie' \in 0..MaxTokens
    BY <1>13 DEF SessionInv, TypeOK, TokensOK, Request, Row, SetImpersonationFails
  <2>3. audit' \in Seq(Entry) /\ Len(audit') <= MaxAudit
    BY <1>13 DEF SessionInv, TypeOK, Request, Entry, SetImpersonationFails
  <2>4. missed' \subseteq Nat
    BY <1>13 DEF SessionInv, TypeOK, Request, SetImpersonationFails
  <2>5. faults' \in 0..MaxFaults
    BY <1>13 DEF SessionInv, TypeOK, SetImpersonationFails, Fault
  <2>. QED
    BY <2>1, <2>2, <2>3, <2>4, <2>5, RequestsTyped DEF TypeOK, SessionInv
<1>14. CASE ClearProbe(r)
  <2>1. row' \in Row /\ drawn' \in 1..MaxTokens
    BY <1>14 DEF SessionInv, TypeOK, Request, Row, ClearProbe
  <2>2. lock' \in Requests \cup {NoOne} /\ cookie' \in 0..MaxTokens
    BY <1>14 DEF SessionInv, TypeOK, TokensOK, Request, Row, ClearProbe, LockFor
  <2>3. audit' \in Seq(Entry) /\ Len(audit') <= MaxAudit
    BY <1>14 DEF SessionInv, TypeOK, Request, Entry, ClearProbe
  <2>4. missed' \subseteq Nat
    BY <1>14 DEF SessionInv, TypeOK, Request, ClearProbe
  <2>5. faults' \in 0..MaxFaults
    BY <1>14 DEF SessionInv, TypeOK, ClearProbe
  <2>. QED
    BY <2>1, <2>2, <2>3, <2>4, <2>5, RequestsTyped DEF TypeOK, SessionInv
<1>15. CASE ClearNothing(r)
  <2>1. row' \in Row /\ drawn' \in 1..MaxTokens
    BY <1>15 DEF SessionInv, TypeOK, Request, Row, ClearNothing
  <2>2. lock' \in Requests \cup {NoOne} /\ cookie' \in 0..MaxTokens
    BY <1>15 DEF SessionInv, TypeOK, TokensOK, Request, Row, ClearNothing
  <2>3. audit' \in Seq(Entry) /\ Len(audit') <= MaxAudit
    BY <1>15 DEF SessionInv, TypeOK, Request, Entry, ClearNothing
  <2>4. missed' \subseteq Nat
    BY <1>15 DEF SessionInv, TypeOK, Request, ClearNothing
  <2>5. faults' \in 0..MaxFaults
    BY <1>15 DEF SessionInv, TypeOK, ClearNothing
  <2>. QED
    BY <2>1, <2>2, <2>3, <2>4, <2>5, RequestsTyped DEF TypeOK, SessionInv
<1>16. CASE ClearImpersonation(r)
  <2>1. row' \in Row /\ drawn' \in 1..MaxTokens
    BY <1>16 DEF SessionInv, TypeOK, Request, Row, ClearImpersonation
  <2>2. lock' \in Requests \cup {NoOne} /\ cookie' \in 0..MaxTokens
    BY <1>16 DEF SessionInv, TypeOK, TokensOK, Request, Row, ClearImpersonation
  <2>3. audit' \in Seq(Entry) /\ Len(audit') <= MaxAudit
    BY <1>16 DEF SessionInv, TypeOK, Request, Entry, ClearImpersonation, Edge
  <2>4. missed' \subseteq Nat
    BY <1>16 DEF SessionInv, TypeOK, Request, ClearImpersonation
  <2>5. faults' \in 0..MaxFaults
    BY <1>16 DEF SessionInv, TypeOK, ClearImpersonation
  <2>. QED
    BY <2>1, <2>2, <2>3, <2>4, <2>5, RequestsTyped DEF TypeOK, SessionInv
<1>17. CASE ClearFails(r)
  <2>1. row' \in Row /\ drawn' \in 1..MaxTokens
    BY <1>17 DEF SessionInv, TypeOK, Request, Row, ClearFails
  <2>2. lock' \in Requests \cup {NoOne} /\ cookie' \in 0..MaxTokens
    BY <1>17 DEF SessionInv, TypeOK, TokensOK, Request, Row, ClearFails
  <2>3. audit' \in Seq(Entry) /\ Len(audit') <= MaxAudit
    BY <1>17 DEF SessionInv, TypeOK, Request, Entry, ClearFails
  <2>4. missed' \subseteq Nat
    BY <1>17 DEF SessionInv, TypeOK, Request, ClearFails
  <2>5. faults' \in 0..MaxFaults
    BY <1>17 DEF SessionInv, TypeOK, ClearFails, Fault
  <2>. QED
    BY <2>1, <2>2, <2>3, <2>4, <2>5, RequestsTyped DEF TypeOK, SessionInv
<1>18. CASE Receive(r)
  <2>1. row' \in Row /\ drawn' \in 1..MaxTokens
    BY <1>18 DEF SessionInv, TypeOK, Request, Row, Receive
  <2>2. lock' \in Requests \cup {NoOne} /\ cookie' \in 0..MaxTokens
    BY <1>18 DEF SessionInv, TypeOK, TokensOK, Request, Row, Receive, CookieAfter
  <2>3. audit' \in Seq(Entry) /\ Len(audit') <= MaxAudit
    BY <1>18 DEF SessionInv, TypeOK, Request, Entry, Receive
  <2>4. missed' \subseteq Nat
    BY <1>18 DEF SessionInv, TypeOK, Request, Receive
  <2>5. faults' \in 0..MaxFaults
    BY <1>18 DEF SessionInv, TypeOK, Receive
  <2>. QED
    BY <2>1, <2>2, <2>3, <2>4, <2>5, RequestsTyped DEF TypeOK, SessionInv
<1>19. CASE LoseAnswer(r)
  <2>1. row' \in Row /\ drawn' \in 1..MaxTokens
    BY <1>19 DEF SessionInv, TypeOK, Request, Row, LoseAnswer
  <2>2. lock' \in Requests \cup {NoOne} /\ cookie' \in 0..MaxTokens
    BY <1>19 DEF SessionInv, TypeOK, TokensOK, Request, Row, LoseAnswer
  <2>3. audit' \in Seq(Entry) /\ Len(audit') <= MaxAudit
    BY <1>19 DEF SessionInv, TypeOK, Request, Entry, LoseAnswer
  <2>4. missed' \subseteq Nat
    BY <1>19 DEF SessionInv, TypeOK, Request, LoseAnswer
  <2>5. faults' \in 0..MaxFaults
    BY <1>19 DEF SessionInv, TypeOK, LoseAnswer, Fault
  <2>. QED
    BY <2>1, <2>2, <2>3, <2>4, <2>5, RequestsTyped DEF TypeOK, SessionInv
<1>. QED
  BY <1>1, <1>2, <1>3, <1>4, <1>5, <1>6, <1>7,
     <1>8, <1>9, <1>10, <1>11, <1>12, <1>13, <1>14, <1>15, <1>16, <1>17, <1>18, <1>19
     DEF Serve

-----------------------------------------------------------------------------
(* What a request does.                                                     *)

\* A rotation draws a token nobody has yet, and the row is due no more.
LEMMA TokensKept ==
  ASSUME SessionInv, NEW r \in Requests, Serve(r) \/ Receive(r) \/ LoseAnswer(r)
  PROVE  TokensOK'
<1>1. CASE Validate(r)
  BY <1>1 DEF SessionInv, TokensOK, At, Validate, TypeOK, Request, Row
<1>2. CASE ValidateDue(r)
  BY <1>2 DEF SessionInv, TokensOK, At, ValidateDue, Go, TypeOK, Request, Row
<1>3. CASE Refuse(r)
  BY <1>3 DEF SessionInv, TokensOK, At, Refuse, Go, TypeOK, Request, Row
<1>4. CASE RotateSession(r)
  BY <1>4 DEF SessionInv, TokensOK, At, RotateSession, Swapped, StillCurrent, Free, TypeOK,
         Request, Row
<1>5. CASE RotateLost(r)
  BY <1>5 DEF SessionInv, TokensOK, At, RotateLost, StillCurrent, TypeOK, Request, Row
<1>6. CASE ValidateFails(r)
  BY <1>6, SMTT(20) DEF SessionInv, TokensOK, At, ValidateFails, Fault, TypeOK, Request, Row
<1>7. CASE RotateAckLost(r)
  BY <1>7 DEF SessionInv, TokensOK, At, RotateAckLost, Swapped, StillCurrent, Free, Fault,
         TypeOK, Request, Row
<1>8. CASE HandlePage(r)
  BY <1>8 DEF SessionInv, TokensOK, At, HandlePage, Go, TypeOK, Request, Row
<1>9. CASE HandleCSRF(r)
  BY <1>9 DEF SessionInv, TokensOK, At, HandleCSRF, TypeOK, Request, Row
<1>10. CASE HandleLogout(r)
  BY <1>10 DEF SessionInv, TokensOK, At, HandleLogout, Deleted, Free, TypeOK, Request, Row
<1>11. CASE HandleLogoutFails(r)
  BY <1>11, SMTT(20) DEF SessionInv, TokensOK, At, HandleLogoutFails, Fault, TypeOK, Request, Row
<1>12. CASE SetImpersonation(r)
  BY <1>12 DEF SessionInv, TokensOK, At, SetImpersonation, Free, Go, Edge, TypeOK, Request,
         Row
<1>13. CASE SetImpersonationFails(r)
  BY <1>13 DEF SessionInv, TokensOK, At, SetImpersonationFails, Go, Fault, TypeOK, Request,
         Row
<1>14. CASE ClearProbe(r)
  BY <1>14 DEF SessionInv, TokensOK, At, ClearProbe, Free, LockFor, SomethingToClear, TypeOK,
         Request, Row
<1>15. CASE ClearNothing(r)
  BY <1>15 DEF SessionInv, TokensOK, At, ClearNothing, Go, TypeOK, Request, Row
<1>16. CASE ClearImpersonation(r)
  BY <1>16 DEF SessionInv, TokensOK, At, ClearImpersonation, Go, Edge, TypeOK, Request, Row
<1>17. CASE ClearFails(r)
  BY <1>17 DEF SessionInv, TokensOK, At, ClearFails, Go, Fault, TypeOK, Request, Row
<1>18. CASE Receive(r)
  BY <1>18 DEF SessionInv, TokensOK, At, Receive, CookieAfter, NoRequest, TypeOK, Request,
         Row
<1>19. CASE LoseAnswer(r)
  BY <1>19 DEF SessionInv, TokensOK, At, LoseAnswer, Fault, NoRequest, TypeOK, Request, Row
<1>. QED
  BY <1>1, <1>2, <1>3, <1>4, <1>5, <1>6, <1>7,
     <1>8, <1>9, <1>10, <1>11, <1>12, <1>13, <1>14, <1>15, <1>16, <1>17, <1>18, <1>19
     DEF Serve

\* A step that changes neither the cookie, nor the row's token, nor the tokens
\* under way keeps CookieOK.
LEMMA CookieUntouched ==
  ASSUME CookieOK, cookie' = cookie, missed' = missed,
         row'.token = row.token, row'.exists => row.exists, row'.expired = row.expired,
         \A j \in Requests : req'[j].new = req[j].new
  PROVE  CookieOK'
BY DEF CookieOK

\* A browser that holds a superseded cookie will get the row's own, or missed it.
LEMMA CookieKept ==
  ASSUME SessionInv, NEW r \in Requests, Serve(r) \/ Receive(r) \/ LoseAnswer(r)
  PROVE  CookieOK'
<1>1. CASE Validate(r)
  <2>1. \A j \in Requests : req'[j].new = req[j].new
    BY <1>1 DEF SessionInv, TypeOK, Request, Validate
  <2>2. row'.token = row.token /\ (row'.exists => row.exists) /\ row'.expired = row.expired
    BY <1>1 DEF SessionInv, TypeOK, Row, Validate
  <2>. QED
    BY <1>1, <2>1, <2>2, CookieUntouched DEF SessionInv, Validate
<1>2. CASE ValidateDue(r)
  <2>1. \A j \in Requests : req'[j].new = req[j].new
    BY <1>2 DEF SessionInv, TypeOK, Request, ValidateDue, Go
  <2>2. row'.token = row.token /\ (row'.exists => row.exists) /\ row'.expired = row.expired
    BY <1>2 DEF SessionInv, TypeOK, Row, ValidateDue
  <2>. QED
    BY <1>2, <2>1, <2>2, CookieUntouched DEF SessionInv, ValidateDue
<1>3. CASE Refuse(r)
  <2>1. \A j \in Requests : req'[j].new = req[j].new
    BY <1>3 DEF SessionInv, TypeOK, Request, Refuse, Go
  <2>2. row'.token = row.token /\ (row'.exists => row.exists) /\ row'.expired = row.expired
    BY <1>3 DEF SessionInv, TypeOK, Row, Refuse
  <2>. QED
    BY <1>3, <2>1, <2>2, CookieUntouched DEF SessionInv, Refuse
<1>4. CASE RotateSession(r)
  BY <1>4 DEF SessionInv, CookieOK, At, RotateSession, Swapped, StillCurrent, Free, TypeOK,
         TokensOK, Request, Row
<1>5. CASE RotateLost(r)
  <2>1. \A j \in Requests : req'[j].new = req[j].new
    BY <1>5 DEF SessionInv, TypeOK, Request, RotateLost
  <2>2. row'.token = row.token /\ (row'.exists => row.exists) /\ row'.expired = row.expired
    BY <1>5 DEF SessionInv, TypeOK, Row, RotateLost
  <2>. QED
    BY <1>5, <2>1, <2>2, CookieUntouched DEF SessionInv, RotateLost
<1>6. CASE ValidateFails(r)
  <2>1. \A j \in Requests : req'[j].new = req[j].new
    BY <1>6 DEF SessionInv, TypeOK, Request, ValidateFails
  <2>2. row'.token = row.token /\ (row'.exists => row.exists) /\ row'.expired = row.expired
    BY <1>6 DEF SessionInv, TypeOK, Row, ValidateFails
  <2>. QED
    BY <1>6, <2>1, <2>2, CookieUntouched DEF SessionInv, ValidateFails
<1>7. CASE RotateAckLost(r)
  BY <1>7 DEF SessionInv, CookieOK, At, RotateAckLost, Swapped, StillCurrent, Free, Fault,
         TypeOK, TokensOK, Request, Row
<1>8. CASE HandlePage(r)
  <2>1. \A j \in Requests : req'[j].new = req[j].new
    BY <1>8 DEF SessionInv, TypeOK, Request, HandlePage, Go
  <2>2. row'.token = row.token /\ (row'.exists => row.exists) /\ row'.expired = row.expired
    BY <1>8 DEF SessionInv, TypeOK, Row, HandlePage
  <2>. QED
    BY <1>8, <2>1, <2>2, CookieUntouched DEF SessionInv, HandlePage
<1>9. CASE HandleCSRF(r)
  BY <1>9 DEF SessionInv, CookieOK, At, HandleCSRF, TypeOK, TokensOK, Request, Row
<1>10. CASE HandleLogout(r)
  <2>1. \A j \in Requests : req'[j].new = req[j].new
    BY <1>10 DEF SessionInv, TypeOK, Request, HandleLogout
  <2>2. row'.token = row.token /\ (row'.exists => row.exists) /\ row'.expired = row.expired
    BY <1>10 DEF SessionInv, TypeOK, Row, HandleLogout, Deleted
  <2>. QED
    BY <1>10, <2>1, <2>2, CookieUntouched DEF SessionInv, HandleLogout
<1>11. CASE HandleLogoutFails(r)
  <2>1. \A j \in Requests : req'[j].new = req[j].new
    BY <1>11 DEF SessionInv, TypeOK, Request, HandleLogoutFails
  <2>2. row'.token = row.token /\ (row'.exists => row.exists) /\ row'.expired = row.expired
    BY <1>11 DEF SessionInv, TypeOK, Row, HandleLogoutFails
  <2>. QED
    BY <1>11, <2>1, <2>2, CookieUntouched DEF SessionInv, HandleLogoutFails
<1>12. CASE SetImpersonation(r)
  <2>1. \A j \in Requests : req'[j].new = req[j].new
    BY <1>12 DEF SessionInv, TypeOK, Request, SetImpersonation, Go
  <2>2. row'.token = row.token /\ (row'.exists => row.exists) /\ row'.expired = row.expired
    BY <1>12 DEF SessionInv, TypeOK, Row, SetImpersonation
  <2>. QED
    BY <1>12, <2>1, <2>2, CookieUntouched DEF SessionInv, SetImpersonation
<1>13. CASE SetImpersonationFails(r)
  <2>1. \A j \in Requests : req'[j].new = req[j].new
    BY <1>13 DEF SessionInv, TypeOK, Request, SetImpersonationFails, Go
  <2>2. row'.token = row.token /\ (row'.exists => row.exists) /\ row'.expired = row.expired
    BY <1>13 DEF SessionInv, TypeOK, Row, SetImpersonationFails
  <2>. QED
    BY <1>13, <2>1, <2>2, CookieUntouched DEF SessionInv, SetImpersonationFails
<1>14. CASE ClearProbe(r)
  <2>1. \A j \in Requests : req'[j].new = req[j].new
    BY <1>14 DEF SessionInv, TypeOK, Request, ClearProbe
  <2>2. row'.token = row.token /\ (row'.exists => row.exists) /\ row'.expired = row.expired
    BY <1>14 DEF SessionInv, TypeOK, Row, ClearProbe
  <2>. QED
    BY <1>14, <2>1, <2>2, CookieUntouched DEF SessionInv, ClearProbe
<1>15. CASE ClearNothing(r)
  <2>1. \A j \in Requests : req'[j].new = req[j].new
    BY <1>15 DEF SessionInv, TypeOK, Request, ClearNothing, Go
  <2>2. row'.token = row.token /\ (row'.exists => row.exists) /\ row'.expired = row.expired
    BY <1>15 DEF SessionInv, TypeOK, Row, ClearNothing
  <2>. QED
    BY <1>15, <2>1, <2>2, CookieUntouched DEF SessionInv, ClearNothing
<1>16. CASE ClearImpersonation(r)
  <2>1. \A j \in Requests : req'[j].new = req[j].new
    BY <1>16 DEF SessionInv, TypeOK, Request, ClearImpersonation, Go
  <2>2. row'.token = row.token /\ (row'.exists => row.exists) /\ row'.expired = row.expired
    BY <1>16 DEF SessionInv, TypeOK, Row, ClearImpersonation
  <2>. QED
    BY <1>16, <2>1, <2>2, CookieUntouched DEF SessionInv, ClearImpersonation
<1>17. CASE ClearFails(r)
  <2>1. \A j \in Requests : req'[j].new = req[j].new
    BY <1>17 DEF SessionInv, TypeOK, Request, ClearFails, Go
  <2>2. row'.token = row.token /\ (row'.exists => row.exists) /\ row'.expired = row.expired
    BY <1>17 DEF SessionInv, TypeOK, Row, ClearFails
  <2>. QED
    BY <1>17, <2>1, <2>2, CookieUntouched DEF SessionInv, ClearFails
<1>18. CASE Receive(r)
  BY <1>18 DEF SessionInv, CookieOK, At, Receive, CookieAfter, NoRequest, TypeOK, TokensOK,
         Request, Row
<1>19. CASE LoseAnswer(r)
  BY <1>19 DEF SessionInv, CookieOK, At, LoseAnswer, Fault, NoRequest, TypeOK, TokensOK,
         Request, Row
<1>. QED
  BY <1>1, <1>2, <1>3, <1>4, <1>5, <1>6, <1>7,
     <1>8, <1>9, <1>10, <1>11, <1>12, <1>13, <1>14, <1>15, <1>16, <1>17, <1>18, <1>19
     DEF Serve

\* A rotation parks the token that good requests carry: a due row had no other parked.
LEMMA InFlightKept ==
  ASSUME SessionInv, NEW r \in Requests, Serve(r) \/ Receive(r) \/ LoseAnswer(r)
  PROVE  InFlightOK'
<1>1. CASE Validate(r)
  BY <1>1 DEF SessionInv, InFlightOK, At, Validate, TypeOK, TokensOK, Request, Row, Found
<1>2. CASE ValidateDue(r)
  BY <1>2 DEF SessionInv, InFlightOK, At, ValidateDue, Go, TypeOK, TokensOK, Request, Row,
         Found
<1>3. CASE Refuse(r)
  BY <1>3 DEF SessionInv, InFlightOK, At, Refuse, Go, TypeOK, TokensOK, Request, Row, Found
<1>4. CASE RotateSession(r)
  BY <1>4 DEF SessionInv, InFlightOK, At, RotateSession, Swapped, StillCurrent, Free,
         TypeOK, TokensOK, Request, Row, Found
<1>5. CASE RotateLost(r)
  BY <1>5 DEF SessionInv, InFlightOK, At, RotateLost, StillCurrent, TypeOK, TokensOK,
         Request, Row, Found
<1>6. CASE ValidateFails(r)
  BY <1>6 DEF SessionInv, InFlightOK, At, ValidateFails, Fault, TypeOK, TokensOK, Request,
         Row, Found
<1>7. CASE RotateAckLost(r)
  BY <1>7 DEF SessionInv, InFlightOK, At, RotateAckLost, Swapped, StillCurrent, Free, Fault,
         TypeOK, TokensOK, Request, Row, Found
<1>8. CASE HandlePage(r)
  BY <1>8 DEF SessionInv, InFlightOK, At, HandlePage, Go, TypeOK, TokensOK, Request, Row,
         Found
<1>9. CASE HandleCSRF(r)
  BY <1>9 DEF SessionInv, InFlightOK, At, HandleCSRF, TypeOK, TokensOK, Request, Row, Found
<1>10. CASE HandleLogout(r)
  BY <1>10 DEF SessionInv, InFlightOK, At, HandleLogout, Deleted, Free, TypeOK, TokensOK,
         Request, Row, Found
<1>11. CASE HandleLogoutFails(r)
  BY <1>11 DEF SessionInv, InFlightOK, At, HandleLogoutFails, Fault, TypeOK, TokensOK,
         Request, Row, Found
<1>12. CASE SetImpersonation(r)
  BY <1>12 DEF SessionInv, InFlightOK, At, SetImpersonation, Free, Go, Edge, TypeOK,
         TokensOK, Request, Row, Found
<1>13. CASE SetImpersonationFails(r)
  BY <1>13 DEF SessionInv, InFlightOK, At, SetImpersonationFails, Go, Fault, TypeOK,
         TokensOK, Request, Row, Found
<1>14. CASE ClearProbe(r)
  BY <1>14 DEF SessionInv, InFlightOK, At, ClearProbe, Free, LockFor, SomethingToClear,
         TypeOK, TokensOK, Request, Row, Found
<1>15. CASE ClearNothing(r)
  BY <1>15 DEF SessionInv, InFlightOK, At, ClearNothing, Go, TypeOK, TokensOK, Request, Row,
         Found
<1>16. CASE ClearImpersonation(r)
  BY <1>16 DEF SessionInv, InFlightOK, At, ClearImpersonation, Go, Edge, TypeOK, TokensOK,
         Request, Row, Found
<1>17. CASE ClearFails(r)
  BY <1>17 DEF SessionInv, InFlightOK, At, ClearFails, Go, Fault, TypeOK, TokensOK, Request,
         Row, Found
<1>18. CASE Receive(r)
  BY <1>18 DEF SessionInv, InFlightOK, At, Receive, CookieAfter, NoRequest, TypeOK, TokensOK,
         Request, Row, Found
<1>19. CASE LoseAnswer(r)
  BY <1>19 DEF SessionInv, InFlightOK, At, LoseAnswer, Fault, NoRequest, TypeOK, TokensOK,
         Request, Row, Found
<1>. QED
  BY <1>1, <1>2, <1>3, <1>4, <1>5, <1>6, <1>7,
     <1>8, <1>9, <1>10, <1>11, <1>12, <1>13, <1>14, <1>15, <1>16, <1>17, <1>18, <1>19
     DEF Serve

\* Whoever writes the row finds it unlocked, or locked it.
LEMMA LockKept ==
  ASSUME SessionInv, NEW r \in Requests, Serve(r) \/ Receive(r) \/ LoseAnswer(r)
  PROVE  LockOK'
<1>1. CASE Validate(r)
  BY <1>1 DEF SessionInv, LockOK, At, Validate, TypeOK, Request, Row
<1>2. CASE ValidateDue(r)
  BY <1>2 DEF SessionInv, LockOK, At, ValidateDue, Go, TypeOK, Request, Row
<1>3. CASE Refuse(r)
  BY <1>3 DEF SessionInv, LockOK, At, Refuse, Go, TypeOK, Request, Row
<1>4. CASE RotateSession(r)
  BY <1>4 DEF SessionInv, LockOK, At, RotateSession, Swapped, StillCurrent, Free, TypeOK,
         Request, Row
<1>5. CASE RotateLost(r)
  BY <1>5 DEF SessionInv, LockOK, At, RotateLost, StillCurrent, TypeOK, Request, Row
<1>6. CASE ValidateFails(r)
  BY <1>6, SMTT(20) DEF SessionInv, LockOK, At, ValidateFails, Fault, TypeOK, Request, Row
<1>7. CASE RotateAckLost(r)
  BY <1>7 DEF SessionInv, LockOK, At, RotateAckLost, Swapped, StillCurrent, Free, Fault,
         TypeOK, Request, Row
<1>8. CASE HandlePage(r)
  BY <1>8 DEF SessionInv, LockOK, At, HandlePage, Go, TypeOK, Request, Row
<1>9. CASE HandleCSRF(r)
  BY <1>9 DEF SessionInv, LockOK, At, HandleCSRF, TypeOK, Request, Row
<1>10. CASE HandleLogout(r)
  BY <1>10 DEF SessionInv, LockOK, At, HandleLogout, Deleted, Free, TypeOK, Request, Row
<1>11. CASE HandleLogoutFails(r)
  BY <1>11 DEF SessionInv, LockOK, At, HandleLogoutFails, Fault, TypeOK, Request, Row
<1>12. CASE SetImpersonation(r)
  BY <1>12 DEF SessionInv, LockOK, At, SetImpersonation, Free, Go, Edge, TypeOK, Request, Row
<1>13. CASE SetImpersonationFails(r)
  BY <1>13 DEF SessionInv, LockOK, At, SetImpersonationFails, Go, Fault, TypeOK, Request, Row
<1>14. CASE ClearProbe(r)
  BY <1>14 DEF SessionInv, LockOK, At, ClearProbe, Free, LockFor, SomethingToClear, TypeOK,
         Request, Row
<1>15. CASE ClearNothing(r)
  BY <1>15 DEF SessionInv, LockOK, At, ClearNothing, Go, TypeOK, Request, Row
<1>16. CASE ClearImpersonation(r)
  BY <1>16 DEF SessionInv, LockOK, At, ClearImpersonation, Go, Edge, TypeOK, Request, Row
<1>17. CASE ClearFails(r)
  BY <1>17 DEF SessionInv, LockOK, At, ClearFails, Go, Fault, TypeOK, Request, Row
<1>18. CASE Receive(r)
  BY <1>18 DEF SessionInv, LockOK, At, Receive, CookieAfter, NoRequest, TypeOK, Request, Row
<1>19. CASE LoseAnswer(r)
  BY <1>19 DEF SessionInv, LockOK, At, LoseAnswer, Fault, NoRequest, TypeOK, Request, Row
<1>. QED
  BY <1>1, <1>2, <1>3, <1>4, <1>5, <1>6, <1>7,
     <1>8, <1>9, <1>10, <1>11, <1>12, <1>13, <1>14, <1>15, <1>16, <1>17, <1>18, <1>19
     DEF Serve

\* The locked row keeps the tenant until the audit row names it.
LEMMA AuditKept ==
  ASSUME SessionInv, NEW r \in Requests, Serve(r) \/ Receive(r) \/ LoseAnswer(r)
  PROVE  AuditNamesTenant'
<1>1. CASE Validate(r)
  BY <1>1 DEF SessionInv, AuditNamesTenant, At, Validate, TypeOK, Request, Row, LockOK,
         Entry
<1>2. CASE ValidateDue(r)
  BY <1>2 DEF SessionInv, AuditNamesTenant, At, ValidateDue, Go, TypeOK, Request, Row,
         LockOK, Entry
<1>3. CASE Refuse(r)
  BY <1>3 DEF SessionInv, AuditNamesTenant, At, Refuse, Go, TypeOK, Request, Row, LockOK,
         Entry
<1>4. CASE RotateSession(r)
  BY <1>4 DEF SessionInv, AuditNamesTenant, At, RotateSession, Swapped, StillCurrent, Free,
         TypeOK, Request, Row, LockOK, Entry
<1>5. CASE RotateLost(r)
  BY <1>5 DEF SessionInv, AuditNamesTenant, At, RotateLost, StillCurrent, TypeOK, Request,
         Row, LockOK, Entry
<1>6. CASE ValidateFails(r)
  BY <1>6 DEF SessionInv, AuditNamesTenant, At, ValidateFails, Fault, TypeOK, Request, Row,
         LockOK, Entry
<1>7. CASE RotateAckLost(r)
  BY <1>7 DEF SessionInv, AuditNamesTenant, At, RotateAckLost, Swapped, StillCurrent, Free,
         Fault, TypeOK, Request, Row, LockOK, Entry
<1>8. CASE HandlePage(r)
  BY <1>8 DEF SessionInv, AuditNamesTenant, At, HandlePage, Go, TypeOK, Request, Row,
         LockOK, Entry
<1>9. CASE HandleCSRF(r)
  BY <1>9 DEF SessionInv, AuditNamesTenant, At, HandleCSRF, TypeOK, Request, Row, LockOK,
         Entry
<1>10. CASE HandleLogout(r)
  BY <1>10 DEF SessionInv, AuditNamesTenant, At, HandleLogout, Deleted, Free, TypeOK,
         Request, Row, LockOK, Entry
<1>11. CASE HandleLogoutFails(r)
  BY <1>11 DEF SessionInv, AuditNamesTenant, At, HandleLogoutFails, Fault, TypeOK, Request,
         Row, LockOK, Entry
<1>12. CASE SetImpersonation(r)
  <2>1. /\ audit' = Append(audit, [action |-> "set", tenant |-> req[r].tenant])
        /\ row'.imp = req[r].tenant /\ audit \in Seq(Entry)
        /\ req[r].tenant \in Tenants \cup {NoTenant}
    BY <1>12 DEF SessionInv, TypeOK, Request, Row, SetImpersonation, Edge
  <2>2. /\ Len(audit') = Len(audit) + 1
        /\ audit'[Len(audit) + 1] = [action |-> "set", tenant |-> req[r].tenant]
        /\ \A i \in 1..Len(audit) : audit'[i] = audit[i]
    BY <2>1
  <2>. QED
    BY <2>1, <2>2 DEF SessionInv, AuditNamesTenant
<1>13. CASE SetImpersonationFails(r)
  BY <1>13 DEF SessionInv, AuditNamesTenant, At, SetImpersonationFails, Go, Fault, TypeOK,
         Request, Row, LockOK, Entry
<1>14. CASE ClearProbe(r)
  BY <1>14 DEF SessionInv, AuditNamesTenant, At, ClearProbe, Free, LockFor, SomethingToClear,
         TypeOK, Request, Row, LockOK, Entry
<1>15. CASE ClearNothing(r)
  BY <1>15 DEF SessionInv, AuditNamesTenant, At, ClearNothing, Go, TypeOK, Request, Row,
         LockOK, Entry
<1>16. CASE ClearImpersonation(r)
  <2>1. /\ audit \in Seq(Entry) /\ row.imp # NoTenant /\ req[r].tenant = row.imp
        /\ row \in Row
    BY <1>16 DEF SessionInv, TypeOK, LockOK, ClearImpersonation
  <2>2. /\ Len(audit) > 0
        /\ audit[Len(audit)].action = "set" /\ audit[Len(audit)].tenant = row.imp
    BY <2>1 DEF SessionInv, AuditNamesTenant
  <2>3. audit[Len(audit)] = [action |-> "set", tenant |-> row.imp]
    <3>1. audit[Len(audit)] \in Entry
      BY <2>1, <2>2
    <3>. QED
      BY <3>1, <2>2 DEF Entry
  <2>4. audit' = Append(audit, [action |-> "clear", tenant |-> row.imp]) /\ row'.imp = NoTenant
    BY <1>16, <2>1 DEF ClearImpersonation, Edge, Row
  <2>5. /\ Len(audit') = Len(audit) + 1
        /\ audit'[Len(audit) + 1] = [action |-> "clear", tenant |-> row.imp]
        /\ \A i \in 1..Len(audit) : audit'[i] = audit[i]
    BY <2>1, <2>4
  <2>6. \A i \in 1..Len(audit') : audit'[i].action = "clear" =>
          i > 1 /\ audit'[i - 1] = [action |-> "set", tenant |-> audit'[i].tenant]
    <3>1. ASSUME NEW i \in 1..Len(audit'), audit'[i].action = "clear"
          PROVE  i > 1 /\ audit'[i - 1] = [action |-> "set", tenant |-> audit'[i].tenant]
      <4>1. CASE i = Len(audit) + 1
        BY <4>1, <2>1, <2>2, <2>3, <2>5
      <4>2. CASE i \in 1..Len(audit)
        <5>1. i > 1 /\ audit[i - 1] = [action |-> "set", tenant |-> audit[i].tenant]
          BY <3>1, <4>2, <2>5 DEF SessionInv, AuditNamesTenant
        <5>. QED
          BY <5>1, <4>2, <2>1, <2>5
      <4>. QED
        BY <4>1, <4>2, <2>1, <2>5
    <3>. QED
      BY <3>1
  <2>. QED
    BY <2>1, <2>4, <2>5, <2>6 DEF AuditNamesTenant
<1>17. CASE ClearFails(r)
  BY <1>17 DEF SessionInv, AuditNamesTenant, At, ClearFails, Go, Fault, TypeOK, Request, Row,
         LockOK, Entry
<1>18. CASE Receive(r)
  BY <1>18 DEF SessionInv, AuditNamesTenant, At, Receive, CookieAfter, NoRequest, TypeOK,
         Request, Row, LockOK, Entry
<1>19. CASE LoseAnswer(r)
  BY <1>19 DEF SessionInv, AuditNamesTenant, At, LoseAnswer, Fault, NoRequest, TypeOK,
         Request, Row, LockOK, Entry
<1>. QED
  BY <1>1, <1>2, <1>3, <1>4, <1>5, <1>6, <1>7,
     <1>8, <1>9, <1>10, <1>11, <1>12, <1>13, <1>14, <1>15, <1>16, <1>17, <1>18, <1>19
     DEF Serve

-----------------------------------------------------------------------------
(* The other steps.                                                         *)

\* A request leaves with the cookie the browser has now.
LEMMA SendKeeps ==
  ASSUME SessionInv, NEW r \in Requests, NEW kind \in Kinds,
         NEW tenant \in Tenants \cup {NoTenant}, Send(r, kind, tenant)
  PROVE  SessionInv'
<1> DEFINE q == [NoRequest EXCEPT !.kind = kind, !.pc = "sent", !.token = cookie,
                                  !.tenant = tenant, !.good = Valid(cookie)]
<1>1. /\ q \in Request /\ q.pc = "sent" /\ q.token = cookie /\ q.new = 0 /\ q.good = Valid(cookie)
  <2>1. cookie \in Nat /\ Valid(cookie) \in BOOLEAN
    BY DEF SessionInv, TypeOK, Row, Valid, Found
  <2>. QED
    BY <2>1 DEF NoRequest, Request, Places
<1>2. req' = [req EXCEPT ![r] = q]
  BY DEF Send
<1>. HIDE DEF q
<1>3. /\ req' \in [Requests -> Request]
      /\ req'[r] = q /\ \A j \in Requests : j # r => req'[j] = req[j]
  BY <1>1, <1>2, PutTyped DEF SessionInv, TypeOK
<1>4. TypeOK'
  BY <1>3 DEF SessionInv, TypeOK, Send
<1>5. TokensOK'
  BY <1>1, <1>3 DEF SessionInv, TokensOK, Send, At
<1>6. CookieOK'
  <2>1. req[r].new = 0
    BY DEF SessionInv, TypeOK, TokensOK, Send, Request
  <2>. QED
    BY <1>1, <1>3, <2>1 DEF SessionInv, CookieOK, TokensOK, Send, At
<1>7. InFlightOK'
  BY <1>1, <1>3 DEF SessionInv, InFlightOK, Send, At, Valid, Found
<1>8. LockOK'
  BY <1>1, <1>3 DEF SessionInv, LockOK, Send, At
<1>9. AuditNamesTenant'
  BY DEF SessionInv, AuditNamesTenant, Send
<1>. QED
  BY <1>4, <1>5, <1>6, <1>7, <1>8, <1>9 DEF SessionInv

\* The clock: a row falls due only when no answer carries a token, and what is
\* on its way when the grace time ends is late.
LEMMA ClockKeeps ==
  ASSUME SessionInv, RotationDue \/ GraceEnds \/ SessionExpires
  PROVE  SessionInv'
<1>1. CASE RotationDue
  BY <1>1 DEF SessionInv, RotationDue, TypeOK, TokensOK, CookieOK, InFlightOK, LockOK,
              AuditNamesTenant, Row, At, Found
<1>2. CASE GraceEnds
  <2>1. /\ req' \in [Requests -> Request]
        /\ \A j \in Requests : /\ req'[j].pc = req[j].pc /\ req'[j].token = req[j].token
                               /\ req'[j].new = req[j].new /\ req'[j].tenant = req[j].tenant
                               /\ req'[j].good = req[j].good
                               /\ At(j, "sent") => req'[j].late
    BY <1>2, ZenonT(40) DEF SessionInv, TypeOK, GraceEnds, Request, At
  <2>2. /\ row' \in Row /\ row'.token = row.token /\ row'.exists = row.exists
        /\ row'.due = row.due /\ ~row'.fresh /\ row'.expired = row.expired /\ row'.imp = row.imp
    BY <1>2 DEF SessionInv, TypeOK, GraceEnds, Row
  <2>3. TypeOK'
    BY <1>2, <2>1, <2>2 DEF SessionInv, TypeOK, GraceEnds
  <2>4. TokensOK'
    BY <1>2, <2>1, <2>2 DEF SessionInv, TokensOK, GraceEnds, At
  <2>5. CookieOK'
    BY <1>2, <2>1, <2>2, CookieUntouched DEF SessionInv, GraceEnds
  <2>6. InFlightOK' /\ LockOK'
    BY <1>2, <2>1, <2>2 DEF SessionInv, InFlightOK, LockOK, GraceEnds, At
  <2>7. AuditNamesTenant'
    BY <1>2, <2>2 DEF SessionInv, AuditNamesTenant, GraceEnds
  <2>. QED
    BY <2>3, <2>4, <2>5, <2>6, <2>7 DEF SessionInv
<1>3. CASE SessionExpires
  BY <1>3 DEF SessionInv, SessionExpires, TypeOK, TokensOK, CookieOK, InFlightOK, LockOK,
              AuditNamesTenant, Row, At, Found
<1>. QED
  BY <1>1, <1>2, <1>3

\* Every step keeps the invariant.
LEMMA NextKeeps ==
  ASSUME SessionInv, [Next]_vars
  PROVE  SessionInv'
<1>1. CASE \E r \in Requests : Serve(r) \/ Receive(r) \/ LoseAnswer(r)
  BY <1>1, TypesKept, TokensKept, CookieKept, InFlightKept, LockKept, AuditKept DEF SessionInv
<1>2. CASE \E r \in Requests, kind \in Kinds, tenant \in Tenants \cup {NoTenant} :
             Send(r, kind, tenant)
  BY <1>2, SendKeeps
<1>3. CASE RotationDue \/ GraceEnds \/ SessionExpires
  BY <1>3, ClockKeeps
<1>4. CASE UNCHANGED vars
  BY <1>4 DEF vars, SessionInv, TypeOK, TokensOK, CookieOK, InFlightOK, LockOK,
              AuditNamesTenant, At, Found
<1>. QED
  BY <1>1, <1>2, <1>3, <1>4 DEF Next

\* The session that a login has just stored.
LEMMA InitKeeps ==
  ASSUME Init
  PROVE  SessionInv
<1>1. TypeOK
  BY NoRequestTyped DEF Init, TypeOK, Row
<1>2. TokensOK /\ CookieOK /\ InFlightOK /\ LockOK /\ AuditNamesTenant
  BY DEF Init, TokensOK, CookieOK, InFlightOK, LockOK, AuditNamesTenant, NoRequest, At, Found
<1>. QED
  BY <1>1, <1>2 DEF SessionInv

-----------------------------------------------------------------------------
(* The theorems.                                                            *)

\* The invariant holds throughout (rotateSession, SetImpersonation, ClearImpersonation).
THEOREM SessionInvariant == Spec => []SessionInv
<1>1. Init => SessionInv
  BY InitKeeps
<1>2. SessionInv /\ [Next]_vars => SessionInv'
  BY NextKeeps
<1>. QED
  BY <1>1, <1>2, PTL DEF Spec

\* Rotation never strands a browser (rotateSession): while the session lives,
\* the cookie is accepted, or the one that is has an answer under way, or its
\* answer was lost.
THEOREM CookieStaysAlive == Spec => []CookieLives
<1>1. SessionInv => CookieLives
  BY DEF SessionInv, CookieOK, CookieLives, Found
<1>. QED
  BY <1>1, SessionInvariant, PTL

\* The impersonation audit tells which tenant the session acts for, and a clear
\* names the tenant that was set before it (SetImpersonation, ClearImpersonation).
THEOREM AuditTellsTenant == Spec => []AuditNamesTenant
<1>1. SessionInv => AuditNamesTenant
  BY DEF SessionInv
<1>. QED
  BY <1>1, SessionInvariant, PTL

\* A step that takes a good request to its handler without a session found the
\* row gone or expired, or the request late.
LEMMA GoodAccepted ==
  ASSUME SessionInv, [Next]_vars, NEW r \in Requests,
         At(r, "sent"), req'[r].pc = "handle", ~req'[r].session, req[r].good
  PROVE  ~row.exists \/ row.expired \/ req'[r].late
<1>. req \in [Requests -> Request]
  BY DEF SessionInv, TypeOK
<1>1. CASE Refuse(r)
  BY <1>1 DEF Refuse, Go, SessionInv, InFlightOK, Valid, At, Request
<1>2. CASE ValidateFails(r)
  BY <1>2 DEF ValidateFails, Request
<1>3. CASE Validate(r)
  BY <1>3 DEF Validate, Request
<1>4. CASE req'[r] = req[r]
  BY <1>4 DEF At
<1>. QED
  <2>1. ASSUME NEW s \in Requests, Serve(s) \/ Receive(s) \/ LoseAnswer(s)
        PROVE  ~row.exists \/ row.expired \/ req'[r].late
    <3>1. CASE s # r
      <4>1. req'[r] = req[r]
        BY <2>1, <3>1 DEF Serve, Receive, LoseAnswer, Validate, ValidateDue, Refuse, RotateSession, RotateLost, ValidateFails, RotateAckLost, HandlePage, HandleCSRF, HandleLogout, HandleLogoutFails, SetImpersonation, SetImpersonationFails, ClearProbe, ClearNothing, ClearImpersonation, ClearFails, Go
      <4>. QED
        BY <4>1, <1>4
    <3>2. CASE s = r
      <4>1. Refuse(r) \/ ValidateFails(r) \/ Validate(r) \/ ValidateDue(r)
        BY <2>1, <3>2 DEF At, Serve, Receive, LoseAnswer, RotateSession, RotateLost, RotateAckLost, HandlePage, HandleCSRF, HandleLogout, HandleLogoutFails, SetImpersonation, SetImpersonationFails, ClearProbe, ClearNothing, ClearImpersonation, ClearFails
      <4>2. ~ValidateDue(r)
        BY DEF ValidateDue, Go, Request
      <4>. QED
        BY <4>1, <4>2, <1>1, <1>2, <1>3
    <3>. QED
      BY <3>1, <3>2
  <2>2. ASSUME NEW s \in Requests, NEW kind \in Kinds, NEW tenant \in Tenants \cup {NoTenant},
               Send(s, kind, tenant)
        PROVE  ~row.exists \/ row.expired \/ req'[r].late
    <3>1. s # r
      BY <2>2 DEF Send, At
    <3>. QED
      BY <2>2, <3>1, <1>4 DEF Send
  <2>3. CASE RotationDue \/ SessionExpires \/ UNCHANGED vars
    BY <2>3, <1>4 DEF RotationDue, SessionExpires, vars
  <2>4. CASE GraceEnds
    BY <2>4 DEF GraceEnds, At, Request
  <2>. QED
    BY <2>1, <2>2, <2>3, <2>4 DEF Next

\* A request whose cookie was good when it left is refused only when the session
\* has ended, or the request took longer than the grace time or met a failed
\* transaction (ValidateSession, sessionRotationGrace).
THEOREM GoodRequestsAccepted == Spec => InFlightAccepted
<1>1. SessionInv /\ [Next]_vars =>
        [\A r \in Requests :
           At(r, "sent") /\ req'[r].pc = "handle" /\ ~req'[r].session /\ req[r].good =>
               ~row.exists \/ row.expired \/ req'[r].late]_vars
  BY GoodAccepted
<1>. QED
  BY <1>1, SessionInvariant, PTL DEF Spec, InFlightAccepted
=============================================================================
