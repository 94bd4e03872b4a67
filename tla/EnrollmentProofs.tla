-------------------------- MODULE EnrollmentProofs ---------------------------
(***************************************************************************)
(* Proofs about Enrollment for any keys, codes, tenants, users and calls,   *)
(* and any bounds.                                                          *)
(***************************************************************************)
EXTENDS Enrollment, TLAPS

\* The calls, by the handler's next step.
InsertCall == [op : {"insert"}, key : Keys, token : Tokens, by : {"unit", "other"}]
MarkCall   == [op : {"mark"}, key : Keys, token : Tokens]
ClaimCall  == [op : {"claim"}, key : Keys, user : Users]
LookupCall == [op : {"lookup"}, key : Keys, tenant : Tenants, heard : BOOLEAN]
IssueCall  == [op : {"issue"}, key : Keys, tenant : Tenants, heard : BOOLEAN, pk : Nat]
ReplyCall  == [op : {"reply"}, key : Keys, serial : Serials, heard : BOOLEAN]
OwnerCall  == [op : {"ownerLock", "ownerRevoke"}, tenant : Tenants, pk : Nat]
OwnerReset == [op : {"ownerReset"}, tenant : Tenants, pk : Nat, locked : SUBSET Keys]
RevokeCall == [op : {"revoke"}, tenant : Tenants, pk : Nat, delete : BOOLEAN]
DeleteCall == [op : {"delete"}, tenant : Tenants, pk : Nat]
LockCall   == [op : {"lock"}, tenant : Tenants]
ResetCall  == [op : {"reset"}, tenant : Tenants, locked : SUBSET Keys]

Call == {Idle} \cup InsertCall \cup MarkCall \cup ClaimCall \cup LookupCall \cup IssueCall
        \cup ReplyCall \cup OwnerCall \cup OwnerReset \cup RevokeCall \cup DeleteCall
        \cup LockCall \cup ResetCall

TypeOK ==
  /\ enrollments \in [Keys -> EnrollmentRow \cup {None}]
  /\ devices \in [Tenants -> Device \cup {None}]
  /\ certs \in [Serials -> Certificate \cup {None}]
  /\ tombstones \in [Serials -> Keys \cup {None}]
  /\ units \in [Keys -> Nat]
  /\ calls \in [Calls -> Call]
  /\ clock \in Nat /\ nextPk \in Nat /\ nextSerial \in Nat \ {0}

\* A serial that was not handed out yet has neither certificate nor tombstone.
SerialsOK ==
  \A s \in Serials : s >= nextSerial => certs[s] = None /\ tombstones[s] = None

\* Somebody of tenant t typed a code of the unit that owns key k.
Authorised(t, k) == \E token \in UnitTokens[k] : <<t, token>> \in presented

\* What was proved carries a code of the unit, and what was claimed, or is about
\* to be issued, was authorised by one.
RowOK(k) ==
  LET row == enrollments[k] IN
  row # None => /\ row.challenge = "unit" \/ row.verifiedAt > 0 => row.token \in UnitTokens[k]
                /\ row.claimedBy # None => Authorised(row.claimedBy, k)

CallOK(call) ==
  /\ call.op = "insert" /\ call.by = "unit" => call.token \in UnitTokens[call.key]
  /\ call.op = "mark" => call.token \in UnitTokens[call.key]
  /\ call.op = "claim" => Authorised(UserTenant[call.user], call.key)
  /\ call.op \in {"lookup", "issue"} => Authorised(call.tenant, call.key)

CodesOK ==
  /\ \A k \in Keys : RowOK(k)
  /\ \A c \in Calls : CallOK(calls[c])
  /\ CertFollowsCode

EnrollmentInv == TypeOK /\ SerialsOK /\ CodesOK /\ OrphanHasCause

USE EnrollmentAssumption, NoneIsNoRow

-----------------------------------------------------------------------------
(* The shapes of a step.                                                    *)

\* The next state's calls are calls, and carry what they have to.
CallsGoOn ==
  /\ calls' \in [Calls -> Call]
  /\ \A d \in Calls : CallOK(calls[d])'

\* Whoever still owes a tenant its reset goes on owing it, or gave it up.
KeepsDebts ==
  /\ cutOff \subseteq cutOff'
  /\ \A d \in Calls : calls[d].op \in {"lock", "reset"} =>
        \/ calls'[d].op \in {"lock", "reset"} /\ calls'[d].tenant = calls[d].tenant
        \/ calls[d].tenant \in cutOff'

\* A call reads, or fails, and writes no table.
Quiet ==
  /\ CallsGoOn /\ KeepsDebts
  /\ UNCHANGED <<enrollments, store, clock>>
  /\ units' \in [Keys -> Nat] /\ presented \subseteq presented'

\* Enrollment rows change and no other table does.  A claim that is there
\* afterwards was there before, and no debt of a live claim is forgotten.
Rewrites ==
  /\ enrollments' \in [Keys -> EnrollmentRow \cup {None}]
  /\ \A k \in Keys : RowOK(k)'
  /\ \A k \in Keys : enrollments'[k] # None /\ enrollments'[k].claimedBy # None =>
        /\ enrollments[k] # None /\ enrollments[k].claimedBy = enrollments'[k].claimedBy
        /\ enrollments[k].delivered => enrollments'[k].delivered
  /\ CallsGoOn
  /\ cutOff' = cutOff
  /\ \A d \in Calls : calls[d].op \in {"lock", "reset"} =>
        \/ calls'[d] = calls[d]
        \/ \A k \in Keys : enrollments'[k] # None =>
              enrollments'[k].claimedBy # calls[d].tenant
  /\ UNCHANGED <<store, units, presented>> /\ clock' \in Nat

\* What a call waits for says which call it is.
LEMMA CallKinds ==
  ASSUME NEW x \in Call
  PROVE  /\ x.op = "insert" => x \in InsertCall
         /\ x.op = "mark" => x \in MarkCall
         /\ x.op = "claim" => x \in ClaimCall
         /\ x.op = "lookup" => x \in LookupCall
         /\ x.op = "issue" => x \in IssueCall
         /\ x.op = "reply" => x \in ReplyCall
         /\ x.op \in {"ownerLock", "ownerRevoke"} => x \in OwnerCall
         /\ x.op = "ownerReset" => x \in OwnerReset
         /\ x.op = "revoke" => x \in RevokeCall
         /\ x.op = "delete" => x \in DeleteCall
         /\ x.op = "lock" => x \in LockCall
         /\ x.op = "reset" => x \in ResetCall
BY DEF Call, InsertCall, MarkCall, ClaimCall, LookupCall, IssueCall, ReplyCall, OwnerCall,
       OwnerReset, RevokeCall, DeleteCall, LockCall, ResetCall, Idle

\* A call that becomes another one.
LEMMA CallBecomes ==
  ASSUME EnrollmentInv, NEW c \in Calls, NEW x, Go(c, x)
  PROVE  /\ calls'[c] = x /\ \A d \in Calls : d # c => calls'[d] = calls[d]
         /\ x \in Call => calls' \in [Calls -> Call]
BY DEF EnrollmentInv, TypeOK, Go

\* A pair that was typed in stays typed in.
LEMMA OthersGoOn ==
  ASSUME EnrollmentInv, NEW c \in Calls, NEW x \in Call, Go(c, x), CallOK(x)',
         presented \subseteq presented'
  PROVE  CallsGoOn
<1>1. /\ calls'[c] = x /\ \A d \in Calls : d # c => calls'[d] = calls[d]
      /\ calls' \in [Calls -> Call]
  BY CallBecomes
<1>2. \A d \in Calls \ {c} : CallOK(calls[d]) => CallOK(calls[d])'
  BY <1>1 DEF CallOK, Authorised
<1>3. CallOK(calls[c])'
  BY <1>1 DEF CallOK, Authorised
<1>. QED
  BY <1>1, <1>2, <1>3 DEF CallsGoOn, EnrollmentInv, CodesOK

\* In particular a call that carries what it has to before the step.
LEMMA OneGoesOn ==
  ASSUME EnrollmentInv, NEW c \in Calls, NEW x \in Call, Go(c, x), CallOK(x),
         presented \subseteq presented'
  PROVE  CallsGoOn
<1>1. CallOK(x)'
  BY DEF CallOK, Authorised
<1>. QED
  BY <1>1, OthersGoOn

\* A free slot carries nothing.
LEMMA IdleOK == Idle \in Call /\ CallOK(Idle) /\ CallOK(Idle)' /\ Idle.op = "idle"
BY DEF Idle, Call, CallOK

\* No other call is touched, so only the one that moves could drop a debt.
LEMMA DebtsKept ==
  ASSUME EnrollmentInv, NEW c \in Calls, NEW x, Go(c, x), cutOff \subseteq cutOff',
         calls[c].op \in {"lock", "reset"} =>
            \/ x.op \in {"lock", "reset"} /\ x.tenant = calls[c].tenant
            \/ calls[c].tenant \in cutOff'
  PROVE  KeepsDebts
BY CallBecomes DEF KeepsDebts

-----------------------------------------------------------------------------
(* The steps that read, or fail.                                            *)

\* A request comes in, or a handler goes on to its next transaction.
LEMMA QuietGoes ==
  ASSUME EnrollmentInv, NEW c \in Calls, NEW x \in Call, Go(c, x), CallOK(x),
         calls[c].op \in {"lock", "reset"} =>
            x.op \in {"lock", "reset"} /\ x.tenant = calls[c].tenant,
         UNCHANGED <<rows, store, units, clock, cutOff>>
  PROVE  Quiet
<1>1. CallsGoOn
  BY OneGoesOn DEF rows
<1>2. KeepsDebts
  BY DebtsKept
<1>. QED
  BY <1>1, <1>2 DEF Quiet, rows, EnrollmentInv, TypeOK

\* A handler answers and has nothing to write.
LEMMA QuietAnswers ==
  ASSUME EnrollmentInv, NEW c \in Calls, Answer(c),
         calls[c].op \in {"lock", "reset"} => calls[c].tenant \in cutOff',
         cutOff \subseteq cutOff', UNCHANGED <<rows, store, clock>>,
         units' \in [Keys -> Nat]
  PROVE  Quiet
<1>1. Go(c, Idle)
  BY DEF Answer
<1>2. CallsGoOn
  BY <1>1, IdleOK, OneGoesOn DEF rows
<1>3. KeepsDebts
  BY <1>1, IdleOK, DebtsKept
<1>. QED
  BY <1>2, <1>3 DEF Quiet, rows

\* The handlers that only give up or have been overtaken.
LEMMA QuietEnds ==
  ASSUME EnrollmentInv, NEW c \in Calls,
         \/ VerifyLost(c) \/ ClaimNotReady(c) \/ ClaimRolledBack(c) \/ EnrollCertNoDevice(c)
         \/ EnrollCertFails(c) \/ ResetForTenantFails(c) \/ ResetFails(c)
  PROVE  Quiet
<1>1. units \in [Keys -> Nat]
  BY DEF EnrollmentInv, TypeOK
<1>2. CASE ResetFails(c)
  BY <1>1, <1>2, QuietAnswers DEF ResetFails
<1>3. CASE \/ VerifyLost(c) \/ ClaimNotReady(c) \/ ClaimRolledBack(c)
           \/ EnrollCertNoDevice(c) \/ EnrollCertFails(c) \/ ResetForTenantFails(c)
  <2>1. /\ Answer(c) /\ UNCHANGED <<rows, store, units, clock, cutOff>>
        /\ calls[c].op \notin {"lock", "reset"}
    BY <1>3 DEF VerifyLost, ClaimNotReady, ClaimRolledBack, EnrollCertNoDevice,
       EnrollCertFails, ResetForTenantFails
  <2>. QED
    BY <1>1, <2>1, QuietAnswers
<1>. QED
  BY <1>2, <1>3

\* A first announcement of a key, before its INSERT.
LEMMA QuietAnnounceFirst ==
  ASSUME EnrollmentInv, NEW c \in Calls, NEW k \in Keys, NEW token \in Tokens,
         NEW by \in {"unit", "other"}, AnnounceFirst(c, k, token, by)
  PROVE  Quiet
<1> DEFINE x == [op |-> "insert", key |-> k, token |-> token, by |-> by]
<1>1. x \in Call
  BY DEF Call, InsertCall
<1>2. CallOK(x)
  BY DEF CallOK, AnnounceFirst, MayAnnounce
<1>3. Go(c, x) /\ calls[c].op = "idle" /\ UNCHANGED <<rows, store, units, clock, cutOff>>
  BY DEF AnnounceFirst, Idle
<1>. QED
  BY <1>1, <1>2, <1>3, QuietGoes

\* The claim form: the code selected the row of a unit that minted it.
LEMMA QuietFindForClaim ==
  ASSUME EnrollmentInv, NEW c \in Calls, NEW u \in Users, NEW token \in Tokens,
         FindForClaim(c, u, token)
  PROVE  Quiet
<1>1. PICK k \in ClaimSelects(token) : Go(c, [op |-> "claim", key |-> k, user |-> u])
  BY DEF FindForClaim
<1>2. /\ k \in Keys /\ enrollments[k] # None
      /\ enrollments[k].token = token /\ enrollments[k].verifiedAt > 0
  BY DEF ClaimSelects, FoundForClaim, Matches, ClaimTokenAccepts, Verified, Present
<1>3. token \in UnitTokens[k]
  BY <1>2 DEF EnrollmentInv, CodesOK, RowOK
<1> DEFINE x == [op |-> "claim", key |-> k, user |-> u]
<1>4. x \in Call
  BY <1>2 DEF Call, ClaimCall
<1>5. CallOK(x)' /\ presented \subseteq presented'
  BY <1>3 DEF CallOK, Authorised, FindForClaim
<1>6. CallsGoOn
  BY <1>1, <1>4, <1>5, OthersGoOn
<1>7. KeepsDebts
  BY <1>1, DebtsKept DEF FindForClaim, Idle
<1>. QED
  BY <1>5, <1>6, <1>7 DEF Quiet, FindForClaim, EnrollmentInv, TypeOK

\* A poll of a claimed row carries the tenant that claimed it.
LEMMA QuietEnrollCert ==
  ASSUME EnrollmentInv, NEW c \in Calls, NEW k \in Keys, NEW by \in {"unit", "other"},
         EnrollCert(c, k, by)
  PROVE  Quiet
<1> DEFINE x == [op |-> "lookup", key |-> k, tenant |-> enrollments[k].claimedBy, heard |-> by = "unit"]
<1>1. enrollments[k] \in EnrollmentRow /\ enrollments[k].claimedBy # None
  BY DEF EnrollCert, DeliverAllowed, Present, EnrollmentInv, TypeOK
<1>2. x \in Call
  BY <1>1 DEF EnrollmentRow, Call, LookupCall
<1>3. CallOK(x)
  BY <1>1 DEF CallOK, EnrollCert, Present, EnrollmentInv, CodesOK, RowOK
<1>4. Go(c, x) /\ calls[c].op = "idle" /\ UNCHANGED <<rows, store, units, clock, cutOff>>
  BY DEF EnrollCert, Idle
<1>. HIDE DEF x
<1>. QED
  BY <1>2, <1>3, <1>4, QuietGoes

\* It looks up the device row of that tenant.
LEMMA QuietEnrollCertLookup ==
  ASSUME EnrollmentInv, NEW c \in Calls, EnrollCertLookup(c)
  PROVE  Quiet
<1> DEFINE t == calls[c].tenant
           x == [op |-> "issue", key |-> calls[c].key, tenant |-> t,
                 heard |-> calls[c].heard, pk |-> devices[t].pk]
<1>1. /\ calls[c] \in LookupCall /\ CallOK(calls[c]) /\ calls[c].op = "lookup"
      /\ UNCHANGED <<rows, store, units, clock, cutOff>>
  BY CallKinds DEF EnrollmentInv, TypeOK, CodesOK, EnrollCertLookup
<1>2. CASE devices[t] = None
  BY <1>1, <1>2, QuietAnswers DEF EnrollCertLookup, EnrollmentInv, TypeOK
<1>3. CASE devices[t] # None
  <2>1. devices[t] \in Device /\ t \in Tenants
    BY <1>1, <1>3 DEF LookupCall, EnrollmentInv, TypeOK
  <2>2. x \in Call
    BY <1>1, <2>1 DEF LookupCall, Device, Call, IssueCall
  <2>3. CallOK(x)
    BY <1>1 DEF CallOK
  <2>4. Go(c, x)
    BY <1>3 DEF EnrollCertLookup
  <2>. HIDE DEF x
  <2>. QED
    BY <1>1, <2>2, <2>3, <2>4, QuietGoes
<1>. QED
  BY <1>2, <1>3

\* The unit stops waiting; the handler keeps what it carries.
LEMMA QuietUnitTimesOut ==
  ASSUME EnrollmentInv, NEW c \in Calls, UnitTimesOut(c)
  PROVE  Quiet
<1> DEFINE x == [calls[c] EXCEPT !.heard = FALSE]
<1>1. /\ Go(c, x) /\ calls[c].op \in {"lookup", "issue", "reply"}
      /\ calls[c] \in Call /\ CallOK(calls[c])
      /\ UNCHANGED <<rows, store, units, clock, cutOff>>
  BY DEF UnitTimesOut, EnrollmentInv, TypeOK, CodesOK
<1>2. calls[c] \in LookupCall \/ calls[c] \in IssueCall \/ calls[c] \in ReplyCall
  BY <1>1, CallKinds
<1>3. x \in LookupCall \/ x \in IssueCall \/ x \in ReplyCall
  BY <1>2 DEF LookupCall, IssueCall, ReplyCall
<1>4. /\ x.op = calls[c].op /\ x.key = calls[c].key
      /\ x.op # "reply" => x.tenant = calls[c].tenant
  BY <1>1, <1>2 DEF LookupCall, IssueCall, ReplyCall
<1>5. x \in Call
  BY <1>3 DEF Call
<1>6. CallOK(x)
  BY <1>1, <1>4 DEF CallOK
<1>. HIDE DEF x
<1>. QED
  BY <1>1, <1>5, <1>6, QuietGoes

\* The answer reaches the unit, or nobody.
LEMMA QuietEnrollCertReply ==
  ASSUME EnrollmentInv, NEW c \in Calls, EnrollCertReply(c)
  PROVE  Quiet
<1>1. calls[c] \in ReplyCall
  BY CallKinds DEF EnrollmentInv, TypeOK, EnrollCertReply
<1>2. calls[c].serial \in Nat /\ calls[c].key \in Keys
  BY <1>1 DEF ReplyCall, Serials
<1>3. units' \in [Keys -> Nat]
  BY <1>2 DEF EnrollmentInv, TypeOK, EnrollCertReply
<1>. QED
  BY <1>3, QuietAnswers DEF EnrollCertReply

\* The firmware wipes its pair; the server does not notice.
LEMMA QuietStatusWipe ==
  ASSUME EnrollmentInv, NEW k \in Keys, StatusWipe(k)
  PROVE  Quiet
<1>1. CallsGoOn
  BY DEF CallsGoOn, CallOK, Authorised, StatusWipe, rows, EnrollmentInv, TypeOK, CodesOK
<1>. QED
  BY <1>1 DEF Quiet, KeepsDebts, StatusWipe, rows, EnrollmentInv, TypeOK

\* A take-down starts: both pages read the device row, and no table changes.
LEMMA QuietTakeDown ==
  ASSUME EnrollmentInv, NEW c \in Calls, NEW t \in Tenants,
         OwnerRevoke(c, t) \/ \E d \in BOOLEAN : AdminTakeDown(c, t, d)
  PROVE  Quiet
<1>1. /\ devices[t] \in Device /\ calls[c].op = "idle"
      /\ UNCHANGED <<rows, store, units, clock, cutOff>>
  <2>1. devices[t] # None /\ calls[c] = Idle /\ UNCHANGED <<rows, store, units, clock, cutOff>>
    BY DEF OwnerRevoke, AdminTakeDown
  <2>. QED
    BY <2>1, IdleOK DEF EnrollmentInv, TypeOK
<1>2. CASE OwnerRevoke(c, t)
  <2> DEFINE x == [op |-> "ownerLock", tenant |-> t, pk |-> devices[t].pk]
  <2>1. x \in Call /\ CallOK(x)
    BY <1>1 DEF Device, Call, OwnerCall, CallOK
  <2>2. Go(c, x)
    BY <1>2 DEF OwnerRevoke
  <2>. HIDE DEF x
  <2>. QED
    BY <1>1, <2>1, <2>2, QuietGoes
<1>3. ASSUME NEW d \in BOOLEAN, AdminTakeDown(c, t, d)
      PROVE  Quiet
  <2> DEFINE x == [op |-> "revoke", tenant |-> t, pk |-> devices[t].pk, delete |-> d]
  <2>1. x \in Call /\ CallOK(x)
    BY <1>1 DEF Device, Call, RevokeCall, CallOK
  <2>2. Go(c, x)
    BY <1>3 DEF AdminTakeDown
  <2>. HIDE DEF x
  <2>. QED
    BY <1>1, <2>1, <2>2, QuietGoes
<1>. QED
  BY <1>2, <1>3

\* Both resets lock the rows that are there.
LEMMA QuietLocks ==
  ASSUME EnrollmentInv, NEW c \in Calls, ResetForTenantLock(c) \/ ResetLock(c)
  PROVE  Quiet
<1>1. UNCHANGED <<rows, store, units, clock, cutOff>> /\ Present \subseteq Keys
  BY DEF ResetForTenantLock, ResetLock, Present
<1>2. CASE ResetForTenantLock(c)
  <2> DEFINE x == [op |-> "ownerReset", tenant |-> calls[c].tenant, pk |-> calls[c].pk,
                   locked |-> Present]
  <2>1. calls[c] \in OwnerCall /\ calls[c].op = "ownerLock"
    BY <1>2, CallKinds DEF EnrollmentInv, TypeOK, ResetForTenantLock
  <2>2. x \in Call /\ CallOK(x)
    BY <1>1, <2>1 DEF OwnerCall, OwnerReset, Call, CallOK
  <2>3. Go(c, x) \/ Go(c, Idle)
    BY <1>2 DEF ResetForTenantLock, Answer
  <2>. HIDE DEF x
  <2>. QED
    BY <1>1, <2>1, <2>2, <2>3, IdleOK, QuietGoes
<1>3. CASE ResetLock(c)
  <2> DEFINE x == [op |-> "reset", tenant |-> calls[c].tenant, locked |-> Present]
  <2>1. calls[c] \in LockCall
    BY <1>3, CallKinds DEF EnrollmentInv, TypeOK, ResetLock
  <2>2. x \in Call /\ CallOK(x)
    BY <1>1, <2>1 DEF LockCall, ResetCall, Call, CallOK
  <2>3. Go(c, x) /\ x.op = "reset" /\ x.tenant = calls[c].tenant
    BY <1>3 DEF ResetLock
  <2>. HIDE DEF x
  <2>. QED
    BY <1>1, <2>2, <2>3, QuietGoes
<1>. QED
  BY <1>2, <1>3

-----------------------------------------------------------------------------
(* The steps that write enrollment rows.                                    *)

\* What a key has is a row, or None.
LEMMA RowType ==
  ASSUME EnrollmentInv, NEW k \in Keys, enrollments[k] # None
  PROVE  enrollments[k] \in EnrollmentRow
BY DEF EnrollmentInv, TypeOK

\* A challenge burns or expires; the rest of the row stays.
LEMMA ChallengeEdit ==
  ASSUME NEW row \in EnrollmentRow, NEW x \in {"null", "expired"}
  PROVE  LET edited == [row EXCEPT !.challenge = x]
         IN  /\ edited \in EnrollmentRow /\ edited.challenge = x
             /\ edited.token = row.token /\ edited.verifiedAt = row.verifiedAt
             /\ edited.claimedBy = row.claimedBy /\ edited.delivered = row.delivered
BY DEF EnrollmentRow

\* A proof is marked.
LEMMA VerifiedEdit ==
  ASSUME NEW row \in EnrollmentRow, NEW n \in Nat
  PROVE  LET edited == [row EXCEPT !.verifiedAt = n]
         IN  /\ edited \in EnrollmentRow /\ edited.verifiedAt = n
             /\ edited.token = row.token /\ edited.challenge = row.challenge
             /\ edited.claimedBy = row.claimedBy /\ edited.delivered = row.delivered
BY DEF EnrollmentRow

\* Failures are counted, or cleared.
LEMMA FailuresEdit ==
  ASSUME NEW row \in EnrollmentRow, NEW n \in Nat
  PROVE  LET edited == [row EXCEPT !.failures = n]
         IN  /\ edited \in EnrollmentRow
             /\ edited.token = row.token /\ edited.challenge = row.challenge
             /\ edited.verifiedAt = row.verifiedAt /\ edited.claimedBy = row.claimedBy
             /\ edited.delivered = row.delivered
BY DEF EnrollmentRow

\* A tenant claims the row.
LEMMA ClaimEdit ==
  ASSUME NEW row \in EnrollmentRow, NEW t \in Tenants
  PROVE  LET edited == [row EXCEPT !.claimedBy = t]
         IN  /\ edited \in EnrollmentRow /\ edited.claimedBy = t
             /\ edited.token = row.token /\ edited.challenge = row.challenge
             /\ edited.verifiedAt = row.verifiedAt /\ edited.delivered = row.delivered
BY DEF EnrollmentRow

\* The row is sealed.
LEMMA DeliveredEdit ==
  ASSUME NEW row \in EnrollmentRow
  PROVE  LET edited == [row EXCEPT !.delivered = TRUE]
         IN  /\ edited \in EnrollmentRow /\ edited.delivered = TRUE
             /\ edited.token = row.token /\ edited.challenge = row.challenge
             /\ edited.verifiedAt = row.verifiedAt /\ edited.claimedBy = row.claimedBy
BY DEF EnrollmentRow

\* A row is no None.
LEMMA RowIsThere == \A row \in EnrollmentRow : row # None
OBVIOUS

\* Every row of the id is still there after the step.
RowsStay == \A k \in Present : enrollments'[k] # None

\* One row is rewritten, or made: what it proves keeps its code, and a claim it
\* carries was there.
LEMMA OneRowRewritten ==
  ASSUME EnrollmentInv, NEW k \in Keys, NEW row \in EnrollmentRow,
         enrollments' = [enrollments EXCEPT ![k] = row],
         row.challenge = "unit" \/ row.verifiedAt > 0 => row.token \in UnitTokens[k],
         row.claimedBy # None => /\ enrollments[k] # None
                                 /\ row.claimedBy = enrollments[k].claimedBy
                                 /\ enrollments[k].delivered => row.delivered,
         CallsGoOn, \A d \in Calls : calls[d].op \in {"lock", "reset"} => calls'[d] = calls[d],
         UNCHANGED <<store, units, presented, cutOff>>, clock' \in Nat
  PROVE  Rewrites /\ RowsStay
<1>1. /\ enrollments' \in [Keys -> EnrollmentRow \cup {None}]
      /\ enrollments'[k] = row /\ \A j \in Keys : j # k => enrollments'[j] = enrollments[j]
  BY DEF EnrollmentInv, TypeOK
<1>2. \A j \in Keys : RowOK(j)'
  BY <1>1 DEF EnrollmentInv, CodesOK, RowOK, Authorised
<1>3. RowsStay
  BY <1>1, RowIsThere DEF RowsStay, Present
<1>4. \A j \in Keys : enrollments'[j] # None /\ enrollments'[j].claimedBy # None =>
        /\ enrollments[j] # None /\ enrollments[j].claimedBy = enrollments'[j].claimedBy
        /\ enrollments[j].delivered => enrollments'[j].delivered
  BY <1>1
<1>. QED
  BY <1>1, <1>2, <1>3, <1>4 DEF Rewrites

\* Rows are removed, and none is changed.
LEMMA RowsRemoved ==
  ASSUME EnrollmentInv, NEW S, Remove(S), CallsGoOn, cutOff' = cutOff,
         \A d \in Calls : calls[d].op \in {"lock", "reset"} =>
            \/ calls'[d] = calls[d]
            \/ \A k \in Present : enrollments[k].claimedBy = calls[d].tenant => k \in S,
         UNCHANGED <<store, units, clock, presented>>
  PROVE  Rewrites
<1>1. /\ \A k \in Keys : enrollments'[k] = IF k \in S THEN None ELSE enrollments[k]
      /\ enrollments' \in [Keys -> EnrollmentRow \cup {None}]
  BY DEF Remove, EnrollmentInv, TypeOK
<1>2. \A k \in Keys : RowOK(k)'
  BY <1>1 DEF EnrollmentInv, CodesOK, RowOK, Authorised
<1>. QED
  BY <1>1, <1>2 DEF Rewrites, Present, EnrollmentInv, TypeOK

\* Calls that are not touched go on.
LEMMA CallsUntouched ==
  ASSUME EnrollmentInv, UNCHANGED <<calls, presented>>
  PROVE  CallsGoOn
BY DEF EnrollmentInv, TypeOK, CodesOK, CallsGoOn, CallOK, Authorised

\* The row that an announcement leaves is one; it rotates the code of a row
\* that is not verified only.
LEMMA AnnouncedOK ==
  ASSUME EnrollmentInv, NEW k \in Keys, enrollments[k] # None, NEW token \in Tokens,
         NEW by \in {"unit", "other"}
  PROVE  LET row == Announced(k, token, by)
         IN  /\ row \in EnrollmentRow /\ row # None
             /\ row.challenge = by /\ row.verifiedAt = enrollments[k].verifiedAt
             /\ row.claimedBy = enrollments[k].claimedBy
             /\ row.delivered = enrollments[k].delivered
             /\ row.token = IF enrollments[k].verifiedAt > 0 THEN enrollments[k].token ELSE token
<1>1. enrollments[k] \in EnrollmentRow
  BY DEF EnrollmentInv, TypeOK
<1> DEFINE old == enrollments[k]
           code == IF old.verifiedAt > 0 THEN old.token ELSE token
           row == [old EXCEPT !.challenge = by, !.token = code]
<1>2. code \in Tokens /\ by \in {"null", "unit", "other", "expired"}
  BY <1>1 DEF EnrollmentRow
<1>3. Announced(k, token, by) = row
  BY DEF Announced, ClaimTokenFrozen, Verified
<1>. HIDE DEF code
<1>4. /\ row \in EnrollmentRow
      /\ row.challenge = by /\ row.verifiedAt = old.verifiedAt
      /\ row.claimedBy = old.claimedBy /\ row.delivered = old.delivered
      /\ row.token = code
  <2>. HIDE DEF old
  <2>. QED
    BY ONLY <1>1, <1>2 DEF old, EnrollmentRow
<1>5. row # None
  BY ONLY <1>4, NoneIsNoRow
<1>. QED
  BY <1>3, <1>4, <1>5 DEF code

\* A first announcement leaves an unverified row of nobody.
LEMMA NewRowOK ==
  ASSUME NEW token \in Tokens, NEW by \in {"unit", "other"}
  PROVE  /\ NewRow(token, by) \in EnrollmentRow /\ NewRow(token, by) # None
         /\ NewRow(token, by).challenge = by /\ NewRow(token, by).verifiedAt = 0
         /\ NewRow(token, by).claimedBy = None /\ NewRow(token, by).token = token
<1>1. /\ "unit" \in {"null", "unit", "other", "expired"}
      /\ "other" \in {"null", "unit", "other", "expired"}
      /\ 0 \in Nat /\ FALSE \in BOOLEAN
  OBVIOUS
<1>2. NewRow(token, by) \in EnrollmentRow
  BY <1>1 DEF NewRow, EnrollmentRow
<1>. QED
  BY <1>2 DEF NewRow

\* What an announcement of a key that has a row leaves under each key.
LEMMA AnnounceRow ==
  ASSUME EnrollmentInv, NEW k \in Keys, NEW token \in Tokens, NEW by \in {"unit", "other"},
         Announce(k, token, by)
  PROVE  /\ enrollments' \in [Keys -> EnrollmentRow \cup {None}]
         /\ \A j \in Keys : enrollments'[j] # None =>
              /\ enrollments[j] # None
              /\ enrollments'[j].verifiedAt = enrollments[j].verifiedAt
              /\ enrollments'[j].claimedBy = enrollments[j].claimedBy
              /\ enrollments'[j].delivered = enrollments[j].delivered
              /\ j # k => /\ enrollments'[j].challenge = enrollments[j].challenge
                          /\ enrollments'[j].token = enrollments[j].token
         /\ enrollments'[k] # None =>
              /\ enrollments'[k].challenge = by
              /\ enrollments'[k].token = IF enrollments[k].verifiedAt > 0
                                         THEN enrollments[k].token ELSE token
         /\ RowsStay
<1> DEFINE row == Announced(k, token, by)
           left(j) == IF j = k THEN row ELSE enrollments[j]
<1>1. enrollments[k] # None /\ k \in Present
  BY DEF Announce, Present
<1>2. /\ row \in EnrollmentRow /\ row # None
      /\ row.challenge = by /\ row.verifiedAt = enrollments[k].verifiedAt
      /\ row.claimedBy = enrollments[k].claimedBy
      /\ row.delivered = enrollments[k].delivered
      /\ row.token = IF enrollments[k].verifiedAt > 0 THEN enrollments[k].token ELSE token
  BY <1>1, AnnouncedOK
<1>3. \A j \in Present : left(j) \in EnrollmentRow
  BY <1>2 DEF EnrollmentInv, TypeOK, Present
<1>. HIDE DEF row
<1>4. CASE ClaimLockClears(k, token)
  <2> DEFINE cleared(j) == [left(j) EXCEPT !.failures = 0]
  <2>1. enrollments' = [j \in Keys |-> IF j \notin Present THEN None ELSE cleared(j)]
    BY <1>4 DEF Announce, row
  <2>2. \A j \in Present :
          /\ cleared(j) \in EnrollmentRow /\ cleared(j) # None
          /\ cleared(j).challenge = left(j).challenge
          /\ cleared(j).verifiedAt = left(j).verifiedAt
          /\ cleared(j).claimedBy = left(j).claimedBy
          /\ cleared(j).delivered = left(j).delivered
          /\ cleared(j).token = left(j).token
    BY <1>3, FailuresEdit, RowIsThere
  <2>. HIDE DEF cleared
  <2>3. \A j \in Keys : enrollments'[j] = IF j \notin Present THEN None ELSE cleared(j)
    BY <2>1
  <2>4. enrollments' \in [Keys -> EnrollmentRow \cup {None}]
    BY <2>1, <2>2
  <2>. QED
    BY <1>1, <1>2, <2>2, <2>3, <2>4 DEF Present, RowsStay
<1>5. CASE ~ClaimLockClears(k, token)
  <2>1. enrollments' = [enrollments EXCEPT ![k] = row]
    BY <1>5 DEF Announce, row
  <2>. QED
    BY <1>1, <1>2, <2>1 DEF EnrollmentInv, TypeOK, Present, RowsStay
<1>. QED
  BY <1>4, <1>5

\* Announcements: a code moves with an unproved row only, and whoever has the
\* challenge of the unit signed announced a code of the unit.
LEMMA RewritesAnnounce ==
  ASSUME EnrollmentInv, NEW k \in Keys, NEW token \in Tokens, NEW by \in {"unit", "other"},
         Announce(k, token, by)
  PROVE  Rewrites /\ RowsStay
<1>1. UNCHANGED <<store, units, calls, clock, presented, cutOff>>
  BY DEF Announce
<1>2. \A j \in Keys : RowOK(j)'
  <2>1. \A j \in Keys : RowOK(j)
    BY DEF EnrollmentInv, CodesOK
  <2>2. ASSUME NEW j \in Keys, enrollments'[j] # None
        PROVE  /\ enrollments'[j].challenge = "unit" \/ enrollments'[j].verifiedAt > 0
                    => enrollments'[j].token \in UnitTokens[j]
               /\ enrollments'[j].claimedBy # None
                    => Authorised(enrollments'[j].claimedBy, j)
    <3>1. CASE j = k
      BY <2>1, <2>2, <3>1, AnnounceRow DEF RowOK, Announce, MayAnnounce
    <3>2. CASE j # k
      BY <2>1, <2>2, <3>2, AnnounceRow DEF RowOK
    <3>. QED
      BY <3>1, <3>2
  <2>. QED
    BY <1>1, <2>2 DEF RowOK, Authorised
<1>3. CallsGoOn
  BY <1>1, CallsUntouched
<1>. QED
  BY <1>1, <1>2, <1>3, AnnounceRow DEF Rewrites, EnrollmentInv, TypeOK

\* The INSERT makes a row, or runs into one that came in between.
LEMMA RewritesAnnounceInsert ==
  ASSUME EnrollmentInv, NEW c \in Calls, AnnounceInsert(c)
  PROVE  Rewrites /\ RowsStay
<1> DEFINE k == calls[c].key
           token == calls[c].token
           by == calls[c].by
           row == IF k \in Present THEN Announced(k, token, by) ELSE NewRow(token, by)
<1>1. calls[c] \in InsertCall /\ CallOK(calls[c]) /\ calls[c].op = "insert"
  BY CallKinds DEF EnrollmentInv, TypeOK, CodesOK, AnnounceInsert
<1>2. /\ k \in Keys /\ token \in Tokens /\ by \in {"unit", "other"}
      /\ by = "unit" => token \in UnitTokens[k]
  BY <1>1 DEF InsertCall, CallOK
<1>3. /\ enrollments' = [enrollments EXCEPT ![k] = row] /\ Go(c, Idle)
      /\ UNCHANGED <<store, units, clock, presented, cutOff>>
  BY DEF AnnounceInsert, Answer
<1>4. /\ row \in EnrollmentRow
      /\ row.challenge = "unit" \/ row.verifiedAt > 0 => row.token \in UnitTokens[k]
      /\ row.claimedBy # None => /\ enrollments[k] # None
                                 /\ row.claimedBy = enrollments[k].claimedBy
                                 /\ enrollments[k].delivered => row.delivered
  <2>1. CASE k \in Present
    <3>1. RowOK(k)
      BY <1>2 DEF EnrollmentInv, CodesOK
    <3>. QED
      BY <1>2, <2>1, <3>1, AnnouncedOK DEF RowOK, Present
  <2>2. CASE k \notin Present
    BY <1>2, <2>2, NewRowOK
  <2>. QED
    BY <2>1, <2>2
<1>. HIDE DEF row
<1>5. CallsGoOn /\ \A d \in Calls : calls[d].op \in {"lock", "reset"} => calls'[d] = calls[d]
  BY <1>1, <1>3, IdleOK, OneGoesOn, CallBecomes
<1>. QED
  BY <1>2, <1>3, <1>4, <1>5, OneRowRewritten DEF EnrollmentInv, TypeOK

\* A challenge expires, or is burnt by a signature that proves nothing.
LEMMA RewritesChallenge ==
  ASSUME EnrollmentInv, NEW k \in Keys, ChallengeExpires(k) \/ VerifyBadProof(k)
  PROVE  Rewrites /\ RowsStay
<1>1. PICK x \in {"null", "expired"} :
         enrollments' = [enrollments EXCEPT ![k] = [enrollments[k] EXCEPT !.challenge = x]]
  BY DEF ChallengeExpires, VerifyBadProof, Burn, EnrollmentInv, TypeOK
<1> DEFINE row == [enrollments[k] EXCEPT !.challenge = x]
<1>2. /\ enrollments[k] # None /\ UNCHANGED <<store, units, calls, clock, presented, cutOff>>
  BY DEF ChallengeExpires, VerifyBadProof, Burn, Present
<1>3. /\ row \in EnrollmentRow /\ row.challenge = x
      /\ row.verifiedAt = enrollments[k].verifiedAt /\ row.token = enrollments[k].token
      /\ row.claimedBy = enrollments[k].claimedBy /\ row.delivered = enrollments[k].delivered
  <2>1. enrollments[k] \in EnrollmentRow
    BY <1>2, RowType
  <2>. QED
    BY ONLY <2>1, x \in {"null", "expired"}, ChallengeEdit
<1>4. RowOK(k)
  BY DEF EnrollmentInv, CodesOK
<1>. HIDE DEF row
<1>5. CallsGoOn
  BY <1>2, CallsUntouched
<1>6. row.challenge = "unit" \/ row.verifiedAt > 0 => row.token \in UnitTokens[k]
  BY <1>2, <1>3, <1>4 DEF RowOK
<1>7. enrollments' = [enrollments EXCEPT ![k] = row]
  BY <1>1 DEF row
<1>. QED
  BY <1>2, <1>3, <1>5, <1>6, <1>7, OneRowRewritten DEF EnrollmentInv, TypeOK

\* The unit's proof burns its challenge and takes along the code it proves.
LEMMA RewritesVerify ==
  ASSUME EnrollmentInv, NEW c \in Calls, NEW k \in Keys, Verify(c, k)
  PROVE  Rewrites /\ RowsStay
<1> DEFINE row == [enrollments[k] EXCEPT !.challenge = "null"]
           x == [op |-> "mark", key |-> k, token |-> enrollments[k].token]
<1>1. /\ enrollments[k] # None /\ enrollments[k].challenge = "unit"
      /\ enrollments' = [enrollments EXCEPT ![k] = row] /\ Go(c, x) /\ calls[c] = Idle
      /\ UNCHANGED <<store, units, clock, presented, cutOff>>
  BY DEF Verify, Burn, Present, EnrollmentInv, TypeOK
<1>2. /\ row \in EnrollmentRow /\ row.challenge = "null"
      /\ row.verifiedAt = enrollments[k].verifiedAt /\ row.token = enrollments[k].token
      /\ row.claimedBy = enrollments[k].claimedBy /\ row.delivered = enrollments[k].delivered
  BY <1>1, RowType, ChallengeEdit
<1>3. enrollments[k].token \in UnitTokens[k] /\ enrollments[k].token \in Tokens
  BY <1>1 DEF EnrollmentInv, TypeOK, CodesOK, RowOK, EnrollmentRow
<1>4. x \in Call /\ CallOK(x)
  BY <1>3 DEF Call, MarkCall, CallOK
<1>. HIDE DEF row, x
<1>5. CallsGoOn /\ \A d \in Calls : calls[d].op \in {"lock", "reset"} => calls'[d] = calls[d]
  BY <1>1, <1>4, IdleOK, OneGoesOn, CallBecomes
<1>. QED
  BY <1>1, <1>2, <1>3, <1>5, OneRowRewritten DEF EnrollmentInv, TypeOK

\* The mark finds the row the burn left behind, with the code that was proved.
LEMMA RewritesVerifyMark ==
  ASSUME EnrollmentInv, NEW c \in Calls, VerifyMark(c)
  PROVE  Rewrites /\ RowsStay
<1> DEFINE k == calls[c].key
<1>1. PICK now \in {clock, clock + 1} :
         clock' = now /\ enrollments' = [enrollments EXCEPT ![k].verifiedAt = now]
  BY DEF VerifyMark
<1> DEFINE row == [enrollments[k] EXCEPT !.verifiedAt = now]
<1>2. now \in Nat
  BY DEF EnrollmentInv, TypeOK
<1>3. calls[c] \in MarkCall /\ CallOK(calls[c]) /\ calls[c].op = "mark"
  BY CallKinds DEF EnrollmentInv, TypeOK, CodesOK, VerifyMark
<1>4. /\ k \in Keys /\ enrollments[k] # None
      /\ enrollments[k].token = calls[c].token /\ calls[c].token \in UnitTokens[k]
      /\ enrollments' = [enrollments EXCEPT ![k] = row] /\ Go(c, Idle)
      /\ UNCHANGED <<store, units, presented, cutOff>>
  BY <1>1, <1>3 DEF VerifyMark, MarkMatches, Present, Answer, CallOK, EnrollmentInv, TypeOK
<1>5. /\ row \in EnrollmentRow /\ row.token = enrollments[k].token
      /\ row.claimedBy = enrollments[k].claimedBy /\ row.delivered = enrollments[k].delivered
  BY <1>2, <1>4, RowType, VerifiedEdit
<1>. HIDE DEF row
<1>6. CallsGoOn /\ \A d \in Calls : calls[d].op \in {"lock", "reset"} => calls'[d] = calls[d]
  BY <1>3, <1>4, IdleOK, OneGoesOn, CallBecomes
<1>7. clock' \in Nat /\ row.token \in UnitTokens[k]
  BY <1>1, <1>2, <1>4, <1>5
<1>8. row.claimedBy # None => /\ enrollments[k] # None
                              /\ row.claimedBy = enrollments[k].claimedBy
                              /\ enrollments[k].delivered => row.delivered
  BY <1>4, <1>5
<1>. HIDE DEF k
<1>. QED
  BY <1>4, <1>5, <1>6, <1>7, <1>8, OneRowRewritten

\* The acknowledgement seals the row.
LEMMA RewritesMarkDelivered ==
  ASSUME EnrollmentInv, NEW k \in Keys, NEW by \in {"unit", "other"}, MarkDelivered(k, by)
  PROVE  Rewrites /\ RowsStay
<1> DEFINE row == [enrollments[k] EXCEPT !.delivered = TRUE]
<1>1. /\ enrollments[k] # None /\ enrollments[k].token \in UnitTokens[k]
      /\ enrollments' = [enrollments EXCEPT ![k] = row]
      /\ UNCHANGED <<store, units, calls, clock, presented, cutOff>>
  BY DEF MarkDelivered, DeliverAllowed, Verified, Present, EnrollmentInv, TypeOK, CodesOK, RowOK
<1>2. /\ row \in EnrollmentRow /\ row.token = enrollments[k].token
      /\ row.claimedBy = enrollments[k].claimedBy /\ row.delivered
  BY <1>1, RowType, DeliveredEdit
<1>. HIDE DEF row
<1>3. CallsGoOn
  BY <1>1, CallsUntouched
<1>. QED
  BY <1>1, <1>2, <1>3, OneRowRewritten DEF EnrollmentInv, TypeOK

\* A wrong code counts against every row and changes nothing else.
LEMMA RewritesClaimWrongCode ==
  ASSUME EnrollmentInv, NEW token \in Tokens, ClaimWrongCode(token)
  PROVE  Rewrites /\ RowsStay
<1> DEFINE counted(j) == [enrollments[j] EXCEPT !.failures = @ + 1]
<1>1. /\ enrollments' = [j \in Keys |-> IF j \in Present THEN counted(j) ELSE None]
      /\ UNCHANGED <<store, units, calls, clock, presented, cutOff>>
  BY DEF ClaimWrongCode
<1>2. ASSUME NEW j \in Keys, enrollments[j] # None
      PROVE  /\ counted(j) \in EnrollmentRow /\ counted(j).token = enrollments[j].token
             /\ counted(j).challenge = enrollments[j].challenge
             /\ counted(j).verifiedAt = enrollments[j].verifiedAt
             /\ counted(j).claimedBy = enrollments[j].claimedBy
             /\ counted(j).delivered = enrollments[j].delivered
  <2>1. enrollments[j] \in EnrollmentRow
    BY <1>2, RowType
  <2>2. enrollments[j].failures + 1 \in Nat
    BY <2>1 DEF EnrollmentRow
  <2>. QED
    BY <2>1, <2>2, FailuresEdit
<1>. HIDE DEF counted
<1>3. /\ \A j \in Present : enrollments'[j] = counted(j) /\ counted(j) # None
      /\ \A j \in Keys \ Present : enrollments'[j] = None
      /\ enrollments' \in [Keys -> EnrollmentRow \cup {None}]
  BY <1>1, <1>2, RowIsThere DEF Present
<1>4. \A j \in Keys : RowOK(j)'
  BY <1>1, <1>2, <1>3 DEF EnrollmentInv, CodesOK, RowOK, Authorised, Present
<1>5. CallsGoOn
  BY <1>1, CallsUntouched
<1>. QED
  BY <1>1, <1>2, <1>3, <1>4, <1>5 DEF Rewrites, RowsStay, Present, EnrollmentInv, TypeOK

\* The owner's reset owes nobody anything, the admin's pays what it owed.
LEMMA RewritesResets ==
  ASSUME EnrollmentInv, NEW c \in Calls, ResetForTenant(c) \/ Reset(c)
  PROVE  Rewrites
<1>1. CASE ResetForTenant(c)
  <2> DEFINE x == [op |-> "ownerRevoke", tenant |-> calls[c].tenant, pk |-> calls[c].pk]
  <2>1. calls[c] \in OwnerReset
    BY <1>1, CallKinds DEF EnrollmentInv, TypeOK, ResetForTenant
  <2>2. x \in Call /\ CallOK(x)
    BY <2>1 DEF OwnerReset, OwnerCall, Call, CallOK
  <2>3. /\ Go(c, x) /\ Remove(Resettable(calls[c].tenant)) /\ calls[c].op = "ownerReset"
        /\ UNCHANGED <<store, units, clock, presented, cutOff>>
    BY <1>1 DEF ResetForTenant
  <2>. HIDE DEF x
  <2>4. CallsGoOn /\ \A d \in Calls : calls[d].op \in {"lock", "reset"} => calls'[d] = calls[d]
    BY <2>2, <2>3, OneGoesOn, CallBecomes
  <2>. QED
    BY <2>3, <2>4, RowsRemoved
<1>2. CASE Reset(c)
  <2> DEFINE gone == Resettable(calls[c].tenant) \cup OrphansOfOthers(calls[c].tenant)
  <2>1. /\ Go(c, Idle) /\ Remove(gone) /\ UNCHANGED <<store, units, clock, presented, cutOff>>
    BY <1>2 DEF Reset, Answer
  <2>2. \A k \in Present : enrollments[k].claimedBy = calls[c].tenant => k \in gone
    BY DEF Resettable
  <2>. HIDE DEF gone
  <2>3. CallsGoOn /\ \A d \in Calls : d # c => calls'[d] = calls[d]
    BY <2>1, IdleOK, OneGoesOn, CallBecomes
  <2>. QED
    BY <2>1, <2>2, <2>3, RowsRemoved
<1>. QED
  BY <1>1, <1>2

\* The prune takes rows of nobody.
LEMMA RewritesPrune ==
  ASSUME EnrollmentInv, Prune
  PROVE  Rewrites
<1>1. /\ \E S : Remove(S) /\ UNCHANGED <<store, units, calls, clock, presented, cutOff>>
  BY DEF Prune
<1>2. CallsGoOn
  BY <1>1, CallsUntouched
<1>. QED
  BY <1>1, <1>2, RowsRemoved

-----------------------------------------------------------------------------
(* What the shapes keep.                                                    *)

\* A pending claim without a device row after the step was one before it, or
\* some call is left that owes its tenant the reset.
LEMMA CausesStay ==
  ASSUME EnrollmentInv, KeepsDebts,
         \A k \in Keys :
           /\ enrollments'[k] # None /\ enrollments'[k].claimedBy # None
           /\ ~enrollments'[k].delivered /\ devices'[enrollments'[k].claimedBy] = None
           => \/ /\ enrollments[k] # None /\ enrollments[k].claimedBy = enrollments'[k].claimedBy
                 /\ ~enrollments[k].delivered /\ devices[enrollments[k].claimedBy] = None
              \/ \E d \in Calls : /\ calls'[d].op \in {"lock", "reset"}
                                  /\ calls'[d].tenant = enrollments'[k].claimedBy
  PROVE  OrphanHasCause'
<1> SUFFICES ASSUME NEW k \in Keys, enrollments'[k] # None, enrollments'[k].claimedBy # None,
                    ~enrollments'[k].delivered, devices'[enrollments'[k].claimedBy] = None,
                    ~ \E d \in Calls : /\ calls'[d].op \in {"lock", "reset"}
                                       /\ calls'[d].tenant = enrollments'[k].claimedBy
             PROVE  enrollments'[k].claimedBy \in cutOff'
  BY DEF OrphanHasCause, OrphanClaim, Present
<1>1. /\ enrollments[k] # None /\ enrollments[k].claimedBy = enrollments'[k].claimedBy
      /\ ~enrollments[k].delivered /\ devices[enrollments[k].claimedBy] = None
  OBVIOUS
<1>2. k \in Present /\ OrphanClaim(k)
  BY <1>1 DEF Present, OrphanClaim
<1>3. \/ enrollments[k].claimedBy \in cutOff
      \/ \E d \in Calls : /\ calls[d].op \in {"lock", "reset"}
                          /\ calls[d].tenant = enrollments[k].claimedBy
  BY <1>1, <1>2 DEF EnrollmentInv, OrphanHasCause
<1>. QED
  BY <1>1, <1>3 DEF KeepsDebts

\* The rows and certificates of a state whose tables did not change stay
\* authorised: codes are only ever added to the presented ones.
LEMMA QuietKeeps ==
  ASSUME EnrollmentInv, Quiet
  PROVE  EnrollmentInv'
<1>1. TypeOK'
  BY DEF EnrollmentInv, TypeOK, Quiet, CallsGoOn, store
<1>2. SerialsOK'
  BY DEF EnrollmentInv, SerialsOK, Quiet, store
<1>3. CodesOK'
  <2>1. \A k \in Keys : RowOK(k)'
    BY DEF EnrollmentInv, CodesOK, RowOK, Authorised, Quiet
  <2>2. CertFollowsCode'
    BY DEF EnrollmentInv, CodesOK, CertFollowsCode, Quiet, store
  <2>. QED
    BY <2>1, <2>2 DEF CodesOK, Quiet, CallsGoOn
<1>4. OrphanHasCause'
  BY CausesStay DEF Quiet, store
<1>. QED
  BY <1>1, <1>2, <1>3, <1>4 DEF EnrollmentInv

\* A step that rewrites rows leaves the tenants' debts with whoever has them.
LEMMA RewritesKeeps ==
  ASSUME EnrollmentInv, Rewrites
  PROVE  EnrollmentInv'
<1>1. TypeOK'
  BY DEF EnrollmentInv, TypeOK, Rewrites, CallsGoOn, store
<1>2. SerialsOK'
  BY DEF EnrollmentInv, SerialsOK, Rewrites, store
<1>3. CodesOK'
  <2>1. CertFollowsCode'
    BY DEF EnrollmentInv, CodesOK, CertFollowsCode, Rewrites, store
  <2>. QED
    BY <2>1 DEF CodesOK, Rewrites, CallsGoOn
<1>4. OrphanHasCause'
  <2> SUFFICES ASSUME NEW k \in Keys, enrollments'[k] # None, enrollments'[k].claimedBy # None,
                      ~enrollments'[k].delivered, devices'[enrollments'[k].claimedBy] = None
               PROVE  \/ enrollments'[k].claimedBy \in cutOff'
                      \/ \E d \in Calls : /\ calls'[d].op \in {"lock", "reset"}
                                          /\ calls'[d].tenant = enrollments'[k].claimedBy
    BY DEF OrphanHasCause, OrphanClaim, Present
  <2>1. /\ enrollments[k] # None /\ enrollments[k].claimedBy = enrollments'[k].claimedBy
        /\ ~enrollments[k].delivered /\ devices[enrollments[k].claimedBy] = None
    BY DEF Rewrites, store
  <2>2. \/ enrollments[k].claimedBy \in cutOff
        \/ \E d \in Calls : /\ calls[d].op \in {"lock", "reset"}
                            /\ calls[d].tenant = enrollments[k].claimedBy
    BY <2>1 DEF EnrollmentInv, OrphanHasCause, OrphanClaim, Present
  <2>3. ASSUME NEW d \in Calls, calls[d].op \in {"lock", "reset"},
               calls[d].tenant = enrollments[k].claimedBy
        PROVE  calls'[d] = calls[d]
    BY <2>1, <2>3 DEF Rewrites
  <2>. QED
    BY <2>1, <2>2, <2>3 DEF Rewrites
<1>. QED
  BY <1>1, <1>2, <1>3, <1>4 DEF EnrollmentInv

-----------------------------------------------------------------------------
(* The steps that write certificates or device rows.                        *)

\* Superseding a device's certificates revokes them and changes nothing else.
LEMMA SupersededOK ==
  ASSUME EnrollmentInv, NEW pk, NEW s \in Serials
  PROVE  /\ Supersede(pk)[s] \in Certificate \cup {None}
         /\ Supersede(pk)[s] = None <=> certs[s] = None
         /\ certs[s] # None => /\ Supersede(pk)[s].pk = certs[s].pk
                               /\ Supersede(pk)[s].tenant = certs[s].tenant
                               /\ Supersede(pk)[s].key = certs[s].key
                               /\ certs[s].revoked => Supersede(pk)[s].revoked
<1>1. certs[s] \in Certificate \cup {None}
  BY DEF EnrollmentInv, TypeOK
<1>2. Supersede(pk)[s] = IF certs[s] # None /\ certs[s].pk = pk
                         THEN [certs[s] EXCEPT !.revoked = TRUE] ELSE certs[s]
  BY DEF Supersede
<1>3. CASE certs[s] = None
  BY <1>2, <1>3
<1>4. CASE certs[s] # None
  <2> DEFINE dead == [certs[s] EXCEPT !.revoked = TRUE]
  <2>1. certs[s] \in Certificate
    BY <1>1, <1>4
  <2>2. /\ dead \in Certificate /\ dead.pk = certs[s].pk /\ dead.tenant = certs[s].tenant
        /\ dead.key = certs[s].key /\ dead.revoked
    BY <2>1 DEF Certificate
  <2>3. dead # None
    BY <2>2
  <2>. HIDE DEF dead
  <2>4. Supersede(pk)[s] = dead \/ Supersede(pk)[s] = certs[s]
    BY <1>2 DEF dead
  <2>. QED
    BY <1>4, <2>1, <2>2, <2>3, <2>4
<1>. QED
  BY <1>3, <1>4

\* So does the whole table.
LEMMA SupersedeTable ==
  ASSUME EnrollmentInv, NEW pk
  PROVE  Supersede(pk) \in [Serials -> Certificate \cup {None}]
<1>1. \A s \in Serials : Supersede(pk)[s] \in Certificate \cup {None}
  BY SupersededOK
<1>. QED
  BY <1>1 DEF Supersede

\* A device row that is changed in its paired flag stays a device row.
LEMMA PairedOK ==
  ASSUME EnrollmentInv, NEW t \in Tenants, NEW pk, HasRow(t, pk), NEW b \in BOOLEAN,
         devices' = [devices EXCEPT ![t].paired = b]
  PROVE  /\ devices' \in [Tenants -> Device \cup {None}]
         /\ \A u \in Tenants : devices'[u] = None <=> devices[u] = None
<1>1. devices[t] \in Device
  BY DEF EnrollmentInv, TypeOK, HasRow
<1>2. [devices[t] EXCEPT !.paired = b] \in Device
  BY <1>1 DEF Device
<1>. QED
  BY <1>1, <1>2 DEF EnrollmentInv, TypeOK

\* A revoke writes certificates and device rows that are such, for the same
\* devices, keys and tenants, and no row comes or goes.
LEMMA RevokeOK ==
  ASSUME EnrollmentInv, NEW t \in Tenants, NEW pk,
         Revoke(t, pk) \/ UNCHANGED <<certs, devices>>
  PROVE  /\ certs' \in [Serials -> Certificate \cup {None}]
         /\ \A s \in Serials : /\ certs'[s] = None <=> certs[s] = None
                               /\ certs[s] # None => /\ certs'[s].tenant = certs[s].tenant
                                                     /\ certs'[s].key = certs[s].key
                                                     /\ certs[s].revoked => certs'[s].revoked
         /\ devices' \in [Tenants -> Device \cup {None}]
         /\ \A u \in Tenants : devices'[u] = None <=> devices[u] = None
<1>1. CASE Revoke(t, pk) /\ HasRow(t, pk)
  <2>1. certs' = Supersede(pk) /\ devices' = [devices EXCEPT ![t].paired = FALSE]
    BY <1>1 DEF Revoke
  <2>2. /\ devices' \in [Tenants -> Device \cup {None}]
        /\ \A u \in Tenants : devices'[u] = None <=> devices[u] = None
    BY <1>1, <2>1, PairedOK
  <2>. QED
    BY <2>1, <2>2, SupersededOK, SupersedeTable
<1>2. CASE UNCHANGED <<certs, devices>>
  BY <1>2 DEF EnrollmentInv, TypeOK
<1>. QED
  BY <1>1, <1>2 DEF Revoke

\* Certificates whose tenants and keys are the old ones stay authorised.
LEMMA CertsStayAuthorised ==
  ASSUME EnrollmentInv, presented \subseteq presented',
         \A s \in Serials : certs'[s] # None =>
            \/ /\ certs[s] # None /\ certs'[s].tenant = certs[s].tenant
               /\ certs'[s].key = certs[s].key
            \/ Authorised(certs'[s].tenant, certs'[s].key)
  PROVE  CertFollowsCode'
BY DEF EnrollmentInv, CodesOK, CertFollowsCode, Authorised

\* Claim, transaction: the row and its device row appear together.
LEMMA ClaimIntoKeeps ==
  ASSUME EnrollmentInv, NEW c \in Calls, ClaimInto(c)
  PROVE  EnrollmentInv' /\ RowsStay
<1> DEFINE k == calls[c].key
           u == calls[c].user
           t == UserTenant[u]
           row == [enrollments[k] EXCEPT !.claimedBy = t]
<1>1. calls[c] \in ClaimCall /\ CallOK(calls[c])
  BY CallKinds DEF EnrollmentInv, TypeOK, CodesOK, ClaimInto
<1>2. k \in Keys /\ u \in Users /\ t \in Tenants
  BY <1>1 DEF ClaimCall
<1>3. enrollments[k] \in EnrollmentRow
  BY <1>2 DEF EnrollmentInv, TypeOK, ClaimInto, Present
<1>4. row \in EnrollmentRow
  BY <1>2, <1>3, ClaimEdit
<1>5. /\ enrollments' = [enrollments EXCEPT ![k] = row]
      /\ devices' = [devices EXCEPT ![t] = Claimed(t, u)]
      /\ Go(c, Idle) /\ presented' = presented /\ cutOff' = cutOff
      /\ UNCHANGED <<certs, tombstones, nextSerial, units, clock>>
  BY DEF ClaimInto, Answer
<1>6. /\ row.token = enrollments[k].token /\ row.challenge = enrollments[k].challenge
      /\ row.verifiedAt = enrollments[k].verifiedAt /\ row.claimedBy = t
      /\ row.delivered = enrollments[k].delivered
  BY <1>2, <1>3, ClaimEdit
<1>7. /\ enrollments'[k] = row
      /\ \A j \in Keys : j # k => enrollments'[j] = enrollments[j]
      /\ enrollments' \in [Keys -> EnrollmentRow \cup {None}]
  BY <1>2, <1>4, <1>5 DEF EnrollmentInv, TypeOK
<1>8. Claimed(t, u) \in Device
  BY <1>2 DEF EnrollmentInv, TypeOK, Claimed, Device
<1>9. /\ devices'[t] = Claimed(t, u) /\ devices'[t] # None
      /\ \A v \in Tenants : v # t => devices'[v] = devices[v]
      /\ devices' \in [Tenants -> Device \cup {None}]
  BY <1>2, <1>5, <1>8 DEF EnrollmentInv, TypeOK
<1>10. CallsGoOn
  BY <1>5, IdleOK, OneGoesOn
<1>. HIDE DEF row
<1>11. TypeOK'
  <2>1. nextPk' \in Nat
    BY DEF EnrollmentInv, TypeOK, ClaimInto
  <2>. QED
    BY <1>5, <1>7, <1>9, <1>10, <2>1 DEF EnrollmentInv, TypeOK, CallsGoOn
<1>12. SerialsOK'
  BY <1>5 DEF EnrollmentInv, SerialsOK
<1>13. CodesOK'
  <2>1. Authorised(t, k)
    BY <1>1 DEF CallOK, ClaimInto
  <2>2. \A j \in Keys : RowOK(j)
    BY DEF EnrollmentInv, CodesOK
  <2>3. row.challenge = "unit" \/ row.verifiedAt > 0 => row.token \in UnitTokens[k]
    BY <1>2, <1>3, <1>6, <2>2 DEF RowOK
  <2>4. \A j \in Keys : enrollments'[j] # None =>
          /\ enrollments'[j].challenge = "unit" \/ enrollments'[j].verifiedAt > 0
               => enrollments'[j].token \in UnitTokens[j]
          /\ enrollments'[j].claimedBy # None => Authorised(enrollments'[j].claimedBy, j)
    BY <1>6, <1>7, <2>1, <2>2, <2>3 DEF RowOK
  <2>5. \A j \in Keys : RowOK(j)'
    BY <1>5, <2>4 DEF RowOK, Authorised
  <2>6. CertFollowsCode'
    BY <1>5, CertsStayAuthorised
  <2>. QED
    BY <1>10, <2>5, <2>6 DEF CodesOK, CallsGoOn
<1>14. OrphanHasCause'
  <2>1. KeepsDebts
    BY <1>5 DEF KeepsDebts, Go, EnrollmentInv, TypeOK, ClaimInto
  <2>. QED
    BY <1>2, <1>6, <1>7, <1>9, <2>1, CausesStay DEF EnrollmentInv, TypeOK, EnrollmentRow
<1>15. RowsStay
  BY <1>4, <1>7, RowIsThere DEF RowsStay, Present
<1>. QED
  BY <1>11, <1>12, <1>13, <1>14, <1>15 DEF EnrollmentInv

\* A poll issues: the new serial was free, and its tenant had typed the code.
LEMMA EnrollCertIssueKeeps ==
  ASSUME EnrollmentInv, NEW c \in Calls, EnrollCertIssue(c)
  PROVE  EnrollmentInv'
<1> DEFINE t == calls[c].tenant
           pk == calls[c].pk
           cert == [pk |-> pk, tenant |-> t, key |-> calls[c].key, revoked |-> FALSE]
           x == [op |-> "reply", key |-> calls[c].key, serial |-> nextSerial,
                 heard |-> calls[c].heard]
<1>1. calls[c] \in IssueCall /\ Authorised(t, calls[c].key)
  BY CallKinds DEF EnrollmentInv, TypeOK, CodesOK, CallOK, EnrollCertIssue
<1>2. t \in Tenants /\ pk \in Nat /\ calls[c].key \in Keys /\ calls[c].heard \in BOOLEAN
  BY <1>1 DEF IssueCall
<1>3. nextSerial \in Serials
  BY DEF EnrollmentInv, TypeOK, EnrollCertIssue, Serials
<1>4. cert \in Certificate /\ cert # None /\ x \in Call /\ CallOK(x)
  <2>1. cert \in Certificate
    BY <1>2 DEF Certificate
  <2>2. x \in ReplyCall
    BY <1>2, <1>3 DEF ReplyCall
  <2>. QED
    BY <2>1, <2>2 DEF Call, CallOK
<1>5. /\ certs' = [Supersede(pk) EXCEPT ![nextSerial] = cert]
      /\ nextSerial' = nextSerial + 1 /\ HasRow(t, pk)
      /\ devices' = [devices EXCEPT ![t].paired = TRUE]
      /\ Go(c, x)
      /\ UNCHANGED <<rows, tombstones, nextPk, units, clock, admin, faults, cutOff>>
  BY DEF EnrollCertIssue
<1>6. /\ devices' \in [Tenants -> Device \cup {None}]
      /\ \A u \in Tenants : devices'[u] = None <=> devices[u] = None
  BY <1>2, <1>5, PairedOK
<1>. HIDE DEF cert, x
<1>7. /\ certs'[nextSerial] = cert
      /\ \A s \in Serials : s # nextSerial => certs'[s] = Supersede(pk)[s]
      /\ certs' \in [Serials -> Certificate \cup {None}]
  BY <1>3, <1>4, <1>5, SupersedeTable
<1>8. CallsGoOn
  BY <1>4, <1>5, OneGoesOn DEF rows
<1>9. TypeOK'
  <2>1. nextSerial' \in Nat \ {0}
    BY <1>5 DEF EnrollmentInv, TypeOK
  <2>. QED
    BY <1>5, <1>6, <1>7, <1>8, <2>1 DEF EnrollmentInv, TypeOK, CallsGoOn, rows
<1>10. SerialsOK'
  <2> SUFFICES ASSUME NEW s \in Serials, s >= nextSerial'
               PROVE  certs'[s] = None /\ tombstones'[s] = None
    BY DEF SerialsOK
  <2>1. s >= nextSerial /\ s # nextSerial
    BY <1>5 DEF EnrollmentInv, TypeOK, Serials
  <2>2. certs[s] = None /\ tombstones[s] = None
    BY <2>1 DEF EnrollmentInv, SerialsOK
  <2>. QED
    BY <1>5, <1>7, <2>1, <2>2, SupersededOK
<1>11. CodesOK'
  <2>1. \A k \in Keys : RowOK(k)'
    BY <1>5 DEF EnrollmentInv, CodesOK, RowOK, Authorised, rows
  <2>2. cert.tenant = t /\ cert.key = calls[c].key
    BY DEF cert
  <2>3. CertFollowsCode'
    BY <1>1, <1>3, <1>5, <1>7, <2>2, SupersededOK, CertsStayAuthorised DEF rows
  <2>. QED
    BY <1>8, <2>1, <2>3 DEF CodesOK, CallsGoOn
<1>12. OrphanHasCause'
  <2>1. KeepsDebts
    BY <1>5 DEF KeepsDebts, Go, EnrollmentInv, TypeOK, EnrollCertIssue
  <2>. QED
    BY <1>5, <1>6, <2>1, CausesStay DEF EnrollmentInv, TypeOK, EnrollmentRow, rows
<1>. QED
  BY <1>9, <1>10, <1>11, <1>12 DEF EnrollmentInv

\* Both revokes, whatever the call does next, as long as it is no reset yet.
LEMMA RevokeKeeps ==
  ASSUME EnrollmentInv, CallsGoOn, KeepsDebts, NEW t \in Tenants, NEW pk,
         Revoke(t, pk) \/ UNCHANGED <<certs, devices>>,
         UNCHANGED <<rows, tombstones, nextPk, nextSerial, units, clock>>
  PROVE  EnrollmentInv'
<1>1. /\ certs' \in [Serials -> Certificate \cup {None}]
      /\ \A s \in Serials : /\ certs'[s] = None <=> certs[s] = None
                            /\ certs[s] # None => /\ certs'[s].tenant = certs[s].tenant
                                                  /\ certs'[s].key = certs[s].key
      /\ devices' \in [Tenants -> Device \cup {None}]
      /\ \A u \in Tenants : devices'[u] = None <=> devices[u] = None
  BY RevokeOK
<1>2. TypeOK'
  BY <1>1 DEF EnrollmentInv, TypeOK, CallsGoOn, rows
<1>3. SerialsOK'
  BY <1>1 DEF EnrollmentInv, SerialsOK
<1>4. CodesOK'
  <2>1. \A k \in Keys : RowOK(k)'
    BY DEF EnrollmentInv, CodesOK, RowOK, Authorised, rows
  <2>2. CertFollowsCode'
    BY <1>1, CertsStayAuthorised DEF rows
  <2>. QED
    BY <2>1, <2>2 DEF CodesOK, CallsGoOn
<1>5. OrphanHasCause'
  BY <1>1, CausesStay DEF EnrollmentInv, TypeOK, EnrollmentRow, rows
<1>. QED
  BY <1>2, <1>3, <1>4, <1>5 DEF EnrollmentInv

\* The owner's revoke is the handler's last step.
LEMMA OwnerRevokeCertKeeps ==
  ASSUME EnrollmentInv, NEW c \in Calls, OwnerRevokeCert(c)
  PROVE  EnrollmentInv'
<1>1. calls[c] \in OwnerCall
  BY CallKinds DEF EnrollmentInv, TypeOK, OwnerRevokeCert
<1>2. calls[c].tenant \in Tenants
  BY <1>1 DEF OwnerCall
<1>3. CallsGoOn
  BY IdleOK, OneGoesOn DEF OwnerRevokeCert, Answer, rows
<1>4. KeepsDebts
  BY DEF KeepsDebts, OwnerRevokeCert, Answer, Go, EnrollmentInv, TypeOK
<1>5. /\ Revoke(calls[c].tenant, calls[c].pk) \/ UNCHANGED <<certs, devices>>
      /\ UNCHANGED <<rows, tombstones, nextPk, nextSerial, units, clock>>
  BY DEF OwnerRevokeCert
<1>. QED
  BY <1>2, <1>3, <1>4, <1>5, RevokeKeeps

\* The admin's revoke goes on to the delete, or to the reset.
LEMMA AdminRevokeKeeps ==
  ASSUME EnrollmentInv, NEW c \in Calls, AdminRevoke(c)
  PROVE  EnrollmentInv'
<1>1. calls[c] \in RevokeCall
  BY CallKinds DEF EnrollmentInv, TypeOK, AdminRevoke
<1>2. calls[c].tenant \in Tenants /\ calls[c].pk \in Nat
  BY <1>1 DEF RevokeCall
<1> DEFINE x == [op |-> "delete", tenant |-> calls[c].tenant, pk |-> calls[c].pk]
           y == [op |-> "lock", tenant |-> calls[c].tenant]
<1>3. /\ Go(c, x) \/ Go(c, y) \/ Go(c, Idle)
      /\ presented' = presented /\ cutOff' = cutOff
  BY DEF AdminRevoke, Answer, rows
<1>4. x \in Call /\ CallOK(x) /\ y \in Call /\ CallOK(y)
  <2>1. x \in DeleteCall /\ y \in LockCall
    BY <1>2 DEF DeleteCall, LockCall
  <2>. QED
    BY <2>1 DEF Call, CallOK
<1>. HIDE DEF x, y
<1>5. CallsGoOn
  BY <1>3, <1>4, IdleOK, OneGoesOn
<1>6. KeepsDebts
  BY <1>3 DEF KeepsDebts, AdminRevoke, Go, EnrollmentInv, TypeOK
<1>7. /\ Revoke(calls[c].tenant, calls[c].pk) \/ UNCHANGED <<certs, devices>>
      /\ UNCHANGED <<rows, tombstones, nextPk, nextSerial, units, clock>>
  BY DEF AdminRevoke
<1>. QED
  BY <1>2, <1>5, <1>6, <1>7, RevokeKeeps

\* The delete takes the device row and its certificates, leaves tombstones, and
\* owes the tenant the reset of the claims it just orphaned.
LEMMA AdminDeleteKeeps ==
  ASSUME EnrollmentInv, NEW c \in Calls, AdminDelete(c)
  PROVE  EnrollmentInv'
<1> DEFINE t == calls[c].tenant
           pk == calls[c].pk
           y == [op |-> "lock", tenant |-> t]
<1>1. calls[c] \in DeleteCall
  BY CallKinds DEF EnrollmentInv, TypeOK, AdminDelete
<1>2. t \in Tenants
  BY <1>1 DEF DeleteCall
<1>3. y \in Call /\ CallOK(y)
  <2>1. y \in LockCall
    BY <1>2 DEF LockCall
  <2>. QED
    BY <2>1 DEF Call, CallOK
<1>4. /\ \/ Go(c, y) /\ DeleteByID(t, pk)
         \/ Go(c, Idle) /\ UNCHANGED <<tombstones, certs, devices>>
      /\ UNCHANGED <<rows, nextPk, nextSerial, units, clock, admin, cutOff>>
  BY DEF AdminDelete, Answer
<1>5. y.op = "lock" /\ y.tenant = t
  OBVIOUS
<1>. HIDE DEF y
<1>6. /\ certs' \in [Serials -> Certificate \cup {None}]
      /\ \A s \in Serials : certs'[s] = None \/ certs'[s] = certs[s]
      /\ tombstones' \in [Serials -> Keys \cup {None}]
      /\ \A s \in Serials : certs[s] = None => tombstones'[s] = tombstones[s]
  <2>1. \A s \in CertsOf(pk) : s \in Serials /\ certs[s] # None /\ certs[s].key \in Keys
    BY DEF EnrollmentInv, TypeOK, CertsOf, Certificate
  <2>2. CASE DeleteByID(t, pk) /\ HasRow(t, pk)
    BY <2>1, <2>2 DEF DeleteByID, EnrollmentInv, TypeOK
  <2>3. CASE UNCHANGED <<tombstones, certs, devices>>
    BY <2>3 DEF EnrollmentInv, TypeOK
  <2>. QED
    BY <1>4, <2>2, <2>3 DEF DeleteByID
<1>7. /\ devices' \in [Tenants -> Device \cup {None}]
      /\ \A u \in Tenants : u # t => devices'[u] = devices[u]
      /\ ~Go(c, y) => devices' = devices
  BY <1>2, <1>4 DEF DeleteByID, EnrollmentInv, TypeOK
<1>8. CallsGoOn
  BY <1>3, <1>4, IdleOK, OneGoesOn DEF rows
<1>9. TypeOK'
  BY <1>4, <1>6, <1>7, <1>8 DEF EnrollmentInv, TypeOK, CallsGoOn, rows
<1>10. SerialsOK'
  BY <1>4, <1>6 DEF EnrollmentInv, SerialsOK
<1>11. CodesOK'
  <2>1. \A k \in Keys : RowOK(k)'
    BY <1>4 DEF EnrollmentInv, CodesOK, RowOK, Authorised, rows
  <2>2. CertFollowsCode'
    BY <1>4, <1>6, CertsStayAuthorised DEF rows
  <2>. QED
    BY <1>8, <2>1, <2>2 DEF CodesOK, CallsGoOn
<1>12. OrphanHasCause'
  <2>1. KeepsDebts
    BY <1>4 DEF KeepsDebts, AdminDelete, Go, EnrollmentInv, TypeOK
  <2>2. Go(c, y) => calls'[c] = y
    BY DEF EnrollmentInv, TypeOK, Go
  <2>. QED
    BY <1>4, <1>5, <1>7, <2>1, <2>2, CausesStay DEF EnrollmentInv, TypeOK, EnrollmentRow, rows
<1>. QED
  BY <1>9, <1>10, <1>11, <1>12 DEF EnrollmentInv

\* The first message a tenant's ingest accepts makes a device row.
LEMMA PhantomRowKeeps ==
  ASSUME EnrollmentInv, NEW t \in Tenants, PhantomRow(t)
  PROVE  EnrollmentInv'
<1> DEFINE row == [pk |-> nextPk, owner |-> None, paired |-> FALSE]
<1>1. row \in Device
  BY DEF EnrollmentInv, TypeOK, Device
<1>2. /\ devices' = [devices EXCEPT ![t] = row]
      /\ UNCHANGED <<rows, certs, tombstones, nextSerial, units, calls, clock, cutOff>>
      /\ nextPk' \in Nat
  BY DEF PhantomRow, EnrollmentInv, TypeOK
<1>3. row # None
  BY <1>1
<1>. HIDE DEF row
<1>4. /\ devices' \in [Tenants -> Device \cup {None}]
      /\ \A u \in Tenants : devices'[u] = None => devices[u] = None
  BY <1>1, <1>2, <1>3 DEF EnrollmentInv, TypeOK
<1>5. TypeOK'
  BY <1>2, <1>4 DEF EnrollmentInv, TypeOK, rows
<1>6. SerialsOK'
  BY <1>2 DEF EnrollmentInv, SerialsOK
<1>7. CodesOK'
  BY <1>2 DEF EnrollmentInv, CodesOK, RowOK, CallOK, Authorised, CertFollowsCode, rows
<1>8. OrphanHasCause'
  <2>1. KeepsDebts
    BY <1>2 DEF KeepsDebts
  <2>. QED
    BY <1>2, <1>4, <2>1, CausesStay DEF EnrollmentInv, TypeOK, EnrollmentRow, rows
<1>. QED
  BY <1>5, <1>6, <1>7, <1>8 DEF EnrollmentInv

\* A restart forgets every call: the sweep clears the claims they owed a reset,
\* or the tenants they owed it count as cut off.
LEMMA RestartKeeps ==
  ASSUME EnrollmentInv, Restart
  PROVE  EnrollmentInv'
<1>1. /\ calls' = [c \in Calls |-> Idle]
      /\ UNCHANGED <<store, units, clock, admin, presented>>
      /\ \A k \in Keys : enrollments'[k] = None \/ enrollments'[k] = enrollments[k]
      /\ enrollments' \in [Keys -> EnrollmentRow \cup {None}]
  BY DEF Restart, SweepOrphanClaims, Remove, EnrollmentInv, TypeOK
<1>2. CallsGoOn
  BY <1>1, IdleOK DEF CallsGoOn, CallOK, Idle
<1>3. TypeOK'
  BY <1>1, <1>2 DEF EnrollmentInv, TypeOK, CallsGoOn, store
<1>4. SerialsOK'
  BY <1>1 DEF EnrollmentInv, SerialsOK, store
<1>5. CodesOK'
  <2>1. \A k \in Keys : RowOK(k)'
    BY <1>1 DEF EnrollmentInv, CodesOK, RowOK, Authorised
  <2>2. CertFollowsCode'
    BY <1>1, CertsStayAuthorised DEF store
  <2>. QED
    BY <1>2, <2>1, <2>2 DEF CodesOK, CallsGoOn
<1>6. OrphanHasCause'
  <2>1. CASE SweepOrphanClaims
    BY <1>1, <2>1 DEF SweepOrphanClaims, Remove, OrphanHasCause, OrphanClaim, Present, store
  <2>2. CASE /\ enrollments' = enrollments
             /\ cutOff' = cutOff \cup {calls[c].tenant : c \in {d \in Calls :
                                          calls[d].op \in {"lock", "reset"}}}
    <3>1. KeepsDebts
      BY <2>2 DEF KeepsDebts
    <3>. QED
      BY <1>1, <2>2, <3>1, CausesStay DEF EnrollmentInv, TypeOK, EnrollmentRow, store
  <2>. QED
    BY <2>1, <2>2 DEF Restart
<1>. QED
  BY <1>3, <1>4, <1>5, <1>6 DEF EnrollmentInv

-----------------------------------------------------------------------------
(* All steps.                                                               *)

\* Nothing has happened yet.
LEMMA InitHolds == Init => EnrollmentInv
<1> SUFFICES ASSUME Init PROVE EnrollmentInv
  OBVIOUS
<1>1. TypeOK
  BY IdleOK DEF Init, TypeOK
<1>. QED
  BY <1>1, IdleOK DEF Init, EnrollmentInv, SerialsOK, CodesOK, RowOK, CertFollowsCode,
     OrphanHasCause, Present

\* Every step keeps the invariant, by its shape.
LEMMA NextKeeps == EnrollmentInv /\ [Next]_vars => EnrollmentInv'
<1> SUFFICES ASSUME EnrollmentInv, [Next]_vars PROVE EnrollmentInv'
  OBVIOUS
<1>1. CASE UNCHANGED vars
  BY <1>1 DEF vars, EnrollmentInv, TypeOK, SerialsOK, CodesOK, RowOK, CallOK, Authorised,
     CertFollowsCode, OrphanHasCause, OrphanClaim, CertFor, Present
<1>2. ASSUME NEW k \in Keys, NEW token \in Tokens, NEW by \in {"unit", "other"},
             \/ Announce(k, token, by)
             \/ \E c \in Calls : AnnounceFirst(c, k, token, by)
      PROVE  EnrollmentInv'
  BY <1>2, RewritesAnnounce, QuietAnnounceFirst, RewritesKeeps, QuietKeeps
<1>3. ASSUME NEW k \in Keys, \/ ChallengeExpires(k) \/ VerifyBadProof(k)
                             \/ StatusWipe(k)
                             \/ \E by \in {"unit", "other"} : MarkDelivered(k, by)
      PROVE  EnrollmentInv'
  BY <1>3, RewritesChallenge, RewritesMarkDelivered, QuietStatusWipe, RewritesKeeps, QuietKeeps
<1>4. ASSUME NEW c \in Calls, NEW k \in Keys, CodeHolder(c, k)
      PROVE  EnrollmentInv'
  BY <1>4, RewritesVerify, QuietEnrollCert, RewritesKeeps, QuietKeeps DEF CodeHolder
<1>5. ASSUME NEW c \in Calls, NEW u \in Users, NEW token \in Tokens, FindForClaim(c, u, token)
      PROVE  EnrollmentInv'
  BY <1>5, QuietFindForClaim, QuietKeeps
<1>6. ASSUME NEW c \in Calls, NEW t \in Tenants,
             OwnerRevoke(c, t) \/ \E d \in BOOLEAN : AdminTakeDown(c, t, d)
      PROVE  EnrollmentInv'
  BY <1>6, QuietTakeDown, QuietKeeps
<1>7. ASSUME NEW c \in Calls, Proceed(c)
      PROVE  EnrollmentInv'
  <2>1. CASE AnnounceInsert(c) \/ VerifyMark(c) \/ ResetForTenant(c) \/ Reset(c)
    BY <2>1, RewritesAnnounceInsert, RewritesVerifyMark, RewritesResets, RewritesKeeps
  <2>2. CASE \/ VerifyLost(c) \/ ClaimNotReady(c) \/ EnrollCertLookup(c)
             \/ EnrollCertNoDevice(c) \/ EnrollCertReply(c)
             \/ ResetForTenantLock(c) \/ ResetLock(c)
    BY <2>2, QuietEnds, QuietEnrollCertLookup, QuietEnrollCertReply, QuietLocks, QuietKeeps
  <2>3. CASE ClaimInto(c) \/ EnrollCertIssue(c) \/ OwnerRevokeCert(c)
             \/ AdminRevoke(c) \/ AdminDelete(c)
    BY <2>3, ClaimIntoKeeps, EnrollCertIssueKeeps, OwnerRevokeCertKeeps, AdminRevokeKeeps,
       AdminDeleteKeeps
  <2>. QED
    BY <1>7, <2>1, <2>2, <2>3 DEF Proceed
<1>8. ASSUME NEW c \in Calls, Trouble(c)
      PROVE  EnrollmentInv'
  BY <1>8, QuietEnds, QuietUnitTimesOut, QuietKeeps DEF Trouble
<1>9. ASSUME NEW token \in Tokens, ClaimWrongCode(token)
      PROVE  EnrollmentInv'
  BY <1>9, RewritesClaimWrongCode, RewritesKeeps
<1>10. ASSUME NEW t \in Tenants, PhantomRow(t)
       PROVE  EnrollmentInv'
  BY <1>10, PhantomRowKeeps
<1>11. CASE Prune
  BY <1>11, RewritesPrune, RewritesKeeps
<1>12. CASE Restart
  BY <1>12, RestartKeeps
<1>. QED
  BY <1>1, <1>2, <1>3, <1>4, <1>5, <1>6, <1>7, <1>8, <1>9, <1>10, <1>11, <1>12 DEF Next

-----------------------------------------------------------------------------
(* Who removes enrollment rows, and who touches the certificates.           *)

\* A row that is gone was removed by one of the two resets, by the daily prune or
\* by the sweep at boot.
LEMMA WhoRemovesRows ==
  ASSUME EnrollmentInv, [Next]_vars
  PROVE  \/ RowsStay \/ Prune \/ Restart
         \/ \E c \in Calls : ResetForTenant(c) \/ Reset(c)
<1>1. CASE UNCHANGED enrollments
  BY <1>1 DEF RowsStay, Present
<1>2. ASSUME NEW c \in Calls, Trouble(c)
      PROVE  UNCHANGED enrollments
  BY <1>2 DEF Trouble, ClaimRolledBack, EnrollCertFails, UnitTimesOut, ResetFails,
     ResetForTenantFails, rows
<1>3. ASSUME NEW c \in Calls, NEW t \in Tenants,
             OwnerRevoke(c, t) \/ \E d \in BOOLEAN : AdminTakeDown(c, t, d)
      PROVE  UNCHANGED enrollments
  BY <1>3 DEF OwnerRevoke, AdminTakeDown, rows
<1>4. ASSUME NEW c \in Calls, Proceed(c)
      PROVE  \/ UNCHANGED enrollments
             \/ AnnounceInsert(c) \/ VerifyMark(c) \/ ClaimInto(c)
             \/ ResetForTenant(c) \/ Reset(c)
  BY <1>4 DEF Proceed, VerifyLost, ClaimNotReady, EnrollCertLookup, EnrollCertIssue,
     EnrollCertNoDevice, EnrollCertReply, ResetForTenantLock, OwnerRevokeCert, AdminRevoke,
     AdminDelete, ResetLock, rows
<1>5. ASSUME NEW c \in Calls, NEW k \in Keys, NEW by, EnrollCert(c, k, by)
      PROVE  UNCHANGED enrollments
  BY <1>5 DEF EnrollCert, rows
<1>6. ASSUME NEW c \in Calls, NEW u \in Users, NEW token \in Tokens, FindForClaim(c, u, token)
      PROVE  UNCHANGED enrollments
  BY <1>6 DEF FindForClaim
<1>7. ASSUME NEW c \in Calls, NEW k \in Keys, NEW token \in Tokens, NEW by,
             AnnounceFirst(c, k, token, by)
      PROVE  UNCHANGED enrollments
  BY <1>7 DEF AnnounceFirst, rows
<1>8. (\E k \in Keys : StatusWipe(k)) \/ (\E t \in Tenants : PhantomRow(t)) \/ UNCHANGED vars
        => UNCHANGED enrollments
  BY DEF StatusWipe, PhantomRow, rows, vars
<1>. QED
  BY <1>1, <1>2, <1>3, <1>4, <1>5, <1>6, <1>7, <1>8, RewritesAnnounce, RewritesChallenge,
     RewritesMarkDelivered, RewritesVerify, RewritesAnnounceInsert, RewritesVerifyMark,
     RewritesClaimWrongCode, ClaimIntoKeeps DEF Next, CodeHolder

\* Certificates and tombstones change in an issue, in a revoke and in a delete.
LEMMA WhoTouchesCerts ==
  ASSUME EnrollmentInv, [Next]_vars
  PROVE  \/ UNCHANGED <<certs, tombstones>>
         \/ \E c \in Calls : \/ EnrollCertIssue(c) \/ OwnerRevokeCert(c)
                             \/ AdminRevoke(c) \/ AdminDelete(c)
<1>1. ASSUME NEW c \in Calls, Trouble(c)
      PROVE  UNCHANGED <<certs, tombstones>>
  BY <1>1 DEF Trouble, ClaimRolledBack, EnrollCertFails, UnitTimesOut, ResetFails,
     ResetForTenantFails, store
<1>2. ASSUME NEW c \in Calls, NEW t \in Tenants,
             OwnerRevoke(c, t) \/ \E d \in BOOLEAN : AdminTakeDown(c, t, d)
      PROVE  UNCHANGED <<certs, tombstones>>
  BY <1>2 DEF OwnerRevoke, AdminTakeDown, store
<1>3. ASSUME NEW c \in Calls, Proceed(c)
      PROVE  \/ UNCHANGED <<certs, tombstones>>
             \/ EnrollCertIssue(c) \/ OwnerRevokeCert(c) \/ AdminRevoke(c) \/ AdminDelete(c)
  BY <1>3 DEF Proceed, AnnounceInsert, VerifyMark, VerifyLost, ClaimInto, ClaimNotReady,
     EnrollCertLookup, EnrollCertNoDevice, EnrollCertReply, ResetForTenantLock,
     ResetForTenant, ResetLock, Reset, store
<1>4. ASSUME NEW c \in Calls, NEW k \in Keys, CodeHolder(c, k)
      PROVE  UNCHANGED <<certs, tombstones>>
  BY <1>4 DEF CodeHolder, Verify, EnrollCert, store
<1>5. ASSUME NEW c \in Calls, NEW u \in Users, NEW token \in Tokens, FindForClaim(c, u, token)
      PROVE  UNCHANGED <<certs, tombstones>>
  BY <1>5 DEF FindForClaim, store
<1>6. ASSUME NEW k \in Keys, NEW token \in Tokens, NEW by,
             Announce(k, token, by) \/ \E c \in Calls : AnnounceFirst(c, k, token, by)
      PROVE  UNCHANGED <<certs, tombstones>>
  BY <1>6 DEF Announce, AnnounceFirst, store
<1>7. ASSUME NEW k \in Keys, \/ ChallengeExpires(k) \/ VerifyBadProof(k)
                             \/ StatusWipe(k)
                             \/ \E by \in {"unit", "other"} : MarkDelivered(k, by)
      PROVE  UNCHANGED <<certs, tombstones>>
  BY <1>7 DEF ChallengeExpires, VerifyBadProof, MarkDelivered, StatusWipe, store
<1>8. \/ \E token \in Tokens : ClaimWrongCode(token)
      \/ \E t \in Tenants : PhantomRow(t)
      \/ Prune \/ Restart \/ UNCHANGED vars
      => UNCHANGED <<certs, tombstones>>
  BY DEF ClaimWrongCode, PhantomRow, Prune, Restart, store, vars
<1>. QED
  BY <1>1, <1>2, <1>3, <1>4, <1>5, <1>6, <1>7, <1>8 DEF Next

\* A claim that its tenant backs leaves with a reset in that tenant only: the
\* prune takes rows of nobody, boot takes orphans, and a reset in another tenant
\* passes it by even when it was made between the lock and the DELETE.
LEMMA BackedClaimStays ==
  ASSUME EnrollmentInv, [Next]_vars, NEW k \in Present,
         enrollments[k].claimedBy # None, ~OrphanClaim(k), enrollments'[k] = None
  PROVE  \E c \in Calls : /\ calls[c].op \in {"ownerReset", "reset"}
                          /\ calls[c].tenant = enrollments[k].claimedBy
                          /\ calls'[c] # calls[c]
<1>1. ~RowsStay /\ enrollments[k] # None /\ k \in Keys
  BY DEF RowsStay, Present
<1>2. ~Prune
  BY <1>1 DEF Prune, Remove
<1>3. ~Restart
  BY <1>1 DEF Restart, SweepOrphanClaims, Remove
<1>4. ASSUME NEW c \in Calls, ResetForTenant(c)
      PROVE  /\ calls[c].op \in {"ownerReset", "reset"}
             /\ calls[c].tenant = enrollments[k].claimedBy
             /\ calls'[c] # calls[c]
  <2>1. k \in Resettable(calls[c].tenant)
    BY <1>1, <1>4 DEF ResetForTenant, Remove
  <2>2. calls'[c].op = "ownerRevoke" /\ calls[c].op = "ownerReset"
    BY <1>4 DEF ResetForTenant, Go, EnrollmentInv, TypeOK
  <2>. QED
    BY <2>1, <2>2 DEF Resettable
<1>5. ASSUME NEW c \in Calls, Reset(c)
      PROVE  /\ calls[c].op \in {"ownerReset", "reset"}
             /\ calls[c].tenant = enrollments[k].claimedBy
             /\ calls'[c] # calls[c]
  <2>1. k \in Resettable(calls[c].tenant) \cup OrphansOfOthers(calls[c].tenant)
    BY <1>1, <1>5 DEF Reset, Remove
  <2>2. calls'[c].op = "idle" /\ calls[c].op = "reset"
    BY <1>5 DEF Reset, Answer, Go, Idle, EnrollmentInv, TypeOK
  <2>. QED
    BY <2>1, <2>2 DEF Resettable, OrphansOfOthers
<1>. QED
  BY <1>1, <1>2, <1>3, <1>4, <1>5, WhoRemovesRows

\* What reads "revoked" to a key does so after every step.
LEMMA RevokedStays ==
  ASSUME EnrollmentInv, [Next]_vars, NEW s \in Serials, NEW k \in Keys,
         RevocationStatus(s, k) = "revoked"
  PROVE  RevocationStatus(s, k)' = "revoked"
<1>1. \/ certs[s] # None /\ certs[s].key = k /\ certs[s].revoked
      \/ certs[s] = None /\ tombstones[s] = k
  BY DEF RevocationStatus
<1> SUFFICES \/ certs'[s] # None /\ certs'[s].key = k /\ certs'[s].revoked
             \/ certs'[s] = None /\ tombstones'[s] = k
  BY DEF RevocationStatus
<1>2. CASE UNCHANGED <<certs, tombstones>>
  BY <1>1, <1>2
<1>3. ASSUME NEW c \in Calls, EnrollCertIssue(c)
      PROVE  \/ certs'[s] # None /\ certs'[s].key = k /\ certs'[s].revoked
             \/ certs'[s] = None /\ tombstones'[s] = k
  <2>1. s # nextSerial
    <3>1. s = nextSerial => certs[s] = None /\ tombstones[s] = None
      BY DEF EnrollmentInv, TypeOK, SerialsOK
    <3>. QED
      BY <1>1, <3>1
  <2>2. certs'[s] = Supersede(calls[c].pk)[s] /\ tombstones' = tombstones
    BY <1>3, <2>1, SupersedeTable DEF EnrollCertIssue
  <2>. QED
    BY <1>1, <2>2, SupersededOK
<1>4. ASSUME NEW c \in Calls, OwnerRevokeCert(c) \/ AdminRevoke(c)
      PROVE  \/ certs'[s] # None /\ certs'[s].key = k /\ certs'[s].revoked
             \/ certs'[s] = None /\ tombstones'[s] = k
  <2>1. calls[c].tenant \in Tenants
    <3>1. calls[c] \in OwnerCall \/ calls[c] \in RevokeCall
      BY <1>4, CallKinds DEF EnrollmentInv, TypeOK, OwnerRevokeCert, AdminRevoke
    <3>. QED
      BY <3>1 DEF OwnerCall, RevokeCall
  <2>2. /\ Revoke(calls[c].tenant, calls[c].pk) \/ UNCHANGED <<certs, devices>>
        /\ tombstones' = tombstones
    BY <1>4 DEF OwnerRevokeCert, AdminRevoke
  <2>. QED
    BY <1>1, <2>1, <2>2, RevokeOK
<1>5. ASSUME NEW c \in Calls, AdminDelete(c)
      PROVE  \/ certs'[s] # None /\ certs'[s].key = k /\ certs'[s].revoked
             \/ certs'[s] = None /\ tombstones'[s] = k
  BY <1>1, <1>5 DEF AdminDelete, DeleteByID, CertsOf
<1>. QED
  BY <1>2, <1>3, <1>4, <1>5, WhoTouchesCerts

-----------------------------------------------------------------------------
(* The theorems.                                                            *)

\* The tables, the serials and the codes behind them are in order at all times.
THEOREM EnrollmentInvariant == Spec => []EnrollmentInv
  BY InitHolds, NextKeeps, PTL DEF Spec

\* Every certificate is for a key whose unit minted a code that somebody of the
\* certificate's tenant typed in.
THEOREM CertificateIsAuthorised == Spec => []CertFollowsCode
<1>1. EnrollmentInv => CertFollowsCode
  BY DEF EnrollmentInv, CodesOK
<1>. QED
  BY <1>1, EnrollmentInvariant, PTL

\* A pending claim without its device row belongs to a tenant that an admin delete
\* still owes its reset, or was cut off from it.
THEOREM OrphansAreExplained == Spec => []OrphanHasCause
<1>1. EnrollmentInv => OrphanHasCause
  BY DEF EnrollmentInv
<1>. QED
  BY <1>1, EnrollmentInvariant, PTL

\* A claim its tenant backs is removed by its own tenant's reset, or not at all.
THEOREM ResetsSpareOthers == Spec => BackedClaimSurvives
<1>1. EnrollmentInv /\ [Next]_vars =>
        [\A k \in Present :
           /\ enrollments[k].claimedBy # None /\ ~OrphanClaim(k)
           /\ enrollments'[k] = None
           => \E c \in Calls : /\ calls[c].op \in {"ownerReset", "reset"}
                               /\ calls[c].tenant = enrollments[k].claimedBy
                               /\ calls'[c] # calls[c]]_vars
  BY BackedClaimStays
<1>. QED
  BY <1>1, EnrollmentInvariant, PTL DEF Spec, BackedClaimSurvives

\* A revoked serial stays revoked for its key, through a delete of the device too.
THEOREM RevocationIsFinal == Spec => RevokedForGood
<1>1. EnrollmentInv /\ [Next]_vars =>
        [\A s \in Serials, k \in Keys :
           RevocationStatus(s, k) = "revoked" => RevocationStatus(s, k)' = "revoked"]_vars
  BY RevokedStays
<1>. QED
  BY <1>1, EnrollmentInvariant, PTL DEF Spec, RevokedForGood

====
