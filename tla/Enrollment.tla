----------------------------- MODULE Enrollment -----------------------------
(***************************************************************************)
(* Self-service enrollment of the hardware behind ONE device id, from the  *)
(* first unauthenticated announcement to the sealed certificate, and the   *)
(* owner and admin paths that take it apart again.                         *)
(*                                                                         *)
(*   pkg/service/enrollment.go, enrollment_policy.go   device_enrollments  *)
(*   pkg/service/certificate.go, device_delete.go      certs, device rows  *)
(*   pkg/service/cert_status.go, cert_status_policy.go revocation answers  *)
(*   pkg/api/v1/enroll.go, claim.go, pkg/web/device_claim.go   handlers    *)
(*   pkg/web/device_revoke.go, admin_device_delete.go          take-down   *)
(*                                                                         *)
(* Rows are keyed on (device_id, pubkey): any number of key pairs may      *)
(* announce under a guessable id.  The unit that owns a key and strangers  *)
(* both reach the endpoints.  Every database transaction is one action,    *)
(* except the two resets, which hold row locks across two statements; a    *)
(* handler made of several transactions is a call that moves from one to   *)
(* the next while every other request, and a crash, can come between.      *)
(*                                                                         *)
(* Left out: rate limits (they bound how often, never what), broker        *)
(* provisioning after a claim and the ErrBrokerIdentityTaken refusal, which*)
(* needs a reassigned device row.                                          *)
(***************************************************************************)
EXTENDS Integers, FiniteSets

CONSTANTS
  Keys,            \* public keys announced under the device id
  KeyRank,         \* their order as hex strings, [Keys -> Nat]
  Tokens,          \* claim codes
  UnitTokens,      \* [Keys -> SUBSET Tokens], the codes the unit owning a key mints
  Tenants, Users,
  UserTenant,      \* [Users -> Tenants]
  Calls,           \* requests in flight at a time
  SeesAllTenants,  \* the admin pool bypasses row level security
  ClaimFailureCap,
  None,
  MaxPk,           \* device rows ever created
  MaxCerts,        \* certificates ever issued
  MaxProofs,       \* values of the verified_at clock
  MaxAdmin,        \* owner revokes, admin revokes and deletes
  MaxFaults        \* crashes, lost answers, failed transactions

ASSUME EnrollmentAssumption ==
  /\ KeyRank \in [Keys -> Nat]
  /\ \A j, k \in Keys : KeyRank[j] = KeyRank[k] => j = k
  /\ UnitTokens \in [Keys -> SUBSET Tokens]
  /\ UserTenant \in [Users -> Tenants]
  /\ SeesAllTenants \in BOOLEAN
  /\ ClaimFailureCap \in Nat \ {0}
  /\ None \notin Keys \cup Tenants \cup Users
  /\ MaxPk \in Nat /\ MaxCerts \in Nat /\ MaxProofs \in Nat /\ MaxAdmin \in Nat /\ MaxFaults \in Nat

\* The rows of the three tables, with the columns this module tells apart.
EnrollmentRow ==
  [token : Tokens, failures : Nat, challenge : {"null", "unit", "other", "expired"},
   verifiedAt : Nat, claimedBy : Tenants \cup {None}, delivered : BOOLEAN]

Device == [pk : Nat, owner : Users \cup {None}, paired : BOOLEAN]

Certificate == [pk : Nat, tenant : Tenants, key : Keys, revoked : BOOLEAN]

\* None is no record: an absent row is told from a row.
ASSUME NoneIsNoRow == None \notin EnrollmentRow \cup Device \cup Certificate

VARIABLES
  enrollments,     \* [Keys -> row or None]: device_enrollments of this id, with
                   \* token, failures, challenge ("null", "unit", "other",
                   \* "expired"), verifiedAt (0: not), claimedBy, delivered
  devices,         \* [Tenants -> [pk, owner, paired] or None]: devices rows of this id
  certs,           \* [Serials -> [pk, tenant, key, revoked] or None]: device_certificates
  tombstones,      \* [Serials -> Keys or None]: device_cert_serial_tombstones
  units,           \* [Keys -> serial the unit stores, 0 for none] (hardware)
  calls,           \* [Calls -> a record with the handler's next step, op, and
                   \* what it has read so far]
  clock,           \* last verified_at handed out
  nextPk, nextSerial,
  admin, faults,   \* counters against MaxAdmin and MaxFaults
  presented,       \* history: <<tenant, code>> pairs typed into the claim form
  cutOff           \* history: tenants with a delete that lost its reset

rows == <<enrollments, presented>>
store == <<devices, certs, tombstones, nextPk, nextSerial>>
vars == <<enrollments, devices, certs, tombstones, units, calls, clock,
          nextPk, nextSerial, admin, faults, presented, cutOff>>

Serials == 1..MaxCerts
Idle == [op |-> "idle"]

Init ==
  /\ enrollments = [k \in Keys |-> None]
  /\ devices = [t \in Tenants |-> None]
  /\ certs = [s \in Serials |-> None]
  /\ tombstones = [s \in Serials |-> None]
  /\ units = [k \in Keys |-> 0]
  /\ calls = [c \in Calls |-> Idle]
  /\ clock = 0 /\ nextPk = 1 /\ nextSerial = 1
  /\ admin = 0 /\ faults = 0
  /\ presented = {} /\ cutOff = {}

-----------------------------------------------------------------------------
(* Decisions of enrollment_policy.go and queries over the tables.          *)

Present == {k \in Keys : enrollments[k] # None}

ClaimTokenAccepts(k, token) == enrollments[k].token = token

Verified(k) == enrollments[k].verifiedAt > 0

ClaimTokenFrozen(k) == Verified(k)

ClaimAllowed(k) == Verified(k) /\ enrollments[k].claimedBy = None

DeliverAllowed(k) ==
  Verified(k) /\ enrollments[k].claimedBy # None /\ ~enrollments[k].delivered

ChallengeUsable(k) == enrollments[k].challenge \in {"unit", "other"}

ProofAllowed(k) == ~enrollments[k].delivered

\* Another verified row comes first: earlier verified_at, ties to the smaller key.
ClaimLockOlder(k) ==
  \E j \in Present \ {k} :
    /\ Verified(j)
    /\ \/ enrollments[j].verifiedAt < enrollments[k].verifiedAt
       \/ /\ enrollments[j].verifiedAt = enrollments[k].verifiedAt
          /\ KeyRank[j] < KeyRank[k]

ClaimLockClears(k, token) == ClaimTokenAccepts(k, token) /\ Verified(k) /\ ~ClaimLockOlder(k)

\* The form is locked by the worst counter of the id's rows.
ClaimFailuresExhausted == \E k \in Present : enrollments[k].failures >= ClaimFailureCap

\* A device row of tenant t holds a certificate for key k.
CertFor(t, k) == \E s \in Serials : /\ certs[s] # None
                                    /\ certs[s].pk = devices[t].pk
                                    /\ certs[s].key = k

\* A claim its tenant no longer backs.
OrphanClaim(k) ==
  LET t == enrollments[k].claimedBy IN
  /\ t # None
  /\ \/ devices[t] = None
     \/ enrollments[k].delivered /\ ~CertFor(t, k)

\* Row locks: a reset holds the rows it selected until its transaction ends.
Unlocked(k) == \A c \in Calls :
                 calls[c].op \in {"ownerReset", "reset"} => k \notin calls[c].locked

Go(c, call) == calls' = [calls EXCEPT ![c] = call]
Answer(c) == Go(c, Idle)
Fault == faults < MaxFaults /\ faults' = faults + 1
NoFault == UNCHANGED faults
Remove(S) == enrollments' = [k \in Keys |-> IF k \in S THEN None ELSE enrollments[k]]

-----------------------------------------------------------------------------
(* Announce: anyone may announce any (key, code).  `by' says who received  *)
(* the challenge and can therefore have it signed.                         *)

NewRow(token, by) ==
  [token |-> token, failures |-> 0, challenge |-> by, verifiedAt |-> 0,
   claimedBy |-> None, delivered |-> FALSE]

MayAnnounce(k, token, by) == by = "unit" => units[k] = 0 /\ token \in UnitTokens[k]

\* The row an announcement leaves behind: the code rotates until the proof.
Announced(k, token, by) ==
  [enrollments[k] EXCEPT !.challenge = by,
                         !.token = IF ClaimTokenFrozen(k) THEN @ ELSE token]

Announce(k, token, by) ==
  /\ MayAnnounce(k, token, by)
  /\ k \in Present /\ Unlocked(k)
  /\ IF ClaimLockClears(k, token)
     THEN /\ \A j \in Present : Unlocked(j)
          /\ enrollments' = [j \in Keys |->
               IF j \notin Present THEN None
               ELSE [(IF j = k THEN Announced(k, token, by) ELSE enrollments[j])
                       EXCEPT !.failures = 0]]
     ELSE enrollments' = [enrollments EXCEPT ![k] = Announced(k, token, by)]
  /\ UNCHANGED <<store, units, calls, clock, admin, faults, presented, cutOff>>

\* The SELECT found no row, so nothing is locked until the INSERT.
AnnounceFirst(c, k, token, by) ==
  /\ MayAnnounce(k, token, by)
  /\ calls[c] = Idle /\ k \notin Present
  /\ Go(c, [op |-> "insert", key |-> k, token |-> token, by |-> by])
  /\ UNCHANGED <<rows, store, units, clock, admin, faults, cutOff>>

\* INSERT ... ON CONFLICT DO UPDATE: a row that appeared meanwhile is updated.
AnnounceInsert(c) ==
  LET k == calls[c].key IN
  /\ calls[c].op = "insert" /\ Unlocked(k)
  /\ enrollments' = [enrollments EXCEPT ![k] =
       IF k \in Present THEN Announced(k, calls[c].token, calls[c].by)
                        ELSE NewRow(calls[c].token, calls[c].by)]
  /\ Answer(c)
  /\ UNCHANGED <<store, units, clock, admin, faults, presented, cutOff>>

\* Five minutes pass.
ChallengeExpires(k) ==
  /\ k \in Present /\ ChallengeUsable(k)
  /\ enrollments' = [enrollments EXCEPT ![k].challenge = "expired"]
  /\ UNCHANGED <<store, units, calls, clock, admin, faults, presented, cutOff>>

-----------------------------------------------------------------------------
(* Verify: burn the challenge, judge the signature, mark the row.          *)

Burn(k) ==
  /\ k \in Present /\ Unlocked(k) /\ ProofAllowed(k) /\ ChallengeUsable(k)
  /\ enrollments' = [enrollments EXCEPT ![k].challenge = "null"]

\* The unit's own signature, over the challenge it was given.
Verify(c, k) ==
  /\ calls[c] = Idle
  /\ Burn(k)
  /\ enrollments[k].challenge = "unit"
  /\ Go(c, [op |-> "mark", key |-> k, token |-> enrollments[k].token])
  /\ UNCHANGED <<store, units, clock, admin, faults, presented, cutOff>>

\* Any other signature: the challenge is gone and nothing was proved.
VerifyBadProof(k) ==
  /\ Burn(k)
  /\ UNCHANGED <<store, units, calls, clock, admin, faults, presented, cutOff>>

\* Mutant: the row is addressed by its key alone.
MarkByKey(c) == calls[c].key \in Present /\ enrollments[calls[c].key].challenge = "null"

\* UPDATE ... SET verified_at WHERE claim_token_hash = burned AND challenge IS NULL
MarkMatches(c) == LET k == calls[c].key IN
  /\ k \in Present
  /\ enrollments[k].token = calls[c].token
  /\ enrollments[k].challenge = "null"

VerifyMark(c) ==
  LET k == calls[c].key IN
  /\ calls[c].op = "mark"
  /\ MarkMatches(c) /\ Unlocked(k)
  /\ \E now \in {clock, clock + 1} :          \* two transactions may share a timestamp
       /\ now \in 1..MaxProofs
       /\ clock' = now
       /\ enrollments' = [enrollments EXCEPT ![k].verifiedAt = now]
  /\ Answer(c)
  /\ UNCHANGED <<store, units, admin, faults, presented, cutOff>>

\* The row is not what the burn left behind.
VerifyLost(c) ==
  /\ calls[c].op = "mark" /\ ~MarkMatches(c)
  /\ Answer(c)
  /\ UNCHANGED <<rows, store, units, clock, admin, faults, cutOff>>

-----------------------------------------------------------------------------
(* Claim form: a code typed by a logged-in user selects a row.             *)

Matches(token) == {k \in Present : ClaimTokenAccepts(k, token)}

\* One match, or the only claimable one of several.
FoundForClaim(token) ==
  IF Cardinality(Matches(token)) = 1
  THEN Matches(token)
  ELSE LET claimable == {k \in Matches(token) : ClaimAllowed(k)}
       IN  IF Cardinality(claimable) = 1 THEN claimable ELSE {}

AllUnlocked == \A k \in Present : Unlocked(k)

\* The handler goes on only with a row that was verified when it was read.
ClaimSelects(token) == {k \in FoundForClaim(token) : Verified(k)}

FindForClaim(c, u, token) ==
  /\ calls[c] = Idle /\ AllUnlocked /\ ~ClaimFailuresExhausted
  /\ \E k \in ClaimSelects(token) :
       Go(c, [op |-> "claim", key |-> k, user |-> u])
  /\ presented' = presented \cup {<<UserTenant[u], token>>}
  /\ UNCHANGED <<enrollments, store, units, clock, admin, faults, cutOff>>

\* No row carries the code: every row of the id counts the failure.
ClaimWrongCode(token) ==
  /\ Present # {} /\ AllUnlocked /\ ~ClaimFailuresExhausted
  /\ Matches(token) = {}
  /\ enrollments' = [k \in Keys |-> IF k \in Present
                       THEN [enrollments[k] EXCEPT !.failures = @ + 1] ELSE None]
  /\ UNCHANGED <<store, units, calls, clock, admin, faults, presented, cutOff>>

\* The device row a claim leaves: the existing one, or a new one.
Claimed(t, u) ==
  IF devices[t] # None THEN [devices[t] EXCEPT !.owner = u]
  ELSE [pk |-> nextPk, owner |-> u, paired |-> FALSE]

ClaimInto(c) ==
  LET k == calls[c].key
      u == calls[c].user
      t == UserTenant[u] IN
  /\ calls[c].op = "claim"
  /\ k \in Present /\ Unlocked(k) /\ ClaimAllowed(k)
  /\ devices[t] = None => nextPk <= MaxPk
  /\ devices' = [devices EXCEPT ![t] = Claimed(t, u)]
  /\ nextPk' = IF devices[t] = None THEN nextPk + 1 ELSE nextPk
  /\ enrollments' = [enrollments EXCEPT ![k].claimedBy = t]
  /\ Answer(c)
  /\ UNCHANGED <<certs, tombstones, nextSerial, units, clock, admin, faults, presented, cutOff>>

\* Gone, unverified, claimed: the replay by its own claimant changes nothing
\* either (it hands back the device row for the broker provisioning).
ClaimNotReady(c) ==
  LET k == calls[c].key IN
  /\ calls[c].op = "claim"
  /\ k \in Present => Unlocked(k) /\ ~ClaimAllowed(k)
  /\ Answer(c)
  /\ UNCHANGED <<rows, store, units, clock, admin, faults, cutOff>>

\* The device cap, or a failed transaction: rolled back as a whole.
ClaimRolledBack(c) ==
  /\ calls[c].op = "claim"
  /\ Fault /\ Answer(c)
  /\ UNCHANGED <<rows, store, units, clock, admin, cutOff>>

-----------------------------------------------------------------------------
(* Certificate poll: read the row, read the device, sign and store, reply. *)
(* The endpoints serve any caller that presents the row's code; `by' says  *)
(* whether it is the unit, which then gets the answer.                     *)

\* The unit waits for one answer at a time.
Waiting(k) == \E c \in Calls : /\ calls[c].op \in {"lookup", "issue", "reply"}
                               /\ calls[c].key = k /\ calls[c].heard

EnrollCert(c, k, by) ==
  /\ calls[c] = Idle
  /\ k \in Present /\ DeliverAllowed(k)
  /\ by = "unit" => units[k] = 0 /\ ~Waiting(k) /\ enrollments[k].token \in UnitTokens[k]
  /\ Go(c, [op |-> "lookup", key |-> k, tenant |-> enrollments[k].claimedBy, heard |-> by = "unit"])
  /\ UNCHANGED <<rows, store, units, clock, admin, faults, cutOff>>

EnrollCertLookup(c) ==
  LET t == calls[c].tenant IN
  /\ calls[c].op = "lookup"
  /\ IF devices[t] = None
     THEN Answer(c)
     ELSE Go(c, [op |-> "issue", key |-> calls[c].key, tenant |-> t,
                 heard |-> calls[c].heard, pk |-> devices[t].pk])
  /\ UNCHANGED <<rows, store, units, clock, admin, faults, cutOff>>

\* The row a caller read earlier is still there, under the tenant it read.
HasRow(t, pk) == IF devices[t] = None THEN FALSE ELSE devices[t].pk = pk

\* issueTx: every unrevoked certificate of the device row is superseded.
Supersede(pk) == [s \in Serials |->
  IF certs[s] # None /\ certs[s].pk = pk THEN [certs[s] EXCEPT !.revoked = TRUE] ELSE certs[s]]

EnrollCertIssue(c) ==
  LET call == calls[c]
      t == call.tenant IN
  /\ call.op = "issue" /\ nextSerial <= MaxCerts
  /\ HasRow(t, call.pk)
  /\ certs' = [Supersede(call.pk) EXCEPT ![nextSerial] =
       [pk |-> call.pk, tenant |-> t, key |-> call.key, revoked |-> FALSE]]
  /\ nextSerial' = nextSerial + 1
  /\ devices' = [devices EXCEPT ![t].paired = TRUE]
  /\ Go(c, [op |-> "reply", key |-> call.key, serial |-> nextSerial, heard |-> call.heard])
  /\ UNCHANGED <<rows, tombstones, nextPk, units, clock, admin, faults, cutOff>>

\* The device row is gone: the lock on it finds nothing.
EnrollCertNoDevice(c) ==
  /\ calls[c].op = "issue" /\ ~HasRow(calls[c].tenant, calls[c].pk)
  /\ Answer(c)
  /\ UNCHANGED <<rows, store, units, clock, admin, faults, cutOff>>

\* Signing or storing fails, or no broker host is configured.
EnrollCertFails(c) ==
  /\ calls[c].op \in {"issue", "reply"}
  /\ Fault /\ Answer(c)
  /\ UNCHANGED <<rows, store, units, clock, admin, cutOff>>

\* The unit's HTTP client gives up; the handler goes on.
UnitTimesOut(c) ==
  /\ calls[c].op \in {"lookup", "issue", "reply"} /\ calls[c].heard
  /\ Fault /\ Go(c, [calls[c] EXCEPT !.heard = FALSE])
  /\ UNCHANGED <<rows, store, units, clock, admin, cutOff>>

EnrollCertReply(c) ==
  /\ calls[c].op = "reply"
  /\ units' = IF calls[c].heard THEN [units EXCEPT ![calls[c].key] = calls[c].serial] ELSE units
  /\ Answer(c)
  /\ UNCHANGED <<rows, store, clock, admin, faults, cutOff>>

\* handleEnrollAck: the unit stored the pair, or another holder of the code says
\* so; only this seals the row.
MarkDelivered(k, by) ==
  /\ k \in Present /\ Unlocked(k) /\ DeliverAllowed(k)
  /\ by = "unit" => units[k] # 0 /\ enrollments[k].token \in UnitTokens[k]
  /\ enrollments' = [enrollments EXCEPT ![k].delivered = TRUE]
  /\ UNCHANGED <<store, units, calls, clock, admin, faults, presented, cutOff>>

\* RevocationStatus with CertRevocationAnswer, for the key that stores the serial.
RevocationStatus(s, k) ==
  IF certs[s] # None
  THEN IF certs[s].key # k THEN "unknown" ELSE IF certs[s].revoked THEN "revoked" ELSE "active"
  ELSE IF tombstones[s] = k THEN "revoked" ELSE "unknown"

\* The firmware wipes its certificate on an explicit "revoked" only.
StatusWipe(k) ==
  /\ units[k] # 0 /\ RevocationStatus(units[k], k) = "revoked"
  /\ units' = [units EXCEPT ![k] = 0]
  /\ UNCHANGED <<rows, store, calls, clock, admin, faults, cutOff>>

-----------------------------------------------------------------------------
(* Take-down.  Both handlers work on the device row they read at the start.*)

Admin == admin < MaxAdmin /\ admin' = admin + 1

ClaimedTenants == {enrollments[k].claimedBy : k \in Present} \ {None}

\* DeviceHolder: paired or claimed here, and claimed nowhere else.
HoldHere(t) == ClaimedTenants \subseteq {t} /\ (devices[t].paired \/ t \in ClaimedTenants)

OwnerRevoke(c, t) ==
  /\ calls[c] = Idle /\ devices[t] # None /\ devices[t].owner # None
  /\ HoldHere(t)
  /\ Admin
  /\ Go(c, [op |-> "ownerLock", tenant |-> t, pk |-> devices[t].pk])
  /\ UNCHANGED <<rows, store, units, clock, faults, cutOff>>

\* ResetForTenant, first statement: lock the id's rows, refuse another's claim.
ResetForTenantLock(c) ==
  LET t == calls[c].tenant IN
  /\ calls[c].op = "ownerLock" /\ AllUnlocked
  /\ IF ClaimedTenants \subseteq {t}
     THEN Go(c, [op |-> "ownerReset", tenant |-> t, pk |-> calls[c].pk, locked |-> Present])
     ELSE Answer(c)
  /\ UNCHANGED <<rows, store, units, clock, admin, faults, cutOff>>

\* Mutant: the reset deletes every row of the id.
ResetAll(t) == Present

\* Rows of nobody or of tenant t: what both resets delete.
Resettable(t) == {k \in Present : enrollments[k].claimedBy \in {None, t}}

LockedByOthers(c) == {k \in Keys : \E d \in Calls \ {c} :
  calls[d].op \in {"ownerReset", "reset"} /\ k \in calls[d].locked}

ResetForTenant(c) ==
  /\ calls[c].op = "ownerReset"
  /\ Resettable(calls[c].tenant) \cap LockedByOthers(c) = {}
  /\ Remove(Resettable(calls[c].tenant))
  /\ Go(c, [op |-> "ownerRevoke", tenant |-> calls[c].tenant, pk |-> calls[c].pk])
  /\ UNCHANGED <<store, units, clock, admin, faults, presented, cutOff>>

\* Certificates.Revoke under the tenant read at the start.
Revoke(t, pk) ==
  /\ certs' = IF HasRow(t, pk) THEN Supersede(pk) ELSE certs
  /\ devices' = IF HasRow(t, pk) THEN [devices EXCEPT ![t].paired = FALSE] ELSE devices

OwnerRevokeCert(c) ==
  /\ calls[c].op = "ownerRevoke"
  /\ \/ Revoke(calls[c].tenant, calls[c].pk) /\ NoFault
     \/ UNCHANGED <<certs, devices>> /\ Fault          \* revoke_cert_failed
  /\ Answer(c)
  /\ UNCHANGED <<rows, tombstones, nextPk, nextSerial, units, clock, admin, cutOff>>

\* handleAdminDeviceDelete, and the admin revoke, which keeps the row.
AdminTakeDown(c, t, delete) ==
  /\ calls[c] = Idle /\ devices[t] # None
  /\ Admin
  /\ Go(c, [op |-> "revoke", tenant |-> t, pk |-> devices[t].pk, delete |-> delete])
  /\ UNCHANGED <<rows, store, units, clock, faults, cutOff>>

AdminRevoke(c) ==
  LET call == calls[c] IN
  /\ call.op = "revoke"
  /\ \/ /\ Revoke(call.tenant, call.pk) /\ NoFault
        /\ Go(c, IF call.delete THEN [op |-> "delete", tenant |-> call.tenant, pk |-> call.pk]
                 ELSE [op |-> "lock", tenant |-> call.tenant])
     \/ UNCHANGED <<certs, devices>> /\ Fault /\ Answer(c)
  /\ UNCHANGED <<rows, tombstones, nextPk, nextSerial, units, clock, admin, cutOff>>

CertsOf(pk) == {s \in Serials : certs[s] # None /\ certs[s].pk = pk}

\* Mutant: the certificates cascade away with no tombstone.
DeleteForgets(t, pk) ==
  /\ certs' = [s \in Serials |-> IF s \in CertsOf(pk) THEN None ELSE certs[s]]
  /\ devices' = IF HasRow(t, pk) THEN [devices EXCEPT ![t] = None] ELSE devices
  /\ UNCHANGED tombstones

\* DeleteByID: tombstone the serials, drop the row, its certificates cascade.
DeleteByID(t, pk) ==
  IF HasRow(t, pk)
  THEN /\ tombstones' = [s \in Serials |-> IF s \in CertsOf(pk) THEN certs[s].key ELSE tombstones[s]]
       /\ certs' = [s \in Serials |-> IF s \in CertsOf(pk) THEN None ELSE certs[s]]
       /\ devices' = [devices EXCEPT ![t] = None]
  ELSE UNCHANGED <<tombstones, certs, devices>>

AdminDelete(c) ==
  LET call == calls[c] IN
  /\ call.op = "delete"
  /\ \/ DeleteByID(call.tenant, call.pk) /\ NoFault /\ Go(c, [op |-> "lock", tenant |-> call.tenant])
     \/ UNCHANGED <<tombstones, certs, devices>> /\ Fault /\ Answer(c)
  /\ UNCHANGED <<rows, nextPk, nextSerial, units, clock, admin, cutOff>>

\* Reset, first statement: lock the id's rows.
ResetLock(c) ==
  /\ calls[c].op = "lock" /\ AllUnlocked
  /\ Go(c, [op |-> "reset", tenant |-> calls[c].tenant, locked |-> Present])
  /\ UNCHANGED <<rows, store, units, clock, admin, faults, cutOff>>

\* Orphan claims of other tenants, when the role sees all tenants.
OrphansOfOthers(t) ==
  {k \in Present : SeesAllTenants /\ enrollments[k].claimedBy \notin {None, t} /\ OrphanClaim(k)}

Reset(c) ==
  LET t == calls[c].tenant
      gone == Resettable(t) \cup OrphansOfOthers(t) IN
  /\ calls[c].op = "reset"
  /\ gone \cap LockedByOthers(c) = {}
  /\ Remove(gone)
  /\ Answer(c)
  /\ UNCHANGED <<store, units, clock, admin, faults, presented, cutOff>>

\* The reset fails or times out: rolled back, and the page says so.
ResetFails(c) ==
  /\ calls[c].op \in {"lock", "reset"}
  /\ Fault /\ Answer(c)
  /\ cutOff' = cutOff \cup {calls[c].tenant}
  /\ UNCHANGED <<rows, store, units, clock, admin>>

\* ResetForTenant fails: nothing changed.
ResetForTenantFails(c) ==
  /\ calls[c].op \in {"ownerLock", "ownerReset"}
  /\ Fault /\ Answer(c)
  /\ UNCHANGED <<rows, store, units, clock, admin, cutOff>>

\* Which unclaimed rows have not been seen for a day is the clock's choice.
Prune ==
  /\ \E S \in SUBSET {k \in Present : enrollments[k].claimedBy = None} :
       S # {} /\ (\A k \in S : Unlocked(k)) /\ Remove(S)
  /\ UNCHANGED <<store, units, calls, clock, admin, faults, presented, cutOff>>

\* MQTT ingest creates a row for a tenant on the first message it accepts.
PhantomRow(t) ==
  /\ devices[t] = None /\ nextPk <= MaxPk
  /\ devices' = [devices EXCEPT ![t] = [pk |-> nextPk, owner |-> None, paired |-> FALSE]]
  /\ nextPk' = nextPk + 1
  /\ UNCHANGED <<rows, certs, tombstones, nextSerial, units, calls, clock, admin, faults, cutOff>>

\* Mutant: boot clears sealed claims only.
SweepSealedOnly == Remove({k \in Present : enrollments[k].delivered /\ OrphanClaim(k)})

\* SweepOrphanClaims, one DELETE before any handler runs.
SweepOrphanClaims == Remove({k \in Present : OrphanClaim(k)})

\* The process dies, open transactions roll back, boot sweeps or gives up.
Restart ==
  /\ Fault
  /\ calls' = [c \in Calls |-> Idle]
  /\ LET lost == {calls[c].tenant : c \in {d \in Calls : calls[d].op \in {"lock", "reset"}}} IN
     \/ SeesAllTenants /\ SweepOrphanClaims /\ cutOff' = {}
     \/ UNCHANGED enrollments /\ cutOff' = cutOff \cup lost
  /\ UNCHANGED <<store, units, clock, admin, presented>>

-----------------------------------------------------------------------------
CodeHolder(c, k) == Verify(c, k) \/ \E by \in {"unit", "other"} : EnrollCert(c, k, by)

Proceed(c) ==
  \/ AnnounceInsert(c) \/ VerifyMark(c) \/ VerifyLost(c)
  \/ ClaimInto(c) \/ ClaimNotReady(c)
  \/ EnrollCertLookup(c) \/ EnrollCertIssue(c) \/ EnrollCertNoDevice(c) \/ EnrollCertReply(c)
  \/ ResetForTenantLock(c) \/ ResetForTenant(c) \/ OwnerRevokeCert(c)
  \/ AdminRevoke(c) \/ AdminDelete(c) \/ ResetLock(c) \/ Reset(c)

Trouble(c) ==
  \/ ClaimRolledBack(c) \/ EnrollCertFails(c) \/ UnitTimesOut(c)
  \/ ResetFails(c) \/ ResetForTenantFails(c)

Next ==
  \/ \E k \in Keys, token \in Tokens, by \in {"unit", "other"} :
       Announce(k, token, by) \/ \E c \in Calls : AnnounceFirst(c, k, token, by)
  \/ \E k \in Keys : \/ ChallengeExpires(k) \/ VerifyBadProof(k)
                     \/ StatusWipe(k)
                     \/ \E by \in {"unit", "other"} : MarkDelivered(k, by)
  \/ \E c \in Calls : \/ \E k \in Keys : CodeHolder(c, k)
                      \/ \E u \in Users, token \in Tokens : FindForClaim(c, u, token)
                      \/ \E t \in Tenants : \/ OwnerRevoke(c, t)
                                            \/ \E d \in BOOLEAN : AdminTakeDown(c, t, d)
                      \/ Proceed(c) \/ Trouble(c)
  \/ \E token \in Tokens : ClaimWrongCode(token)
  \/ \E t \in Tenants : PhantomRow(t)
  \/ Prune
  \/ Restart

Spec == Init /\ [][Next]_vars

-----------------------------------------------------------------------------
\* A certificate for a key, under a tenant, exists only if somebody of that
\* tenant typed a code of the unit holding the key: from the claim form through
\* ClaimInto, the poll's stale row and the device row, to issueTx.
CertFollowsCode ==
  \A s \in Serials : certs[s] # None =>
    \E token \in UnitTokens[certs[s].key] : <<certs[s].tenant, token>> \in presented

\* Only its own tenant, or nobody, removes a claim that its tenant backs: a reset
\* or a revoke in one tenant keeps a claim another tenant made, also one made
\* between the lock and the DELETE (ResetForTenant, Reset).
BackedClaimSurvives ==
  [][\A k \in Present :
       /\ enrollments[k].claimedBy # None /\ ~OrphanClaim(k)
       /\ enrollments'[k] = None
       => \E c \in Calls : /\ calls[c].op \in {"ownerReset", "reset"}
                           /\ calls[c].tenant = enrollments[k].claimedBy
                           /\ calls'[c] # calls[c]]_vars

\* A pending claim without its device row has one cause: an admin delete of that
\* tenant that still owes its reset, or lost it; boot clears those (0028, ClaimInto
\* writes both rows in one transaction).
OrphanHasCause ==
  \A k \in Present :
    /\ enrollments[k].claimedBy # None /\ ~enrollments[k].delivered
    /\ OrphanClaim(k)
    => \/ enrollments[k].claimedBy \in cutOff
       \/ \E c \in Calls : /\ calls[c].op \in {"lock", "reset"}
                           /\ calls[c].tenant = enrollments[k].claimedBy

\* A serial that once read "revoked" to the key it was issued to never reads
\* anything else: deleting the device row must not turn it into "unknown", or a
\* unit that was offline keeps its dead certificate (tombstoneCertSerials).
RevokedForGood ==
  [][\A s \in Serials, k \in Keys :
       RevocationStatus(s, k) = "revoked" => RevocationStatus(s, k)' = "revoked"]_vars

=============================================================================
