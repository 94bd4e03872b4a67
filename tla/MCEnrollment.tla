---------------------------- MODULE MCEnrollment ----------------------------
(* Small instances of Enrollment.  k1 is the hardware with the code t1; k2  *)
(* is a second key pair under the same id whose holder photographed t1; x   *)
(* is a code no unit minted.  A behaviour is explored while it stays within *)
(* one of two bounds: strangers around the proof, the claim of tenant A and *)
(* the polls, or one unit that both tenants claim and take down, with a     *)
(* fault and, behind it, a stranger that holds the unit's code.             *)
EXTENDS Enrollment, TLC

CONSTANTS k1, k2, t1, x, A, B, a, b, c1, c2

MCRank == [k \in Keys |-> IF k = k1 THEN 1 ELSE 2]
MCUnitTokens == [k \in Keys |-> {t1}]
MCUserTenant == [u \in Users |-> IF u = a THEN A ELSE B]

Alike == Permutations(Calls)

\* The calls that poll for a certificate.
Polls == {c \in Calls : calls[c].op \in {"lookup", "issue", "reply"}}

\* The holder of k2 is a stranger itself: another one that polls its row adds nothing.
Strangers ==
  /\ Cardinality(Polls) <= 1
  /\ \A c \in Polls : calls[c].heard \/ calls[c].key = k1
  /\ admin = 0 /\ faults = 0
  /\ nextPk <= 2 /\ nextSerial <= 2
  /\ devices[B] = None
  /\ presented \subseteq {A} \X Tokens

InHand == {calls[c] : c \in {d \in Calls : calls[d].op \in {"insert", "mark"}}}

TakeDown ==
  /\ clock <= 1
  /\ enrollments[k2] = None
  /\ k1 \in Present => enrollments[k1].token = t1 /\ enrollments[k1].failures = 0
  /\ \A call \in InHand : call.key = k1 /\ call.token = t1
  /\ faults = 0 => \A c \in Polls : calls[c].heard

Bound == Strangers \/ TakeDown
=============================================================================
