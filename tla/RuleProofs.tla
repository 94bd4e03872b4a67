----------------------------- MODULE RuleProofs ------------------------------
(***************************************************************************)
(* Proofs about the generated rules.                                       *)
(*                                                                         *)
(* RuleRuntime, for every rules file and every history of readings,        *)
(* silences, refused alerts and reloads.  That a key's cooldown holds      *)
(* needs only that the tables record what Telegram took.  That every alert *)
(* is earned and none is missed relates the row of a key, which forgets,   *)
(* to the readings of the one rule whose block counts in it: Follows.  It  *)
(* needs CountersApart, for the key that the blocks compute says nothing   *)
(* of the block: two sustained temperature blocks with one sensor,         *)
(* operator and threshold count in one row, and both of them count every   *)
(* reading.                                                                *)
(*                                                                         *)
(* RuleText, for every text and all sizes of the queue slot, the code and  *)
(* the frame around them.  A loop over a text is a Run, so that what it    *)
(* makes of a text follows from what one step makes of one byte, by        *)
(* induction over sequences (SequencesUp).  A body is the longest run of   *)
(* characters that fits because it is always a run of whole ones, and once *)
(* full stays so.                                                          *)
(*                                                                         *)
(* LuaHelpers, for every number: the trial division finds exactly the      *)
(* numbers with two divisors.                                              *)
(***************************************************************************)
EXTENDS RuleRuntime, RuleText, LuaHelpers, FiniteSetTheorems, WellFoundedInduction, SequenceTheorems, TLAPS

-----------------------------------------------------------------------------
(* Induction up to a bound *)

\* A set that holds 0 and, below n, the successor of each of its members holds
\* all of 0..n: a smallest interval that is not inside would have a smaller one.
LEMMA CountUp ==
    ASSUME NEW n \in Nat, NEW S, 0 \in S,
           \A k \in 0..n : k \in S /\ k < n => k + 1 \in S
    PROVE  0..n \subseteq S
<1> DEFINE Missed == {T \in SUBSET (0..n) : \E k \in 0..n : T = 0..k /\ k \notin S}
           Below == StrictSubsetOrdering(0..n)
<1> SUFFICES ASSUME NEW m \in 0..n, m \notin S
             PROVE  FALSE
  OBVIOUS
<1>1. IsFiniteSet(0..n)
  BY FS_Interval
<1>2. IsWellFoundedOn(Below, SUBSET (0..n))
  BY <1>1, FS_StrictSubsetOrderingWellFounded, FS_FiniteSubsetsOfFinite
<1>3. 0..m \in Missed
  OBVIOUS
<1>4. PICK T \in Missed : \A U \in Missed : <<U, T>> \notin Below
  <2> HIDE DEF Missed, Below
  <2>1. Missed # {}
    BY <1>3
  <2>2. Missed \subseteq SUBSET (0..n)
    BY DEF Missed
  <2> QED
    BY <1>2, <2>1, <2>2, WFMin
<1>5. PICK k \in 0..n : T = 0..k /\ k \notin S
  BY <1>4
<1>6. k # 0 /\ k - 1 \in 0..n /\ k - 1 \notin S
  BY <1>5
<1>7. 0..(k - 1) \in Missed
  BY <1>6
<1>8. 0..(k - 1) \subseteq T /\ k \in T /\ k \notin 0..(k - 1)
  BY <1>5
<1>9. <<0..(k - 1), T>> \in Below
  BY <1>7, <1>8 DEF StrictSubsetOrdering
<1> QED
  BY <1>4, <1>7, <1>9

-----------------------------------------------------------------------------
(* The invariant *)

\* A row of the tables, and what the observer keeps of a rule.
Row == [sustain : Nat, start : Int, seen : Int, gap : Int, cooldown : Int]
Observed == [over : Nat, since : Int, last : Int, shortest : Int, quiet : Nat]

\* The tables of the preamble, whatever the rules: a cooldown started exactly when
\* Telegram last took an alert of the key.
Tables ==
    /\ rules \in Files
    /\ now \in Nat
    /\ tab \in [Keys -> Row]
    /\ acked \in [Keys -> Int]
    /\ \A k \in Keys : tab[k].cooldown = acked[k]

\* The streak of a sustained temperature is part of the run of readings that the
\* observer sees: no longer, no older, and the silences are measured alike.
Streak(t, w) ==
    /\ t.seen = w.last /\ t.gap = w.shortest
    /\ w.last = Nil => w.over = 0 /\ w.shortest = Nil
    /\ t.sustain < TEMP_SUSTAIN /\ t.sustain <= w.over
    /\ t.sustain = 0 <=> t.start = Nil
    /\ t.start # Nil => w.since <= t.start
    /\ w.quiet <= t.sustain

\* A current condition counts on while its key cools down, the observer stops at
\* the count that is asked for.
Count(r, t, w) ==
    /\ t.sustain <= w.over \/ r.count <= w.over
    /\ w.quiet <= t.sustain

\* What the row of a rule's key says of the readings of the rule.
Follows(r, t, w) ==
    /\ w.quiet < Need(r)
    /\ r.kind = "temp" => Streak(t, w)
    /\ r.kind = "current" => Count(r, t, w)

\* The conditions whose code counts readings.
Counting == {"temp", "current"}

\* Two blocks that count do not share a key: no two sustained temperatures with
\* one sensor, operator and threshold, no two currents with one channel,
\* operator, threshold and count.
CountersApart ==
    \A file \in Files : \A i, j \in DOMAIN file :
        i # j /\ file[i].key = file[j].key => file[i].kind \notin Counting \/ file[j].kind \notin Counting

\* What the observer has seen when an alert of the rule is earned.
Due(r, w, n) ==
    \/ w.over >= Need(r)
    \/ r.kind = "temp" /\ w.over > 0 /\ n - w.since >= TEMP_SUSTAIN_MS

\* The inductive invariant of the files that keep counters apart.
RulesInv ==
    /\ Tables
    /\ watch \in [DOMAIN rules -> Observed]
    /\ \A i \in DOMAIN rules : watch[i].since <= now
    /\ \A i \in DOMAIN rules : Follows(rules[i], tab[rules[i].key], watch[i])
    /\ AlertEarned

-----------------------------------------------------------------------------
(* One reading of one rule *)

\* temp_clear and temp_sustained on a row.
LEMMA SustainedRow ==
    ASSUME NEW v \in Row, NEW n \in Nat
    PROVE  /\ temp_clear(v) \in Row
           /\ temp_clear(v).sustain = 0 /\ temp_clear(v).start = Nil
           /\ temp_clear(v).seen = v.seen /\ temp_clear(v).gap = v.gap
           /\ temp_clear(v).cooldown = v.cooldown
           /\ LET s == temp_sustained(v, n)
                  first == IF v.start = Nil THEN n ELSE v.start
                  reached == v.sustain + 1 >= TEMP_SUSTAIN \/ n - first >= TEMP_SUSTAIN_MS IN
              /\ s.due <=> reached /\ can_alert(v, n)
              /\ s.row \in Row
              /\ s.row.seen = v.seen /\ s.row.gap = v.gap /\ s.row.cooldown = v.cooldown
              /\ s.row.sustain = IF reached THEN 0 ELSE v.sustain + 1
              /\ s.row.start = IF reached THEN Nil ELSE first
<1> USE RulesAssumption
<1>1. \A t \in Row :
         /\ temp_clear(t) \in Row
         /\ temp_clear(t).sustain = 0 /\ temp_clear(t).start = Nil
         /\ temp_clear(t).seen = t.seen /\ temp_clear(t).gap = t.gap
         /\ temp_clear(t).cooldown = t.cooldown
  <2> SUFFICES ASSUME NEW t \in Row
               PROVE  /\ temp_clear(t) \in Row
                      /\ temp_clear(t).sustain = 0 /\ temp_clear(t).start = Nil
                      /\ temp_clear(t).seen = t.seen /\ temp_clear(t).gap = t.gap
                      /\ temp_clear(t).cooldown = t.cooldown
    OBVIOUS
  <2>1. 0 \in Nat /\ Nil \in Int
    BY DEF Nil
  <2>2. temp_clear(t) = [t EXCEPT !.sustain = 0, !.start = Nil]
    BY DEF temp_clear
  <2> QED
    BY ONLY t \in Row, <2>1, <2>2 DEF Row
<1> DEFINE first == IF v.start = Nil THEN n ELSE v.start
           u == [v EXCEPT !.sustain = @ + 1, !.start = IF @ = Nil THEN n ELSE @]
           reached == v.sustain + 1 >= TEMP_SUSTAIN \/ n - first >= TEMP_SUSTAIN_MS
           s == temp_sustained(v, n)
<1>2. /\ u \in Row
      /\ u.sustain = v.sustain + 1 /\ u.start = first
      /\ u.seen = v.seen /\ u.gap = v.gap /\ u.cooldown = v.cooldown
  <2>1. v.sustain + 1 \in Nat /\ first \in Int
    BY DEF Row
  <2>2. u = [v EXCEPT !.sustain = v.sustain + 1, !.start = first]
    OBVIOUS
  <2> HIDE DEF first, u
  <2> QED
    BY ONLY v \in Row, <2>1, <2>2 DEF Row
<1>3. s = [row |-> IF reached THEN temp_clear(u) ELSE u, due |-> reached /\ can_alert(v, n)]
  <2>1. s = LET ok == u.sustain >= TEMP_SUSTAIN \/ n - u.start >= TEMP_SUSTAIN_MS IN
            [row |-> IF ok THEN temp_clear(u) ELSE u, due |-> ok /\ can_alert(v, n)]
    BY DEF temp_sustained
  <2> HIDE DEF s, u, first
  <2> QED
    BY <1>2, <2>1
<1> HIDE DEF s, u, first, reached
<1>4. s.row = (IF reached THEN temp_clear(u) ELSE u) /\ (s.due <=> reached /\ can_alert(v, n))
  BY <1>3
<1>5. /\ s.row \in Row
      /\ s.row.seen = v.seen /\ s.row.gap = v.gap /\ s.row.cooldown = v.cooldown
      /\ s.row.sustain = IF reached THEN 0 ELSE v.sustain + 1
      /\ s.row.start = IF reached THEN Nil ELSE first
  BY <1>1, <1>2, <1>4
<1> QED
  BY <1>1, <1>4, <1>5 DEF s, first, reached

\* What a rule asks for, by its kind.
LEMMA NeedByKind ==
    ASSUME NEW r \in RuleType
    PROVE  /\ Need(r) \in Nat \ {0}
           /\ r.kind = "temp" => Need(r) = TEMP_SUSTAIN
           /\ r.kind = "current" => Need(r) = r.count
           /\ r.kind \notin Counting => Need(r) = 1
<1>1. r.kind \in Kinds /\ r.count \in Nat \ {0} /\ TEMP_SUSTAIN \in Nat \ {0}
  BY RulesAssumption DEF RuleType
<1>2. CASE r.kind = "temp"
  <2>1. Need(r) = TEMP_SUSTAIN
    BY <1>2 DEF Need
  <2> QED
    BY <1>1, <1>2, <2>1 DEF Counting
<1>3. CASE r.kind = "current"
  <2>1. Need(r) = r.count
    BY <1>3 DEF Need
  <2> QED
    BY <1>1, <1>3, <2>1 DEF Counting
<1>4. CASE r.kind \notin Counting
  <2>1. Need(r) = 1
    BY <1>4 DEF Need, Counting
  <2> QED
    BY <1>4, <2>1 DEF Counting
<1> QED
  BY <1>2, <1>3, <1>4 DEF Counting

\* What the observer notes of a reading.
LEMMA WatchNotes ==
    ASSUME NEW i \in DOMAIN rules, rules[i] \in RuleType, NEW w \in Observed, NEW n \in Nat,
           w.since <= n, NEW x, NEW excused \in BOOLEAN
    PROVE  LET r == rules[i]
               W == Watch(i, w, x, n, excused)
               broken == w.over = 0 \/ (r.kind = "temp" /\ n - w.last > GapLimit(w.shortest))
               meets == Meets(r, x) IN
           /\ W \in Observed /\ W.since <= n /\ W.last = n
           /\ W.shortest = IF w.last = Nil THEN Nil
                           ELSE IF w.shortest = Nil \/ n - w.last < w.shortest THEN n - w.last ELSE w.shortest
           /\ ~meets => W.over = 0 /\ W.quiet = 0
           /\ meets /\ broken => W.over = 1 /\ W.since = n /\ W.quiet = IF excused THEN 0 ELSE 1
           /\ meets /\ ~broken => /\ W.over = IF w.over < Need(r) THEN w.over + 1 ELSE w.over
                                  /\ W.since = w.since
                                  /\ W.quiet = IF excused THEN 0 ELSE w.quiet + 1
<1> DEFINE r == rules[i]
           g == n - w.last
           broken == w.over = 0 \/ (r.kind = "temp" /\ g > GapLimit(w.shortest))
           meets == Meets(r, x)
           over == IF ~meets THEN 0 ELSE IF broken THEN 1
                   ELSE IF w.over < Need(r) THEN w.over + 1 ELSE w.over
           since == IF ~meets THEN Nil ELSE IF broken THEN n ELSE w.since
           shortest == IF w.last = Nil THEN Nil ELSE IF w.shortest = Nil \/ g < w.shortest THEN g ELSE w.shortest
           quiet == IF ~meets \/ excused THEN 0 ELSE IF broken THEN 1 ELSE w.quiet + 1
           W == Watch(i, w, x, n, excused)
<1>1. W = [over |-> over, since |-> since, last |-> n, shortest |-> shortest, quiet |-> quiet]
  BY DEF Watch
<1>2. over \in Nat /\ since \in Int /\ since <= n /\ shortest \in Int /\ quiet \in Nat
  <2> HIDE DEF broken, meets
  <2> QED
    BY NeedByKind DEF Observed, Nil
<1>3. /\ W.over = over /\ W.since = since /\ W.last = n /\ W.shortest = shortest /\ W.quiet = quiet
      /\ W \in Observed
  <2> HIDE DEF over, since, shortest, quiet, W
  <2> QED
    BY <1>1, <1>2 DEF Observed
<1> HIDE DEF W
<1>4. /\ W \in Observed /\ W.since <= n /\ W.last = n
      /\ W.shortest = shortest
      /\ ~meets => W.over = 0 /\ W.quiet = 0
      /\ meets /\ broken => W.over = 1 /\ W.since = n /\ W.quiet = IF excused THEN 0 ELSE 1
      /\ meets /\ ~broken => /\ W.over = IF w.over < Need(r) THEN w.over + 1 ELSE w.over
                             /\ W.since = w.since
                             /\ W.quiet = IF excused THEN 0 ELSE w.quiet + 1
  <2> HIDE DEF broken, meets, shortest
  <2> QED
    BY <1>2, <1>3
<1> QED
  BY <1>4 DEF W

\* temp_streak: the row is cleared when the observer sees the run broken, and
\* keeps the time of the reading and the shortest silence.
LEMMA StreakRow ==
    ASSUME NEW t \in Row, NEW w \in Observed, Streak(t, w), NEW n \in Nat, NEW meets \in BOOLEAN
    PROVE  \E v \in Row :
              /\ temp_streak(t, meets, n) = IF meets THEN temp_sustained(v, n)
                                            ELSE [row |-> temp_clear(v), due |-> FALSE]
              /\ v.cooldown = t.cooldown /\ v.seen = n
              /\ v.gap = IF w.last = Nil THEN Nil
                         ELSE IF w.shortest = Nil \/ n - w.last < w.shortest THEN n - w.last ELSE w.shortest
              /\ IF w.over = 0 \/ n - w.last > GapLimit(w.shortest)
                 THEN v.sustain = 0 /\ v.start = Nil
                 ELSE v.sustain = t.sustain /\ v.start = t.start
<1> DEFINE g == n - t.seen
           gapped == g > GapLimit(t.gap)
           b == IF gapped THEN temp_clear(t) ELSE t
           gap == IF t.gap = Nil \/ g < t.gap THEN g ELSE t.gap
           u == IF t.seen = Nil THEN t
                ELSE [b EXCEPT !.gap = IF @ = Nil \/ g < @ THEN g ELSE @]
           v == [u EXCEPT !.seen = n]
<1>1. t.seen = w.last /\ t.gap = w.shortest
  BY DEF Streak
<1>2. temp_streak(t, meets, n) = IF meets THEN temp_sustained(v, n)
                                 ELSE [row |-> temp_clear(v), due |-> FALSE]
  BY DEF temp_streak
<1>3. /\ b \in Row
      /\ b.seen = t.seen /\ b.gap = t.gap /\ b.cooldown = t.cooldown
      /\ IF gapped THEN b.sustain = 0 /\ b.start = Nil ELSE b.sustain = t.sustain /\ b.start = t.start
  <2> HIDE DEF gapped
  <2> QED
    BY SustainedRow
<1>4. gap \in Int
  BY DEF Row
<1> HIDE DEF b, gapped
<1>5. /\ u \in Row
      /\ u.seen = t.seen /\ u.cooldown = t.cooldown
      /\ u.gap = IF t.seen = Nil THEN t.gap ELSE gap
      /\ IF t.seen # Nil /\ gapped THEN u.sustain = 0 /\ u.start = Nil
         ELSE u.sustain = t.sustain /\ u.start = t.start
  <2>1. CASE t.seen = Nil
    BY <2>1
  <2>2. CASE t.seen # Nil
    <3>1. u = [b EXCEPT !.gap = gap]
      BY <1>3, <2>2
    <3> HIDE DEF gap, u
    <3>2. /\ u \in Row
          /\ u.seen = b.seen /\ u.cooldown = b.cooldown /\ u.gap = gap
          /\ u.sustain = b.sustain /\ u.start = b.start
      BY <1>3, <1>4, <3>1 DEF Row
    <3> QED
      BY <1>3, <2>2, <3>2
  <2> QED
    BY <2>1, <2>2
<1> HIDE DEF u
<1>6. /\ v \in Row
      /\ v.seen = n /\ v.cooldown = u.cooldown /\ v.gap = u.gap
      /\ v.sustain = u.sustain /\ v.start = u.start
  BY <1>5 DEF Row
<1>7. t.seen = Nil => t.gap = Nil
  BY DEF Streak
<1>8. IF w.over = 0 \/ n - w.last > GapLimit(w.shortest)
      THEN v.sustain = 0 /\ v.start = Nil
      ELSE v.sustain = t.sustain /\ v.start = t.start
  <2>1. w.over = 0 => t.sustain = 0 /\ t.start = Nil
    BY DEF Streak, Row, Observed
  <2>2. w.last = Nil => w.over = 0
    BY DEF Streak
  <2>3. gapped <=> n - w.last > GapLimit(w.shortest)
    BY <1>1 DEF gapped
  <2> HIDE DEF v
  <2> QED
    BY <1>1, <1>5, <1>6, <2>1, <2>2, <2>3
<1> HIDE DEF v
<1>9. v.gap = IF w.last = Nil THEN Nil
              ELSE IF w.shortest = Nil \/ n - w.last < w.shortest THEN n - w.last ELSE w.shortest
  BY <1>1, <1>5, <1>6, <1>7
<1> QED
  BY <1>2, <1>5, <1>6, <1>8, <1>9

\* What a reading of rule i, whose key has the row t, does when the observer has
\* seen w: the branch runs only if it is due and the key may alert, and unless it
\* runs or the key is cooling down, the row still follows the observer.
Reads(i, t, w, x, n) ==
    LET r == rules[i]
        c == Condition(r, t, x, n) IN
    /\ c.row \in Row
    /\ c.row.cooldown = t.cooldown
    /\ c.due \in BOOLEAN
    /\ c.due => can_alert(t, n)
    /\ r.kind \notin Counting => c.row = t
    /\ \A excused \in BOOLEAN :
          LET W == Watch(i, w, x, n, excused) IN
          /\ c.due => Due(r, W, n)
          /\ (c.due => excused) /\ (~ can_alert(t, n) => excused) => Follows(r, c.row, W)

\* A reading of a sustained temperature.
LEMMA TempReads ==
    ASSUME NEW i \in DOMAIN rules, rules[i] \in RuleType, rules[i].kind = "temp",
           NEW t \in Row, NEW w \in Observed, Follows(rules[i], t, w),
           NEW n \in Nat, w.since <= n, NEW x \in Levels \cup {Nil}
    PROVE  Reads(i, t, w, x, n)
<1> USE RulesAssumption
<1> DEFINE r == rules[i]
           meets == Meets(r, x)
           c == Condition(r, t, x, n)
           broken == w.over = 0 \/ n - w.last > GapLimit(w.shortest)
<1>1. Streak(t, w) /\ w.quiet < TEMP_SUSTAIN
  BY NeedByKind DEF Follows
<1>2. meets \in BOOLEAN
  BY DEF Meets
<1>3. c = temp_streak(t, meets, n)
  BY DEF Condition, if_temp
<1>4. PICK v \in Row :
         /\ temp_streak(t, meets, n) = IF meets THEN temp_sustained(v, n)
                                       ELSE [row |-> temp_clear(v), due |-> FALSE]
         /\ v.cooldown = t.cooldown /\ v.seen = n
         /\ v.gap = IF w.last = Nil THEN Nil
                    ELSE IF w.shortest = Nil \/ n - w.last < w.shortest THEN n - w.last ELSE w.shortest
         /\ IF broken THEN v.sustain = 0 /\ v.start = Nil
            ELSE v.sustain = t.sustain /\ v.start = t.start
  BY <1>1, <1>2, StreakRow
<1>5. can_alert(v, n) <=> can_alert(t, n)
  BY <1>4 DEF can_alert
<1> DEFINE first == IF v.start = Nil THEN n ELSE v.start
           reached == v.sustain + 1 >= TEMP_SUSTAIN \/ n - first >= TEMP_SUSTAIN_MS
<1>6. IF meets
      THEN /\ c.due <=> reached /\ can_alert(t, n)
           /\ c.row \in Row
           /\ c.row.seen = n /\ c.row.gap = v.gap /\ c.row.cooldown = t.cooldown
           /\ c.row.sustain = IF reached THEN 0 ELSE v.sustain + 1
           /\ c.row.start = IF reached THEN Nil ELSE first
      ELSE /\ c.due = FALSE
           /\ c.row \in Row
           /\ c.row.seen = n /\ c.row.gap = v.gap /\ c.row.cooldown = t.cooldown
           /\ c.row.sustain = 0 /\ c.row.start = Nil
  <2> DEFINE s == temp_sustained(v, n)
  <2>1. /\ s.due <=> reached /\ can_alert(v, n)
        /\ s.row \in Row
        /\ s.row.seen = v.seen /\ s.row.gap = v.gap /\ s.row.cooldown = v.cooldown
        /\ s.row.sustain = IF reached THEN 0 ELSE v.sustain + 1
        /\ s.row.start = IF reached THEN Nil ELSE first
    BY SustainedRow
  <2>2. /\ temp_clear(v) \in Row
        /\ temp_clear(v).sustain = 0 /\ temp_clear(v).start = Nil
        /\ temp_clear(v).seen = v.seen /\ temp_clear(v).gap = v.gap
        /\ temp_clear(v).cooldown = v.cooldown
    BY SustainedRow
  <2> HIDE DEF s, meets, c, reached, first
  <2>3. CASE meets
    <3>1. c = s
      BY <1>3, <1>4, <2>3 DEF s
    <3> QED
      BY <1>4, <1>5, <2>1, <2>3, <3>1
  <2>4. CASE ~ meets
    <3>1. c = [row |-> temp_clear(v), due |-> FALSE]
      BY <1>3, <1>4, <2>4
    <3>2. c.row = temp_clear(v) /\ c.due = FALSE
      BY <3>1
    <3> QED
      BY <1>4, <2>2, <2>4, <3>2
  <2> QED
    BY <2>3, <2>4
<1>7. ASSUME NEW excused \in BOOLEAN
      PROVE  LET W == Watch(i, w, x, n, excused) IN
             /\ c.due => Due(r, W, n)
             /\ (c.due => excused) /\ (~ can_alert(t, n) => excused) => Follows(r, c.row, W)
  <2> DEFINE W == Watch(i, w, x, n, excused)
  <2>1. /\ W \in Observed /\ W.since <= n /\ W.last = n
        /\ W.shortest = v.gap
        /\ ~meets => W.over = 0 /\ W.quiet = 0
        /\ meets /\ broken => W.over = 1 /\ W.since = n /\ W.quiet = IF excused THEN 0 ELSE 1
        /\ meets /\ ~broken => /\ W.over = IF w.over < Need(r) THEN w.over + 1 ELSE w.over
                               /\ W.since = w.since
                               /\ W.quiet = IF excused THEN 0 ELSE w.quiet + 1
    BY <1>4, WatchNotes
  <2>2. Need(r) = TEMP_SUSTAIN
    BY NeedByKind
  <2>3. /\ t.sustain < TEMP_SUSTAIN /\ t.sustain <= w.over
        /\ t.sustain = 0 <=> t.start = Nil
        /\ t.start # Nil => w.since <= t.start
        /\ w.quiet <= t.sustain
        /\ t.sustain \in Nat /\ t.start \in Int /\ w.over \in Nat /\ w.since \in Int /\ w.quiet \in Nat
        /\ v.sustain \in Nat /\ v.start \in Int
        /\ TEMP_SUSTAIN \in Nat \ {0} /\ TEMP_SUSTAIN_MS \in Nat \ {0}
    BY <1>1 DEF Streak, Row, Observed
  <2> HIDE DEF W, meets, c, broken
  <2>4. n # Nil
    BY DEF Nil
  <2>5. W.over \in Nat /\ W.since \in Int /\ W.quiet \in Nat
    BY <2>1 DEF Observed
  <2>6. meets => /\ v.sustain + 1 <= W.over
                 /\ W.over > 0
                 /\ W.since <= first
                 /\ W.quiet = 0 \/ (~ excused /\ W.quiet <= v.sustain + 1)
    <3>1. CASE meets /\ broken
      <4>1. v.sustain = 0 /\ first = n
        BY <1>4, <3>1
      <4>2. W.over = 1 /\ W.since = n /\ W.quiet = IF excused THEN 0 ELSE 1
        BY <2>1, <3>1
      <4> QED
        BY ONLY <4>1, <4>2, n \in Nat
    <3>2. CASE meets /\ ~ broken
      <4>1. v.sustain = t.sustain /\ v.start = t.start
        BY <1>4, <3>2
      <4>2. /\ W.over = IF w.over < TEMP_SUSTAIN THEN w.over + 1 ELSE w.over
            /\ W.since = w.since
            /\ W.quiet = IF excused THEN 0 ELSE w.quiet + 1
        BY <2>1, <2>2, <3>2
      <4>3. W.since <= first
        BY <2>3, <4>1, <4>2
      <4> HIDE DEF first
      <4>4. v.sustain + 1 <= W.over /\ W.over > 0
        BY <2>3, <3>2, <4>1, <4>2 DEF broken
      <4>5. W.quiet = 0 \/ (~ excused /\ W.quiet <= v.sustain + 1)
        BY <2>3, <4>1, <4>2
      <4> QED
        BY <4>3, <4>4, <4>5
    <3> QED
      BY <3>1, <3>2
  <2>7. meets /\ reached => Due(r, W, n)
    <3>1. meets /\ v.sustain + 1 >= TEMP_SUSTAIN => W.over >= TEMP_SUSTAIN
      BY <2>3, <2>5, <2>6
    <3>2. meets /\ n - first >= TEMP_SUSTAIN_MS => n - W.since >= TEMP_SUSTAIN_MS
      BY <2>3, <2>5, <2>6
    <3> QED
      BY <2>2, <2>6, <3>1, <3>2 DEF Due
  <2>8. ASSUME c.due => excused, ~ can_alert(t, n) => excused
        PROVE  Follows(r, c.row, W)
    <3>1. CASE meets /\ reached
      <4>1. excused
        BY <1>6, <2>8, <3>1
      <4>2. W.quiet = 0
        BY <2>6, <3>1, <4>1
      <4>3. c.row.sustain = 0 /\ c.row.start = Nil /\ c.row.seen = n /\ c.row.gap = v.gap
        BY <1>6, <3>1
      <4>4. Streak(c.row, W)
        BY <2>1, <2>3, <2>4, <2>5, <4>2, <4>3 DEF Streak
      <4> QED
        BY <2>2, <2>3, <4>2, <4>4 DEF Follows
    <3>2. CASE meets /\ ~ reached
      <4>1. c.row.sustain = v.sustain + 1 /\ c.row.start = first /\ c.row.seen = n /\ c.row.gap = v.gap
        BY <1>6, <3>2
      <4>2. first # Nil
        BY <2>4
      <4>3. W.quiet <= v.sustain + 1 /\ v.sustain + 1 < TEMP_SUSTAIN
        BY <2>3, <2>6, <3>2
      <4>4. Streak(c.row, W)
        <5> HIDE DEF first
        <5> QED
          BY <2>1, <2>3, <2>4, <2>5, <2>6, <3>2, <4>1, <4>2, <4>3 DEF Streak
      <4> QED
        BY <2>2, <2>3, <2>5, <4>3, <4>4 DEF Follows
    <3>3. CASE ~ meets
      <4>1. c.row.sustain = 0 /\ c.row.start = Nil /\ c.row.seen = n /\ c.row.gap = v.gap
        BY <1>6, <3>3
      <4>2. Streak(c.row, W)
        BY <2>1, <2>3, <2>4, <3>3, <4>1 DEF Streak
      <4> QED
        BY <2>1, <2>2, <2>3, <3>3, <4>2 DEF Follows
    <3> QED
      BY <3>1, <3>2, <3>3
  <2>9. c.due => meets /\ reached
    BY <1>6
  <2> QED
    BY <2>7, <2>8, <2>9 DEF W
<1>8. c.due \in BOOLEAN
  <2>1. temp_sustained(v, n).due \in BOOLEAN
    BY DEF temp_sustained, can_alert
  <2>2. [row |-> temp_clear(v), due |-> FALSE].due = FALSE
    OBVIOUS
  <2> HIDE DEF c, meets
  <2>3. CASE meets
    BY <1>3, <1>4, <2>1, <2>3
  <2>4. CASE ~ meets
    BY <1>3, <1>4, <2>2, <2>4
  <2> QED
    BY <2>3, <2>4
<1> QED
  <2> HIDE DEF c, meets
  <2>1. c.row \in Row /\ c.row.cooldown = t.cooldown /\ (c.due => can_alert(t, n))
    BY <1>6
  <2>2. r.kind \in Counting
    BY DEF Counting
  <2> QED
    BY <1>7, <1>8, <2>1, <2>2 DEF Reads, c

\* A reading of a current, whose count is reset only when the branch runs.
LEMMA CurrentReads ==
    ASSUME NEW i \in DOMAIN rules, rules[i] \in RuleType, rules[i].kind = "current",
           NEW t \in Row, NEW w \in Observed, Follows(rules[i], t, w),
           NEW n \in Nat, w.since <= n, NEW x \in Levels \cup {Nil}
    PROVE  Reads(i, t, w, x, n)
<1> DEFINE r == rules[i]
           meets == Meets(r, x)
           c == Condition(r, t, x, n)
           due == t.sustain + 1 >= r.count /\ can_alert(t, n)
<1>1. /\ t.sustain <= w.over \/ r.count <= w.over
      /\ w.quiet <= t.sustain /\ w.quiet < r.count
      /\ Need(r) = r.count /\ r.count \in Nat \ {0}
      /\ t.sustain \in Nat /\ w.over \in Nat /\ w.quiet \in Nat
  BY NeedByKind DEF Follows, Count, Row, Observed, RuleType
<1>2. meets \in BOOLEAN /\ can_alert(t, n) \in BOOLEAN
  BY DEF Meets, can_alert
<1>3. /\ \A s \in Nat : /\ [t EXCEPT !.sustain = s] \in Row
                        /\ [t EXCEPT !.sustain = s].sustain = s
                        /\ [t EXCEPT !.sustain = s].cooldown = t.cooldown
      /\ [[t EXCEPT !.sustain = t.sustain + 1] EXCEPT !.sustain = 0] = [t EXCEPT !.sustain = 0]
  BY <1>1 DEF Row
<1>4. c = if_current(r, t, x, n)
  BY DEF Condition
<1>5. CASE meets /\ due
  <2>1. c = [row |-> [t EXCEPT !.sustain = 0], due |-> TRUE]
    <3> DEFINE u == [t EXCEPT !.sustain = @ + 1]
    <3>1. u = [t EXCEPT !.sustain = t.sustain + 1]
      OBVIOUS
    <3>2. u.sustain = t.sustain + 1
      BY <1>1, <1>3, <3>1
    <3>3. c = [row |-> IF u.sustain >= r.count /\ can_alert(t, n) THEN [u EXCEPT !.sustain = 0] ELSE u,
               due |-> u.sustain >= r.count /\ can_alert(t, n)]
      BY <1>4, <1>5 DEF if_current
    <3> HIDE DEF u
    <3>4. [u EXCEPT !.sustain = 0] = [t EXCEPT !.sustain = 0]
      BY <1>3, <3>1
    <3>5. (u.sustain >= r.count /\ can_alert(t, n)) = TRUE
      BY <1>2, <1>5, <3>2
    <3> QED
      BY <3>3, <3>4, <3>5
  <2> HIDE DEF c
  <2>2. c.row = [t EXCEPT !.sustain = 0] /\ c.due = TRUE
    BY <2>1
  <2>3. c.row \in Row /\ c.row.sustain = 0 /\ c.row.cooldown = t.cooldown
    BY <1>3, <2>2
  <2>4. ASSUME NEW excused \in BOOLEAN
        PROVE  LET W == Watch(i, w, x, n, excused) IN
               /\ Due(r, W, n)
               /\ excused => Follows(r, c.row, W)
    <3> DEFINE W == Watch(i, w, x, n, excused)
    <3>1. /\ W.over \in Nat
          /\ W.over = IF w.over = 0 THEN 1 ELSE IF w.over < r.count THEN w.over + 1 ELSE w.over
          /\ excused => W.quiet = 0
      BY <1>1, <1>5, WatchNotes DEF Observed
    <3> HIDE DEF W, meets
    <3>2. W.over >= r.count
      BY <1>1, <1>5, <3>1
    <3> QED
      BY <1>1, <2>3, <3>1, <3>2 DEF Due, Follows, Count, W
  <2> QED
    BY <1>5, <2>2, <2>3, <2>4 DEF Reads, Counting, c
<1>6. CASE meets /\ ~ due
  <2>1. c.row = [t EXCEPT !.sustain = t.sustain + 1] /\ c.due = FALSE
    <3> DEFINE u == [t EXCEPT !.sustain = @ + 1]
    <3>1. u = [t EXCEPT !.sustain = t.sustain + 1]
      OBVIOUS
    <3>2. u.sustain = t.sustain + 1
      BY <1>1, <1>3, <3>1
    <3>3. c = [row |-> IF u.sustain >= r.count /\ can_alert(t, n) THEN [u EXCEPT !.sustain = 0] ELSE u,
               due |-> u.sustain >= r.count /\ can_alert(t, n)]
      BY <1>4, <1>6 DEF if_current
    <3> HIDE DEF u
    <3>4. (u.sustain >= r.count /\ can_alert(t, n)) = FALSE
      BY <1>2, <1>6, <3>2
    <3> HIDE DEF c
    <3>5. c = [row |-> u, due |-> FALSE]
      BY <3>3, <3>4
    <3> QED
      BY <3>1, <3>5
  <2> HIDE DEF c
  <2>2. c.row \in Row /\ c.row.sustain = t.sustain + 1 /\ c.row.cooldown = t.cooldown
    BY <1>1, <1>3, <2>1
  <2>3. ASSUME NEW excused \in BOOLEAN, ~ can_alert(t, n) => excused
        PROVE  Follows(r, c.row, Watch(i, w, x, n, excused))
    <3> DEFINE W == Watch(i, w, x, n, excused)
    <3>1. /\ W.over \in Nat
          /\ W.over = IF w.over = 0 THEN 1 ELSE IF w.over < r.count THEN w.over + 1 ELSE w.over
          /\ W.quiet = IF excused THEN 0 ELSE IF w.over = 0 THEN 1 ELSE w.quiet + 1
      BY <1>1, <1>6, WatchNotes DEF Observed
    <3> HIDE DEF W, meets
    <3>2. ~ excused => t.sustain + 1 < r.count
      BY <1>1, <1>6, <2>3
    <3>3. W.quiet <= t.sustain + 1 /\ W.quiet < r.count
      BY <1>1, <3>1, <3>2
    <3>4. t.sustain + 1 <= W.over \/ r.count <= W.over
      BY <1>1, <3>1
    <3> QED
      BY <1>1, <2>2, <3>3, <3>4 DEF Follows, Count, W
  <2> QED
    BY <2>1, <2>2, <2>3 DEF Reads, Counting, c
<1>7. CASE ~ meets
  <2>1. c = [row |-> [t EXCEPT !.sustain = 0], due |-> FALSE]
    BY <1>4, <1>7 DEF if_current
  <2> HIDE DEF c
  <2>2. c.row = [t EXCEPT !.sustain = 0] /\ c.due = FALSE
    BY <2>1
  <2>3. c.row \in Row /\ c.row.sustain = 0 /\ c.row.cooldown = t.cooldown
    BY <1>3, <2>2
  <2>4. ASSUME NEW excused \in BOOLEAN
        PROVE  Follows(r, c.row, Watch(i, w, x, n, excused))
    <3> DEFINE W == Watch(i, w, x, n, excused)
    <3>1. W.over = 0 /\ W.quiet = 0
      BY <1>7, WatchNotes
    <3> HIDE DEF W, meets
    <3> QED
      BY <1>1, <2>3, <3>1 DEF Follows, Count, W
  <2> QED
    BY <2>2, <2>3, <2>4 DEF Reads, Counting, c
<1> QED
  BY <1>2, <1>5, <1>6, <1>7

\* A reading of a condition that does not count: it is due whenever it is met
\* and the key may alert.
LEMMA PlainReads ==
    ASSUME NEW i \in DOMAIN rules, rules[i] \in RuleType, rules[i].kind \notin Counting,
           NEW t \in Row, NEW w \in Observed, Follows(rules[i], t, w),
           NEW n \in Nat, w.since <= n, NEW x \in Levels \cup {Nil}
    PROVE  Reads(i, t, w, x, n)
<1> DEFINE r == rules[i]
           meets == Meets(r, x)
           c == Condition(r, t, x, n)
<1>1. r.kind \in {"temp_now", "battery"} /\ Need(r) = 1
  BY NeedByKind DEF RuleType, Kinds, Counting
<1>2. c = [row |-> t, due |-> meets /\ can_alert(t, n)]
  <2>1. CASE r.kind = "temp_now"
    BY <2>1 DEF Condition, if_temp
  <2>2. CASE r.kind = "battery"
    BY <2>2 DEF Condition, if_battery
  <2> QED
    BY <1>1, <2>1, <2>2
<1>3. meets \in BOOLEAN /\ can_alert(t, n) \in BOOLEAN
  BY DEF Meets, can_alert
<1> HIDE DEF c
<1>4. c.row = t /\ c.due = (meets /\ can_alert(t, n))
  BY <1>2
<1>5. ASSUME NEW excused \in BOOLEAN
      PROVE  LET W == Watch(i, w, x, n, excused) IN
             /\ c.due => Due(r, W, n)
             /\ (c.due => excused) /\ (~ can_alert(t, n) => excused) => Follows(r, c.row, W)
  <2> DEFINE W == Watch(i, w, x, n, excused)
  <2>1. /\ W.over \in Nat
        /\ meets => W.over >= 1
        /\ ~ meets \/ excused => W.quiet = 0
    BY <1>1, WatchNotes DEF Observed
  <2> HIDE DEF W, meets
  <2>2. r.kind # "temp" /\ r.kind # "current"
    BY <1>1
  <2> QED
    BY <1>1, <1>3, <1>4, <2>1, <2>2 DEF Due, Follows, W
<1> QED
  BY <1>3, <1>4, <1>5 DEF Reads, c

\* A reading of any rule.
LEMMA RuleReads ==
    ASSUME NEW i \in DOMAIN rules, rules[i] \in RuleType,
           NEW t \in Row, NEW w \in Observed, Follows(rules[i], t, w),
           NEW n \in Nat, w.since <= n, NEW x \in Levels \cup {Nil}
    PROVE  Reads(i, t, w, x, n)
  BY TempReads, CurrentReads, PlainReads DEF Counting

\* Whatever a rule's readings were: its code leaves the row a row, its cooldown
\* alone, and the branch runs only if the key may alert.
LEMMA ConditionKeeps ==
    ASSUME NEW r \in RuleType, NEW t \in Row, NEW x, NEW n \in Nat
    PROVE  LET c == Condition(r, t, x, n) IN
           c.row \in Row /\ c.row.cooldown = t.cooldown /\ (c.due => can_alert(t, n))
<1> DEFINE c == Condition(r, t, x, n)
           meets == Meets(r, x)
<1>1. r.kind \in Kinds /\ meets \in BOOLEAN /\ can_alert(t, n) \in BOOLEAN
  BY DEF RuleType, Meets, can_alert
<1>2. CASE r.kind = "temp"
  <2> DEFINE g == n - t.seen
             b == IF g > GapLimit(t.gap) THEN temp_clear(t) ELSE t
             gap == IF t.gap = Nil \/ g < t.gap THEN g ELSE t.gap
             u == IF t.seen = Nil THEN t
                  ELSE [b EXCEPT !.gap = IF @ = Nil \/ g < @ THEN g ELSE @]
             v == [u EXCEPT !.seen = n]
  <2>1. c = IF meets THEN temp_sustained(v, n) ELSE [row |-> temp_clear(v), due |-> FALSE]
    BY <1>2 DEF Condition, if_temp, temp_streak
  <2>2. b \in Row /\ b.gap = t.gap /\ b.cooldown = t.cooldown
    BY SustainedRow
  <2>3. gap \in Int
    BY DEF Row
  <2> HIDE DEF b
  <2>4. u \in Row /\ u.cooldown = t.cooldown
    <3>1. CASE t.seen = Nil
      BY <3>1
    <3>2. CASE t.seen # Nil
      <4>1. u = [b EXCEPT !.gap = gap]
        BY <2>2, <3>2
      <4> HIDE DEF gap, u
      <4> QED
        BY <2>2, <2>3, <4>1 DEF Row
    <3> QED
      BY <3>1, <3>2
  <2> HIDE DEF u
  <2>5. v \in Row /\ v.cooldown = t.cooldown
    BY <2>4 DEF Row
  <2> HIDE DEF v
  <2>6. can_alert(v, n) <=> can_alert(t, n)
    BY <2>5 DEF can_alert
  <2> HIDE DEF c, meets
  <2>7. CASE meets
    <3> DEFINE s == temp_sustained(v, n)
    <3>1. s.row \in Row /\ s.row.cooldown = v.cooldown /\ (s.due => can_alert(v, n))
      BY <2>5, SustainedRow
    <3>2. c = s
      BY <2>1, <2>7
    <3> HIDE DEF s
    <3>3. c.row \in Row /\ c.row.cooldown = t.cooldown /\ (c.due => can_alert(t, n))
      BY <2>5, <2>6, <3>1, <3>2
    <3> QED
      BY <3>3 DEF c
  <2>8. CASE ~ meets
    <3>1. c.row = temp_clear(v) /\ c.due = FALSE
      BY <2>1, <2>8
    <3> QED
      BY <2>5, <3>1, SustainedRow DEF c
  <2> QED
    BY <1>1, <2>7, <2>8 DEF meets
<1>3. CASE r.kind = "temp_now" \/ r.kind = "battery"
  <2>1. c = [row |-> t, due |-> meets /\ can_alert(t, n)]
    BY <1>3 DEF Condition, if_temp, if_battery
  <2> HIDE DEF c, meets
  <2>2. c.row = t /\ c.due = (meets /\ can_alert(t, n))
    BY <2>1
  <2> QED
    BY <2>2 DEF c
<1>4. CASE r.kind = "current"
  <2> DEFINE u == [t EXCEPT !.sustain = @ + 1]
             due == u.sustain >= r.count /\ can_alert(t, n)
  <2>1. c = IF meets THEN [row |-> IF due THEN [u EXCEPT !.sustain = 0] ELSE u, due |-> due]
            ELSE [row |-> [t EXCEPT !.sustain = 0], due |-> FALSE]
    BY <1>4 DEF Condition, if_current
  <2>2. u \in Row /\ u.cooldown = t.cooldown
    <3>1. t.sustain + 1 \in Nat /\ u = [t EXCEPT !.sustain = t.sustain + 1]
      BY DEF Row
    <3> QED
      BY <3>1 DEF Row
  <2>3. [t EXCEPT !.sustain = 0] \in Row /\ [t EXCEPT !.sustain = 0].cooldown = t.cooldown
    BY DEF Row
  <2> HIDE DEF u
  <2>4. [u EXCEPT !.sustain = 0] \in Row /\ [u EXCEPT !.sustain = 0].cooldown = u.cooldown
    BY <2>2 DEF Row
  <2>5. due => can_alert(t, n)
    OBVIOUS
  <2> HIDE DEF c, meets, due
  <2>6. CASE meets
    <3>1. c.row = (IF due THEN [u EXCEPT !.sustain = 0] ELSE u) /\ c.due = due
      BY <2>1, <2>6
    <3> QED
      BY <2>2, <2>4, <2>5, <3>1 DEF c
  <2>7. CASE ~ meets
    <3>1. c.row = [t EXCEPT !.sustain = 0] /\ c.due = FALSE
      BY <2>1, <2>7
    <3> QED
      BY <2>3, <3>1 DEF c
  <2> QED
    BY <1>1, <2>6, <2>7 DEF meets
<1> QED
  BY <1>1, <1>2, <1>3, <1>4 DEF Kinds

-----------------------------------------------------------------------------
(* One event *)

\* What the handler of rule k makes of what the rules before it have left.
Step(acc, k, mine, data, n, lost) ==
    IF k \in mine THEN RunRule(acc, k, data[rules[k].src], n, lost) ELSE acc

\* The first k handlers have run after the first k - 1, and the one of rule k.
Stepwise(mine, data, n, lost) ==
    LET h == Handled(mine, data, n, lost) IN
    /\ h[0] = [tab |-> tab, fired |-> {}]
    /\ \A k \in 1..Len(rules) : h[k] = Step(h[k - 1], k, mine, data, n, lost)

\* The recursion of Handled is well defined.
LEMMA HandledStepwise ==
    ASSUME NEW mine, NEW data, NEW n, NEW lost, Len(rules) \in Nat
    PROVE  Stepwise(mine, data, n, lost)
<1> DEFINE L == Len(rules)
           start == [tab |-> tab, fired |-> {}]
           S(acc, k) == Step(acc, k, mine, data, n, lost)
           Upto(g, m) == g = [k \in 0..m |-> IF k = 0 THEN start ELSE S(g[k - 1], k)]
           Done == {m \in 0..L : \E g : Upto(g, m)}
<1>1. 0 \in Done
  <2> HIDE DEF S, start
  <2>1. Upto([k \in 0..0 |-> start], 0)
    OBVIOUS
  <2>2. 0 \in 0..L
    OBVIOUS
  <2> HIDE DEF Upto
  <2> QED
    BY <2>1, <2>2
<1>2. ASSUME NEW m \in Done, m < L
      PROVE  m + 1 \in Done
  <2>1. PICK g : Upto(g, m)
    BY <1>2
  <2> DEFINE G == [k \in 0..(m + 1) |-> IF k = m + 1 THEN S(g[m], m + 1) ELSE g[k]]
  <2> HIDE DEF S, start
  <2>2. \A k \in 0..m : g[k] = IF k = 0 THEN start ELSE S(g[k - 1], k)
    BY <2>1
  <2>3. \A k \in 0..(m + 1) : G[k] = IF k = 0 THEN start ELSE S(G[k - 1], k)
    BY <2>2
  <2>4. Upto(G, m + 1)
    <3> HIDE DEF G
    <3>1. G = [k \in 0..(m + 1) |-> G[k]]
      BY DEF G
    <3> QED
      BY <2>3, <3>1
  <2> HIDE DEF G, Upto
  <2>5. m + 1 \in 0..L
    BY <1>2
  <2> QED
    BY <2>4, <2>5
<1>3. L \in Done
  <2> HIDE DEF Done
  <2>1. 0..L \subseteq Done
    <3>1. \A k \in 0..L : k \in Done /\ k < L => k + 1 \in Done
      BY <1>2
    <3> QED
      BY <1>1, <3>1, CountUp
  <2> QED
    BY <2>1
<1>4. PICK g : Upto(g, L)
  BY <1>3
<1> DEFINE h == Handled(mine, data, n, lost)
<1>5. h = CHOOSE f : f = [k \in 0..L |-> IF k = 0 THEN start
                           ELSE IF k \in mine THEN RunRule(f[k - 1], k, data[rules[k].src], n, lost)
                           ELSE f[k - 1]]
  BY DEF Handled
<1>6. Upto(h, L)
  BY <1>4, <1>5 DEF Step
<1> QED
  <2> HIDE DEF h, S, start
  <2>1. \A k \in 0..L : h[k] = IF k = 0 THEN start ELSE S(h[k - 1], k)
    BY <1>6
  <2>2. h[0] = start /\ \A k \in 1..L : h[k] = S(h[k - 1], k)
    BY <2>1
  <2> QED
    BY <2>2 DEF S, start, h, Stepwise

\* Two rows that differ in nothing but the cooldown.
SameCounters(t, u) == t.sustain = u.sustain /\ t.start = u.start /\ t.seen = u.seen /\ t.gap = u.gap

\* What one rule leaves: the row of its key, with the cooldown started if
\* Telegram took an alert, and its notify calls, none unless the branch ran.
Leaves(acc, k, x, n, lost) ==
    LET key == rules[k].key
        c == Condition(rules[k], acc.tab[key], x, n)
        R == RunRule(acc, k, x, n, lost) IN
    /\ R.tab \in [Keys -> Row]
    /\ \A K \in Keys : K # key => R.tab[K] = acc.tab[K]
    /\ SameCounters(R.tab[key], c.row)
    /\ \E New :
          /\ R.fired = acc.fired \cup New
          /\ \A f \in New : f[1] = k
          /\ c.due <=> New # {}
          /\ R.tab[key].cooldown = IF \E f \in New : f[3] THEN n ELSE c.row.cooldown

\* RunRule on a row that Condition keeps a row.
LEMMA RunRuleLeaves ==
    ASSUME NEW acc, acc.tab \in [Keys -> Row], NEW k \in DOMAIN rules, rules[k] \in RuleType,
           NEW x, NEW n \in Nat, NEW lost,
           Condition(rules[k], acc.tab[rules[k].key], x, n).row \in Row
    PROVE  Leaves(acc, k, x, n, lost)
<1> DEFINE r == rules[k]
           key == r.key
           c == Condition(r, acc.tab[key], x, n)
           oks == {<<k, j>> \notin lost : j \in 1..r.notes}
           calls == {<<k, j, <<k, j>> \notin lost>> : j \in 1..r.notes}
           New == IF c.due THEN calls ELSE {}
           row == IF c.due THEN notify(c.row, n, oks) ELSE c.row
           R == RunRule(acc, k, x, n, lost)
<1>1. key \in Keys /\ r.notes \in Nat \ {0}
  BY DEF Keys, RuleType
<1>2. /\ \A f \in calls : f[1] = k
      /\ calls # {}
      /\ (\E f \in calls : f[3]) <=> TRUE \in oks
  <2>1. ASSUME NEW f \in calls
        PROVE  f[1] = k /\ (f[3] => TRUE \in oks)
    <3>1. PICK j \in 1..r.notes : f = <<k, j, <<k, j>> \notin lost>>
      OBVIOUS
    <3>2. f[1] = k /\ f[3] = (<<k, j>> \notin lost)
      BY <3>1
    <3>3. (<<k, j>> \notin lost) \in oks
      OBVIOUS
    <3> HIDE DEF oks
    <3> QED
      BY <3>2, <3>3
  <2>2. calls # {}
    <3>1. 1 \in 1..r.notes
      BY <1>1
    <3>2. <<k, 1, <<k, 1>> \notin lost>> \in calls
      BY <3>1
    <3> QED
      BY <3>2
  <2>3. ASSUME TRUE \in oks
        PROVE  \E f \in calls : f[3]
    <3>1. PICK j \in 1..r.notes : TRUE = (<<k, j>> \notin lost)
      BY <2>3
    <3>2. <<k, j, <<k, j>> \notin lost>> \in calls
      OBVIOUS
    <3>3. <<k, j, <<k, j>> \notin lost>>[3] = (<<k, j>> \notin lost)
      OBVIOUS
    <3> HIDE DEF calls
    <3> QED
      BY <3>1, <3>2, <3>3
  <2> HIDE DEF calls, oks
  <2> QED
    BY <2>1, <2>2, <2>3
<1>3. R = [tab |-> [acc.tab EXCEPT ![key] = row], fired |-> acc.fired \cup New]
  <2>1. CASE c.due
    BY <2>1 DEF RunRule
  <2>2. CASE ~ c.due
    BY <2>2 DEF RunRule
  <2> QED
    BY <2>1, <2>2
<1> HIDE DEF R, calls, c, oks
<1>4. /\ row \in Row
      /\ SameCounters(row, c.row)
      /\ row.cooldown = IF \E f \in New : f[3] THEN n ELSE c.row.cooldown
  <2>1. c.row \in Row
    BY DEF c
  <2>2. /\ [c.row EXCEPT !.cooldown = n] \in Row
        /\ [c.row EXCEPT !.cooldown = n].cooldown = n
        /\ SameCounters([c.row EXCEPT !.cooldown = n], c.row)
    BY <2>1 DEF Row, SameCounters
  <2>3. SameCounters(c.row, c.row)
    BY DEF SameCounters
  <2> QED
    BY <1>2, <2>1, <2>2, <2>3 DEF notify
<1> HIDE DEF row, New
<1>5. R.tab = [acc.tab EXCEPT ![key] = row] /\ R.fired = acc.fired \cup New
  BY <1>3
<1>6. /\ R.tab \in [Keys -> Row]
      /\ R.tab[key] = row
      /\ \A K \in Keys : K # key => R.tab[K] = acc.tab[K]
  <2> HIDE DEF key
  <2> QED
    BY <1>1, <1>4, <1>5
<1>7. /\ \A f \in New : f[1] = k
      /\ c.due <=> New # {}
  BY <1>2 DEF New
<1> QED
  BY <1>4, <1>5, <1>6, <1>7 DEF c, R, Leaves

\* What the handlers have done to the cooldowns when the first k rules have run:
\* they started where Telegram took an alert, nobody alerted during one, and
\* after one of a key took effect no later rule of the key alerted.
Cooled(acc, k, mine, n) ==
    /\ acc.tab \in [Keys -> Row]
    /\ \A f \in acc.fired : f[1] \in mine /\ f[1] <= k
    /\ \A K \in Keys :
          acc.tab[K].cooldown = IF \E f \in acc.fired : rules[f[1]].key = K /\ f[3] THEN n ELSE tab[K].cooldown
    /\ \A f \in acc.fired : LET K == rules[f[1]].key IN
          tab[K].cooldown = Nil \/ n - tab[K].cooldown >= COOLDOWN_MS
    /\ \A f, g \in acc.fired :
          rules[f[1]].key = rules[g[1]].key /\ g[1] < f[1] => ~ g[3]

\* The reading of rule k keeps what the rules before it did to the cooldowns.
LEMMA CooledStep ==
    ASSUME NEW acc, NEW k \in DOMAIN rules, k \in Nat \ {0}, rules[k] \in RuleType,
           NEW mine \in SUBSET DOMAIN rules, k \in mine, mine \subseteq Nat,
           NEW x, NEW n \in Nat, NEW lost, tab \in [Keys -> Row],
           Cooled(acc, k - 1, mine, n),
           LET t == acc.tab[rules[k].key]
               c == Condition(rules[k], t, x, n) IN
           c.row \in Row /\ c.row.cooldown = t.cooldown /\ (c.due => can_alert(t, n))
    PROVE  Cooled(RunRule(acc, k, x, n, lost), k, mine, n)
<1> USE RulesAssumption
<1> DEFINE key == rules[k].key
           t == acc.tab[key]
           c == Condition(rules[k], t, x, n)
           R == RunRule(acc, k, x, n, lost)
<1>1. PICK New :
         /\ R.tab \in [Keys -> Row]
         /\ \A K \in Keys : K # key => R.tab[K] = acc.tab[K]
         /\ R.fired = acc.fired \cup New
         /\ \A f \in New : f[1] = k
         /\ c.due <=> New # {}
         /\ R.tab[key].cooldown = IF \E f \in New : f[3] THEN n ELSE c.row.cooldown
  <2>1. acc.tab \in [Keys -> Row] /\ c.row \in Row
    BY DEF Cooled
  <2>2. Leaves(acc, k, x, n, lost)
    BY <2>1, RunRuleLeaves
  <2> QED
    BY <2>2 DEF Leaves
<1>2. /\ c.row.cooldown = t.cooldown
      /\ c.due => can_alert(t, n)
      /\ key \in Keys
  BY DEF Keys
<1> HIDE DEF c, R
<1>3. \A f \in acc.fired : f[1] \in mine /\ f[1] < k /\ f[1] # k
  BY DEF Cooled
<1>4. New # {} => /\ \A f \in acc.fired : rules[f[1]].key = key => ~ f[3]
                  /\ tab[key].cooldown = Nil \/ n - tab[key].cooldown >= COOLDOWN_MS
  <2> SUFFICES ASSUME New # {}
               PROVE  /\ \A f \in acc.fired : rules[f[1]].key = key => ~ f[3]
                      /\ tab[key].cooldown = Nil \/ n - tab[key].cooldown >= COOLDOWN_MS
    OBVIOUS
  <2>1. t.cooldown = Nil \/ n - t.cooldown >= COOLDOWN_MS
    BY <1>1, <1>2 DEF can_alert
  <2>2. t.cooldown # n
    BY <2>1 DEF Nil
  <2>3. t.cooldown = IF \E f \in acc.fired : rules[f[1]].key = key /\ f[3] THEN n ELSE tab[key].cooldown
    BY <1>2 DEF Cooled
  <2> HIDE DEF t
  <2>4. ~ \E f \in acc.fired : rules[f[1]].key = key /\ f[3]
    BY <2>2, <2>3
  <2> QED
    BY <2>1, <2>3, <2>4
<1>5. \A f \in R.fired : f[1] \in mine /\ f[1] <= k
  BY <1>1, <1>3
<1>6. ASSUME NEW K \in Keys
      PROVE  R.tab[K].cooldown = IF \E f \in R.fired : rules[f[1]].key = K /\ f[3] THEN n ELSE tab[K].cooldown
  <2>1. acc.tab[K].cooldown = IF \E f \in acc.fired : rules[f[1]].key = K /\ f[3] THEN n ELSE tab[K].cooldown
    BY DEF Cooled
  <2>2. CASE K = key
    BY <1>1, <1>2, <2>1, <2>2
  <2>3. CASE K # key
    BY <1>1, <2>1, <2>3
  <2> QED
    BY <2>2, <2>3
<1>7. \A f \in R.fired : LET K == rules[f[1]].key IN
         tab[K].cooldown = Nil \/ n - tab[K].cooldown >= COOLDOWN_MS
  BY <1>1, <1>4 DEF Cooled
<1>8. ASSUME NEW f \in R.fired, NEW g \in R.fired, rules[f[1]].key = rules[g[1]].key, g[1] < f[1], g[3]
      PROVE  FALSE
  <2>1. CASE f \in acc.fired /\ g \in acc.fired
    BY <1>8, <2>1 DEF Cooled
  <2>2. CASE f \in New /\ g \in acc.fired
    BY <1>1, <1>4, <1>8, <2>2
  <2>3. CASE g \in New
    BY <1>1, <1>3, <1>8, <2>3
  <2> QED
    BY <1>1, <2>1, <2>2, <2>3
<1> QED
  BY <1>1, <1>5, <1>6, <1>7, <1>8 DEF Cooled, R

\* What holds of the cooldowns before the first handler has run.
LEMMA CooledStart ==
    ASSUME NEW mine, NEW n \in Nat, tab \in [Keys -> Row]
    PROVE  Cooled([tab |-> tab, fired |-> {}], 0, mine, n)
  BY DEF Cooled

\* The same past a rule the event does not concern.
LEMMA CooledPast ==
    ASSUME NEW acc, NEW k \in Nat, NEW mine \in SUBSET Nat, NEW n, Cooled(acc, k - 1, mine, n)
    PROVE  Cooled(acc, k, mine, n)
<1>1. \A f \in acc.fired : f[1] \in Nat /\ f[1] \in mine /\ f[1] <= k - 1
  BY DEF Cooled
<1>2. \A f \in acc.fired : f[1] \in mine /\ f[1] <= k
  BY <1>1
<1> QED
  BY <1>2 DEF Cooled

\* The rows, the cooldowns and the notify calls when the handlers are through.
LEMMA CooledEvent ==
    ASSUME rules \in Files, tab \in [Keys -> Row],
           NEW mine \in SUBSET DOMAIN rules, NEW data, NEW n \in Nat, NEW lost,
           NEW k \in 0..Len(rules)
    PROVE  Cooled(Handled(mine, data, n, lost)[k], k, mine, n)
<1> DEFINE L == Len(rules)
           h == Handled(mine, data, n, lost)
           S == {j \in 0..L : Cooled(h[j], j, mine, n)}
<1>1. /\ L \in Nat /\ DOMAIN rules = 1..L /\ \A j \in 1..L : rules[j] \in RuleType
      /\ mine \in SUBSET Nat
  BY RulesAssumption
<1>2. h[0] = [tab |-> tab, fired |-> {}] /\ \A j \in 1..L : h[j] = Step(h[j - 1], j, mine, data, n, lost)
  <2>1. Len(rules) \in Nat
    BY <1>1
  <2>2. Stepwise(mine, data, n, lost)
    BY <2>1, HandledStepwise
  <2> QED
    BY <2>2 DEF Stepwise
<1> HIDE DEF h, L
<1>3. 0 \in S
  <2>1. Cooled(h[0], 0, mine, n)
    BY <1>2, CooledStart
  <2> QED
    BY <1>1, <2>1
<1>4. ASSUME NEW j \in 0..L, j \in S, j < L
      PROVE  j + 1 \in S
  <2> DEFINE m == j + 1
  <2>1. m \in 1..L /\ m \in Nat \ {0} /\ m - 1 = j
    BY <1>1, <1>4
  <2> HIDE DEF m
  <2>2. Cooled(h[m - 1], m - 1, mine, n)
    BY <1>4, <2>1
  <2>3. CASE m \in mine
    <3> DEFINE x == data[rules[m].src]
               t == h[m - 1].tab[rules[m].key]
    <3>1. h[m] = RunRule(h[m - 1], m, x, n, lost)
      BY <1>2, <2>1, <2>3 DEF Step
    <3>2. t \in Row
      <4>1. h[m - 1].tab \in [Keys -> Row]
        BY <2>2 DEF Cooled
      <4>2. rules[m].key \in Keys
        BY <1>1, <2>1 DEF Keys
      <4> QED
        BY <4>1, <4>2
    <3> HIDE DEF x
    <3>3. LET c == Condition(rules[m], t, x, n) IN
          c.row \in Row /\ c.row.cooldown = t.cooldown /\ (c.due => can_alert(t, n))
      BY <1>1, <2>1, <3>2, ConditionKeeps
    <3>4. Cooled(RunRule(h[m - 1], m, x, n, lost), m, mine, n)
      BY <1>1, <2>1, <2>2, <2>3, <3>3, CooledStep
    <3> QED
      BY <2>1, <3>1, <3>4 DEF m
  <2>4. CASE m \notin mine
    <3>1. h[m] = h[m - 1]
      BY <1>2, <2>1, <2>4 DEF Step
    <3>2. Cooled(h[m - 1], m, mine, n)
      BY <1>1, <2>1, <2>2, CooledPast
    <3> QED
      BY <2>1, <3>1, <3>2 DEF m
  <2> QED
    BY <2>3, <2>4
<1>5. 0..L \subseteq S
  <2> HIDE DEF S
  <2>1. \A j \in 0..L : j \in S /\ j < L => j + 1 \in S
    BY <1>4
  <2> QED
    BY <1>1, <1>3, <2>1, CountUp
<1> QED
  BY <1>5 DEF h, L

-----------------------------------------------------------------------------
(* What the observer and the rows know of each other in an event *)

\* Why a reading that meets rule i may pass without an alert of it: the rule did
\* alert, its key was cooling down, or Telegram took an alert of the key.
Excuse(acc, i, n) ==
    \/ \E f \in acc.fired : f[1] = i
    \/ Cooling(tab[rules[i].key].cooldown, n)
    \/ \E f \in acc.fired : rules[f[1]].key = rules[i].key /\ f[3]

\* Rule i has had its reading: its row follows what the observer notes of it, and
\* an alert of it was due.
Heard(acc, i, data, n) ==
    \A excused \in BOOLEAN :
        LET r == rules[i]
            W == Watch(i, watch[i], data[r.src], n, excused) IN
        /\ (Excuse(acc, i, n) => excused) => Follows(r, acc.tab[r.key], W)
        /\ (\E f \in acc.fired : f[1] = i) => Due(r, W, n)

\* The first k rules have had the event.
Noted(acc, k, mine, data, n) ==
    \A i \in DOMAIN rules :
        IF i \in mine /\ i <= k THEN Heard(acc, i, data, n)
        ELSE Follows(rules[i], acc.tab[rules[i].key], watch[i])

\* Follows asks nothing of a row but its counters, and of the row of a condition
\* that does not count nothing at all.
LEMMA FollowsSame ==
    ASSUME NEW r, NEW t, NEW u, NEW w, Follows(r, t, w),
           SameCounters(t, u) \/ r.kind \notin Counting
    PROVE  Follows(r, u, w)
<1>1. CASE SameCounters(t, u)
  BY <1>1 DEF SameCounters, Follows, Streak, Count
<1>2. CASE r.kind \notin Counting
  BY <1>2 DEF Counting, Follows
<1> QED
  BY <1>1, <1>2

\* The reading of rule k, when the rules before it have run.
LEMMA NotedStep ==
    ASSUME NEW acc, NEW k \in DOMAIN rules, NEW mine \in SUBSET DOMAIN rules, k \in mine,
           DOMAIN rules \subseteq Nat \ {0}, \A i \in DOMAIN rules : rules[i] \in RuleType,
           \A i, j \in DOMAIN rules : i # j /\ rules[i].key = rules[j].key =>
               rules[i].kind \notin Counting \/ rules[j].kind \notin Counting,
           NEW data, data[rules[k].src] \in Levels \cup {Nil}, NEW n \in Nat, NEW lost,
           watch[k] \in Observed, watch[k].since <= n,
           Cooled(acc, k - 1, mine, n), Noted(acc, k - 1, mine, data, n)
    PROVE  Noted(RunRule(acc, k, data[rules[k].src], n, lost), k, mine, data, n)
<1> USE RulesAssumption
<1> DEFINE r == rules[k]
           key == r.key
           t == acc.tab[key]
           x == data[r.src]
           c == Condition(r, t, x, n)
           R == RunRule(acc, k, x, n, lost)
<1>1. r \in RuleType /\ key \in Keys /\ acc.tab \in [Keys -> Row] /\ t \in Row
  BY DEF Cooled, Keys
<1>2. Follows(r, t, watch[k])
  BY DEF Noted
<1>3. Reads(k, t, watch[k], x, n)
  BY <1>1, <1>2, RuleReads
<1>4. c.row \in Row
  BY <1>3 DEF Reads
<1>5. PICK New :
         /\ R.tab \in [Keys -> Row]
         /\ \A K \in Keys : K # key => R.tab[K] = acc.tab[K]
         /\ SameCounters(R.tab[key], c.row)
         /\ R.fired = acc.fired \cup New
         /\ \A f \in New : f[1] = k
         /\ c.due <=> New # {}
  <2>1. Leaves(acc, k, x, n, lost)
    BY <1>1, <1>4, RunRuleLeaves
  <2> QED
    BY <2>1 DEF Leaves
<1>6. /\ r.kind \notin Counting => c.row = t
      /\ \A excused \in BOOLEAN :
            LET W == Watch(k, watch[k], x, n, excused) IN
            /\ c.due => Due(r, W, n)
            /\ (c.due => excused) /\ (~ can_alert(t, n) => excused) => Follows(r, c.row, W)
  BY <1>3 DEF Reads
<1> HIDE DEF R, c
<1>7. \A f \in acc.fired : f[1] \in mine /\ f[1] < k /\ f[1] # k
  BY DEF Cooled
<1>8. \A i \in DOMAIN rules : Excuse(acc, i, n) => Excuse(R, i, n)
  BY <1>5 DEF Excuse
<1>9. Heard(R, k, data, n)
  <2>1. c.due => Excuse(R, k, n)
    BY <1>5 DEF Excuse
  <2>2. ~ can_alert(t, n) => Excuse(R, k, n)
    <3> SUFFICES ASSUME ~ can_alert(t, n)
                 PROVE  Excuse(R, k, n)
      OBVIOUS
    <3>1. t.cooldown # Nil /\ ~ (n - t.cooldown >= COOLDOWN_MS)
      BY DEF can_alert
    <3>2. t.cooldown = IF \E f \in acc.fired : rules[f[1]].key = key /\ f[3] THEN n ELSE tab[key].cooldown
      BY <1>1 DEF Cooled
    <3>3. t.cooldown \in Int
      BY <1>1 DEF Row
    <3> HIDE DEF t
    <3>4. CASE \E f \in acc.fired : rules[f[1]].key = key /\ f[3]
      BY <1>5, <3>4 DEF Excuse
    <3>5. CASE ~ \E f \in acc.fired : rules[f[1]].key = key /\ f[3]
      BY <3>1, <3>2, <3>3, <3>5 DEF Excuse, Cooling
    <3> QED
      BY <3>4, <3>5
  <2>3. (\E f \in R.fired : f[1] = k) => c.due
    BY <1>5, <1>7
  <2>4. ASSUME NEW excused \in BOOLEAN, Excuse(R, k, n) => excused
        PROVE  Follows(r, R.tab[key], Watch(k, watch[k], x, n, excused))
    <3>1. Follows(r, c.row, Watch(k, watch[k], x, n, excused))
      BY <1>6, <2>1, <2>2, <2>4
    <3>2. SameCounters(c.row, R.tab[key])
      BY <1>5 DEF SameCounters
    <3> QED
      BY <3>1, <3>2, FollowsSame
  <2> QED
    BY <1>6, <2>3, <2>4 DEF Heard
<1>10. ASSUME NEW i \in DOMAIN rules, i # k, NEW w, Follows(rules[i], acc.tab[rules[i].key], w)
       PROVE  Follows(rules[i], R.tab[rules[i].key], w)
  <2>1. CASE rules[i].key # key
    <3>1. rules[i].key \in Keys
      BY DEF Keys
    <3> QED
      BY <1>5, <1>10, <2>1, <3>1
  <2>2. CASE rules[i].key = key /\ rules[i].kind \notin Counting
    BY <1>10, <2>2, FollowsSame
  <2>3. CASE rules[i].key = key /\ rules[i].kind \in Counting
    <3>1. r.kind \notin Counting
      BY <1>10, <2>3
    <3>2. SameCounters(acc.tab[rules[i].key], R.tab[rules[i].key])
      BY <1>5, <1>6, <2>3, <3>1 DEF SameCounters
    <3> QED
      BY <1>10, <3>2, FollowsSame
  <2> QED
    BY <2>1, <2>2, <2>3
<1>11. ASSUME NEW i \in DOMAIN rules, i # k
       PROVE  IF i \in mine /\ i <= k THEN Heard(R, i, data, n)
              ELSE Follows(rules[i], R.tab[rules[i].key], watch[i])
  <2>1. i <= k <=> i <= k - 1
    BY <1>11
  <2>2. CASE i \in mine /\ i <= k
    <3>1. Heard(acc, i, data, n)
      BY <2>1, <2>2 DEF Noted
    <3>2. (\E f \in R.fired : f[1] = i) => \E f \in acc.fired : f[1] = i
      BY <1>5, <1>11
    <3>3. ASSUME NEW excused \in BOOLEAN
          PROVE  LET W == Watch(i, watch[i], data[rules[i].src], n, excused) IN
                 /\ (Excuse(R, i, n) => excused) => Follows(rules[i], R.tab[rules[i].key], W)
                 /\ (\E f \in R.fired : f[1] = i) => Due(rules[i], W, n)
      <4> DEFINE W == Watch(i, watch[i], data[rules[i].src], n, excused)
      <4>1. /\ (Excuse(acc, i, n) => excused) => Follows(rules[i], acc.tab[rules[i].key], W)
            /\ (\E f \in acc.fired : f[1] = i) => Due(rules[i], W, n)
        BY <3>1 DEF Heard
      <4> HIDE DEF W
      <4> QED
        BY <1>8, <1>10, <1>11, <3>2, <4>1 DEF W
    <3> QED
      BY <2>2, <3>3 DEF Heard
  <2>3. CASE ~ (i \in mine /\ i <= k)
    <3>1. Follows(rules[i], acc.tab[rules[i].key], watch[i])
      BY <2>1, <2>3 DEF Noted
    <3> QED
      BY <1>10, <1>11, <2>3, <3>1
  <2> QED
    BY <2>2, <2>3
<1>12. \A i \in DOMAIN rules :
          IF i \in mine /\ i <= k THEN Heard(R, i, data, n)
          ELSE Follows(rules[i], R.tab[rules[i].key], watch[i])
  BY <1>9, <1>11
<1> QED
  BY <1>12 DEF Noted, R

\* What the observer and the rows know of each other when the first k handlers
\* are through.
LEMMA NotedEvent ==
    ASSUME CountersApart, RulesInv,
           NEW mine \in SUBSET DOMAIN rules, NEW data,
           \A i \in mine : data[rules[i].src] \in Levels \cup {Nil},
           NEW n \in Nat, now <= n, NEW lost, NEW k \in 0..Len(rules)
    PROVE  Noted(Handled(mine, data, n, lost)[k], k, mine, data, n)
<1> DEFINE L == Len(rules)
           h == Handled(mine, data, n, lost)
           S == {j \in 0..L : Noted(h[j], j, mine, data, n)}
<1>1. /\ rules \in Files /\ now \in Nat /\ tab \in [Keys -> Row]
      /\ watch \in [DOMAIN rules -> Observed]
      /\ \A i \in DOMAIN rules : watch[i].since <= now
      /\ \A i \in DOMAIN rules : Follows(rules[i], tab[rules[i].key], watch[i])
  BY DEF RulesInv, Tables
<1>2. /\ L \in Nat /\ DOMAIN rules = 1..L /\ \A j \in 1..L : rules[j] \in RuleType
      /\ DOMAIN rules \subseteq Nat \ {0}
  <2>1. L \in Nat /\ DOMAIN rules = 1..L /\ \A j \in 1..L : rules[j] \in RuleType
    BY <1>1, RulesAssumption
  <2> HIDE DEF L
  <2> QED
    BY <2>1
<1>3. h[0] = [tab |-> tab, fired |-> {}] /\ \A j \in 1..L : h[j] = Step(h[j - 1], j, mine, data, n, lost)
  <2>1. Len(rules) \in Nat
    BY <1>2
  <2>2. Stepwise(mine, data, n, lost)
    BY <2>1, HandledStepwise
  <2> QED
    BY <2>2 DEF Stepwise
<1>4. \A j \in 0..L : Cooled(h[j], j, mine, n)
  BY <1>1, CooledEvent
<1>5. \A i, j \in DOMAIN rules : i # j /\ rules[i].key = rules[j].key =>
         rules[i].kind \notin Counting \/ rules[j].kind \notin Counting
  BY <1>1 DEF CountersApart
<1>6. \A i \in DOMAIN rules : watch[i] \in Observed /\ watch[i].since <= n
  <2>1. \A i \in DOMAIN rules : watch[i] \in Observed /\ watch[i].since <= now
    BY <1>1
  <2> QED
    BY <1>1, <2>1 DEF Observed
<1> HIDE DEF h, L
<1>7. 0 \in S
  <2>1. \A i \in DOMAIN rules : ~ (i \in mine /\ i <= 0)
    BY <1>2
  <2>2. Noted(h[0], 0, mine, data, n)
    BY <1>1, <1>3, <2>1 DEF Noted
  <2> QED
    BY <1>2, <2>2
<1>8. ASSUME NEW j \in 0..L, j \in S, j < L
      PROVE  j + 1 \in S
  <2> DEFINE m == j + 1
  <2>1. m \in 1..L /\ m \in DOMAIN rules /\ m - 1 = j /\ m - 1 \in 0..L
    BY <1>2, <1>8
  <2> HIDE DEF m
  <2>2. Cooled(h[m - 1], m - 1, mine, n) /\ Noted(h[m - 1], m - 1, mine, data, n)
    BY <1>4, <1>8, <2>1
  <2>3. CASE m \in mine
    <3>1. h[m] = RunRule(h[m - 1], m, data[rules[m].src], n, lost)
      BY <1>3, <2>1, <2>3 DEF Step
    <3>2. watch[m] \in Observed /\ watch[m].since <= n /\ data[rules[m].src] \in Levels \cup {Nil}
      BY <1>6, <2>1, <2>3
    <3>3. \A i \in DOMAIN rules : rules[i] \in RuleType
      BY <1>2
    <3>4. Noted(RunRule(h[m - 1], m, data[rules[m].src], n, lost), m, mine, data, n)
      BY <1>2, <1>5, <2>1, <2>2, <2>3, <3>2, <3>3, NotedStep
    <3> QED
      BY <2>1, <3>1, <3>4 DEF m
  <2>4. CASE m \notin mine
    <3>1. h[m] = h[m - 1]
      BY <1>3, <2>1, <2>4 DEF Step
    <3>2. \A i \in DOMAIN rules : (i \in mine /\ i <= m) <=> (i \in mine /\ i <= m - 1)
      BY <1>2, <2>1, <2>4
    <3>3. Noted(h[m - 1], m, mine, data, n)
      BY <2>2, <3>2 DEF Noted
    <3> QED
      BY <2>1, <3>1, <3>3 DEF m
  <2> QED
    BY <2>3, <2>4
<1>9. 0..L \subseteq S
  <2> HIDE DEF S
  <2>1. \A j \in 0..L : j \in S /\ j < L => j + 1 \in S
    BY <1>8
  <2> QED
    BY <1>2, <1>7, <2>1, CountUp
<1> QED
  BY <1>9 DEF h, L

-----------------------------------------------------------------------------
(* The steps of the specification *)

\* The tables of a file that was just run.
LEMMA LoadedTables ==
    ASSUME NEW file \in Files
    PROVE  LET K == {file[i].key : i \in DOMAIN file} IN
           /\ Loaded(file).tab \in [K -> Row]
           /\ Loaded(file).acked \in [K -> Int]
           /\ \A k \in K : Loaded(file).tab[k].cooldown = Nil /\ Loaded(file).acked[k] = Nil
           /\ Loaded(file).watch \in [DOMAIN file -> Observed]
           /\ \A i \in DOMAIN file :
                 /\ Loaded(file).watch[i].since = Nil
                 /\ Follows(file[i], Loaded(file).tab[file[i].key], Loaded(file).watch[i])
<1> DEFINE K == {file[i].key : i \in DOMAIN file}
<1>1. /\ Loaded(file).tab = [k \in K |-> Fresh]
      /\ Loaded(file).watch = [i \in DOMAIN file |-> Unseen]
      /\ Loaded(file).acked = [k \in K |-> Nil]
  BY DEF Loaded
<1>2. Fresh \in Row /\ Fresh.cooldown = Nil /\ Unseen \in Observed /\ Unseen.since = Nil /\ Nil \in Int
  BY DEF Fresh, Row, Unseen, Observed, Nil
<1>3. ASSUME NEW i \in DOMAIN file
      PROVE  Follows(file[i], Fresh, Unseen)
  <2>1. file[i] \in RuleType
    BY RulesAssumption
  <2>2. Need(file[i]) > 0
    BY <2>1, NeedByKind
  <2>3. Streak(Fresh, Unseen)
    BY RulesAssumption DEF Streak, Fresh, Unseen, Nil
  <2>4. Count(file[i], Fresh, Unseen)
    BY DEF Count, Fresh, Unseen
  <2> QED
    BY <2>2, <2>3, <2>4 DEF Follows, Unseen
<1> HIDE DEF K
<1>4. \A i \in DOMAIN file : file[i].key \in K
  BY DEF K
<1>5. /\ Loaded(file).tab \in [K -> Row]
      /\ Loaded(file).acked \in [K -> Int]
      /\ \A k \in K : Loaded(file).tab[k].cooldown = Nil /\ Loaded(file).acked[k] = Nil
      /\ Loaded(file).watch \in [DOMAIN file -> Observed]
      /\ \A i \in DOMAIN file :
            /\ Loaded(file).watch[i].since = Nil
            /\ Follows(file[i], Loaded(file).tab[file[i].key], Loaded(file).watch[i])
  BY <1>1, <1>2, <1>3, <1>4
<1> QED
  BY <1>5 DEF K

\* The tables are empty when the first file is run.
LEMMA TablesInit == Init => Tables
<1> SUFFICES ASSUME Init
             PROVE  Tables
  OBVIOUS
<1>1. rules \in Files /\ now = 0 /\ tab = Loaded(rules).tab /\ acked = Loaded(rules).acked
  BY DEF Init
<1> QED
  BY <1>1, LoadedTables DEF Tables, Keys

\* lua.reload: both start from nothing.
LEMMA TablesReload ==
    ASSUME Tables, NEW file \in Files, Reload(file)
    PROVE  Tables'
<1>1. /\ rules' = file /\ now' = now
      /\ tab' = Loaded(file).tab /\ acked' = Loaded(file).acked
  BY DEF Reload
<1>2. Keys' = {file[i].key : i \in DOMAIN file}
  BY <1>1 DEF Keys
<1> QED
  BY <1>1, <1>2, LoadedTables DEF Tables

\* The values an event carries for the rules it concerns.
LEMMA ConcernedData ==
    ASSUME NEW e, NEW data \in Data(e)
    PROVE  /\ Concerned(e, data) \in SUBSET DOMAIN rules
           /\ \A i \in Concerned(e, data) : data[rules[i].src] \in Levels \cup {Nil}
  BY DEF Data, Concerned

\* What a reading does, in terms of the state the handlers leave.
LEMMA ReadingLeaves ==
    ASSUME Tables, NEW e, NEW d \in Delays, NEW data \in Data(e), NEW lost, Reading(e, d, data, lost)
    PROVE  LET mine == Concerned(e, data)
               n == now + d
               res == Handled(mine, data, n, lost)[Len(rules)] IN
           /\ n \in Nat /\ now <= n /\ now' = n /\ rules' = rules /\ Keys' = Keys
           /\ tab' = res.tab /\ fired' = res.fired
           /\ Cooled(res, Len(rules), mine, n)
           /\ acked' = [k \in Keys |-> IF \E f \in res.fired : rules[f[1]].key = k /\ f[3] THEN n ELSE acked[k]]
           /\ \A f \in fired' : f[1] \in DOMAIN rules /\ f[1] \in mine
<1> USE RulesAssumption
<1> DEFINE mine == Concerned(e, data)
           n == now + d
           L == Len(rules)
           res == Handled(mine, data, n, lost)[L]
<1>1. rules \in Files /\ now \in Nat /\ tab \in [Keys -> Row] /\ L \in 0..L
  BY DEF Tables
<1>2. n \in Nat /\ now <= n /\ mine \in SUBSET DOMAIN rules
  BY <1>1, ConcernedData
<1>3. /\ now' = n /\ rules' = rules /\ tab' = res.tab /\ fired' = res.fired
      /\ acked' = [k \in Keys |-> IF \E f \in res.fired : rules[f[1]].key = k /\ f[3] THEN n ELSE acked[k]]
  BY DEF Reading
<1>4. Keys' = Keys
  BY <1>3 DEF Keys
<1> HIDE DEF n, mine, L
<1>5. Cooled(res, L, mine, n)
  BY <1>1, <1>2, CooledEvent DEF L
<1>6. \A f \in res.fired : f[1] \in mine
  BY <1>5 DEF Cooled
<1> HIDE DEF res
<1>7. \A f \in fired' : f[1] \in DOMAIN rules /\ f[1] \in mine
  BY <1>2, <1>3, <1>6
<1> QED
  BY <1>2, <1>3, <1>4, <1>5, <1>7 DEF res, n, mine, L

\* A reading: the cooldown and the time of the last alert move together.
LEMMA TablesReading ==
    ASSUME Tables, NEW e, NEW d \in Delays, NEW data \in Data(e), NEW lost, Reading(e, d, data, lost)
    PROVE  Tables'
<1> DEFINE mine == Concerned(e, data)
           n == now + d
           res == Handled(mine, data, n, lost)[Len(rules)]
<1>1. /\ n \in Nat /\ now' = n /\ rules' = rules /\ Keys' = Keys
      /\ tab' = res.tab
      /\ Cooled(res, Len(rules), mine, n)
      /\ acked' = [k \in Keys |-> IF \E f \in res.fired : rules[f[1]].key = k /\ f[3] THEN n ELSE acked[k]]
  BY ReadingLeaves
<1> HIDE DEF mine, n, res
<1>2. /\ res.tab \in [Keys -> Row]
      /\ \A k \in Keys : res.tab[k].cooldown =
            IF \E f \in res.fired : rules[f[1]].key = k /\ f[3] THEN n ELSE tab[k].cooldown
  BY <1>1 DEF Cooled
<1>3. /\ acked' \in [Keys -> Int]
      /\ \A k \in Keys : res.tab[k].cooldown = acked'[k]
  BY <1>1, <1>2 DEF Tables
<1> QED
  BY <1>1, <1>2, <1>3 DEF Tables

-----------------------------------------------------------------------------
(* The theorems *)

\* The tables of the preamble are well typed and a cooldown tells when Telegram
\* last took an alert of its key, whatever the rules files.
THEOREM TablesInvariant == Spec => []Tables
<1>1. Init => Tables
  BY TablesInit
<1>2. Tables /\ [Next]_vars => Tables'
  <2> SUFFICES ASSUME Tables, [Next]_vars
               PROVE  Tables'
    OBVIOUS
  <2>1. ASSUME NEW e \in Events, NEW d \in Delays, NEW data \in Data(e), NEW lost \in SUBSET Notes(e),
               Reading(e, d, data, lost)
        PROVE  Tables'
    BY <2>1, TablesReading
  <2>2. ASSUME NEW file \in Files, Reload(file)
        PROVE  Tables'
    BY <2>2, TablesReload
  <2>3. CASE UNCHANGED vars
    <3>1. Keys' = Keys
      BY <2>3 DEF vars, Keys
    <3> QED
      BY <2>3, <3>1 DEF vars, Tables
  <2> QED
    BY <2>1, <2>2, <2>3 DEF Next
<1> QED
  BY <1>1, <1>2, PTL DEF Spec

\* An alert comes no sooner than the cooldown after the last alert of its key that
\* Telegram took, whichever rules share the key and whatever they are: can_alert
\* reads the cooldown that the notify of an earlier rule of the file has started.
THEOREM CooldownIsHeld == Spec => CooldownHeld
<1> DEFINE Spaced ==
        \A f \in fired' :
            LET k == rules[f[1]].key IN
            /\ acked[k] = Nil \/ now' - acked[k] >= COOLDOWN_MS
            /\ \A g \in fired' : rules[g[1]].key = k /\ g[1] < f[1] => ~g[3]
<1>1. ASSUME Tables, Next
      PROVE  Spaced
  <2>1. ASSUME NEW e \in Events, NEW d \in Delays, NEW data \in Data(e), NEW lost \in SUBSET Notes(e),
               Reading(e, d, data, lost)
        PROVE  Spaced
    <3> DEFINE mine == Concerned(e, data)
               n == now + d
               res == Handled(mine, data, n, lost)[Len(rules)]
    <3>1. /\ now' = n /\ fired' = res.fired
          /\ Cooled(res, Len(rules), mine, n)
          /\ \A f \in fired' : f[1] \in DOMAIN rules
      BY <1>1, <2>1, ReadingLeaves
    <3> HIDE DEF mine, n, res
    <3>2. \A f \in fired' : rules[f[1]].key \in Keys
      BY <3>1 DEF Keys
    <3>3. /\ \A f \in res.fired : LET K == rules[f[1]].key IN
                tab[K].cooldown = Nil \/ n - tab[K].cooldown >= COOLDOWN_MS
          /\ \A f, g \in res.fired :
                rules[f[1]].key = rules[g[1]].key /\ g[1] < f[1] => ~ g[3]
      BY <3>1 DEF Cooled
    <3>4. \A k \in Keys : tab[k].cooldown = acked[k]
      BY <1>1 DEF Tables
    <3> QED
      BY <3>1, <3>2, <3>3, <3>4
  <2>2. ASSUME NEW file \in Files, Reload(file)
        PROVE  Spaced
    BY <2>2 DEF Reload
  <2> HIDE DEF Spaced
  <2> QED
    BY <1>1, <2>1, <2>2 DEF Next
<1>2. Tables /\ [Next]_vars => [Spaced]_vars
  BY <1>1
<1> QED
  BY <1>2, TablesInvariant, PTL DEF Spec, CooldownHeld

\* A reading keeps the invariant.
LEMMA RulesReading ==
    ASSUME CountersApart, RulesInv, NEW e, NEW d \in Delays, NEW data \in Data(e), NEW lost,
           Reading(e, d, data, lost)
    PROVE  RulesInv'
<1> USE RulesAssumption
<1> DEFINE mine == Concerned(e, data)
           n == now + d
           L == Len(rules)
           res == Handled(mine, data, n, lost)[L]
           excused(i) == \/ \E f \in res.fired : f[1] = i
                         \/ Cooling(acked[rules[i].key], n)
                         \/ Cooling(acked'[rules[i].key], n)
           W(i) == Watch(i, watch[i], data[rules[i].src], n, excused(i))
<1>1. Tables
  BY DEF RulesInv
<1>2. /\ n \in Nat /\ now <= n /\ now' = n /\ rules' = rules /\ Keys' = Keys
      /\ tab' = res.tab /\ fired' = res.fired
      /\ acked' = [k \in Keys |-> IF \E f \in res.fired : rules[f[1]].key = k /\ f[3] THEN n ELSE acked[k]]
      /\ \A f \in fired' : f[1] \in DOMAIN rules /\ f[1] \in mine
  BY <1>1, ReadingLeaves
<1>3. watch' = [i \in DOMAIN rules |-> IF i \in mine THEN W(i) ELSE watch[i]]
  BY <1>2 DEF Reading
<1>4. rules \in Files /\ now \in Nat /\ L \in 0..L /\ DOMAIN rules = 1..L
  BY <1>1 DEF Tables
<1>5. /\ mine \in SUBSET DOMAIN rules
      /\ \A i \in mine : data[rules[i].src] \in Levels \cup {Nil}
  BY ConcernedData
<1>6. /\ watch \in [DOMAIN rules -> Observed]
      /\ \A i \in DOMAIN rules : watch[i].since <= now
  BY DEF RulesInv
<1>7. \A i \in DOMAIN rules : rules[i] \in RuleType /\ rules[i].key \in Keys /\ i \in 1..L
  BY <1>4 DEF Keys
<1> HIDE DEF n, mine, L
<1>8. Noted(res, L, mine, data, n)
  BY <1>2, <1>4, <1>5, NotedEvent DEF L
<1> HIDE DEF res
<1>9. Tables'
  BY <1>1, TablesReading
<1>10. ASSUME NEW i \in DOMAIN rules
       PROVE  /\ watch[i] \in Observed /\ watch[i].since <= n
              /\ excused(i) \in BOOLEAN
  <2>1. watch[i] \in Observed /\ watch[i].since <= now
    BY <1>6
  <2> QED
    BY <1>2, <1>4, <2>1 DEF Observed, Cooling
<1>11. ASSUME NEW i \in DOMAIN rules
       PROVE  Excuse(res, i, n) => excused(i)
  <2>1. tab[rules[i].key].cooldown = acked[rules[i].key]
    BY <1>1, <1>7 DEF Tables
  <2>2. (\E f \in res.fired : rules[f[1]].key = rules[i].key /\ f[3]) => acked'[rules[i].key] = n
    BY <1>2, <1>7
  <2>3. Cooling(n, n)
    BY <1>2 DEF Cooling, Nil
  <2> QED
    BY <2>1, <2>2, <2>3 DEF Excuse
<1> HIDE DEF excused
<1>12. ASSUME NEW i \in mine
       PROVE  /\ W(i) \in Observed /\ W(i).since <= n
              /\ Follows(rules[i], res.tab[rules[i].key], W(i))
              /\ (\E f \in res.fired : f[1] = i) => Due(rules[i], W(i), n)
  <2>1. i \in DOMAIN rules /\ rules[i] \in RuleType /\ i \in 1..L
    BY <1>5, <1>7
  <2>2. W(i) \in Observed /\ W(i).since <= n
    BY <1>2, <1>10, <2>1, WatchNotes
  <2>3. Heard(res, i, data, n)
    BY <1>8, <2>1 DEF Noted
  <2>4. /\ Follows(rules[i], res.tab[rules[i].key], W(i))
        /\ (\E f \in res.fired : f[1] = i) => Due(rules[i], W(i), n)
    BY <1>10, <1>11, <2>1, <2>3 DEF Heard
  <2> QED
    BY <2>2, <2>4
<1>13. ASSUME NEW i \in DOMAIN rules, i \notin mine
       PROVE  Follows(rules[i], res.tab[rules[i].key], watch[i])
  BY <1>8, <1>13 DEF Noted
<1> HIDE DEF W
<1>14. ASSUME NEW i \in DOMAIN rules
       PROVE  /\ watch'[i] \in Observed /\ watch'[i].since <= n
              /\ Follows(rules[i], tab'[rules[i].key], watch'[i])
  BY <1>2, <1>3, <1>10, <1>12, <1>13
<1>15. ASSUME NEW f \in fired'
       PROVE  Due(rules[f[1]], watch'[f[1]], n)
  <2>1. f[1] \in mine /\ f[1] \in DOMAIN rules /\ watch'[f[1]] = W(f[1])
    BY <1>2, <1>3
  <2> QED
    BY <1>2, <1>12, <2>1
<1>16. AlertEarned'
  BY <1>2, <1>15 DEF AlertEarned, Due
<1>17. watch' \in [DOMAIN rules -> Observed]
  BY <1>3, <1>14
<1> QED
  BY <1>2, <1>9, <1>14, <1>16, <1>17 DEF RulesInv

\* What the rows say of the readings, in every state of the files that keep
\* counters apart.
THEOREM RulesInvariant ==
    ASSUME CountersApart
    PROVE  Spec => []RulesInv
<1>1. Init => RulesInv
  <2> SUFFICES ASSUME Init
               PROVE  RulesInv
    OBVIOUS
  <2>1. /\ rules \in Files /\ now = 0 /\ fired = {}
        /\ tab = Loaded(rules).tab /\ watch = Loaded(rules).watch
    BY DEF Init
  <2>2. Tables
    BY TablesInit
  <2>3. /\ watch \in [DOMAIN rules -> Observed]
        /\ \A i \in DOMAIN rules : watch[i].since = Nil /\ Follows(rules[i], tab[rules[i].key], watch[i])
    BY <2>1, LoadedTables
  <2>4. Nil <= now
    BY <2>1 DEF Nil
  <2>5. AlertEarned
    BY <2>1 DEF AlertEarned
  <2> QED
    BY <2>2, <2>3, <2>4, <2>5 DEF RulesInv
<1>2. RulesInv /\ [Next]_vars => RulesInv'
  <2> SUFFICES ASSUME RulesInv, [Next]_vars
               PROVE  RulesInv'
    OBVIOUS
  <2>1. ASSUME NEW e \in Events, NEW d \in Delays, NEW data \in Data(e), NEW lost \in SUBSET Notes(e),
               Reading(e, d, data, lost)
        PROVE  RulesInv'
    BY <2>1, RulesReading
  <2>2. ASSUME NEW file \in Files, Reload(file)
        PROVE  RulesInv'
    <3>1. /\ rules' = file /\ now' = now /\ fired' = {}
          /\ tab' = Loaded(file).tab /\ watch' = Loaded(file).watch
      BY <2>2 DEF Reload
    <3>2. Tables /\ now \in Nat
      BY DEF RulesInv, Tables
    <3>3. Tables'
      BY <2>2, <3>2, TablesReload
    <3>4. /\ watch' \in [DOMAIN file -> Observed]
          /\ \A i \in DOMAIN file : /\ watch'[i].since <= now'
                                     /\ Follows(file[i], tab'[file[i].key], watch'[i])
      <4>1. /\ Loaded(file).watch \in [DOMAIN file -> Observed]
            /\ \A i \in DOMAIN file :
                  /\ Loaded(file).watch[i].since = Nil
                  /\ Follows(file[i], Loaded(file).tab[file[i].key], Loaded(file).watch[i])
        BY LoadedTables
      <4>2. Nil <= now
        BY <3>2 DEF Nil
      <4> QED
        BY <3>1, <4>1, <4>2
    <3>5. AlertEarned'
      BY <3>1 DEF AlertEarned
    <3> QED
      BY <3>1, <3>3, <3>4, <3>5 DEF RulesInv
  <2>3. CASE UNCHANGED vars
    <3>1. Keys' = Keys
      BY <2>3 DEF vars, Keys
    <3> QED
      BY <2>3, <3>1 DEF vars, RulesInv, Tables, AlertEarned
  <2> QED
    BY <2>1, <2>2, <2>3 DEF Next
<1> QED
  BY <1>1, <1>2, PTL DEF Spec

\* An alert is earned: the tables count no reading that the condition did not
\* hold for, across the resets, the silences and the cooldowns.
THEOREM AlertIsEarned ==
    ASSUME CountersApart
    PROVE  Spec => []AlertEarned
<1>1. RulesInv => AlertEarned
  BY DEF RulesInv
<1> QED
  BY <1>1, RulesInvariant, PTL

\* No alert is missed: a row never falls behind the readings that went by without
\* an alert while the key could alert.
THEOREM NoAlertMissed ==
    ASSUME CountersApart
    PROVE  Spec => []NoMissedAlert
<1>1. RulesInv => NoMissedAlert
  BY DEF RulesInv, NoMissedAlert, Follows
<1> QED
  BY <1>1, RulesInvariant, PTL

-----------------------------------------------------------------------------
(* Loops over a sequence *)

\* A step of a loop over elements of B whose states are in S.
Loop(step, S, B) == step \in [S -> [B -> S]]

\* f is the course of a loop over s.
Course(f, step, start, s) == f = [k \in 0..Len(s) |-> IF k = 0 THEN start ELSE step[f[k - 1]][s[k]]]

LEMMA CourseExists ==
    ASSUME NEW S, NEW B, NEW start \in S, NEW step, Loop(step, S, B), NEW s \in Seq(B)
    PROVE  \E f : Course(f, step, start, s)
<1> DEFINE G(f, n) == \A k \in 0..n : f[k] = IF k = 0 THEN start ELSE step[f[k - 1]][s[k]]
           Good == {n \in 0..Len(s) : \E f \in [0..n -> S] : G(f, n)}
<1>0. Len(s) \in Nat
  OBVIOUS
<1>1. 0 \in Good
  <2> DEFINE f == [k \in 0..0 |-> start]
  <2>1. f \in [0..0 -> S] /\ G(f, 0)
    OBVIOUS
  <2>2. 0 \in 0..Len(s)
    BY <1>0
  <2> HIDE DEF f, G
  <2> QED
    BY <2>1, <2>2
<1>2. ASSUME NEW n \in 0..Len(s), n \in Good, n < Len(s)
      PROVE  n + 1 \in Good
  <2>1. PICK f \in [0..n -> S] : G(f, n)
    BY <1>2
  <2> DEFINE g == [k \in 0..(n + 1) |-> IF k = n + 1 THEN step[f[n]][s[n + 1]] ELSE f[k]]
  <2>2. f[n] \in S /\ s[n + 1] \in B
    BY <1>2
  <2>3. step[f[n]][s[n + 1]] \in S
    BY <2>2 DEF Loop
  <2>5. g \in [0..(n + 1) -> S]
    BY <2>3
  <2>6. G(g, n + 1)
    <3> SUFFICES ASSUME NEW k \in 0..(n + 1)
                 PROVE  g[k] = IF k = 0 THEN start ELSE step[g[k - 1]][s[k]]
      OBVIOUS
    <3>1. CASE k = n + 1
      <4>1. n \in 0..(n + 1) /\ n # n + 1 /\ k - 1 = n /\ k # 0
        BY <3>1
      <4> QED
        BY <3>1, <4>1
    <3>2. CASE k = 0
      <4>1. k \in 0..n /\ k # n + 1
        BY <3>2
      <4> QED
        BY <2>1, <3>2, <4>1
    <3>3. CASE k \in 1..n
      <4>1. k - 1 \in 0..(n + 1) /\ k - 1 # n + 1 /\ k # n + 1 /\ k \in 0..n /\ k # 0
        BY <3>3
      <4> QED
        BY <2>1, <4>1
    <3> QED
      BY <3>1, <3>2, <3>3
  <2>7. n + 1 \in 0..Len(s)
    BY <1>0, <1>2
  <2> HIDE DEF g, G
  <2> QED
    BY <2>5, <2>6, <2>7
<1>3. Len(s) \in Good
  <2> HIDE DEF Good
  <2>1. \A k \in 0..Len(s) : k \in Good /\ k < Len(s) => k + 1 \in Good
    BY <1>2
  <2>2. 0..Len(s) \subseteq Good
    BY <1>0, <1>1, <2>1, CountUp
  <2>3. Len(s) \in 0..Len(s)
    BY <1>0
  <2> QED
    BY <2>2, <2>3
<1>4. PICK f \in [0..Len(s) -> S] : G(f, Len(s))
  BY <1>3
<1>5. f = [k \in 0..Len(s) |-> IF k = 0 THEN start ELSE step[f[k - 1]][s[k]]]
  BY <1>4
<1> QED
  BY <1>5 DEF Course

\* f goes from state to state with the first n elements of s.
Moves(f, step, s, n) == \A k \in 1..n : f[k] = step[f[k - 1]][s[k]]

\* The states f of a loop over s.
Traced(f, step, start, s, S) ==
    /\ f[0] = start
    /\ Moves(f, step, s, Len(s))
    /\ \A k \in 0..Len(s) : f[k] \in S
    /\ Run(step, start, s) = f[Len(s)]

\* The loop of Run takes its course.
LEMMA RunTraced ==
    ASSUME NEW S, NEW B, NEW start \in S, NEW step, Loop(step, S, B), NEW s \in Seq(B)
    PROVE  \E f : Traced(f, step, start, s, S)
<1> DEFINE f == CHOOSE g : Course(g, step, start, s)
<1>0. Len(s) \in Nat
  OBVIOUS
<1>1. Course(f, step, start, s)
  BY CourseExists
<1>2. Run(step, start, s) = f[Len(s)]
  BY DEF Run, Course
<1> HIDE DEF f
<1>3. f[0] = start /\ \A k \in 1..Len(s) : f[k] = step[f[k - 1]][s[k]]
  <2>1. \A k \in 0..Len(s) : f[k] = IF k = 0 THEN start ELSE step[f[k - 1]][s[k]]
    BY <1>1 DEF Course
  <2>2. 0 \in 0..Len(s) /\ \A k \in 1..Len(s) : k \in 0..Len(s) /\ k # 0
    BY <1>0
  <2> QED
    BY <2>1, <2>2
<1> DEFINE Good == {k \in 0..Len(s) : f[k] \in S}
<1>4. 0 \in Good
  BY <1>0, <1>3
<1>5. ASSUME NEW k \in 0..Len(s), k \in Good, k < Len(s)
      PROVE  k + 1 \in Good
  <2>1. f[k + 1] = step[f[k]][s[k + 1]] /\ s[k + 1] \in B /\ k + 1 \in 0..Len(s)
    BY <1>0, <1>3, <1>5
  <2> QED
    BY <1>5, <2>1 DEF Loop
<1>6. 0..Len(s) \subseteq Good
  <2> HIDE DEF Good
  <2> QED
    BY <1>0, <1>4, <1>5, CountUp
<1> QED
  BY <1>2, <1>3, <1>6 DEF Traced, Moves

\* Two courses over sequences that agree so far have come to the same state.
LEMMA CoursesAgree ==
    ASSUME NEW n \in Nat, NEW f, NEW g, NEW step, NEW s, NEW t,
           f[0] = g[0],
           Moves(f, step, s, n), Moves(g, step, t, n),
           \A k \in 1..n : s[k] = t[k]
    PROVE  f[n] = g[n]
<1> DEFINE Good == {k \in 0..n : f[k] = g[k]}
<1>1. 0 \in Good
  OBVIOUS
<1>2. ASSUME NEW k \in 0..n, k \in Good, k < n
      PROVE  k + 1 \in Good
  <2>1. k + 1 \in 1..n /\ (k + 1) - 1 = k /\ k + 1 \in 0..n
    BY <1>2
  <2> QED
    BY <1>2, <2>1 DEF Moves
<1>3. 0..n \subseteq Good
  <2> HIDE DEF Good
  <2> QED
    BY <1>1, <1>2, CountUp
<1> QED
  BY <1>3

\* A loop ends in a state, over nothing in the one it began with.
LEMMA RunState ==
    ASSUME NEW S, NEW B, NEW start \in S, NEW step, Loop(step, S, B), NEW s \in Seq(B)
    PROVE  Run(step, start, s) \in S
<1>1. PICK f : Traced(f, step, start, s, S)
  BY RunTraced
<1>2. Len(s) \in 0..Len(s)
  OBVIOUS
<1> QED
  BY <1>1, <1>2 DEF Traced

LEMMA RunNil ==
    ASSUME NEW S, NEW B, NEW start \in S, NEW step, Loop(step, S, B)
    PROVE  Run(step, start, <<>>) = start
<1>0. <<>> \in Seq(B) /\ Len(<<>>) = 0
  OBVIOUS
<1>1. PICK f : Traced(f, step, start, <<>>, S)
  BY <1>0, RunTraced
<1> QED
  BY <1>0, <1>1 DEF Traced

\* An element may be added before or after two texts are joined.
LEMMA AppendConcat ==
    \A s, t \in Seq(Bytes), b \in Bytes : Append(s \o t, b) = s \o Append(t, b)
BY SMTT(30)

\* One more element is one more step.
LEMMA RunAppend ==
    ASSUME NEW S, NEW B, NEW start \in S, NEW step, Loop(step, S, B), NEW s \in Seq(B), NEW b \in B
    PROVE  Run(step, start, Append(s, b)) = step[Run(step, start, s)][b]
<1>0. Len(s) \in Nat
  OBVIOUS
<1>1. PICK f : Traced(f, step, start, s, S)
  BY RunTraced
<1> DEFINE t == Append(s, b)
<1>2. t \in Seq(B) /\ Len(t) = Len(s) + 1 /\ t[Len(s) + 1] = b /\ \A k \in 1..Len(s) : t[k] = s[k]
  OBVIOUS
<1> HIDE DEF t
<1>3. PICK g : Traced(g, step, start, t, S)
  BY <1>2, RunTraced
<1>4. Moves(g, step, t, Len(s))
  <2>1. \A k \in 1..Len(s) : k \in 1..Len(t)
    BY <1>0, <1>2
  <2> QED
    BY <1>3, <2>1 DEF Traced, Moves
<1>5. g[Len(s)] = f[Len(s)]
  <2>1. f[0] = g[0] /\ Moves(f, step, s, Len(s))
    BY <1>1, <1>3 DEF Traced
  <2>2. \A k \in 1..Len(s) : s[k] = t[k]
    BY <1>2
  <2> QED
    BY <1>0, <1>4, <2>1, <2>2, CoursesAgree
<1>6. g[Len(s) + 1] = step[g[Len(s)]][b]
  <2>1. Len(s) + 1 \in 1..Len(t) /\ (Len(s) + 1) - 1 = Len(s)
    BY <1>0, <1>2
  <2> QED
    BY <1>2, <1>3, <2>1 DEF Traced, Moves
<1> QED
  BY <1>1, <1>2, <1>3, <1>5, <1>6 DEF t, Traced, Moves

\* Induction over sequences, for a set of them.
LEMMA SequencesUp ==
    ASSUME NEW B, NEW P, <<>> \in P, \A s \in Seq(B), b \in B : s \in P => Append(s, b) \in P
    PROVE  Seq(B) \subseteq P
<1> SUFFICES ASSUME NEW s \in Seq(B)
             PROVE  s \in P
  OBVIOUS
<1> DEFINE Good == {k \in 0..Len(s) : \A t \in Seq(B) : Len(t) = k => t \in P}
<1>0. Len(s) \in Nat
  OBVIOUS
<1>1. 0 \in Good
  <2>1. \A t \in Seq(B) : Len(t) = 0 => t = <<>>
    OBVIOUS
  <2> QED
    BY <1>0, <2>1
<1>2. ASSUME NEW k \in 0..Len(s), k \in Good, k < Len(s)
      PROVE  k + 1 \in Good
  <2>1. ASSUME NEW t \in Seq(B), Len(t) = k + 1
        PROVE  t \in P
    <3>1. t # <<>>
      BY <2>1
    <3>2. PICK u \in Seq(B), b \in B : t = Append(u, b)
      BY <3>1, SequenceEmptyOrAppend
    <3>3. Len(u) = k
      BY <2>1, <3>2
    <3> QED
      BY <1>2, <3>2, <3>3
  <2> QED
    BY <1>0, <1>2, <2>1
<1>3. 0..Len(s) \subseteq Good
  <2> HIDE DEF Good
  <2> QED
    BY <1>0, <1>1, <1>2, CountUp
<1>4. Len(s) \in 0..Len(s)
  BY <1>0
<1> QED
  BY <1>3, <1>4

\* A loop over one sequence and then another goes on where it was.
LEMMA RunConcat ==
    ASSUME NEW S, NEW B, NEW start \in S, NEW step, Loop(step, S, B), NEW s \in Seq(B)
    PROVE  \A t \in Seq(B) : Run(step, start, s \o t) = Run(step, Run(step, start, s), t)
<1> DEFINE P == {t \in Seq(B) : Run(step, start, s \o t) = Run(step, Run(step, start, s), t)}
<1>0. Run(step, start, s) \in S
  BY RunState
<1>1. <<>> \in P
  <2>1. s \o <<>> = s /\ <<>> \in Seq(B)
    OBVIOUS
  <2>2. Run(step, Run(step, start, s), <<>>) = Run(step, start, s)
    BY <1>0, RunNil
  <2> QED
    BY <2>1, <2>2
<1>2. ASSUME NEW t \in Seq(B), NEW b \in B, t \in P
      PROVE  Append(t, b) \in P
  <2>1. s \o Append(t, b) = Append(s \o t, b) /\ s \o t \in Seq(B) /\ Append(t, b) \in Seq(B)
    OBVIOUS
  <2>2. Run(step, start, Append(s \o t, b)) = step[Run(step, start, s \o t)][b]
    <3>1. PICK u \in Seq(B) : u = s \o t
      BY <2>1
    <3>2. Run(step, start, Append(u, b)) = step[Run(step, start, u)][b]
      BY RunAppend
    <3> QED
      BY <3>1, <3>2
  <2>3. Run(step, Run(step, start, s), Append(t, b)) = step[Run(step, Run(step, start, s), t)][b]
    BY <1>0, RunAppend
  <2> QED
    BY <1>2, <2>1, <2>2, <2>3
<1>3. Seq(B) \subseteq P
  <2> HIDE DEF P
  <2> QED
    BY <1>1, <1>2, SequencesUp
<1> QED
  BY <1>3

-----------------------------------------------------------------------------
(* A field is read back *)

\* What Replace does with a byte.
Replacing(b, by) == [acc \in Seq(Bytes) |-> [c \in Bytes |-> acc \o (IF c = b THEN by ELSE <<c>>)]]

\* A replacement goes byte by byte.
LEMMA ReplaceEach ==
    ASSUME NEW b \in Bytes, NEW by \in Seq(Bytes)
    PROVE  /\ Replace(<<>>, b, by) = <<>>
           /\ \A s \in Seq(Bytes) : Replace(s, b, by) \in Seq(Bytes)
           /\ \A s \in Seq(Bytes), c \in Bytes :
                Replace(Append(s, c), b, by) = Replace(s, b, by) \o (IF c = b THEN by ELSE <<c>>)
<1> DEFINE step == Replacing(b, by)
<1>0. <<>> \in Seq(Bytes)
  OBVIOUS
<1>1. PICK nil \in Seq(Bytes) : nil = <<>>
  BY <1>0
<1>2. Loop(step, Seq(Bytes), Bytes)
  <2>1. \A acc \in Seq(Bytes), c \in Bytes : acc \o (IF c = b THEN by ELSE <<c>>) \in Seq(Bytes)
    OBVIOUS
  <2> QED
    BY <2>1 DEF Replacing, Loop
<1>3. \A s : Replace(s, b, by) = Run(step, <<>>, s)
  BY DEF Replace, Replacing
<1>4. \A acc \in Seq(Bytes), c \in Bytes : step[acc][c] = acc \o (IF c = b THEN by ELSE <<c>>)
  BY DEF Replacing
<1> HIDE DEF step
<1>5. Run(step, nil, <<>>) = nil
  BY <1>2, RunNil
<1>6. ASSUME NEW s \in Seq(Bytes)
      PROVE  Run(step, nil, s) \in Seq(Bytes)
  BY <1>2, RunState
<1>7. ASSUME NEW s \in Seq(Bytes), NEW c \in Bytes
      PROVE  Run(step, nil, Append(s, c)) = step[Run(step, nil, s)][c]
  BY <1>2, RunAppend
<1>8. ASSUME NEW s \in Seq(Bytes), NEW c \in Bytes
      PROVE  Replace(Append(s, c), b, by) = Replace(s, b, by) \o (IF c = b THEN by ELSE <<c>>)
  <2>1. Replace(Append(s, c), b, by) = step[Run(step, nil, s)][c]
    BY <1>1, <1>3, <1>7
  <2>2. step[Run(step, nil, s)][c] = Run(step, nil, s) \o (IF c = b THEN by ELSE <<c>>)
    BY <1>4, <1>6
  <2> QED
    BY <1>1, <1>3, <2>1, <2>2
<1> QED
  BY <1>1, <1>3, <1>5, <1>6, <1>8

\* What esc writes for a byte.
Literal(c) == IF c \in {"bslash", "quote"} THEN <<"bslash", c>> ELSE <<c>>

\* esc writes a text byte by byte.
LEMMA EscEach ==
    /\ esc(<<>>) = <<>>
    /\ \A s \in Seq(Bytes) : esc(s) \in Seq(Bytes)
    /\ \A s \in Seq(Bytes), c \in Bytes : esc(Append(s, c)) = esc(s) \o Literal(c)
<1> DEFINE R(s) == Replace(s, "bslash", <<"bslash", "bslash">>)
           Q(s) == Replace(s, "quote", <<"bslash", "quote">>)
<1>0. "bslash" \in Bytes /\ "quote" \in Bytes /\ <<"bslash", "bslash">> \in Seq(Bytes) /\ <<"bslash", "quote">> \in Seq(Bytes)
  BY DEF Bytes
<1>1. /\ R(<<>>) = <<>>
      /\ \A s \in Seq(Bytes) : R(s) \in Seq(Bytes)
      /\ \A s \in Seq(Bytes), c \in Bytes :
            R(Append(s, c)) = R(s) \o (IF c = "bslash" THEN <<"bslash", "bslash">> ELSE <<c>>)
  BY <1>0, ReplaceEach
<1>2. /\ Q(<<>>) = <<>>
      /\ \A s \in Seq(Bytes) : Q(s) \in Seq(Bytes)
      /\ \A s \in Seq(Bytes), c \in Bytes :
            Q(Append(s, c)) = Q(s) \o (IF c = "quote" THEN <<"bslash", "quote">> ELSE <<c>>)
  BY <1>0, ReplaceEach
<1>3. \A s : esc(s) = Q(R(s))
  BY DEF esc
<1> HIDE DEF R, Q
<1>4. ASSUME NEW s \in Seq(Bytes), NEW c \in Bytes
      PROVE  esc(Append(s, c)) = esc(s) \o Literal(c)
  <2>1. PICK t \in Seq(Bytes) : t = R(s)
    BY <1>1
  <2>2. Q(t) \in Seq(Bytes)
    BY <1>2
  <2>3. CASE c = "bslash"
    <3>1. t \o <<"bslash", "bslash">> = Append(Append(t, "bslash"), "bslash") /\ Append(t, "bslash") \in Seq(Bytes)
      BY <1>0
    <3>2. Q(t \o <<"bslash", "bslash">>) = (Q(t) \o <<"bslash">>) \o <<"bslash">>
      BY <1>0, <1>2, <3>1
    <3>3. (Q(t) \o <<"bslash">>) \o <<"bslash">> = Q(t) \o <<"bslash", "bslash">>
      <4>1. PICK u \in Seq(Bytes) : u = Q(t)
        BY <2>2
      <4>2. PICK w \in Seq(Bytes) : w = u \o <<"bslash">>
        <5>1. u \o <<"bslash">> \in Seq(Bytes)
          BY <1>0
        <5> QED
          BY <5>1
      <4>3. PICK o \in Seq(Bytes) : o = <<"bslash">>
        <5>1. <<"bslash">> \in Seq(Bytes)
          BY <1>0
        <5> QED
          BY <5>1
      <4>4. w \o o = Append(w, "bslash") /\ <<"bslash", "bslash">> = Append(o, "bslash")
        BY <1>0, <4>3
      <4>5. PICK z \in Bytes : z = "bslash"
        BY <1>0
      <4>6. Append(u \o o, z) = u \o Append(o, z)
        BY AppendConcat, Zenon
      <4> QED
        BY <4>1, <4>2, <4>3, <4>4, <4>5, <4>6, Zenon
    <3>4. R(Append(s, c)) = t \o <<"bslash", "bslash">>
      BY <1>1, <2>1, <2>3
    <3>5. Literal(c) = <<"bslash", "bslash">>
      BY <2>3 DEF Literal
    <3> QED
      BY <1>3, <2>1, <3>2, <3>3, <3>4, <3>5
  <2>4. CASE c # "bslash"
    <3>1. R(Append(s, c)) = t \o <<c>>
      BY <1>1, <2>1, <2>4
    <3>2. t \o <<c>> = Append(t, c)
      OBVIOUS
    <3>3. Q(Append(t, c)) = Q(t) \o (IF c = "quote" THEN <<"bslash", "quote">> ELSE <<c>>)
      BY <1>2
    <3>4. Literal(c) = IF c = "quote" THEN <<"bslash", "quote">> ELSE <<c>>
      BY <2>4 DEF Literal
    <3> QED
      BY <1>3, <2>1, <3>1, <3>2, <3>3, <3>4
  <2> QED
    BY <2>3, <2>4
<1> QED
  BY <1>1, <1>2, <1>3, <1>4

\* The reader of Lua is a loop over bytes.
LEMMA LuaLoop == Loop(LuaRead, Reader, Bytes) /\ Opened \in Reader
<1>1. Opened \in Reader
  BY DEF Opened, Inside, Reader
<1>2. ASSUME NEW r \in Reader, NEW b \in Bytes
      PROVE  /\ Took(r, b) \in Reader
             /\ [r EXCEPT !.mode = "end"] \in Reader
             /\ [r EXCEPT !.mode = "escape"] \in Reader
             /\ [r EXCEPT !.mode = "broken"] \in Reader
  BY DEF Reader, Took, Inside
<1>3. LuaRead \in [Reader -> [Bytes -> Reader]]
  BY <1>2 DEF LuaRead
<1> QED
  BY <1>1, <1>3 DEF Loop

\* Reading a text is reading it up to its last byte, and then that one.
LEMMA LuaAppend ==
    ASSUME NEW s \in Seq(Bytes), NEW b \in Bytes
    PROVE  Run(LuaRead, Opened, Append(s, b)) = LuaRead[Run(LuaRead, Opened, s)][b]
BY LuaLoop, RunAppend

\* What Lua makes of the bytes esc writes for one byte, wherever it stands.
LEMMA LuaLiteral ==
    ASSUME NEW w \in Seq(Bytes), NEW c \in Bytes
    PROVE  Run(LuaRead, Opened, w \o Literal(c)) =
            IF c \in {"bslash", "quote"} THEN LuaRead[LuaRead[Run(LuaRead, Opened, w)]["bslash"]][c]
            ELSE LuaRead[Run(LuaRead, Opened, w)][c]
<1>1. CASE c \in {"bslash", "quote"}
  <2>1. w \o Literal(c) = Append(Append(w, "bslash"), c) /\ Append(w, "bslash") \in Seq(Bytes) /\ "bslash" \in Bytes
    BY <1>1 DEF Literal, Bytes
  <2>2. PICK v \in Seq(Bytes) : v = Append(w, "bslash")
    BY <2>1
  <2>3. Run(LuaRead, Opened, v) = LuaRead[Run(LuaRead, Opened, w)]["bslash"]
    BY <2>1, <2>2, LuaAppend
  <2>4. Run(LuaRead, Opened, Append(v, c)) = LuaRead[Run(LuaRead, Opened, v)][c]
    BY LuaAppend
  <2> QED
    BY <1>1, <2>1, <2>2, <2>3, <2>4
<1>2. CASE c \notin {"bslash", "quote"}
  <2>1. w \o Literal(c) = Append(w, c)
    BY <1>2 DEF Literal
  <2> QED
    BY <1>2, <2>1, LuaAppend
<1> QED
  BY <1>1, <1>2

\* Lua refuses for good, and refuses a line break between the quotes.
LEMMA LuaRefuses ==
    ASSUME NEW r \in Reader, NEW b \in Bytes
    PROVE  /\ LuaRead[r][b] \in Reader
           /\ r.mode = "broken" => LuaRead[r][b].mode = "broken"
           /\ r.mode = "in" /\ b = "eol" => LuaRead[r][b].mode = "broken"
<1>1. LuaRead[r][b] \in Reader
  BY LuaLoop DEF Loop
<1>2. DOMAIN r = {"mode", "more", "text"} /\ "mode" \in DOMAIN r
  BY DEF Reader
<1>3. ASSUME r.mode = "broken" \/ (r.mode = "in" /\ b = "eol")
      PROVE  LuaRead[r][b] = [r EXCEPT !.mode = "broken"]
  BY <1>3 DEF LuaRead
<1>4. [r EXCEPT !.mode = "broken"].mode = "broken"
  BY DEF Reader
<1> QED
  BY <1>1, <1>3, <1>4

\* A text has a line break when its last byte is one, or what precedes it has one.
LEMMA BreakAppend ==
    ASSUME NEW s \in Seq(Bytes), NEW c \in Bytes
    PROVE  HasBreak(Append(s, c)) <=> HasBreak(s) \/ c = "eol"
BY DEF HasBreak

\* What Lua has read of what esc wrote.
LuaHolds(s, r) == IF HasBreak(s) THEN r.mode = "broken" ELSE r = Inside(s)

\* A byte more of the text.
LEMMA LuaHoldsNext ==
    ASSUME NEW s \in Seq(Bytes), NEW c \in Bytes, NEW r \in Reader, LuaHolds(s, r)
    PROVE  LuaHolds(Append(s, c), IF c \in {"bslash", "quote"} THEN LuaRead[LuaRead[r]["bslash"]][c]
                                  ELSE LuaRead[r][c])
<1>0. "bslash" \in Bytes
  BY DEF Bytes
<1>1. CASE HasBreak(s)
  <2>1. r.mode = "broken"
    BY <1>1 DEF LuaHolds
  <2>2. LuaRead[r]["bslash"] \in Reader /\ LuaRead[r]["bslash"].mode = "broken"
    BY <1>0, <2>1, LuaRefuses
  <2>3. LuaRead[LuaRead[r]["bslash"]][c].mode = "broken" /\ LuaRead[r][c].mode = "broken"
    BY <2>1, <2>2, LuaRefuses
  <2> QED
    BY <1>1, <2>3, BreakAppend DEF LuaHolds
<1>2. CASE ~HasBreak(s) /\ c = "eol"
  <2>1. r.mode = "in"
    BY <1>2 DEF LuaHolds, Inside
  <2>2. LuaRead[r][c].mode = "broken"
    BY <1>2, <2>1, LuaRefuses
  <2> QED
    BY <1>2, <2>2, BreakAppend DEF LuaHolds
<1>3. CASE ~HasBreak(s) /\ c # "eol"
  <2>1. r = Inside(s) /\ r.mode = "in" /\ Append(s, c) \in Seq(Bytes) /\ Took(r, c) = Inside(Append(s, c))
    BY <1>3 DEF LuaHolds, Inside, Took
  <2>2. CASE c \in {"bslash", "quote"}
    <3> DEFINE e == [r EXCEPT !.mode = "escape"]
    <3>1. LuaRead[r]["bslash"] = e
      BY <1>0, <2>1 DEF LuaRead
    <3>2. e \in Reader /\ e.mode = "escape" /\ e.text = s
      BY <2>1 DEF Inside, Reader
    <3>3. LuaRead[e][c] = Took(e, c)
      BY <2>2, <3>2 DEF LuaRead
    <3>4. Took(e, c) = Inside(Append(s, c))
      BY <3>2 DEF Took
    <3> QED
      BY <1>3, <2>2, <3>1, <3>3, <3>4, BreakAppend DEF LuaHolds
  <2>3. CASE c \notin {"bslash", "quote"}
    <3>1. LuaRead[r][c] = Took(r, c)
      BY <1>3, <2>1, <2>3 DEF LuaRead
    <3> QED
      BY <1>3, <2>1, <2>3, <3>1, BreakAppend DEF LuaHolds
  <2> QED
    BY <2>2, <2>3
<1> QED
  BY <1>1, <1>2, <1>3

\* Lua reads what esc wrote as the text esc was given, and refuses it when that
\* has a line break.
LEMMA EscIsRead ==
    \A s \in Seq(Bytes) : LuaHolds(s, Run(LuaRead, Opened, esc(s)))
<1> DEFINE P == {s \in Seq(Bytes) : LuaHolds(s, Run(LuaRead, Opened, esc(s)))}
<1>1. <<>> \in P
  <2>1. Run(LuaRead, Opened, <<>>) = Opened
    BY LuaLoop, RunNil
  <2>2. ~HasBreak(<<>>)
    BY DEF HasBreak
  <2> QED
    BY <2>1, <2>2, EscEach DEF Opened, LuaHolds
<1>2. ASSUME NEW s \in Seq(Bytes), NEW c \in Bytes, s \in P
      PROVE  Append(s, c) \in P
  <2>1. PICK w \in Seq(Bytes) : w = esc(s)
    BY EscEach
  <2>2. Run(LuaRead, Opened, w) \in Reader
    BY LuaLoop, RunState
  <2>3. PICK r \in Reader : r = Run(LuaRead, Opened, w)
    BY <2>2
  <2>4. LuaHolds(s, r)
    BY <1>2, <2>1, <2>3
  <2>5. Run(LuaRead, Opened, w \o Literal(c)) =
            IF c \in {"bslash", "quote"} THEN LuaRead[LuaRead[r]["bslash"]][c] ELSE LuaRead[r][c]
    BY <2>3, LuaLiteral, Zenon
  <2>6. esc(Append(s, c)) = w \o Literal(c)
    BY <2>1, EscEach
  <2>7. Append(s, c) \in Seq(Bytes)
    OBVIOUS
  <2> QED
    BY <2>4, <2>5, <2>6, <2>7, LuaHoldsNext
<1>3. Seq(Bytes) \subseteq P
  <2> HIDE DEF P
  <2> QED
    BY <1>1, <1>2, SequencesUp
<1> QED
  BY <1>3

\* And ends where the generator closed it.
LEMMA FieldIsRead ==
    ASSUME NEW s \in Seq(Bytes)
    PROVE  IF HasBreak(s) THEN FieldRead(s).mode = "broken"
           ELSE FieldRead(s) = [Inside(s) EXCEPT !.mode = "end"]
<1>1. PICK w \in Seq(Bytes) : w = esc(s)
  BY EscEach
<1>2. Run(LuaRead, Opened, w) \in Reader
  BY LuaLoop, RunState
<1>3. PICK r \in Reader : r = Run(LuaRead, Opened, w)
  BY <1>2
<1>4. LuaHolds(s, r)
  BY <1>1, <1>3, EscIsRead
<1>5. "quote" \in Bytes /\ Inside(s) \in Reader
  BY DEF Bytes, Inside, Reader
<1>6. FieldRead(s) = LuaRead[r]["quote"]
  BY <1>1, <1>3, <1>5, LuaAppend DEF FieldRead
<1>7. CASE HasBreak(s)
  <2>1. r.mode = "broken"
    BY <1>4, <1>7 DEF LuaHolds
  <2> QED
    BY <1>5, <1>6, <1>7, <2>1, LuaRefuses
<1>8. CASE ~HasBreak(s)
  <2>1. r = Inside(s)
    BY <1>4, <1>8 DEF LuaHolds
  <2>2. LuaRead[Inside(s)]["quote"] = [Inside(s) EXCEPT !.mode = "end"]
    BY <1>5 DEF LuaRead, Inside
  <2> QED
    BY <1>6, <1>8, <2>1, <2>2
<1> QED
  BY <1>7, <1>8

-----------------------------------------------------------------------------
(* A text is its characters *)

\* What Flat, Written, Kept and Chars do with an element.
Flattening == [acc \in Seq(Bytes) |-> [ch \in Char |-> acc \o ch]]
Writing == [acc \in Seq(Letters) |-> [ch \in Char |-> acc \o Escaped(ch)]]
Keeping == [acc \in Seq(Bytes) |-> [b \in Bytes |-> IF b = "nul" THEN acc ELSE Append(acc, b)]]
Matching == [cs \in Seq(Char) |-> [b \in Bytes |->
    IF cs = <<>> \/ b # "cont" THEN Append(cs, <<b>>) ELSE [cs EXCEPT ![Len(cs)] = Append(@, b)]]]

\* The whole characters: a byte and the continuation bytes behind it.
Whole == {ch \in Char : \E b \in Bytes, c \in Seq({"cont"}) : ch = <<b>> \o c}

\* Whole characters are characters, and characters text.
LEMMA WholeIsChar == Whole \subseteq Char /\ Char \subseteq Seq(Bytes) /\ Seq(Bytes) \subseteq Seq(Letters)
BY DEF Whole, Char, Letters

\* A byte is a whole character, and so is one with a continuation byte behind it.
LEMMA CharForms ==
    /\ \A b \in Bytes : <<b>> \in Whole
    /\ \A ch \in Whole : Append(ch, "cont") \in Whole
<1>1. ASSUME NEW b \in Bytes
      PROVE  <<b>> \in Whole
  <2>1. <<b>> \in Char /\ <<>> \in Seq({"cont"}) /\ <<b>> = <<b>> \o <<>>
    BY DEF Char
  <2> QED
    BY <2>1 DEF Whole
<1>2. ASSUME NEW ch \in Whole
      PROVE  Append(ch, "cont") \in Whole
  <2>1. PICK b \in Bytes, c \in Seq({"cont"}) : ch = <<b>> \o c
    BY DEF Whole
  <2>2. c \in Seq(Bytes) /\ Append(c, "cont") \in Seq({"cont"}) /\ "cont" \in Bytes
    BY DEF Bytes
  <2>3. Append(ch, "cont") = <<b>> \o Append(c, "cont")
    BY <2>1, <2>2
  <2>4. Append(ch, "cont") \in Char
    BY <2>1, <2>2 DEF Char
  <2> QED
    BY <2>2, <2>3, <2>4 DEF Whole
<1> QED
  BY <1>1, <1>2

\* What a character is written as is text.
LEMMA EscapedType ==
    ASSUME NEW ch \in Char
    PROVE  Escaped(ch) \in Seq(Letters)
<1>1. ch \in Seq(Letters) /\ ch # <<>> /\ Tail(ch) \in Seq(Letters)
  BY DEF Char, Letters
<1>2. {"bslash", "u", "hex", "eolhex"} \subseteq Letters
  BY DEF Bytes, Letters
<1>3. <<"bslash">> \o ch \in Seq(Letters)
  BY <1>1, <1>2
<1>4. ASSUME NEW d \in {"hex", "eolhex"}
      PROVE  <<"bslash", "u", "hex", "hex", "hex", d>> \o Tail(ch) \in Seq(Letters)
  <2>1. <<"bslash", "u", "hex", "hex", "hex", d>> \in Seq(Letters)
    BY <1>2
  <2> QED
    BY <1>1, <2>1
<1> QED
  BY <1>1, <1>3, <1>4 DEF Escaped

\* The text of some characters, one by one.
LEMMA FlatEach ==
    /\ Flat(<<>>) = <<>>
    /\ \A cs \in Seq(Char) : Flat(cs) \in Seq(Bytes)
    /\ \A cs \in Seq(Char), ch \in Char : Flat(Append(cs, ch)) = Flat(cs) \o ch
<1>0. <<>> \in Seq(Bytes)
  OBVIOUS
<1>1. PICK nil \in Seq(Bytes) : nil = <<>>
  BY <1>0
<1>2. Loop(Flattening, Seq(Bytes), Char)
  <2>1. \A acc \in Seq(Bytes), ch \in Char : acc \o ch \in Seq(Bytes)
    BY DEF Char
  <2> QED
    BY <2>1 DEF Flattening, Loop
<1>3. \A cs : Flat(cs) = Run(Flattening, nil, cs)
  BY <1>1 DEF Flat, Flattening
<1>4. Run(Flattening, nil, <<>>) = nil
  BY <1>2, RunNil
<1>5. ASSUME NEW cs \in Seq(Char)
      PROVE  Flat(cs) \in Seq(Bytes)
  <2>1. Run(Flattening, nil, cs) \in Seq(Bytes)
    BY <1>2, RunState
  <2> QED
    BY <1>3, <2>1
<1>6. ASSUME NEW cs \in Seq(Char), NEW ch \in Char
      PROVE  Flat(Append(cs, ch)) = Flat(cs) \o ch
  <2>1. Run(Flattening, nil, Append(cs, ch)) = Flattening[Run(Flattening, nil, cs)][ch]
    BY <1>2, RunAppend
  <2>2. Flattening[Flat(cs)][ch] = Flat(cs) \o ch
    BY <1>5 DEF Flattening
  <2> QED
    BY <1>3, <2>1, <2>2
<1> QED
  BY <1>1, <1>3, <1>4, <1>5, <1>6

\* What some characters are written as, one by one.
LEMMA WrittenEach ==
    /\ Written(<<>>) = <<>>
    /\ \A cs \in Seq(Char) : Written(cs) \in Seq(Letters)
    /\ \A cs \in Seq(Char), ch \in Char : Written(Append(cs, ch)) = Written(cs) \o Escaped(ch)
<1>0. <<>> \in Seq(Letters)
  OBVIOUS
<1>1. PICK nil \in Seq(Letters) : nil = <<>>
  BY <1>0
<1>2. Loop(Writing, Seq(Letters), Char)
  <2>1. ASSUME NEW acc \in Seq(Letters), NEW ch \in Char
        PROVE  acc \o Escaped(ch) \in Seq(Letters)
    <3>1. Escaped(ch) \in Seq(Letters)
      BY EscapedType
    <3> QED
      BY <3>1
  <2> QED
    BY <2>1 DEF Writing, Loop
<1>3. \A cs : Written(cs) = Run(Writing, nil, cs)
  BY <1>1 DEF Written, Writing
<1>4. Run(Writing, nil, <<>>) = nil
  BY <1>2, RunNil
<1>5. ASSUME NEW cs \in Seq(Char)
      PROVE  Written(cs) \in Seq(Letters)
  <2>1. Run(Writing, nil, cs) \in Seq(Letters)
    BY <1>2, RunState
  <2> QED
    BY <1>3, <2>1
<1>6. ASSUME NEW cs \in Seq(Char), NEW ch \in Char
      PROVE  Written(Append(cs, ch)) = Written(cs) \o Escaped(ch)
  <2>1. Run(Writing, nil, Append(cs, ch)) = Writing[Run(Writing, nil, cs)][ch]
    BY <1>2, RunAppend
  <2>2. Writing[Written(cs)][ch] = Written(cs) \o Escaped(ch)
    BY <1>5 DEF Writing
  <2> QED
    BY <1>3, <2>1, <2>2
<1> QED
  BY <1>1, <1>3, <1>4, <1>5, <1>6

\* A text without its NULs, byte by byte.
LEMMA KeptEach ==
    /\ Kept(<<>>) = <<>>
    /\ \A s \in Seq(Bytes) : Kept(s) \in Seq(Bytes)
    /\ \A s \in Seq(Bytes), b \in Bytes :
        Kept(Append(s, b)) = IF b = "nul" THEN Kept(s) ELSE Append(Kept(s), b)
<1>0. <<>> \in Seq(Bytes)
  OBVIOUS
<1>1. PICK nil \in Seq(Bytes) : nil = <<>>
  BY <1>0
<1>2. Loop(Keeping, Seq(Bytes), Bytes)
  <2>1. \A acc \in Seq(Bytes), b \in Bytes : (IF b = "nul" THEN acc ELSE Append(acc, b)) \in Seq(Bytes)
    OBVIOUS
  <2> QED
    BY <2>1 DEF Keeping, Loop
<1>3. \A s : Kept(s) = Run(Keeping, nil, s)
  BY <1>1 DEF Kept, Keeping
<1>4. Run(Keeping, nil, <<>>) = nil
  BY <1>2, RunNil
<1>5. ASSUME NEW s \in Seq(Bytes)
      PROVE  Kept(s) \in Seq(Bytes)
  <2>1. Run(Keeping, nil, s) \in Seq(Bytes)
    BY <1>2, RunState
  <2> QED
    BY <1>3, <2>1
<1>6. ASSUME NEW s \in Seq(Bytes), NEW b \in Bytes
      PROVE  Kept(Append(s, b)) = IF b = "nul" THEN Kept(s) ELSE Append(Kept(s), b)
  <2>1. Run(Keeping, nil, Append(s, b)) = Keeping[Run(Keeping, nil, s)][b]
    BY <1>2, RunAppend
  <2>2. Keeping[Kept(s)][b] = IF b = "nul" THEN Kept(s) ELSE Append(Kept(s), b)
    BY <1>5 DEF Keeping
  <2> QED
    BY <1>3, <2>1, <2>2
<1> QED
  BY <1>1, <1>3, <1>4, <1>5, <1>6

\* The next byte opens a character or goes on with the last.
LEMMA CharsEach ==
    /\ Chars(<<>>) = <<>>
    /\ \A s \in Seq(Bytes) : Chars(s) \in Seq(Char)
    /\ \A s \in Seq(Bytes), b \in Bytes : Chars(Append(s, b)) = Matching[Chars(s)][b]
<1>0. <<>> \in Seq(Char)
  OBVIOUS
<1>1. PICK nil \in Seq(Char) : nil = <<>>
  BY <1>0
<1>2. Loop(Matching, Seq(Char), Bytes)
  <2>1. ASSUME NEW cs \in Seq(Char), NEW b \in Bytes
        PROVE  (IF cs = <<>> \/ b # "cont" THEN Append(cs, <<b>>) ELSE [cs EXCEPT ![Len(cs)] = Append(@, b)]) \in Seq(Char)
    <3>1. <<b>> \in Char
      BY DEF Char
    <3>2. CASE cs = <<>> \/ b # "cont"
      BY <3>1, <3>2
    <3>3. CASE ~(cs = <<>> \/ b # "cont")
      <4>1. Len(cs) \in 1..Len(cs)
        BY <3>3
      <4>2. PICK ch \in Char : ch = cs[Len(cs)]
        BY <4>1
      <4>3. Append(ch, b) \in Char
        <5>1. Append(ch, b) \in Seq(Bytes) /\ Len(Append(ch, b)) = Len(ch) + 1 /\ Len(ch) \in Nat
          BY DEF Char
        <5>2. PICK w \in Seq(Bytes) : w = Append(ch, b)
          BY <5>1
        <5>3. Len(w) # 0
          BY <5>1, <5>2
        <5>4. w # <<>>
          BY <5>3
        <5> QED
          BY <5>2, <5>4 DEF Char
      <4>4. [cs EXCEPT ![Len(cs)] = Append(ch, b)] \in Seq(Char)
        BY <4>1, <4>3
      <4> QED
        BY <3>3, <4>2, <4>4
    <3> QED
      BY <3>2, <3>3
  <2> QED
    BY <2>1 DEF Matching, Loop
<1>3. \A s : Chars(s) = Run(Matching, nil, s)
  BY <1>1 DEF Chars, Matching
<1>4. Run(Matching, nil, <<>>) = nil
  BY <1>2, RunNil
<1>5. ASSUME NEW s \in Seq(Bytes)
      PROVE  Chars(s) \in Seq(Char)
  <2>1. Run(Matching, nil, s) \in Seq(Char)
    BY <1>2, RunState
  <2> QED
    BY <1>3, <2>1
<1>6. ASSUME NEW s \in Seq(Bytes), NEW b \in Bytes
      PROVE  Chars(Append(s, b)) = Matching[Chars(s)][b]
  <2>1. Run(Matching, nil, Append(s, b)) = Matching[Run(Matching, nil, s)][b]
    BY <1>2, RunAppend
  <2> QED
    BY <1>3, <2>1
<1> QED
  BY <1>1, <1>3, <1>4, <1>5, <1>6

\* Every byte of a text is in one whole character of it, in its place.
LEMMA CharsWhole ==
    \A s \in Seq(Bytes) : Chars(s) \in Seq(Whole) /\ Flat(Chars(s)) = s
<1> DEFINE P == {s \in Seq(Bytes) : Chars(s) \in Seq(Whole) /\ Flat(Chars(s)) = s}
<1>1. <<>> \in P
  <2>1. <<>> \in Seq(Whole) /\ <<>> \in Seq(Bytes)
    OBVIOUS
  <2> QED
    BY <2>1, CharsEach, FlatEach
<1>2. ASSUME NEW s \in Seq(Bytes), NEW b \in Bytes, s \in P
      PROVE  Append(s, b) \in P
  <2>1. PICK cs \in Seq(Whole) : cs = Chars(s) /\ cs \in Seq(Char) /\ Flat(cs) = s
    BY <1>2, CharsEach
  <2>2. Append(s, b) \in Seq(Bytes)
    OBVIOUS
  <2>3. CASE cs = <<>> \/ b # "cont"
    <3>1. PICK ch \in Whole : ch = <<b>> /\ ch \in Char
      BY CharForms, WholeIsChar
    <3>2. Chars(Append(s, b)) = Append(cs, ch)
      BY <2>1, <2>3, <3>1, CharsEach DEF Matching
    <3>3. Append(cs, ch) \in Seq(Whole)
      OBVIOUS
    <3>4. Flat(Append(cs, ch)) = s \o ch
      BY <2>1, <3>1, FlatEach
    <3>5. s \o ch = Append(s, b)
      BY <3>1
    <3> QED
      BY <2>2, <3>2, <3>3, <3>4, <3>5
  <2>4. CASE ~(cs = <<>> \/ b # "cont")
    <3>1. PICK ds \in Seq(Whole), d \in Whole : cs = Append(ds, d)
      BY <2>4, SequenceEmptyOrAppend
    <3>2. d \in Char /\ d \in Seq(Bytes) /\ ds \in Seq(Char)
      BY WholeIsChar
    <3>3. PICK e \in Whole : e = Append(d, b) /\ e \in Char
      BY <2>4, CharForms, WholeIsChar
    <3>4. [cs EXCEPT ![Len(cs)] = Append(@, b)] = Append(ds, e)
      <4>1. Len(cs) \in 1..Len(cs) /\ Len(cs) = Len(ds) + 1 /\ cs[Len(cs)] = d
        BY <3>1
      <4>2. [cs EXCEPT ![Len(cs)] = Append(@, b)] = [cs EXCEPT ![Len(cs)] = e]
        BY <3>3, <4>1
      <4>3. [cs EXCEPT ![Len(cs)] = e] \in Seq(Whole)
        BY <4>1
      <4>4. PICK es \in Seq(Whole) : es = [cs EXCEPT ![Len(cs)] = e]
        BY <4>3
      <4>5. Len(es) = Len(cs) /\ \A k \in 1..Len(cs) : es[k] = IF k = Len(cs) THEN e ELSE cs[k]
        BY <4>1, <4>4
      <4>6. PICK fs \in Seq(Whole) : fs = Append(ds, e)
        <5>1. Append(ds, e) \in Seq(Whole)
          OBVIOUS
        <5> QED
          BY <5>1
      <4>7. Len(fs) = Len(cs) /\ \A k \in 1..Len(cs) : fs[k] = IF k = Len(cs) THEN e ELSE cs[k]
        BY <3>1, <4>1, <4>6
      <4>8. es = fs
        BY <4>5, <4>7, SeqEqual
      <4> QED
        BY <4>2, <4>4, <4>6, <4>8
    <3>5. Chars(Append(s, b)) = Append(ds, e)
      BY <2>1, <2>4, <3>4, CharsEach DEF Matching
    <3>6. Flat(Append(ds, e)) = Flat(ds) \o e /\ Flat(cs) = Flat(ds) \o d /\ Flat(ds) \in Seq(Bytes)
      BY <3>1, <3>2, <3>3, FlatEach
    <3>7. Flat(ds) \o e = Append(Flat(ds) \o d, b)
      BY <3>2, <3>3, <3>6
    <3>8. Append(ds, e) \in Seq(Whole)
      OBVIOUS
    <3> QED
      BY <2>1, <2>2, <3>5, <3>6, <3>7, <3>8
  <2> QED
    BY <2>3, <2>4
<1>3. Seq(Bytes) \subseteq P
  <2> HIDE DEF P
  <2> QED
    BY <1>1, <1>2, SequencesUp
<1> QED
  BY <1>3

-----------------------------------------------------------------------------
(* A body is the longest run of characters that fits *)

\* What json_body does with a character, and what it begins with.
Filling(max) == [acc \in Body |-> [ch \in Char |->
    IF acc.full \/ acc.used + Len(Escaped(ch)) > max THEN [acc EXCEPT !.full = TRUE]
    ELSE [acc EXCEPT !.used = @ + Len(Escaped(ch)), !.out = @ \o Escaped(ch)]]]
Unfilled == [used |-> 0, full |-> FALSE, out |-> <<>>]

\* The body r of the characters cs holds the first n, and no more fit.
Filled(cs, max, r, n) ==
    /\ r.out = Written(SubSeq(cs, 1, n)) /\ r.used = Len(r.out) /\ r.used <= max
    /\ r.full => n < Len(cs) /\ Len(Written(SubSeq(cs, 1, n + 1))) > max
    /\ ~r.full => n = Len(cs)

\* q is the body that follows r when the next character is written as e.
Fills(max, r, q, e) ==
    /\ r.full \/ r.used + Len(e) > max => q.full /\ q.used = r.used /\ q.out = r.out
    /\ ~r.full /\ r.used + Len(e) <= max => ~q.full /\ q.used = r.used + Len(e) /\ q.out = r.out \o e

\* A character that is left out, or one that is written.
LEMMA FillingStep ==
    ASSUME NEW max \in Nat, NEW r \in Body, NEW ch \in Char
    PROVE  Filling(max)[r][ch] \in Body /\ Fills(max, r, Filling(max)[r][ch], Escaped(ch))
<1>1. Escaped(ch) \in Seq(Letters)
  BY EscapedType
<1>2. PICK e \in Seq(Letters) : e = Escaped(ch)
  BY <1>1
<1>3. r.used \in Nat /\ r.out \in Seq(Letters) /\ r.full \in BOOLEAN /\ Len(e) \in Nat
  BY DEF Body
<1>4. Filling(max)[r][ch] = IF r.full \/ r.used + Len(e) > max THEN [r EXCEPT !.full = TRUE]
                            ELSE [r EXCEPT !.used = @ + Len(e), !.out = @ \o e]
  BY <1>2 DEF Filling
<1>5. CASE r.full \/ r.used + Len(e) > max
  <2>1. Filling(max)[r][ch] = [r EXCEPT !.full = TRUE]
    BY <1>4, <1>5
  <2>2. [r EXCEPT !.full = TRUE] \in Body
    BY DEF Body
  <2>3. LET q == [r EXCEPT !.full = TRUE] IN q.full /\ q.used = r.used /\ q.out = r.out
    BY DEF Body
  <2>4. ~(~r.full /\ r.used + Len(e) <= max)
    BY <1>3, <1>5
  <2> QED
    BY <1>2, <2>1, <2>2, <2>3, <2>4 DEF Fills
<1>6. CASE ~(r.full \/ r.used + Len(e) > max)
  <2> DEFINE q == [r EXCEPT !.used = @ + Len(e), !.out = @ \o e]
  <2>1. Filling(max)[r][ch] = q
    BY <1>4, <1>6
  <2>2. q \in Body
    <3>1. PICK m \in Nat, o \in Seq(Letters) : m = r.used + Len(e) /\ o = r.out \o e
      <4>1. r.used + Len(e) \in Nat /\ r.out \o e \in Seq(Letters)
        BY <1>3
      <4> QED
        BY <4>1
    <3>2. q = [r EXCEPT !.used = m, !.out = o]
      BY <3>1
    <3>3. q \in Body
      BY <1>3, <3>2 DEF Body
    <3> QED
      BY <3>3
  <2>3. q.full = r.full /\ q.used = r.used + Len(e) /\ q.out = r.out \o e
    BY <1>3 DEF Body
  <2> HIDE DEF q
  <2> QED
    BY <1>2, <1>6, <2>1, <2>2, <2>3 DEF Fills
<1> QED
  BY <1>5, <1>6

\* The loop of json_body is a loop over characters.
LEMMA FillingLoop ==
    ASSUME NEW max \in Nat
    PROVE  Loop(Filling(max), Body, Char) /\ Unfilled \in Body
<1>1. Unfilled \in Body
  BY DEF Unfilled, Body
<1>2. \A r \in Body, ch \in Char : Filling(max)[r][ch] \in Body
  BY FillingStep
<1>3. Filling(max) = [r \in Body |-> [ch \in Char |-> Filling(max)[r][ch]]]
  BY DEF Filling
<1> QED
  BY <1>1, <1>2, <1>3 DEF Loop

\* The first n elements are the same in a longer sequence.
LEMMA PrefixesAgree ==
    ASSUME NEW B, NEW s \in Seq(B), NEW b \in B
    PROVE  /\ \A n \in 0..Len(s) : SubSeq(Append(s, b), 1, n) = SubSeq(s, 1, n) /\ SubSeq(s, 1, n) \in Seq(B)
           /\ SubSeq(Append(s, b), 1, Len(s) + 1) = Append(s, b)
           /\ SubSeq(s, 1, Len(s)) = s
OBVIOUS

\* However far the loop is, its body is filled with what fits.
LEMMA BodyFilled ==
    ASSUME NEW max \in Nat
    PROVE  \A cs \in Seq(Char) : \E n \in 0..Len(cs) : Filled(cs, max, Run(Filling(max), Unfilled, cs), n)
<1> DEFINE step == Filling(max)
           P == {cs \in Seq(Char) : \E n \in 0..Len(cs) : Filled(cs, max, Run(step, Unfilled, cs), n)}
<1>0. Loop(step, Body, Char) /\ Unfilled \in Body
  BY FillingLoop
<1>1. <<>> \in P
  <2>1. Run(step, Unfilled, <<>>) = Unfilled
    BY <1>0, RunNil
  <2>2. SubSeq(<<>>, 1, 0) = <<>> /\ <<>> \in Seq(Char) /\ Len(<<>>) = 0
    OBVIOUS
  <2>3. Unfilled.out = <<>> /\ Unfilled.used = 0 /\ ~Unfilled.full
    BY DEF Unfilled
  <2>4. Filled(<<>>, max, Unfilled, 0)
    <3>1. PICK nil \in Seq(Char) : nil = <<>>
      BY <2>2
    <3>2. SubSeq(nil, 1, 0) = nil /\ Len(<<>>) = 0 /\ Len(nil) = 0
      BY <3>1
    <3>4. Written(nil) = <<>>
      BY <3>1, WrittenEach
    <3>5. Written(SubSeq(nil, 1, 0)) = <<>>
      BY <3>2, <3>4, Zenon
    <3>3. Filled(nil, max, Unfilled, 0)
      BY <2>3, <3>2, <3>5 DEF Filled
    <3> QED
      BY <3>1, <3>3
  <2>5. 0 \in 0..Len(<<>>)
    BY <2>2
  <2> HIDE DEF step
  <2> QED
    BY <2>1, <2>2, <2>4, <2>5
<1>2. ASSUME NEW cs \in Seq(Char), NEW ch \in Char, cs \in P
      PROVE  Append(cs, ch) \in P
  <2>0. Len(cs) \in Nat
    OBVIOUS
  <2>1. PICK r \in Body : r = Run(step, Unfilled, cs)
    BY <1>0, RunState
  <2>2. PICK n \in 0..Len(cs) : Filled(cs, max, r, n)
    BY <1>2, <2>1
  <2>3. PICK ds \in Seq(Char) : ds = Append(cs, ch)
    <3>1. Append(cs, ch) \in Seq(Char)
      OBVIOUS
    <3> QED
      BY <3>1
  <2>4. Len(ds) = Len(cs) + 1
    BY <2>3
  <2>5. /\ \A k \in 0..Len(cs) : SubSeq(ds, 1, k) = SubSeq(cs, 1, k)
        /\ SubSeq(ds, 1, Len(cs) + 1) = ds
        /\ SubSeq(cs, 1, Len(cs)) = cs
    BY <2>3, PrefixesAgree
  <2>6. PICK q : q = step[r][ch]
    OBVIOUS
  <2>7. Run(step, Unfilled, ds) = q
    BY <1>0, <2>1, <2>3, <2>6, RunAppend
  <2>8. PICK e \in Seq(Letters) : e = Escaped(ch)
    BY EscapedType
  <2>9. /\ r.full \/ r.used + Len(e) > max => q.full /\ q.used = r.used /\ q.out = r.out
        /\ ~r.full /\ r.used + Len(e) <= max => ~q.full /\ q.used = r.used + Len(e) /\ q.out = r.out \o e
    <3>1. q = Filling(max)[r][ch]
      BY <2>6
    <3>2. Fills(max, r, Filling(max)[r][ch], Escaped(ch))
      BY FillingStep
    <3>3. Fills(max, r, q, e)
      BY <2>8, <3>1, <3>2, Zenon
    <3> QED
      BY <3>3 DEF Fills
  <2>10. Written(ds) = Written(cs) \o e /\ Written(cs) \in Seq(Letters)
    BY <2>3, <2>8, WrittenEach
  <2>11. r.used \in Nat
    BY DEF Body
  <2> HIDE DEF step
  <2> SUFFICES \E k \in 0..Len(ds) : Filled(ds, max, q, k)
    BY <2>3, <2>7
  <2>12. CASE r.full
    <3>1. n < Len(cs) /\ n + 1 \in 0..Len(cs) /\ n \in 0..Len(ds) /\ n < Len(ds)
      BY <2>0, <2>2, <2>4, <2>12 DEF Filled
    <3>2. Filled(ds, max, q, n)
      BY <2>2, <2>5, <2>9, <2>12, <3>1 DEF Filled
    <3> QED
      BY <3>1, <3>2
  <2>13. CASE ~r.full /\ r.used + Len(e) > max
    <3>1. n = Len(cs) /\ n \in 0..Len(ds) /\ n < Len(ds)
      BY <2>0, <2>2, <2>4, <2>13 DEF Filled
    <3>2. r.out = Written(cs) /\ r.used = Len(Written(cs)) /\ r.used <= max
      BY <2>2, <2>5, <3>1 DEF Filled
    <3>3. Len(Written(ds)) > max
      BY <2>10, <2>13, <3>2
    <3>4. Filled(ds, max, q, n)
      BY <2>5, <2>9, <2>13, <3>1, <3>2, <3>3 DEF Filled
    <3> QED
      BY <3>1, <3>4
  <2>14. CASE ~r.full /\ r.used + Len(e) <= max
    <3>1. n = Len(cs) /\ Len(cs) + 1 \in 0..Len(ds)
      BY <2>0, <2>2, <2>4, <2>14 DEF Filled
    <3>2. r.out = Written(cs) /\ r.used = Len(Written(cs))
      BY <2>2, <2>5, <3>1 DEF Filled
    <3>3. q.out = Written(ds) /\ q.used = Len(Written(ds)) /\ q.used <= max /\ ~q.full
      BY <2>9, <2>10, <2>14, <3>2
    <3>4. Filled(ds, max, q, Len(cs) + 1)
      BY <2>4, <2>5, <3>3 DEF Filled
    <3> QED
      BY <3>1, <3>4
  <2>15. r.full \/ ~r.full
    OBVIOUS
  <2>16. r.used + Len(e) > max \/ r.used + Len(e) <= max
    BY <2>11
  <2> QED
    BY <2>12, <2>13, <2>14, <2>15, <2>16
<1>3. Seq(Char) \subseteq P
  <2> HIDE DEF P
  <2> QED
    BY <1>1, <1>2, SequencesUp
<1> QED
  BY <1>3

\* A length is a number.
LEMMA SeqLength ==
    \A S : \A s \in Seq(S) : Len(s) \in Nat
OBVIOUS

\* The bytes the first n characters are written in.
Size(cs, n) == Len(Written(SubSeq(cs, 1, n)))

\* Sizes are numbers; the size of all the characters; and one more does not
\* change the size of those before it.
LEMMA Sizes ==
    ASSUME NEW cs \in Seq(Char)
    PROVE  /\ \A n \in 0..Len(cs) : Size(cs, n) \in Nat
           /\ Size(cs, Len(cs)) = Len(Written(cs))
           /\ \A ch \in Char : \A n \in 0..Len(cs) : Size(Append(cs, ch), n) = Size(cs, n)
           /\ \A n \in 0..Len(cs) : \A k \in 0..n : Size(SubSeq(cs, 1, n), k) = Size(cs, k)
<1>0. Len(cs) \in Nat
  OBVIOUS
<1>1. ASSUME NEW n \in 0..Len(cs)
      PROVE  Size(cs, n) \in Nat
  <2>1. SubSeq(cs, 1, n) \in Seq(Char)
    BY <1>0
  <2>2. Written(SubSeq(cs, 1, n)) \in Seq(Letters)
    BY <2>1, WrittenEach
  <2> QED
    BY <2>2, SeqLength, Zenon DEF Size
<1>2. Size(cs, Len(cs)) = Len(Written(cs))
  <2>1. SubSeq(cs, 1, Len(cs)) = cs
    OBVIOUS
  <2> QED
    BY <2>1, Zenon DEF Size
<1>3. ASSUME NEW ch \in Char, NEW n \in 0..Len(cs)
      PROVE  Size(Append(cs, ch), n) = Size(cs, n)
  <2>1. SubSeq(Append(cs, ch), 1, n) = SubSeq(cs, 1, n)
    BY PrefixesAgree
  <2> QED
    BY <2>1, Zenon DEF Size
<1>4. ASSUME NEW n \in 0..Len(cs), NEW k \in 0..n
      PROVE  Size(SubSeq(cs, 1, n), k) = Size(cs, k)
  <2>1. SubSeq(SubSeq(cs, 1, n), 1, k) = SubSeq(cs, 1, k)
    BY <1>0
  <2> QED
    BY <2>1, Zenon DEF Size
<1> QED
  BY <1>1, <1>2, <1>3, <1>4

\* More characters are not written in fewer bytes.
LEMMA SizeGrows ==
    \A cs \in Seq(Char) : \A n \in 0..Len(cs) : Size(cs, n) <= Len(Written(cs))
<1> DEFINE P == {cs \in Seq(Char) : \A n \in 0..Len(cs) : Size(cs, n) <= Len(Written(cs))}
<1>1. <<>> \in P
  <2>1. <<>> \in Seq(Char) /\ Len(<<>>) = 0
    OBVIOUS
  <2>2. PICK nil \in Seq(Char) : nil = <<>>
    BY <2>1
  <2>3. Len(nil) = 0 /\ Size(nil, 0) = Len(Written(nil)) /\ Size(nil, 0) \in Nat
    <3>1. Len(nil) = 0 /\ 0 \in 0..Len(nil)
      BY <2>1, <2>2
    <3>2. Size(nil, Len(nil)) = Len(Written(nil)) /\ Size(nil, 0) \in Nat
      BY <3>1, Sizes
    <3> QED
      BY <3>1, <3>2
  <2>4. \A n \in 0..Len(nil) : Size(nil, n) <= Len(Written(nil))
    BY <2>3
  <2> QED
    BY <2>2, <2>4
<1>2. ASSUME NEW cs \in Seq(Char), NEW ch \in Char, cs \in P
      PROVE  Append(cs, ch) \in P
  <2>0. Len(cs) \in Nat
    OBVIOUS
  <2>1. PICK ds \in Seq(Char) : ds = Append(cs, ch)
    <3>1. Append(cs, ch) \in Seq(Char)
      OBVIOUS
    <3> QED
      BY <3>1
  <2>2. Len(ds) = Len(cs) + 1
    BY <2>1
  <2>3. /\ \A k \in 0..Len(cs) : Size(ds, k) = Size(cs, k) /\ Size(cs, k) \in Nat
        /\ Size(ds, Len(ds)) = Len(Written(ds))
        /\ Size(ds, Len(ds)) \in Nat
    <3>1. Len(ds) \in 0..Len(ds)
      BY <2>0, <2>2
    <3> QED
      BY <2>1, <3>1, Sizes
  <2>4. PICK e \in Seq(Letters) : e = Escaped(ch)
    BY EscapedType
  <2>5. Len(Written(cs)) \in Nat /\ Len(Written(cs)) <= Len(Written(ds))
    BY <2>1, <2>4, WrittenEach
  <2>6. ASSUME NEW n \in 0..Len(ds)
        PROVE  Size(ds, n) <= Len(Written(ds))
    <3>1. CASE n = Len(ds)
      BY <2>3, <3>1
    <3>2. CASE n # Len(ds)
      <4>1. n \in 0..Len(cs)
        BY <2>0, <2>2, <3>2
      <4>2. Size(cs, n) <= Len(Written(cs))
        BY <1>2, <4>1
      <4> QED
        BY <2>3, <2>5, <4>1, <4>2
    <3> QED
      BY <3>1, <3>2
  <2> QED
    BY <2>1, <2>6
<1>3. Seq(Char) \subseteq P
  <2> HIDE DEF P
  <2> QED
    BY <1>1, <1>2, SequencesUp
<1> QED
  BY <1>3

\* The numbers of characters that fit, and the largest of them.
Fits(cs, max) == {n \in 0..Len(cs) : Len(Written(SubSeq(cs, 1, n))) <= max}
Longest(cs, max) == CHOOSE n \in Fits(cs, max) : \A k \in Fits(cs, max) : k <= n

\* A body holds the longest run of characters that fits.
LEMMA BodyIsLongest ==
    ASSUME NEW max \in Nat, NEW s \in Seq(Bytes)
    PROVE  /\ Longest(Chars(s), max) \in 0..Len(Chars(s))
           /\ json_body(s, max) = Written(SubSeq(Chars(s), 1, Longest(Chars(s), max)))
           /\ json_body(s, max) \in Seq(Letters) /\ Len(json_body(s, max)) <= max
<1>1. PICK cs \in Seq(Char) : cs = Chars(s)
  BY CharsEach
<1>0. Len(cs) \in Nat
  OBVIOUS
<1>2. PICK r : r = Run(Filling(max), Unfilled, cs)
  OBVIOUS
<1>3. json_body(s, max) = r.out
  BY <1>1, <1>2 DEF json_body, Filling, Unfilled
<1>4. PICK n \in 0..Len(cs) : Filled(cs, max, r, n)
  BY <1>2, BodyFilled
<1>5. SubSeq(cs, 1, n) \in Seq(Char) /\ Written(SubSeq(cs, 1, n)) \in Seq(Letters)
  <2>1. SubSeq(cs, 1, n) \in Seq(Char)
    BY <1>0
  <2> QED
    BY <2>1, WrittenEach
<1>6. r.out = Written(SubSeq(cs, 1, n)) /\ Len(r.out) <= max
  BY <1>4 DEF Filled
<1>7. n \in Fits(cs, max)
  BY <1>6 DEF Fits
<1>8. ASSUME NEW k \in Fits(cs, max)
      PROVE  k <= n
  <2>1. SUFFICES ASSUME k > n
                 PROVE  FALSE
    BY <1>0 DEF Fits
  <2>2. k \in 0..Len(cs) /\ n < Len(cs) /\ n + 1 \in 0..k
    BY <1>0, <2>1 DEF Fits
  <2>3. Len(Written(SubSeq(cs, 1, n + 1))) > max
    BY <1>4, <2>2 DEF Filled
  <2>4. PICK ds \in Seq(Char) : ds = SubSeq(cs, 1, k)
    <3>1. SubSeq(cs, 1, k) \in Seq(Char)
      BY <1>0, <2>2
    <3> QED
      BY <3>1
  <2>5. Len(ds) = k
    BY <1>0, <2>2, <2>4
  <2>6. Size(ds, n + 1) = Size(cs, n + 1)
    BY <2>2, <2>4, Sizes
  <2>7. Size(ds, n + 1) <= Len(Written(ds))
    BY <2>2, <2>5, SizeGrows
  <2>8. Size(cs, n + 1) > max /\ Len(Written(ds)) <= max
    BY <2>3, <2>4 DEF Fits, Size
  <2>9. Size(cs, n + 1) \in Nat /\ Len(Written(ds)) \in Nat
    <3>1. n + 1 \in 0..Len(cs)
      BY <1>0, <2>2
    <3> QED
      BY <3>1, Sizes, WrittenEach, SeqLength
  <2> QED
    BY <2>6, <2>7, <2>8, <2>9
<1>9. \A k, m \in Fits(cs, max) : k \in Nat
  BY <1>0 DEF Fits
<1>10. ASSUME NEW m \in Fits(cs, max), \A k \in Fits(cs, max) : k <= m
       PROVE  m = n
  BY <1>7, <1>8, <1>9, <1>10
<1>11. Longest(cs, max) = n
  BY <1>7, <1>8, <1>10 DEF Longest
<1> QED
  BY <1>1, <1>3, <1>5, <1>6, <1>11

-----------------------------------------------------------------------------
(* JSON reads what was written *)

\* The reader of JSON is a loop over letters.
LEMMA JsonLoop == Loop(JsonRead, Reader, Letters) /\ \A t \in Seq(Bytes) : Inside(t) \in Reader
<1>1. \A t \in Seq(Bytes) : Inside(t) \in Reader
  BY DEF Inside, Reader
<1>2. ASSUME NEW r \in Reader, NEW b \in Letters
      PROVE  JsonRead[r][b] \in Reader
  <2>1. [r EXCEPT !.mode = "escape"] \in Reader /\ [r EXCEPT !.mode = "broken"] \in Reader
    BY DEF Reader
  <2>2. \A c \in Bytes : Took(r, c) \in Reader
    BY DEF Reader, Took, Inside
  <2>3. \A n \in 0..4 : Expects(r, n) \in Reader
    BY DEF Reader, Expects
  <2>4. r.more > 1 => r.more - 1 \in 0..4
    BY DEF Reader
  <2> QED
    BY <2>1, <2>2, <2>3, <2>4 DEF JsonRead, Letters, Bytes
<1>3. JsonRead = [r \in Reader |-> [b \in Letters |-> JsonRead[r][b]]]
  BY DEF JsonRead
<1> QED
  BY <1>1, <1>2, <1>3 DEF Loop

\* A loop over an element and then a sequence.
LEMMA RunCons ==
    ASSUME NEW S, NEW B, NEW start \in S, NEW step, Loop(step, S, B), NEW b \in B, NEW s \in Seq(B)
    PROVE  /\ step[start][b] \in S
           /\ Run(step, start, <<b>> \o s) = Run(step, step[start][b], s)
<1>1. <<>> \in Seq(B) /\ <<b>> \in Seq(B) /\ Append(<<>>, b) = <<b>>
  OBVIOUS
<1>2. PICK nil \in Seq(B) : nil = <<>>
  BY <1>1
<1>3. PICK one \in Seq(B) : one = <<b>>
  BY <1>1
<1>4. Run(step, start, nil) = start
  BY <1>2, RunNil
<1>5. Run(step, start, Append(nil, b)) = step[Run(step, start, nil)][b]
  BY RunAppend
<1>6. Run(step, start, one) = step[start][b]
  BY <1>1, <1>2, <1>3, <1>4, <1>5
<1>7. Run(step, start, one \o s) = Run(step, Run(step, start, one), s)
  BY RunConcat
<1>8. step[start][b] \in S
  BY DEF Loop
<1> QED
  BY <1>3, <1>6, <1>7, <1>8

\* Continuation bytes are read as they are, and kept.
LEMMA Continued ==
    ASSUME NEW t \in Seq(Bytes)
    PROVE  \A c \in Seq({"cont"}) :
            Run(JsonRead, Inside(t), c) = Inside(t \o c) /\ Kept(t \o c) = Kept(t) \o c
<1> DEFINE P == {c \in Seq({"cont"}) : Run(JsonRead, Inside(t), c) = Inside(t \o c) /\ Kept(t \o c) = Kept(t) \o c}
<1>0. Inside(t) \in Reader /\ Kept(t) \in Seq(Bytes) /\ "cont" \in Bytes /\ "cont" \in Letters
  BY JsonLoop, KeptEach DEF Bytes, Letters
<1>1. <<>> \in P
  <2>1. Run(JsonRead, Inside(t), <<>>) = Inside(t)
    BY <1>0, JsonLoop, RunNil
  <2>2. t \o <<>> = t /\ Kept(t) \o <<>> = Kept(t) /\ <<>> \in Seq({"cont"})
    BY <1>0
  <2> QED
    BY <2>1, <2>2, Zenon
<1>2. ASSUME NEW c \in Seq({"cont"}), NEW b \in {"cont"}, c \in P
      PROVE  Append(c, b) \in P
  <2>1. c \in Seq(Bytes) /\ c \in Seq(Letters) /\ b \in Bytes /\ b \in Letters /\ b = "cont"
    BY <1>0
  <2>2. PICK u \in Seq(Bytes) : u = t \o c
    <3>1. t \o c \in Seq(Bytes)
      BY <2>1
    <3> QED
      BY <3>1
  <2>3. t \o Append(c, b) = Append(u, b) /\ Append(c, b) \in Seq({"cont"})
    BY <2>1, <2>2
  <2>4. Run(JsonRead, Inside(t), c) = Inside(u) /\ Inside(u) \in Reader /\ Kept(u) = Kept(t) \o c
    BY <1>2, <2>2, JsonLoop
  <2>5. Run(JsonRead, Inside(t), Append(c, b)) = JsonRead[Inside(u)][b]
    <3>1. Run(JsonRead, Inside(t), Append(c, b)) = JsonRead[Run(JsonRead, Inside(t), c)][b]
      BY <1>0, <2>1, JsonLoop, RunAppend
    <3> QED
      BY <2>4, <3>1
  <2>6. JsonRead[Inside(u)][b] = Inside(Append(u, b))
    BY <2>1, <2>4 DEF JsonRead, Inside, Took
  <2>7. Kept(Append(u, b)) = Append(Kept(u), b)
    BY <2>1, KeptEach
  <2>8. Append(Kept(t) \o c, b) = Kept(t) \o Append(c, b)
    <3>1. PICK k \in Seq(Bytes) : k = Kept(t)
      BY <1>0
    <3>2. PICK d \in Seq(Bytes) : d = c
      BY <2>1
    <3>3. b \in Bytes
      BY <2>1
    <3>4. Append(k \o d, b) = k \o Append(d, b)
      BY <3>3, AppendConcat, Zenon
    <3> QED
      BY <3>1, <3>2, <3>4
  <2>9. Kept(t \o Append(c, b)) = Kept(t) \o Append(c, b)
    BY <2>3, <2>4, <2>7, <2>8
  <2>10. Run(JsonRead, Inside(t), Append(c, b)) = Inside(t \o Append(c, b))
    BY <2>3, <2>5, <2>6
  <2> QED
    BY <2>3, <2>9, <2>10
<1>3. Seq({"cont"}) \subseteq P
  <2> HIDE DEF P
  <2> QED
    BY <1>1, <1>2, SequencesUp
<1> QED
  BY <1>3

\* A reader inside a string takes a letter, or an escape.
LEMMA JsonTakes ==
    ASSUME NEW t \in Seq(Bytes), NEW s \in Seq(Letters)
    PROVE  /\ \A b \in {"cont", "plain"} :
                Run(JsonRead, Inside(t), <<b>> \o s) = Run(JsonRead, Inside(Append(t, b)), s)
           /\ \A b \in {"quote", "bslash"} :
                Run(JsonRead, Inside(t), <<"bslash">> \o (<<b>> \o s)) = Run(JsonRead, Inside(Append(t, b)), s)
<1>0. Inside(t) \in Reader /\ {"cont", "plain", "quote", "bslash"} \subseteq Letters
  BY JsonLoop DEF Bytes, Letters
<1>1. ASSUME NEW b \in {"cont", "plain"}
      PROVE  Run(JsonRead, Inside(t), <<b>> \o s) = Run(JsonRead, Inside(Append(t, b)), s)
  <2>1. Run(JsonRead, Inside(t), <<b>> \o s) = Run(JsonRead, JsonRead[Inside(t)][b], s)
    BY <1>0, JsonLoop, RunCons
  <2>2. JsonRead[Inside(t)][b] = Inside(Append(t, b))
    BY <1>0 DEF JsonRead, Inside, Took
  <2> QED
    BY <2>1, <2>2
<1>2. ASSUME NEW b \in {"quote", "bslash"}
      PROVE  Run(JsonRead, Inside(t), <<"bslash">> \o (<<b>> \o s)) = Run(JsonRead, Inside(Append(t, b)), s)
  <2>1. PICK v \in Seq(Letters) : v = <<b>> \o s
    <3>1. <<b>> \o s \in Seq(Letters)
      BY <1>0
    <3> QED
      BY <3>1
  <2>2. PICK e \in Reader : e = [Inside(t) EXCEPT !.mode = "escape"]
    <3>1. [Inside(t) EXCEPT !.mode = "escape"] \in Reader
      BY <1>0 DEF Reader
    <3> QED
      BY <3>1
  <2>3. JsonRead[Inside(t)]["bslash"] = e
    BY <1>0, <2>2 DEF JsonRead, Inside
  <2>4. Run(JsonRead, Inside(t), <<"bslash">> \o v) = Run(JsonRead, e, v)
    BY <1>0, <2>3, JsonLoop, RunCons
  <2>5. Run(JsonRead, e, <<b>> \o s) = Run(JsonRead, JsonRead[e][b], s)
    BY <1>0, JsonLoop, RunCons
  <2>6. JsonRead[e][b] = Took(e, b)
    BY <1>0, <2>2 DEF JsonRead, Inside
  <2>7. Took(e, b) = Inside(Append(t, b))
    BY <2>2 DEF Took, Inside
  <2> QED
    BY <2>1, <2>4, <2>5, <2>6, <2>7
<1> QED
  BY <1>1, <1>2

\* w is the letter b and then v.
Before(b, v, w) == b \in Letters /\ v \in Seq(Letters) /\ w = <<b>> \o v

\* One step of the reader of JSON.
LEMMA JsonStep ==
    ASSUME NEW r \in Reader, NEW b, NEW v, NEW w, Before(b, v, w)
    PROVE  Run(JsonRead, r, w) = Run(JsonRead, JsonRead[r][b], v)
BY JsonLoop, RunCons DEF Before

\* The control character whose escape ends with the digit d.
Control(d) == IF d = "eolhex" THEN "eol" ELSE "ctrl"

\* A reader inside a string takes the escape of a control character.
LEMMA JsonTakesControl ==
    ASSUME NEW t \in Seq(Bytes), NEW s \in Seq(Letters), NEW d \in {"hex", "eolhex"}
    PROVE  Run(JsonRead, Inside(t), <<"bslash", "u", "hex", "hex", "hex", d>> \o s)
            = Run(JsonRead, Inside(Append(t, Control(d))), s)
<1> DEFINE Hex(m) == [mode |-> "hex", more |-> m, text |-> t]
           Esc == [mode |-> "escape", more |-> 0, text |-> t]
<1>0. Inside(t) \in Reader /\ {"bslash", "u", "hex", d} \subseteq Letters
  BY JsonLoop DEF Bytes, Letters
<1>1. Esc \in Reader /\ \A m \in 1..4 : Hex(m) \in Reader
  BY DEF Reader
<1>2. \A b \in Letters, v \in Seq(Letters) : \E w \in Seq(Letters) : Before(b, v, w)
  <2>1. \A b \in Letters, v \in Seq(Letters) : <<b>> \o v \in Seq(Letters)
    OBVIOUS
  <2> QED
    BY <2>1 DEF Before
<1>s1. PICK s1 \in Seq(Letters) : Before(d, s, s1)
  BY <1>0, <1>2
<1>s2. PICK s2 \in Seq(Letters) : Before("hex", s1, s2)
  BY <1>0, <1>2
<1>s3. PICK s3 \in Seq(Letters) : Before("hex", s2, s3)
  BY <1>0, <1>2
<1>s4. PICK s4 \in Seq(Letters) : Before("hex", s3, s4)
  BY <1>0, <1>2
<1>s5. PICK s5 \in Seq(Letters) : Before("u", s4, s5)
  BY <1>0, <1>2
<1>s6. PICK s6 \in Seq(Letters) : Before("bslash", s5, s6)
  BY <1>0, <1>2
<1>3. <<"bslash", "u", "hex", "hex", "hex", d>> \o s = s6
  <2>1. s2 = <<"hex", d>> \o s
    BY <1>0, <1>s1, <1>s2 DEF Before
  <2>2. s3 = <<"hex", "hex", d>> \o s
    BY <1>0, <1>s3, <2>1 DEF Before
  <2>3. s4 = <<"hex", "hex", "hex", d>> \o s
    BY <1>0, <1>s4, <2>2 DEF Before
  <2>4. s5 = <<"u", "hex", "hex", "hex", d>> \o s
    BY <1>0, <1>s5, <2>3 DEF Before
  <2>5. PICK p \in Seq(Letters) : p = <<"u", "hex", "hex", "hex", d>>
    <3>1. <<"u", "hex", "hex", "hex", d>> \in Seq(Letters)
      BY <1>0
    <3> QED
      BY <3>1
  <2>6. <<"bslash">> \o p = <<"bslash", "u", "hex", "hex", "hex", d>>
    <3>1. PICK u \in Seq(Letters) : u = <<"bslash">> \o p
      <4>1. <<"bslash">> \o p \in Seq(Letters)
        BY <1>0
      <4> QED
        BY <4>1
    <3>2. PICK v \in Seq(Letters) : v = <<"bslash", "u", "hex", "hex", "hex", d>>
      <4>1. <<"bslash", "u", "hex", "hex", "hex", d>> \in Seq(Letters)
        BY <1>0
      <4> QED
        BY <4>1
    <3>3. Len(p) = 5 /\ p[1] = "u" /\ p[2] = "hex" /\ p[3] = "hex" /\ p[4] = "hex" /\ p[5] = d
      BY <2>5
    <3>9. Len(u) = Len(p) + 1 /\ u[1] = "bslash" /\ \A i \in 1..Len(p) : u[i + 1] = p[i]
      BY <1>0, <3>1
    <3>4. Len(u) = 6 /\ u[1] = "bslash" /\ u[2] = "u" /\ u[3] = "hex" /\ u[4] = "hex" /\ u[5] = "hex" /\ u[6] = d
      <4>1. u[1 + 1] = p[1] /\ u[2 + 1] = p[2] /\ u[3 + 1] = p[3] /\ u[4 + 1] = p[4] /\ u[5 + 1] = p[5]
        BY <3>3, <3>9
      <4> QED
        BY <3>3, <3>9, <4>1
    <3>5. Len(v) = 6 /\ v[1] = "bslash" /\ v[2] = "u" /\ v[3] = "hex" /\ v[4] = "hex" /\ v[5] = "hex" /\ v[6] = d
      BY <3>2
    <3>6. \A i \in 1..6 : i = 1 \/ i = 2 \/ i = 3 \/ i = 4 \/ i = 5 \/ i = 6
      OBVIOUS
    <3>7. \A i \in 1..Len(u) : u[i] = v[i]
      BY <3>4, <3>5, <3>6
    <3>8. u = v
      BY <3>4, <3>5, <3>7, SeqEqual
    <3> QED
      BY <3>1, <3>2, <3>8, Zenon
  <2>7. <<"bslash">> \o (p \o s) = (<<"bslash">> \o p) \o s
    <3>1. PICK o \in Seq(Letters) : o = <<"bslash">>
      <4>1. <<"bslash">> \in Seq(Letters)
        BY <1>0
      <4> QED
        BY <4>1
    <3>2. o \o (p \o s) = (o \o p) \o s
      BY SMTT(30)
    <3> QED
      BY <3>1, <3>2
  <2> QED
    BY <1>s6, <2>4, <2>5, <2>6, <2>7 DEF Before
<1>4. JsonRead[Inside(t)]["bslash"] = Esc
  BY <1>0 DEF JsonRead, Inside
<1>5. JsonRead[Esc]["u"] = Hex(4)
  BY <1>0, <1>1 DEF JsonRead, Expects
<1>6. ASSUME NEW m \in 2..4
      PROVE  JsonRead[Hex(m)]["hex"] = Hex(m - 1)
  <2>1. PICK r \in Reader : r = Hex(m)
    BY <1>1
  <2>2. r.mode = "hex" /\ r.more = m /\ r.text = t /\ m > 1
    BY <2>1
  <2>3. JsonRead[r]["hex"] = Expects(r, m - 1)
    BY <1>0, <2>2 DEF JsonRead
  <2> QED
    BY <2>1, <2>2, <2>3 DEF Expects
<1>7. JsonRead[Hex(1)][d] = Inside(Append(t, Control(d)))
  BY <1>0, <1>1 DEF JsonRead, Took, Control
<1>8. PICK e \in Reader, h1 \in Reader, h2 \in Reader, h3 \in Reader, h4 \in Reader :
        e = Esc /\ h1 = Hex(1) /\ h2 = Hex(2) /\ h3 = Hex(3) /\ h4 = Hex(4)
  BY <1>1
<1>9. /\ JsonRead[Inside(t)]["bslash"] = e /\ JsonRead[e]["u"] = h4 /\ JsonRead[h4]["hex"] = h3
      /\ JsonRead[h3]["hex"] = h2 /\ JsonRead[h2]["hex"] = h1 /\ JsonRead[h1][d] = Inside(Append(t, Control(d)))
  BY <1>4, <1>5, <1>6, <1>7, <1>8
<1> HIDE DEF Esc, Hex
<1>11. Run(JsonRead, Inside(t), s6) = Run(JsonRead, e, s5)
  <2>1. Run(JsonRead, Inside(t), s6) = Run(JsonRead, JsonRead[Inside(t)]["bslash"], s5)
    BY <1>0, <1>s6, JsonStep
  <2> QED
    BY <1>9, <2>1
<1>12. Run(JsonRead, e, s5) = Run(JsonRead, h4, s4)
  <2>1. Run(JsonRead, e, s5) = Run(JsonRead, JsonRead[e]["u"], s4)
    BY <1>s5, JsonStep
  <2> QED
    BY <1>9, <2>1
<1>13. Run(JsonRead, h4, s4) = Run(JsonRead, h3, s3)
  <2>1. Run(JsonRead, h4, s4) = Run(JsonRead, JsonRead[h4]["hex"], s3)
    BY <1>s4, JsonStep
  <2> QED
    BY <1>9, <2>1
<1>14. Run(JsonRead, h3, s3) = Run(JsonRead, h2, s2)
  <2>1. Run(JsonRead, h3, s3) = Run(JsonRead, JsonRead[h3]["hex"], s2)
    BY <1>s3, JsonStep
  <2> QED
    BY <1>9, <2>1
<1>15. Run(JsonRead, h2, s2) = Run(JsonRead, h1, s1)
  <2>1. Run(JsonRead, h2, s2) = Run(JsonRead, JsonRead[h2]["hex"], s1)
    BY <1>s2, JsonStep
  <2> QED
    BY <1>9, <2>1
<1>16. Run(JsonRead, h1, s1) = Run(JsonRead, Inside(Append(t, Control(d))), s)
  <2>1. Run(JsonRead, h1, s1) = Run(JsonRead, JsonRead[h1][d], s)
    BY <1>s1, JsonStep
  <2> QED
    BY <1>9, <2>1
<1> QED
  BY <1>3, <1>11, <1>12, <1>13, <1>14, <1>15, <1>16

\* A character without its NUL.
Plain(ch) == IF Head(ch) = "nul" THEN Tail(ch) ELSE ch

\* JSON reads a whole character as written as that character, without a NUL,
\* which is also what is kept of it.
LEMMA CharIsRead ==
    ASSUME NEW t \in Seq(Bytes), NEW ch \in Whole
    PROVE  /\ Run(JsonRead, Inside(t), Escaped(ch)) = Inside(t \o Plain(ch))
           /\ Kept(t \o ch) = Kept(t) \o Plain(ch)
<1>1. PICK b \in Bytes, c \in Seq({"cont"}) : ch = <<b>> \o c
  BY DEF Whole
<1>2. c \in Seq(Bytes) /\ c \in Seq(Letters) /\ b \in Letters
  BY DEF Bytes, Letters
<1>3. Head(ch) = b /\ Tail(ch) = c
  BY <1>1, <1>2
<1>4. PICK u \in Seq(Bytes) : u = Append(t, b)
  <2>1. Append(t, b) \in Seq(Bytes)
    OBVIOUS
  <2> QED
    BY <2>1
<1>5. t \o ch = u \o c
  BY <1>1, <1>2, <1>4
<1>6. Kept(u) = IF b = "nul" THEN Kept(t) ELSE Append(Kept(t), b)
  BY <1>4, KeptEach
<1>7. Kept(u \o c) = Kept(u) \o c /\ Run(JsonRead, Inside(u), c) = Inside(u \o c)
  BY Continued
<1>8. Kept(t \o ch) = Kept(t) \o Plain(ch)
  <2>1. CASE b = "nul"
    BY <1>3, <1>5, <1>6, <1>7, <2>1 DEF Plain
  <2>2. CASE b # "nul"
    <3>1. PICK k \in Seq(Bytes) : k = Kept(t)
      BY KeptEach
    <3>2. Append(k, b) \o c = k \o ch
      BY <1>1, <1>2
    <3>3. Plain(ch) = ch
      BY <1>3, <2>2 DEF Plain
    <3> QED
      BY <1>5, <1>6, <1>7, <2>2, <3>1, <3>2, <3>3
  <2> QED
    BY <2>1, <2>2
<1>9. Run(JsonRead, Inside(t), Escaped(ch)) = Inside(t \o Plain(ch))
  <2>1. CASE b = "nul"
    <3>1. Escaped(ch) = c /\ Plain(ch) = c
      BY <1>3, <2>1 DEF Escaped, Plain
    <3> QED
      BY <3>1, Continued
  <2>2. CASE b \in {"quote", "bslash"}
    <3>1. Escaped(ch) = <<"bslash">> \o (<<b>> \o c) /\ Plain(ch) = ch
      BY <1>1, <1>3, <2>2 DEF Escaped, Plain
    <3>2. Run(JsonRead, Inside(t), <<"bslash">> \o (<<b>> \o c)) = Run(JsonRead, Inside(Append(t, b)), c)
      BY <1>2, <2>2, JsonTakes
    <3> QED
      BY <1>4, <1>5, <1>7, <3>1, <3>2
  <2>3. CASE b \in {"ctrl", "eol"}
    <3> DEFINE d == IF b = "eol" THEN "eolhex" ELSE "hex"
    <3>1. Escaped(ch) = <<"bslash", "u", "hex", "hex", "hex", d>> \o c /\ Plain(ch) = ch
      BY <1>1, <1>3, <2>3 DEF Escaped, Plain
    <3>2. Run(JsonRead, Inside(t), <<"bslash", "u", "hex", "hex", "hex", d>> \o c)
            = Run(JsonRead, Inside(Append(t, b)), c)
      <4>1. d \in {"hex", "eolhex"} /\ Control(d) = b
        BY <2>3 DEF Control
      <4> HIDE DEF d
      <4> QED
        BY <1>2, <4>1, JsonTakesControl
    <3> QED
      BY <1>4, <1>5, <1>7, <2>3, <3>1, <3>2
  <2>4. CASE b \in {"cont", "plain"}
    <3>1. Escaped(ch) = <<b>> \o c /\ Plain(ch) = ch
      BY <1>1, <1>3, <2>4 DEF Escaped, Plain
    <3>2. Run(JsonRead, Inside(t), <<b>> \o c) = Run(JsonRead, Inside(Append(t, b)), c)
      BY <1>2, <2>4, JsonTakes
    <3> QED
      BY <1>4, <1>5, <1>7, <3>1, <3>2
  <2> QED
    BY <2>1, <2>2, <2>3, <2>4 DEF Bytes
<1> QED
  BY <1>8, <1>9

\* JSON reads whole characters as written as their text without the NULs.
LEMMA CharsAreRead ==
    \A cs \in Seq(Whole) : Run(JsonRead, Opened, Written(cs)) = Inside(Kept(Flat(cs)))
<1> DEFINE P == {cs \in Seq(Whole) : Run(JsonRead, Opened, Written(cs)) = Inside(Kept(Flat(cs)))}
<1>0. Opened \in Reader
  BY LuaLoop
<1>1. <<>> \in P
  <2>1. Run(JsonRead, Opened, <<>>) = Opened
    BY <1>0, JsonLoop, RunNil
  <2>2. Written(<<>>) = <<>> /\ Kept(Flat(<<>>)) = <<>> /\ Opened = Inside(<<>>) /\ <<>> \in Seq(Whole)
    BY WrittenEach, KeptEach, FlatEach DEF Opened
  <2>3. Run(JsonRead, Opened, Written(<<>>)) = Inside(Kept(Flat(<<>>)))
    BY <2>1, <2>2, Zenon
  <2> QED
    BY <2>2, <2>3
<1>2. ASSUME NEW cs \in Seq(Whole), NEW ch \in Whole, cs \in P
      PROVE  Append(cs, ch) \in P
  <2>1. cs \in Seq(Char) /\ ch \in Char /\ Append(cs, ch) \in Seq(Whole)
    BY WholeIsChar
  <2>2. PICK w \in Seq(Letters) : w = Written(cs)
    BY <2>1, WrittenEach
  <2>3. PICK e \in Seq(Letters) : e = Escaped(ch)
    BY <2>1, EscapedType
  <2>4. PICK f \in Seq(Bytes) : f = Flat(cs)
    BY <2>1, FlatEach
  <2>5. PICK k \in Seq(Bytes) : k = Kept(f)
    BY KeptEach
  <2>6. Written(Append(cs, ch)) = w \o e /\ Flat(Append(cs, ch)) = f \o ch
    BY <2>1, <2>2, <2>3, <2>4, WrittenEach, FlatEach
  <2>7. Run(JsonRead, Opened, w \o e) = Run(JsonRead, Run(JsonRead, Opened, w), e)
    BY <1>0, JsonLoop, RunConcat
  <2>8. Run(JsonRead, Opened, w) = Inside(k)
    BY <1>2, <2>2, <2>4, <2>5
  <2>9. Run(JsonRead, Inside(k), e) = Inside(k \o Plain(ch))
    BY <2>3, CharIsRead
  <2>10. Kept(f \o ch) = k \o Plain(ch)
    BY <2>5, CharIsRead
  <2>11. Run(JsonRead, Opened, Written(Append(cs, ch))) = Inside(Kept(Flat(Append(cs, ch))))
    BY <2>6, <2>7, <2>8, <2>9, <2>10
  <2> QED
    BY <2>1, <2>11
<1>3. Seq(Whole) \subseteq P
  <2> HIDE DEF P
  <2> QED
    BY <1>1, <1>2, SequencesUp
<1> QED
  BY <1>3

\* A body is read as the longest run of whole characters that fits.
LEMMA BodyIsFaithful ==
    ASSUME NEW s \in Seq(Bytes), NEW max \in Nat
    PROVE  Faithful(json_body(s, max), s, max)
<1>1. PICK cs \in Seq(Whole) : cs = Chars(s) /\ Flat(cs) = s
  BY CharsWhole
<1>2. PICK n \in 0..Len(cs) : n = Longest(cs, max)
  BY <1>1, BodyIsLongest
<1>3. json_body(s, max) = Written(SubSeq(cs, 1, n))
  BY <1>1, <1>2, BodyIsLongest
<1>4. SubSeq(cs, 1, n) \in Seq(Whole)
  OBVIOUS
<1>5. Run(JsonRead, Opened, json_body(s, max)) = Inside(Kept(Flat(SubSeq(cs, 1, n))))
  <2>1. PICK ds \in Seq(Whole) : ds = SubSeq(cs, 1, n)
    BY <1>4
  <2>2. Run(JsonRead, Opened, Written(ds)) = Inside(Kept(Flat(ds)))
    BY CharsAreRead
  <2> QED
    BY <1>3, <2>1, <2>2, Zenon
<1> QED
  BY <1>1, <1>2, <1>5, Zenon DEF Faithful, Longest, Fits

-----------------------------------------------------------------------------
(* Every text is read back *)

\* The text is a sequence of bytes.
IsText == text \in Seq(Bytes)

\* Typing keeps it one.
LEMMA TextType ==
    TextSpec => []IsText
<1>1. TextInit => IsText
  BY DEF TextInit, IsText
<1>2. IsText /\ [TextNext]_text => IsText'
  BY DEF TextNext, Type, IsText
<1> QED
  BY <1>1, <1>2, PTL DEF TextSpec

\* Whatever a field holds, Lua reads the literal esc writes as that field, and
\* ends it where the generator closed it, when the field has no line break, and
\* refuses it when it has one; whatever an alert's key and message are, the alert
\* alert_json writes fits the device's queue slot, and JSON reads both bodies as
\* the longest run of whole characters that fits, without the NULs.
THEOREM TextIsReadBack ==
    TextSpec => []TextReadsBack
<1>1. IsText => TextReadsBack
  <2> SUFFICES ASSUME IsText
               PROVE  TextReadsBack
    OBVIOUS
  <2>1. PICK s \in Seq(Bytes) : s = text
    BY DEF IsText
  <2>2. IF HasBreak(s) THEN FieldRead(s).mode = "broken"
        ELSE FieldRead(s) = [Inside(s) EXCEPT !.mode = "end"]
    BY FieldIsRead
  <2>3. ASSUME NEW cut \in 0..Len(s)
        PROVE  LET key == SubSeq(s, 1, cut)
                   msg == SubSeq(s, cut + 1, Len(s))
                   a == alert_json(key, msg) IN
               /\ FRAME + Len(a.code) + Len(a.message) <= ALERT_MAX
               /\ Faithful(a.code, key, CODE_MAX)
               /\ Faithful(a.message, msg, ALERT_MAX - FRAME - Len(a.code))
    <3>1. PICK key \in Seq(Bytes) : key = SubSeq(s, 1, cut)
      <4>1. SubSeq(s, 1, cut) \in Seq(Bytes)
        OBVIOUS
      <4> QED
        BY <4>1
    <3>2. PICK msg \in Seq(Bytes) : msg = SubSeq(s, cut + 1, Len(s))
      <4>1. SubSeq(s, cut + 1, Len(s)) \in Seq(Bytes)
        OBVIOUS
      <4> QED
        BY <4>1
    <3>3. CODE_MAX \in Nat /\ ALERT_MAX \in Nat /\ FRAME \in Nat /\ FRAME + CODE_MAX <= ALERT_MAX
      BY TextAssumption DEF TextAssumption
    <3>4. PICK code \in Seq(Letters) : code = json_body(key, CODE_MAX) /\ Len(code) <= CODE_MAX
      BY <3>3, BodyIsLongest
    <3>5. PICK room \in Nat : room = ALERT_MAX - (FRAME + Len(code)) /\ room = ALERT_MAX - FRAME - Len(code)
      <4>1. PICK n \in Nat : n = Len(code)
        BY SeqLength
      <4>2. n <= CODE_MAX /\ ALERT_MAX - (FRAME + n) \in Nat /\ ALERT_MAX - (FRAME + n) = ALERT_MAX - FRAME - n
        BY <3>3, <3>4, <4>1
      <4> QED
        BY <4>1, <4>2
    <3>6. PICK body \in Seq(Letters) : body = json_body(msg, room) /\ Len(body) <= room
      BY BodyIsLongest
    <3>7. alert_json(key, msg) = [code |-> code, message |-> body]
      BY <3>4, <3>5, <3>6 DEF alert_json
    <3>8. PICK a : a = alert_json(key, msg)
      OBVIOUS
    <3>9. a.code = code /\ a.message = body
      BY <3>7, <3>8
    <3>10. FRAME + Len(code) + Len(body) <= ALERT_MAX
      BY <3>3, <3>4, <3>5, <3>6
    <3>11. Faithful(code, key, CODE_MAX) /\ Faithful(body, msg, room)
      BY <3>3, <3>4, <3>6, BodyIsFaithful
    <3>12. /\ FRAME + Len(a.code) + Len(a.message) <= ALERT_MAX
           /\ Faithful(a.code, key, CODE_MAX)
           /\ Faithful(a.message, msg, ALERT_MAX - FRAME - Len(a.code))
      BY <3>5, <3>9, <3>10, <3>11
    <3> QED
      BY <3>1, <3>2, <3>8, <3>12
  <2> QED
    BY <2>1, <2>2, <2>3 DEF TextReadsBack
<1> QED
  BY <1>1, TextType, PTL

-----------------------------------------------------------------------------
(* The primes of a rules file *)

\* A divisor of n has a multiple that is n, and the other way round.
LEMMA Multiples ==
    ASSUME NEW n \in Nat, NEW d \in Nat, d > 0
    PROVE  (n % d = 0) <=> (\E q \in Nat : n = d * q)
<1>1. n \div d \in Nat /\ n % d \in Nat /\ n = d * (n \div d) + (n % d)
  OBVIOUS
<1>2. ASSUME n % d = 0
      PROVE  n = d * (n \div d)
  BY <1>1, <1>2
<1>3. ASSUME NEW q \in Nat, n = d * q
      PROVE  n % d = 0
  BY <1>3
<1> QED
  BY <1>1, <1>2, <1>3

\* Nothing is left over.
Divides(d, n) == n % d = 0

\* What divides a divisor of n divides n.
LEMMA DivisorsOfDivisors ==
    ASSUME NEW n \in Nat, NEW d \in Nat, NEW c \in Nat, c > 0, d > 0, Divides(d, n), Divides(c, d)
    PROVE  Divides(c, n)
<1>1. PICK q \in Nat : n = d * q
  BY Multiples DEF Divides
<1>2. PICK p \in Nat : d = c * p
  BY Multiples DEF Divides
<1>3. p * q \in Nat /\ n = c * (p * q)
  BY <1>1, <1>2
<1> QED
  BY <1>3, Multiples DEF Divides

\* A composite number has a divisor that is no more than its root.
LEMMA SmallDivisor ==
    ASSUME NEW n \in Nat, NEW d \in 2..(n - 1), n % d = 0
    PROVE  \E e \in 2..(n - 1) : n % e = 0 /\ e * e <= n
<1>1. PICK q \in Nat : n = d * q
  BY Multiples
<1>2. q >= 2
  <2>1. q = 0 => n = 0
    BY <1>1
  <2>2. q = 1 => n = d
    BY <1>1
  <2> QED
    BY <2>1, <2>2
<1>3. q < n
  <2>1. d * q >= 2 * q
    OBVIOUS
  <2> QED
    BY <1>1, <1>2, <2>1
<1>4. n % q = 0
  <2>1. n = q * d /\ d \in Nat /\ q > 0
    BY <1>1, <1>2
  <2> QED
    BY <2>1, Multiples
<1>5. CASE d <= q
  <2>1. d * d <= d * q
    BY <1>5
  <2> QED
    BY <1>1, <2>1
<1>6. CASE q <= d
  <2>1. q * q <= d * q
    BY <1>6
  <2>2. q \in 2..(n - 1)
    BY <1>2, <1>3
  <2> QED
    BY <1>1, <1>4, <2>1, <2>2
<1> QED
  BY <1>5, <1>6

\* No number between 1 and n divides n.
Indivisible(n) == n > 1 /\ \A d \in 2..(n - 1) : n % d # 0

\* Trial division by 6k - 1 and 6k + 1, up to a half and one past the root,
\* finds a divisor if there is one, and takes no prime for its own divisor.
LEMMA TrialDivision ==
    ASSUME NEW n \in Nat
    PROVE  math_isPrime(n) <=> Indivisible(n)
<1>1. ASSUME math_isPrime(n)
      PROVE  Indivisible(n)
  <2>1. CASE n = 2 \/ n = 3
    <3>1. 3 % 2 # 0
      OBVIOUS
    <3>2. \A d \in 2..(n - 1) : n = 3 /\ d = 2
      BY <2>1
    <3> QED
      BY <2>1, <3>1, <3>2 DEF Indivisible
  <2>2. CASE ~(n = 2 \/ n = 3)
    <3>1. /\ n > 1 /\ n % 2 # 0 /\ n % 3 # 0
          /\ \A k \in 1..n : LET x == 6 * k IN
                (2 * x - 3) * (2 * x - 3) <= 4 * n => n % (x - 1) # 0 /\ n % (x + 1) # 0
      BY <1>1, <2>2 DEF math_isPrime
    <3> SUFFICES ASSUME NEW d \in 2..(n - 1), n % d = 0
                 PROVE  FALSE
      BY <3>1 DEF Indivisible
    <3>2. PICK e \in 2..(n - 1) : n % e = 0 /\ e * e <= n
      BY SmallDivisor
    <3>3. e % 2 # 0 /\ e % 3 # 0
      <4>1. e \in Nat /\ e > 0
        OBVIOUS
      <4>2. e % 2 = 0 => n % 2 = 0
        <5>1. Divides(e, n) /\ 2 \in Nat /\ 2 > 0
          BY <3>2 DEF Divides
        <5>2. Divides(2, e) => Divides(2, n)
          BY <4>1, <5>1, DivisorsOfDivisors
        <5> QED
          BY <5>2 DEF Divides
      <4>3. e % 3 = 0 => n % 3 = 0
        <5>1. Divides(e, n) /\ 3 \in Nat /\ 3 > 0
          BY <3>2 DEF Divides
        <5>2. Divides(3, e) => Divides(3, n)
          BY <4>1, <5>1, DivisorsOfDivisors
        <5> QED
          BY <5>2 DEF Divides
      <4> QED
        BY <3>1, <4>2, <4>3
    <3>4. e % 6 = 1 \/ e % 6 = 5
      BY <3>3
    <3>5. CASE e % 6 = 5
      <4>1. PICK k \in Nat : e = 6 * k + 5
        BY <3>5
      <4>2. k + 1 \in 1..n /\ 6 * (k + 1) - 1 = e
        BY <4>1
      <4>3. (2 * (6 * (k + 1)) - 3) * (2 * (6 * (k + 1)) - 3) <= 4 * n
        <5>1. 2 * (6 * (k + 1)) - 3 = 2 * e - 1
          BY <4>1
        <5>2. (2 * e - 1) * (2 * e - 1) = 4 * (e * e) - 4 * e + 1
          OBVIOUS
        <5>3. 4 * (e * e) <= 4 * n /\ e * e \in Nat
          BY <3>2
        <5> QED
          BY <5>1, <5>2, <5>3
      <4> QED
        BY <3>1, <3>2, <4>2, <4>3
    <3>6. CASE e % 6 = 1
      <4>1. PICK k \in Nat : e = 6 * k + 1
        BY <3>6
      <4>2. k \in 1..n /\ 6 * k + 1 = e
        BY <4>1
      <4>3. (2 * (6 * k) - 3) * (2 * (6 * k) - 3) <= 4 * n
        <5>1. 2 * (6 * k) - 3 = 2 * e - 5
          BY <4>1
        <5>2. (2 * e - 5) * (2 * e - 5) = 4 * (e * e) - 20 * e + 25
          OBVIOUS
        <5>3. 4 * (e * e) <= 4 * n /\ e * e \in Nat
          BY <3>2
        <5> QED
          BY <5>1, <5>2, <5>3
      <4> QED
        BY <3>1, <3>2, <4>2, <4>3
    <3> QED
      BY <3>4, <3>5, <3>6
  <2> QED
    BY <2>1, <2>2
<1>2. ASSUME Indivisible(n)
      PROVE  math_isPrime(n)
  <2>1. CASE n = 2 \/ n = 3
    BY <2>1 DEF math_isPrime
  <2>2. CASE ~(n = 2 \/ n = 3)
    <3>1. n > 3 /\ n % 2 # 0 /\ n % 3 # 0
      BY <1>2, <2>2 DEF Indivisible
    <3>2. ASSUME NEW k \in 1..n, (2 * (6 * k) - 3) * (2 * (6 * k) - 3) <= 4 * n
          PROVE  n % (6 * k - 1) # 0 /\ n % (6 * k + 1) # 0
      <4>1. PICK y \in Nat : y = 2 * (6 * k) - 3 /\ y >= 9
        OBVIOUS
      <4>2. y * y >= 9 * y
        BY <4>1
      <4>3. 9 * (2 * (6 * k) - 3) <= 4 * n
        BY <3>2, <4>1, <4>2
      <4>4. 6 * k - 1 \in 2..(n - 1) /\ 6 * k + 1 \in 2..(n - 1)
        BY <4>3
      <4> QED
        BY <1>2, <4>4 DEF Indivisible
    <3> QED
      BY <3>1, <3>2 DEF math_isPrime
  <2> QED
    BY <2>1, <2>2
<1> QED
  BY <1>1, <1>2

\* A set of two has cardinality two, and only one of at least three has more.
LEMMA TwoDivisors ==
    ASSUME NEW n \in Nat
    PROVE  Indivisible(n) <=> (Cardinality({d \in 1..n : n % d = 0}) = 2)
<1> DEFINE D == {d \in 1..n : n % d = 0}
<1>0. IsFiniteSet(D)
  <2>1. IsFiniteSet(1..n) /\ D \subseteq 1..n
    BY FS_Interval
  <2> QED
    BY <2>1, FS_Subset
<1>1. ASSUME n > 1
      PROVE  1 \in D /\ n \in D /\ 1 # n
  BY <1>1
<1>2. \A a, b : a # b => Cardinality({a, b}) = 2 /\ IsFiniteSet({a, b})
  <2> SUFFICES ASSUME NEW a, NEW b, a # b
               PROVE  Cardinality({a, b}) = 2 /\ IsFiniteSet({a, b})
    OBVIOUS
  <2>1. IsFiniteSet({a}) /\ Cardinality({a}) = 1 /\ b \notin {a} /\ {a} \cup {b} = {a, b}
    BY FS_Singleton
  <2> QED
    BY <2>1, FS_AddElement
<1>3. ASSUME Indivisible(n)
      PROVE  Cardinality(D) = 2
  <2>1. D = {1, n}
    BY <1>3 DEF Indivisible
  <2>2. Cardinality({1, n}) = 2
    BY <1>1, <1>2, <1>3 DEF Indivisible
  <2> QED
    BY <2>1, <2>2
<1>4. ASSUME ~Indivisible(n)
      PROVE  Cardinality(D) # 2
  <2>1. CASE n <= 1
    <3>1. D \subseteq {1}
      BY <2>1
    <3>2. Cardinality(D) <= 1
      <4>1. IsFiniteSet({1}) /\ Cardinality({1}) = 1
        BY FS_Singleton
      <4> HIDE DEF D
      <4> QED
        BY <3>1, <4>1, FS_Subset
    <3>3. Cardinality(D) \in Nat
      BY <1>0, FS_CardinalityType
    <3> QED
      BY <3>2, <3>3
  <2>2. CASE n > 1
    <3>1. PICK d \in 2..(n - 1) : n % d = 0
      BY <1>4, <2>2 DEF Indivisible
    <3>2. d \in D /\ d # 1 /\ d # n
      BY <3>1
    <3>3. Cardinality({1, n} \cup {d}) = 3
      <4>1. d \notin {1, n} /\ Cardinality({1, n}) = 2 /\ IsFiniteSet({1, n})
        BY <1>1, <1>2, <2>2, <3>2
      <4> QED
        BY <4>1, FS_AddElement
    <3>4. {1, n} \cup {d} \subseteq D
      BY <1>1, <2>2, <3>2
    <3>5. Cardinality(D) >= 3
      BY <1>0, <3>3, <3>4, FS_Subset
    <3>6. Cardinality(D) \in Nat
      BY <1>0, FS_CardinalityType
    <3> QED
      BY <3>5, <3>6
  <2> QED
    BY <2>1, <2>2
<1> QED
  BY <1>3, <1>4

\* The trial division of math_isPrime, which leaves out the multiples of 2 and 3
\* and stops soon after the root, is right for every number.
THEOREM PrimesHaveTwoDivisors ==
    \A n \in Nat : math_isPrime(n) <=> (Cardinality({d \in 1..n : n % d = 0}) = 2)
BY TrialDivision, TwoDivisors
=============================================================================
