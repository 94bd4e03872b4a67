---------------------------- MODULE RuleRuntime -----------------------------
(***************************************************************************)
(* The Lua that the visual rule editor generates (static/js/blockly-rules) *)
(* as the device runs it: the preamble with its cooldown and streak tables *)
(* and the code of the condition and notify blocks.  The EventBus hands    *)
(* every reading to the conditions subscribed to it, in file order.        *)
(*                                                                         *)
(* The firmware around it (EventBus, Node.uptime, Telegram, lua.reload) is *)
(* external and modelled by how the generated code uses it.                *)
(***************************************************************************)
EXTENDS Integers, Sequences

CONSTANTS
    Files,            \* rules files, each the sequence of its conditions, see RuleType
    Sources,          \* sensors and channels
    Levels,           \* readings, as levels a threshold can tell apart
    TEMP_SUSTAIN,     \* 5 in the code
    TEMP_SUSTAIN_MS,  \* 300000 in the code
    COOLDOWN_MS,      \* 900000 in the code
    Delays,           \* how long after an event the next one may come
    MaxTime           \* bound on the uptime

Nil == -1             \* an absent table entry, a missing (stale) value
Kinds == {"temp", "temp_now", "current", "battery"}

\* A condition block: what it listens to, the key its code computes, its
\* threshold and operator, how many readings it wants and how many notify
\* blocks its branch holds.
RuleType == [kind : Kinds, src : Sources, key : STRING, op : {">=", "<="},
             thresh : Levels, count : Nat \ {0}, notes : Nat \ {0}]

ASSUME RulesAssumption ==
    /\ Files \subseteq Seq(RuleType)
    /\ Levels \subseteq Nat /\ Delays \subseteq Nat \ {0}
    /\ {TEMP_SUSTAIN, TEMP_SUSTAIN_MS, COOLDOWN_MS, MaxTime} \subseteq Nat \ {0}

Events == {"temperature", "current", "battery"}
EventOf(r) == IF r.kind \in {"temp", "temp_now"} THEN "temperature" ELSE r.kind

VARIABLES
    rules,      \* the file that is loaded
    now,        \* Node.uptime()
    tab,        \* tab[key]: sustain, temp_sustain_start, temp_seen, temp_gap, cooldown
    fired,      \* the notify calls of the last event: <<rule, note, telegram ok>>
    watch,      \* watch[i]: what an observer of rule i's readings has seen, for the properties
    acked       \* acked[key]: when Telegram last took an alert of the key

vars == <<rules, now, tab, fired, watch, acked>>

Keys == {rules[i].key : i \in DOMAIN rules}

Fresh == [sustain |-> 0, start |-> Nil, seen |-> Nil, gap |-> Nil, cooldown |-> Nil]
Unseen == [over |-> 0, since |-> Nil, last |-> Nil, shortest |-> Nil, quiet |-> 0]

\* What an observer knows and what the tables hold when rules.lua is run.
Loaded(file) ==
    [tab |-> [k \in {file[i].key : i \in DOMAIN file} |-> Fresh],
     watch |-> [i \in DOMAIN file |-> Unseen],
     acked |-> [k \in {file[i].key : i \in DOMAIN file} |-> Nil]]

Init ==
    /\ rules \in Files
    /\ now = 0
    /\ tab = Loaded(rules).tab
    /\ watch = Loaded(rules).watch
    /\ acked = Loaded(rules).acked
    /\ fired = {}

-----------------------------------------------------------------------------
(* The preamble.  t is the row of one key, at the uptime n. *)

can_alert(t, n) == t.cooldown = Nil \/ n - t.cooldown >= COOLDOWN_MS

temp_clear(t) == [t EXCEPT !.sustain = 0, !.start = Nil]

\* One more reading over the threshold; a streak that is long enough starts
\* over whether or not the key may alert.
temp_sustained(t, n) ==
    LET u == [t EXCEPT !.sustain = @ + 1, !.start = IF @ = Nil THEN n ELSE @]
        reached == u.sustain >= TEMP_SUSTAIN \/ n - u.start >= TEMP_SUSTAIN_MS IN
    [row |-> IF reached THEN temp_clear(u) ELSE u, due |-> reached /\ can_alert(t, n)]

\* The silence a streak survives: 5 min, or 3 of the shortest gaps seen.
GapLimit(shortest) == IF 3 * shortest > TEMP_SUSTAIN_MS THEN 3 * shortest ELSE TEMP_SUSTAIN_MS

\* A streak that no silence ends.
temp_streak_gapless(t, over, n) ==
    LET g == n - t.seen
        u == IF t.seen = Nil THEN t ELSE [t EXCEPT !.gap = IF @ = Nil \/ g < @ THEN g ELSE @]
        v == [u EXCEPT !.seen = n] IN
    IF over THEN temp_sustained(v, n) ELSE [row |-> temp_clear(v), due |-> FALSE]

temp_streak(t, over, n) ==
    LET g == n - t.seen
        u == IF t.seen = Nil THEN t
             ELSE [(IF g > GapLimit(t.gap) THEN temp_clear(t) ELSE t)
                     EXCEPT !.gap = IF @ = Nil \/ g < @ THEN g ELSE @]
        v == [u EXCEPT !.seen = n] IN
    IF over THEN temp_sustained(v, n) ELSE [row |-> temp_clear(v), due |-> FALSE]

-----------------------------------------------------------------------------
(* The code of the condition blocks *)

Meets(r, x) == x # Nil /\ IF r.op = ">=" THEN x >= r.thresh ELSE x <= r.thresh

\* The code of the condition blocks gives the row afterwards and whether the
\* branch runs: if_temp with sustain and without, ...
if_temp(r, t, x, n) ==
    IF r.kind = "temp" THEN temp_streak(t, Meets(r, x), n)
    ELSE [row |-> t, due |-> Meets(r, x) /\ can_alert(t, n)]

\* ... if_current, which resets its count only after the branch, so it keeps
\* counting while the key cools down, ...
if_current(r, t, x, n) ==
    LET c == [t EXCEPT !.sustain = @ + 1]
        due == c.sustain >= r.count /\ can_alert(t, n) IN
    IF Meets(r, x) THEN [row |-> IF due THEN [c EXCEPT !.sustain = 0] ELSE c, due |-> due]
    ELSE [row |-> [t EXCEPT !.sustain = 0], due |-> FALSE]

\* ... and if_battery.
if_battery(r, t, x, n) == [row |-> t, due |-> Meets(r, x) /\ can_alert(t, n)]

\* The generator of the block's type.
Condition(r, t, x, n) ==
    CASE r.kind \in {"temp", "temp_now"} -> if_temp(r, t, x, n)
      [] r.kind = "current" -> if_current(r, t, x, n)
      [] r.kind = "battery" -> if_battery(r, t, x, n)

\* A notify that starts the cooldown even when Telegram did not take the alert.
notify_deaf(t, n, oks) == [t EXCEPT !.cooldown = n]

\* A notify that starts the cooldown only when Telegram took all of them.
notify_all(t, n, oks) == IF oks = {TRUE} THEN [t EXCEPT !.cooldown = n] ELSE t

\* The notify calls of a branch: the cooldown starts if Telegram took one of
\* them (or there is no Telegram); can_alert is not asked again in between.
notify(t, n, oks) == IF TRUE \in oks THEN [t EXCEPT !.cooldown = n] ELSE t

\* Rule i on its reading x; lost is the set of notify calls Telegram refuses.
RunRule(acc, i, x, n, lost) ==
    LET r == rules[i]
        c == Condition(r, acc.tab[r.key], x, n)
        oks == {<<i, j>> \notin lost : j \in 1..r.notes} IN
    IF c.due
    THEN [tab |-> [acc.tab EXCEPT ![r.key] = notify(c.row, n, oks)],
          fired |-> acc.fired \cup {<<i, j, <<i, j>> \notin lost>> : j \in 1..r.notes}]
    ELSE [tab |-> [acc.tab EXCEPT ![r.key] = c.row], fired |-> acc.fired]

-----------------------------------------------------------------------------
(* The observer: the readings of a rule that met its condition in a row,     *)
(* since when, and how many of them in a row brought no alert although the   *)
(* key was not cooling down.                                                 *)

Need(r) == CASE r.kind = "temp" -> TEMP_SUSTAIN [] r.kind = "current" -> r.count [] OTHER -> 1

Cooling(a, n) == a # Nil /\ n - a < COOLDOWN_MS

Watch(i, w, x, n, excused) ==
    LET r == rules[i]
        g == n - w.last
        broken == \/ w.over = 0
                  \/ r.kind = "temp" /\ g > GapLimit(w.shortest)
        meets == Meets(r, x) IN
    [over |-> IF ~meets THEN 0 ELSE IF broken THEN 1
              ELSE IF w.over < Need(r) THEN w.over + 1 ELSE w.over,
     since |-> IF ~meets THEN Nil ELSE IF broken THEN n ELSE w.since,
     last |-> n,
     shortest |-> IF w.last = Nil THEN Nil ELSE IF w.shortest = Nil \/ g < w.shortest THEN g ELSE w.shortest,
     quiet |-> IF ~meets \/ excused THEN 0
               ELSE IF broken THEN 1 ELSE w.quiet + 1]

-----------------------------------------------------------------------------

\* The rules subscribed to the event that find their source among the readings;
\* a source that is not carried is not looped over.
Concerned(e, data) == {i \in DOMAIN rules : EventOf(rules[i]) = e /\ rules[i].src \in DOMAIN data}

\* The handlers in file order: what the first k rules have left.
Handled(mine, data, n, lost) ==
    LET run[k \in 0..Len(rules)] ==
            IF k = 0 THEN [tab |-> tab, fired |-> {}]
            ELSE IF k \in mine THEN RunRule(run[k - 1], k, data[rules[k].src], n, lost)
            ELSE run[k - 1] IN
    run

\* An event: readings of the sources it carries, Nil for a stale one.
Reading(e, d, data, lost) ==
    LET n == now + d
        mine == Concerned(e, data)
        res == Handled(mine, data, n, lost)[Len(rules)] IN
    /\ n <= MaxTime
    /\ now' = n
    /\ UNCHANGED rules
    /\ tab' = res.tab
    /\ fired' = res.fired
    /\ lost \subseteq {<<f[1], f[2]>> : f \in fired'}
    /\ acked' = [k \in Keys |->
                    IF \E f \in res.fired : rules[f[1]].key = k /\ f[3] THEN n ELSE acked[k]]
    /\ watch' = [i \in DOMAIN rules |->
                    IF i \in mine
                    THEN Watch(i, watch[i], data[rules[i].src], n,
                               \/ \E f \in res.fired : f[1] = i
                               \/ Cooling(acked[rules[i].key], n)
                               \/ Cooling(acked'[rules[i].key], n))
                    ELSE watch[i]]

\* lua.reload runs the file last pushed: every table is empty, the uptime goes on.
Reload(file) ==
    /\ rules' = file
    /\ tab' = Loaded(file).tab
    /\ watch' = Loaded(file).watch
    /\ acked' = Loaded(file).acked
    /\ fired' = {}
    /\ UNCHANGED now

Data(e) ==
    LET S == {rules[i].src : i \in {j \in DOMAIN rules : EventOf(rules[j]) = e}} IN
    {f \in UNION {[T -> Levels \cup {Nil}] : T \in SUBSET S} : DOMAIN f # {}}

Notes(e) == UNION {{i} \X (1..rules[i].notes) : i \in {j \in DOMAIN rules : EventOf(rules[j]) = e}}

Next ==
    \/ \E e \in Events, d \in Delays : \E data \in Data(e), lost \in SUBSET Notes(e) : Reading(e, d, data, lost)
    \/ \E file \in Files : Reload(file)

Spec == Init /\ [][Next]_vars

-----------------------------------------------------------------------------
(* What must hold *)

\* While a file stays loaded, an alert comes no sooner than the cooldown after the
\* last alert of its key that Telegram took, whichever rules share the key; only
\* the other notify blocks of the same branch are exempt.  A reload forgets the
\* cooldown, since its table is a local of the file (can_alert, set_cooldown).
CooldownHeld ==
    [][\A f \in fired' :
         LET k == rules[f[1]].key IN
         /\ acked[k] = Nil \/ now' - acked[k] >= COOLDOWN_MS
         /\ \A g \in fired' : rules[g[1]].key = k /\ g[1] < f[1] => ~g[3]]_vars

\* An alert was earned: the rule's condition held for the readings it asks for
\* in a row (for a sustained temperature: or for the time it asks for), with no
\* stale or lower reading and no long silence since the first of them.  So the
\* tooltip of if_temp has it, without exception; it holds of files in which no
\* counting block shares its key with another counting block, and fails of a
\* file with one sustained condition twice, as both count into one row
\* (temp_sustained).
AlertEarned ==
    \A f \in fired :
        LET i == f[1] IN
        \/ watch[i].over >= Need(rules[i])
        \/ rules[i].kind = "temp" /\ watch[i].over > 0 /\ now - watch[i].since >= TEMP_SUSTAIN_MS

\* No alert is missed: the readings a rule asks for never pass in a row without
\* an alert unless its key was cooling down (the same files as in AlertEarned).
NoMissedAlert == \A i \in DOMAIN rules : watch[i].quiet < Need(rules[i])
=============================================================================
