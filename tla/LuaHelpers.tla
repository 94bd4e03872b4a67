----------------------------- MODULE LuaHelpers -----------------------------
(***************************************************************************)
(* The Lua functions the generator writes into a rules file for the list,  *)
(* number and text blocks of Blockly (provideFunction_).  The page's       *)
(* toolbox offers none of these blocks, but they are registered, and a     *)
(* stored workspace or template that names one loads and generates it.     *)
(*                                                                         *)
(* The state is the input, a list that grows item by item.  It is read as  *)
(* a list of numbers, as a text (the items are then a space, an upper-case *)
(* letter and its lower-case form) and as the number its digits write.     *)
(* A needle or delimiter is not empty, as text_replace and                 *)
(* list_string_split never end on an empty one, and has no character that  *)
(* Lua patterns treat specially, as list_string_split does not ask for a   *)
(* plain search.                                                           *)
(***************************************************************************)
EXTENDS Integers, FiniteSets, Sequences, SequencesExt

CONSTANT MaxList   \* bound on the length of the list

ASSUME ListAssumption == MaxList \in Nat

VARIABLE list

Items == 0..2
Space == 0
upper(c) == IF c = 2 THEN 1 ELSE c
lower(c) == IF c = 1 THEN 2 ELSE c

\* string.sub, and string.find with a plain pattern; 0 stands for nil.
sub(s, i, j) == SubSeq(s, i, Min({j, Len(s)}))
find(s, substr, init) ==
    LET at == {i \in init..Len(s) + 1 - Len(substr) : sub(s, i, i + Len(substr) - 1) = substr} IN
    IF at = {} THEN 0 ELSE Min(at)

-----------------------------------------------------------------------------
(* Lists *)

create_list_repeated(item, count) == [i \in 1..count |-> item]

first_index(t, elem) == SelectInSeq(t, LAMBDA v : v = elem)

last_index(t, elem) == SelectLastInSeq(t, LAMBDA v : v = elem)

\* FIRST, LAST, FROM_START and FROM_END; RANDOM is left out.
getListIndex(t, where, at) ==
    CASE where = "FIRST" -> 1
      [] where = "LAST" -> Len(t)
      [] where = "FROM_END" -> Len(t) + 1 - at
      [] where = "FROM_START" -> at

\* A position outside the list is nil, and inserting nil adds nothing.
list_sublist(source, where1, at1, where2, at2) ==
    LET start == getListIndex(source, where1, at1)
        finish == getListIndex(source, where2, at2) IN
    SubSeq(source, Max({start, 1}), Min({finish, Len(source)}))

\* table.sort may order equal items either way; they are kept in place here.
compareFuncs(typev, a, b) ==
    CASE typev = "NUMERIC" -> a < b
      [] typev = "TEXT" -> a < b
      [] typev = "IGNORE_CASE" -> lower(a) < lower(b)
list_sort(t, typev, direction) ==
    SortSeq(t, LAMBDA a, b : IF direction = -1 THEN compareFuncs(typev, b, a) ELSE compareFuncs(typev, a, b))

list_string_split(input, delim) ==
    LET pieces[pos \in 1..Len(input) + 1] ==
            LET next_delim == find(input, delim, pos) IN
            IF next_delim = 0 THEN <<sub(input, pos, Len(input))>>
            ELSE <<sub(input, pos, next_delim - 1)>> \o pieces[next_delim + Len(delim)] IN
    pieces[1]

list_reverse(input) == [i \in DOMAIN input |-> input[Len(input) + 1 - i]]

-----------------------------------------------------------------------------
(* Numbers *)

\* Trial division by 6k - 1 and 6k + 1 that stops at the root itself.
math_isPrime_short(n) ==
    \/ n \in {2, 3}
    \/ /\ n > 1 /\ n % 2 # 0 /\ n % 3 # 0
       /\ \A x \in {6 * k : k \in 1..n} : x * x <= n => n % (x - 1) # 0 /\ n % (x + 1) # 0

\* x goes up to the root and a half more than one: (2x - 3)^2 <= 4n.
math_isPrime(n) ==
    \/ n \in {2, 3}
    \/ /\ n > 1 /\ n % 2 # 0 /\ n % 3 # 0
       /\ \A x \in {6 * k : k \in 1..n} : (2 * x - 3) * (2 * x - 3) <= 4 * n => n % (x - 1) # 0 /\ n % (x + 1) # 0

math_sum(t) == FoldLeft(LAMBDA result, v : result + v, 0, t)

math_min(t) == IF t = <<>> THEN 0 ELSE FoldLeft(LAMBDA result, v : IF v < result THEN v ELSE result, t[1], t)

math_max(t) == IF t = <<>> THEN 0 ELSE FoldLeft(LAMBDA result, v : IF v > result THEN v ELSE result, t[1], t)

\* A fraction, as its numerator and denominator.
math_average(t) == IF t = <<>> THEN <<0, 1>> ELSE <<math_sum(t), Len(t)>>

\* Every item is a number here.
math_median(t) ==
    LET temp == SortSeq(t, <)
        half == Len(temp) \div 2 IN
    IF t = <<>> THEN <<0, 1>>
    ELSE IF Len(temp) % 2 = 0 THEN <<temp[half] + temp[half + 1], 2>>
    ELSE <<temp[half + 1], 1>>

\* In no particular order: pairs visits the counts in any.
math_modes(t) ==
    LET counts == FoldLeft(LAMBDA c, v : [x \in DOMAIN c \cup {v} |->
                                            IF x # v THEN c[x] ELSE IF v \in DOMAIN c THEN c[v] + 1 ELSE 1],
                           <<>>, t)
        biggestCount == Max({counts[v] : v \in DOMAIN counts} \cup {0}) IN
    {v \in DOMAIN counts : counts[v] = biggestCount}

-----------------------------------------------------------------------------
(* Text *)

firstIndexOf(str, substr) == find(str, substr, 1)

lastIndexOf(str, substr) ==
    LET i == find(Reverse(str), Reverse(substr), 1) IN
    IF i = 0 THEN 0 ELSE Len(str) + 2 - i - Len(substr)

text_char_at(str, index) == sub(str, index, index)

text_titlecase(str) ==
    FoldLeft(LAMBDA s, c : IF s.inWord THEN [buf |-> Append(s.buf, lower(c)), inWord |-> c # Space]
                           ELSE [buf |-> Append(s.buf, upper(c)), inWord |-> TRUE],
             [buf |-> <<>>, inWord |-> FALSE], str).buf

text_count(haystack, needle) ==
    LET count[i \in 1..Len(haystack) + 1] ==
            LET at == find(haystack, needle, i) IN IF at = 0 THEN 0 ELSE 1 + count[at + Len(needle)] IN
    IF needle = <<>> THEN Len(haystack) + 1 ELSE count[1]

text_replace(haystack, needle, replacement) ==
    LET rest[i \in 1..Len(haystack) + 1] ==
            IF i > Len(haystack) THEN <<>>
            ELSE IF sub(haystack, i, i + Len(needle) - 1) = needle THEN replacement \o rest[i + Len(needle)]
            ELSE sub(haystack, i, i) \o rest[i + 1] IN
    rest[1]

-----------------------------------------------------------------------------

ListInit == list = <<>>

Extend(item) == Len(list) < MaxList /\ list' = Append(list, item)

ListNext == \E item \in Items : Extend(item)

-----------------------------------------------------------------------------
(* What must hold *)

Needles == UNION {[1..n -> Items] : n \in 1..2}

Join(pieces, by) == FoldLeft(LAMBDA acc, p : acc \o by \o p, Head(pieces), Tail(pieces))

\* The functions agree with one another.  Splitting and joining gives the text
\* back, replacing is splitting and joining with something else, and counting
\* counts the cuts; the last occurrence is the first one of the mirrored text
\* (list_string_split, text_replace, text_count, firstIndexOf, lastIndexOf).
TextHelpersAgree ==
    /\ text_count(list, <<>>) = Len(list) + 1
    /\ \A needle \in Needles :
        LET pieces == list_string_split(list, needle)
            first == firstIndexOf(list, needle)
            last == lastIndexOf(list, needle) IN
        /\ Join(pieces, needle) = list
        /\ \A i \in DOMAIN pieces : firstIndexOf(pieces[i], needle) = 0
        /\ text_count(list, needle) = Len(pieces) - 1
        /\ \A by \in Needles \cup {<<>>} : text_replace(list, needle, by) = Join(pieces, by)
        /\ first <= last /\ (first = 0) = (last = 0)
        /\ last > 0 => sub(list, last, last + Len(needle) - 1) = needle /\ find(list, needle, last + 1) = 0

\* Words one space apart, none before the first, begin with upper case and go on
\* in lower case (text_titlecase).  Elsewhere a further space begins a word.
TitleOfWords ==
    (\A i \in DOMAIN list : list[i] = Space => i > 1 /\ list[i - 1] # Space) =>
        \A i \in DOMAIN list :
            text_char_at(text_titlecase(list), i)
                = <<IF i = 1 \/ list[Max({i, 2}) - 1] = Space THEN upper(list[i]) ELSE lower(list[i])>>

\* The list functions are mirror images of one another: an item counted from
\* the end is one counted from the start of the reversed list, a descending sort
\* is an ascending one reversed, and a list repeated is its own mirror image
\* (getListIndex, list_sublist, first_index, last_index, list_sort).
ListHelpersMirror ==
    LET mirrored == list_reverse(list)
        Ends == {"FROM_START", "FROM_END", "FIRST", "LAST"}
        other == [FROM_START |-> "FROM_END", FROM_END |-> "FROM_START", FIRST |-> "LAST", LAST |-> "FIRST"] IN
    /\ \A v \in Items : last_index(list, v) = (IF first_index(mirrored, v) = 0 THEN 0
                                               ELSE Len(list) + 1 - first_index(mirrored, v))
    /\ \A w1 \in Ends, w2 \in Ends, at1 \in 0..Len(list) + 1, at2 \in 0..Len(list) + 1 :
        list_reverse(list_sublist(list, w1, at1, w2, at2)) = list_sublist(mirrored, other[w2], at2, other[w1], at1)
    /\ list_sort(list, "NUMERIC", -1) = list_reverse(list_sort(list, "NUMERIC", 1))
    /\ \A i, j \in DOMAIN list : i < j => LET s == list_sort(list, "IGNORE_CASE", -1) IN lower(s[i]) >= lower(s[j])
    /\ \A v \in Items : list_reverse(create_list_repeated(v, Len(list))) = create_list_repeated(v, Len(list))

\* The statistics lie where their definitions put them: minimum, median, mode
\* and average between the extremes, the median with half of the list on either
\* side, a mode no other item beats; and trial division finds exactly the
\* numbers with two divisors (math_min to math_modes, math_isPrime).
NumberHelpersDefine ==
    LET Count(P(_)) == Cardinality({i \in DOMAIN list : P(list[i])})
        n == FoldLeft(LAMBDA acc, d : 3 * acc + d, 0, list)
        lo == math_min(list)
        hi == math_max(list)
        avg == math_average(list)
        med == math_median(list)
        modes == math_modes(list) IN
    /\ lo * avg[2] <= avg[1] /\ avg[1] <= hi * avg[2]
    /\ 2 * Count(LAMBDA v : v * med[2] < med[1]) <= Len(list)
    /\ 2 * Count(LAMBDA v : v * med[2] > med[1]) <= Len(list)
    /\ (modes = {}) = (list = <<>>)
    /\ \A v \in modes, w \in Items : Count(LAMBDA x : x = v) >= Count(LAMBDA x : x = w)
    /\ math_isPrime(n) = (Cardinality({d \in 1..n : n % d = 0}) = 2)

\* All of it: for every input up to the bound the helper functions of a rules
\* file do what their blocks say, each checked against the others or its
\* definition (provideFunction_).
HelpersAgree == TextHelpersAgree /\ TitleOfWords /\ ListHelpersMirror /\ NumberHelpersDefine
=============================================================================
