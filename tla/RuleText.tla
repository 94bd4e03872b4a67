------------------------------ MODULE RuleText ------------------------------
(***************************************************************************)
(* The text the rule editor and its generated rules write, and what reads  *)
(* it back:                                                                *)
(*   - a field of a block becomes a Lua string literal (esc) that the      *)
(*     device's Lua reads;                                                 *)
(*   - an alert becomes a JSON body of bounded size (json_body,            *)
(*     alert_json in the preamble) that the server reads.                  *)
(*                                                                         *)
(* Text is a sequence of byte classes.  The state is the input, a text     *)
(* that grows byte by byte, so that every text up to the bound is visited. *)
(***************************************************************************)
EXTENDS Naturals, Sequences

CONSTANTS
    ALERT_MAX,   \* 255 in the code: the device's offline queue slot
    CODE_MAX,    \* 64 in the code
    FRAME,       \* bytes of the alert's JSON around code and message
    MaxText      \* bound on the length of the text

ASSUME TextAssumption ==
    /\ {ALERT_MAX, CODE_MAX, FRAME, MaxText} \subseteq Nat
    /\ FRAME + CODE_MAX <= ALERT_MAX

\* NUL; 34; 92; 10 and 13, which end a line; other bytes below 32, and 127;
\* 128-191; anything else.
Bytes == {"nul", "quote", "bslash", "eol", "ctrl", "cont", "plain"}

\* What the escapes of JSON add to them: the last digit of a \u00xx tells
\* whether it stands for a line break.
Letters == Bytes \cup {"u", "hex", "eolhex"}

VARIABLE text

\* What a loop over s makes of start: step[state][element] is the next state.
Run(step, start, s) ==
    LET after[k \in 0..Len(s)] == IF k = 0 THEN start ELSE step[after[k - 1]][s[k]] IN after[Len(s)]

-----------------------------------------------------------------------------
(* Lua string literals *)

Replace(s, b, by) ==
    Run([acc \in Seq(Bytes) |-> [c \in Bytes |-> acc \o (IF c = b THEN by ELSE <<c>>)]], <<>>, s)

esc(s) == Replace(Replace(s, "bslash", <<"bslash", "bslash">>), "quote", <<"bslash", "quote">>)

\* A reader of a string: what it expects next, and what it has read.
Reader == [mode : {"in", "escape", "hex", "end", "broken"}, more : 0..4, text : Seq(Bytes)]
Inside(t) == [mode |-> "in", more |-> 0, text |-> t]

Opened == Inside(<<>>)

Took(r, b) == Inside(Append(r.text, b))

\* Lua reads the characters after the opening quote, up to the closing one.
\* Only the escapes esc writes are needed; any other is a failure, and so is
\* a line break inside the quotes ("unfinished string") and what follows the
\* closing quote.
LuaRead ==
    [r \in Reader |-> [b \in Bytes |->
        CASE r.mode = "in" /\ b = "quote" -> [r EXCEPT !.mode = "end"]
          [] r.mode = "in" /\ b = "bslash" -> [r EXCEPT !.mode = "escape"]
          [] r.mode = "in" /\ b \notin {"quote", "bslash", "eol"} -> Took(r, b)
          [] r.mode = "escape" /\ b \in {"quote", "bslash"} -> Took(r, b)
          [] OTHER -> [r EXCEPT !.mode = "broken"]]]

-----------------------------------------------------------------------------
(* The JSON body of an alert *)

Char == Seq(Bytes) \ {<<>>}

\* The matches of ".[\128-\191]*": a byte and the continuation bytes behind it.
Chars(s) ==
    Run([cs \in Seq(Char) |-> [b \in Bytes |->
            IF cs = <<>> \/ b # "cont" THEN Append(cs, <<b>>) ELSE [cs EXCEPT ![Len(cs)] = Append(@, b)]]],
        <<>>, s)

\* NUL is dropped, a quote or backslash escaped, a control character written as \u00xx.
Escaped(ch) ==
    CASE Head(ch) = "nul" -> Tail(ch)
      [] Head(ch) \in {"quote", "bslash"} -> <<"bslash">> \o ch
      [] Head(ch) = "ctrl" -> <<"bslash", "u", "hex", "hex", "hex", "hex">> \o Tail(ch)
      [] Head(ch) = "eol" -> <<"bslash", "u", "hex", "hex", "hex", "eolhex">> \o Tail(ch)
      [] OTHER -> ch

\* A body that leaves out what does not fit and goes on.
json_body_skips(s, max) ==
    Run([acc \in Seq(Letters) |-> [ch \in Char |->
            IF Len(acc) + Len(Escaped(ch)) > max THEN acc ELSE acc \o Escaped(ch)]],
        <<>>, Chars(s))

Body == [used : Nat, full : BOOLEAN, out : Seq(Letters)]

json_body(s, max) ==
    Run([acc \in Body |-> [ch \in Char |->
            IF acc.full \/ acc.used + Len(Escaped(ch)) > max THEN [acc EXCEPT !.full = TRUE]
            ELSE [acc EXCEPT !.used = @ + Len(Escaped(ch)), !.out = @ \o Escaped(ch)]]],
        [used |-> 0, full |-> FALSE, out |-> <<>>], Chars(s)).out

\* The code first, in at most CODE_MAX bytes; the message gets the room left.
alert_json(key, msg) ==
    LET code == json_body(key, CODE_MAX) IN
    [code |-> code, message |-> json_body(msg, ALERT_MAX - (FRAME + Len(code)))]

\* In a \u escape with n digits to come.
Expects(r, n) == [mode |-> "hex", more |-> n, text |-> r.text]

\* A JSON reader of the body of a string: a raw quote or control character, or
\* a broken escape, is a failure.
JsonRead ==
    [r \in Reader |-> [b \in Letters |->
        CASE r.mode = "in" /\ b \in {"cont", "plain"} -> Took(r, b)
          [] r.mode = "in" /\ b = "bslash" -> [r EXCEPT !.mode = "escape"]
          [] r.mode = "escape" /\ b \in {"quote", "bslash"} -> Took(r, b)
          [] r.mode = "escape" /\ b = "u" -> Expects(r, 4)
          [] r.mode = "hex" /\ r.more > 1 /\ b = "hex" -> Expects(r, r.more - 1)
          [] r.mode = "hex" /\ r.more = 1 /\ b = "hex" -> Took(r, "ctrl")
          [] r.mode = "hex" /\ r.more = 1 /\ b = "eolhex" -> Took(r, "eol")
          [] OTHER -> [r EXCEPT !.mode = "broken"]]]

-----------------------------------------------------------------------------

TextInit == text = <<>>

Type(b) == Len(text) < MaxText /\ text' = Append(text, b)

TextNext == \E b \in Bytes : Type(b)

TextSpec == TextInit /\ [][TextNext]_text

-----------------------------------------------------------------------------
(* What must hold *)

\* The text of some characters, what they are written as, and a text without NULs.
Flat(cs) == Run([acc \in Seq(Bytes) |-> [ch \in Char |-> acc \o ch]], <<>>, cs)
Written(cs) == Run([acc \in Seq(Letters) |-> [ch \in Char |-> acc \o Escaped(ch)]], <<>>, cs)
Kept(s) == Run([acc \in Seq(Bytes) |-> [b \in Bytes |-> IF b = "nul" THEN acc ELSE Append(acc, b)]], <<>>, s)

\* JSON reads the body as the longest run of whole characters of s that fits.
Faithful(body, s, max) ==
    LET cs == Chars(s)
        fits == {n \in 0..Len(cs) : Len(Written(SubSeq(cs, 1, n))) <= max}
        longest == CHOOSE n \in fits : \A k \in fits : k <= n IN
    /\ Flat(cs) = s
    /\ Run(JsonRead, Opened, body) = Inside(Kept(Flat(SubSeq(cs, 1, longest))))

HasBreak(s) == \E i \in 1..Len(s) : s[i] = "eol"

\* What Lua makes of the literal of a field.
FieldRead(s) == Run(LuaRead, Opened, Append(esc(s), "quote"))

\* What is read back of what is written.  Lua reads the literal of a field as
\* the field, and ends it where the generator closed it, exactly when the field
\* has no line break: esc leaves one as it is, and Lua then refuses the literal
\* and with it the file.  However the text falls into key and message, the
\* alert fits the device's queue slot, JSON reads both bodies, and each is the
\* longest run of whole characters that fits its room, line breaks included,
\* without the NULs (esc, json_body, alert_json).
TextReadsBack ==
    /\ IF HasBreak(text) THEN FieldRead(text).mode = "broken"
       ELSE FieldRead(text) = [Inside(text) EXCEPT !.mode = "end"]
    /\ \A cut \in 0..Len(text) :
        LET key == SubSeq(text, 1, cut)
            msg == SubSeq(text, cut + 1, Len(text))
            a == alert_json(key, msg) IN
        /\ FRAME + Len(a.code) + Len(a.message) <= ALERT_MAX
        /\ Faithful(a.code, key, CODE_MAX)
        /\ Faithful(a.message, msg, ALERT_MAX - FRAME - Len(a.code))
=============================================================================
