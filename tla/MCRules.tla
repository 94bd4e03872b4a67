------------------------------ MODULE MCRules -------------------------------
(* The generated rules at run time, the text they are made of and write, the *)
(* expressions and the helper functions a rules file may hold, one part in   *)
(* each behaviour: they share no state.                                      *)
(*                                                                          *)
(* The rules files are small enough to be explored in depth: a sustained    *)
(* condition with two notify blocks, it beside a plain one on the same      *)
(* sensor, a current condition, and two battery conditions, which share     *)
(* their key.  TwinFile holds one sustained condition twice: both compute   *)
(* the same key.                                                            *)
EXTENDS RuleRuntime, RuleText, RuleLogic, LuaHelpers

VARIABLE part   \* what this behaviour explores

Rule(kind, src, key, op, thresh, count, notes) ==
    [kind |-> kind, src |-> src, key |-> key, op |-> op, thresh |-> thresh, count |-> count, notes |-> notes]

Sustained == Rule("temp", "supply", "temp:supply:>=1", ">=", 1, 1, 2)
Immediate == Rule("temp_now", "supply", "temp:supply:<=0", "<=", 0, 1, 1)
Pump == Rule("current", "pump", "current:pump:<=0:2", "<=", 0, 2, 2)
Battery(pct) == Rule("battery", "battery", "battery_low", "<=", pct, 1, 1)

MCFiles == {<<Sustained>>, <<Immediate, Sustained>>, <<Pump>>, <<Battery(1), Battery(0)>>}
TwinFile == {<<Sustained, Sustained>>}

RulesVars == <<vars, text, expr, list>>

RulesInit == Init /\ TextInit /\ LogicInit /\ ListInit

RulesNext ==
    \/ part = "rules" /\ Next /\ UNCHANGED <<text, expr, list>>
    \/ part = "text" /\ TextNext /\ UNCHANGED <<vars, expr, list>>
    \/ part = "logic" /\ LogicNext /\ UNCHANGED <<vars, text, list>>
    \/ part = "helpers" /\ ListNext /\ UNCHANGED <<vars, text, expr>>

\* Only the rules, in every file.
TwinSpec == RulesInit /\ part = "rules" /\ [][RulesNext /\ UNCHANGED part]_<<RulesVars, part>>

-----------------------------------------------------------------------------

\* Whatever inputs the helper functions of a rules file get, they do what their
\* blocks say; the inputs grow in the behaviours that explore them
\* (provideFunction_).
HelpersDefined == part = "helpers" => HelpersAgree
=============================================================================
