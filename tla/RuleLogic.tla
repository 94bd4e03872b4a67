----------------------------- MODULE RuleLogic ------------------------------
(***************************************************************************)
(* The Lua expressions that the rule editor makes of trees of logic blocks *)
(* (valueToCode and the generators of the logic blocks), and how Lua       *)
(* parses them.                                                            *)
(*                                                                         *)
(* The state is the input, an expression that grows block by block, so     *)
(* that every expression up to the bound is visited.                       *)
(***************************************************************************)
EXTENDS Naturals, Sequences

CONSTANT MaxDepth   \* bound on the depth of the expression

ASSUME LogicAssumption == MaxDepth \in Nat

VARIABLE expr

-----------------------------------------------------------------------------
(* A block tree has the inputs' blocks as children; a hole is an empty     *)
(* input or a disabled block, for which blockToCode returns "".            *)

Hole == [op |-> "hole"]
Leaf == [op |-> "text"]
Negate(a) == [op |-> "not", a |-> a]
Compare(a, b) == [op |-> "==", a |-> a, b |-> b]
Operation(op, a, b) == [op |-> op, a |-> a, b |-> b]

Order == [ATOMIC |-> 0, UNARY |-> 3, RELATIONAL |-> 7, AND |-> 8, OR |-> 9, NONE |-> 99]

\* An operand of the same order goes without parentheses.
parenthesised_looser(outer, inner) == outer < inner

\* Parentheses around an operand that binds no tighter, except between atoms
\* and at the outermost level.  ORDER_OVERRIDES is empty for Lua.
parenthesised(outer, inner) == outer <= inner /\ (outer # inner \/ outer \notin {Order.ATOMIC, Order.NONE})

\* The generators of the logic blocks and of text: the code and its order.
RECURSIVE logicToCode(_)
logicToCode(e) ==
    LET valueToCode(x, outer, default) ==
            IF x = Hole THEN default
            ELSE LET c == logicToCode(x) IN
                 IF parenthesised(outer, c.order) THEN <<"(">> \o c.code \o <<")">> ELSE c.code IN
    CASE e.op = "text" -> [code |-> <<"'x'">>, order |-> Order.ATOMIC]
      [] e.op = "not" -> [code |-> <<"not">> \o valueToCode(e.a, Order.UNARY, <<"true">>), order |-> Order.UNARY]
      [] e.op = "==" -> [code |-> valueToCode(e.a, Order.RELATIONAL, <<"0">>) \o <<"==">>
                                    \o valueToCode(e.b, Order.RELATIONAL, <<"0">>),
                         order |-> Order.RELATIONAL]
      [] e.op \in {"and", "or"} ->
            LET o == IF e.op = "and" THEN Order.AND ELSE Order.OR
                neutral == IF e.a = Hole /\ e.b = Hole THEN "false"
                           ELSE IF e.op = "and" THEN "true" ELSE "false" IN
            [code |-> valueToCode(e.a, o, <<neutral>>) \o <<e.op>> \o valueToCode(e.b, o, <<neutral>>), order |-> o]

\* Lua's grammar: or < and < comparison < not < primary; binary operators
\* associate to the left.  Parse(t, i, level) is the tree and the next position.
Level(tok) == CASE tok = "or" -> 1 [] tok = "and" -> 2 [] tok = "==" -> 3 [] OTHER -> 0
RECURSIVE Parse(_, _, _), ParseRest(_, _, _, _)
ParseRest(t, left, i, level) ==
    IF i <= Len(t) /\ Level(t[i]) >= level
    THEN LET r == Parse(t, i + 1, Level(t[i]) + 1) IN
         ParseRest(t, [op |-> t[i], a |-> left, b |-> r.tree], r.next, level)
    ELSE [tree |-> left, next |-> i]
Parse(t, i, level) ==
    CASE t[i] = "not" -> LET r == Parse(t, i + 1, 4) IN ParseRest(t, Negate(r.tree), r.next, level)
      [] t[i] = "(" -> LET r == Parse(t, i + 1, 1) IN ParseRest(t, r.tree, r.next + 1, level)
      [] OTHER -> ParseRest(t, [op |-> "atom", tok |-> t[i]], i + 1, level)

\* What a tree of logic blocks means: the blocks' own tree, with the value
\* each block documents for an input left empty.
RECURSIVE Meaning(_)
Meaning(e) ==
    LET atom(tok) == [op |-> "atom", tok |-> tok]
        arg(x, default) == IF x = Hole THEN atom(default) ELSE Meaning(x) IN
    CASE e.op = "text" -> atom("'x'")
      [] e.op = "not" -> Negate(arg(e.a, "true"))
      [] e.op = "==" -> Compare(arg(e.a, "0"), arg(e.b, "0"))
      [] e.op = "and" /\ (e.a # Hole \/ e.b # Hole) -> Operation("and", arg(e.a, "true"), arg(e.b, "true"))
      [] OTHER -> Operation(e.op, arg(e.a, "false"), arg(e.b, "false"))

RECURSIVE Depth(_)
Depth(e) ==
    CASE e.op \in {"hole", "text"} -> 0
      [] e.op = "not" -> 1 + Depth(e.a)
      [] OTHER -> 1 + (IF Depth(e.a) > Depth(e.b) THEN Depth(e.a) ELSE Depth(e.b))

-----------------------------------------------------------------------------

LogicInit == expr = Leaf

\* The expression so far becomes the operand of another block; the other
\* operand is a hole, a leaf, or a small expression.
Others == {Hole, Leaf, Negate(Leaf), Compare(Leaf, Hole)} \cup {Operation(o, Leaf, x) : o \in {"and", "or"}, x \in {Leaf, Hole}}

Nest(f) ==
    /\ Depth(expr) < MaxDepth
    /\ expr' = f

LogicNext ==
    \/ Nest(Negate(expr))
    \/ Nest(Negate(Hole))
    \/ \E x \in Others, o \in {"==", "and", "or"} : Nest(Operation(o, expr, x)) \/ Nest(Operation(o, x, expr))
    \/ \E o \in {"==", "and", "or"} : Nest(Operation(o, Hole, Hole))

-----------------------------------------------------------------------------
(* What must hold *)

\* The code of a tree of logic blocks means that tree: however comparisons, not,
\* and, or are nested and whichever inputs are empty, Lua parses it as the tree
\* the blocks show (valueToCode's orders and the logic generators).
ExprReadsBack ==
    LET c == logicToCode(expr).code
        p == Parse(c, 1, 1) IN
    p.tree = Meaning(expr) /\ p.next = Len(c) + 1
=============================================================================
