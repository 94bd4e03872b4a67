---------------------------- MODULE BlockForest ----------------------------
(***************************************************************************)
(* The blocks of the rule editor, as Blockly keeps them: which connections *)
(* a block type has and what they accept, the forest the blocks form on    *)
(* the workspace, and the two things made from it - the JSON tree that is  *)
(* stored and loaded again, and the Lua that is sent to the device.        *)
(*                                                                         *)
(* A forest is a function from block ids to records.  up and slot say      *)
(* where the block is plugged in: an input of the parent, or "next" below  *)
(* it; a top block has up = None.  field stands for the values of the      *)
(* block's fields.  Coordinates, colours and collapsing are left out, and  *)
(* so are shadow blocks, variables, procedures and comments, which the     *)
(* page's toolbox does not offer.                                          *)
(***************************************************************************)
EXTENDS Naturals, FiniteSets, Sequences, SequencesExt, TLC

\* No block.  Ids count from 1; a tree with id None gets a fresh one.
None == 0

\* A connection without a check accepts everything; {} is no connection.
AnyType == {"*"}

Stmt(check) == [kind |-> "stmt", check |-> check]
Value(check) == [kind |-> "value", check |-> check]

-----------------------------------------------------------------------------
(* The block types *)

Block(out, prev, next, ins) == [out |-> out, prev |-> prev, next |-> next, ins |-> ins]

thesada_rules_root == Block({}, {}, {}, "BODY" :> Stmt({"ThesadaEvent"}))

thesada_on_sensor ==
    Block({}, {"ThesadaEvent"}, {"ThesadaEvent"}, "DO" :> Stmt({"ThesadaCondition"}))

thesada_if_temp ==
    Block({}, {"ThesadaCondition"}, {"ThesadaCondition"},
          "DO" :> Stmt({"ThesadaTempAction", "ThesadaAction"}))

thesada_if_current ==
    Block({}, {"ThesadaCondition"}, {"ThesadaCondition"}, "DO" :> Stmt({"ThesadaAction"}))

thesada_if_battery ==
    Block({}, {"ThesadaCondition"}, {"ThesadaCondition"}, "DO" :> Stmt({"ThesadaAction"}))

thesada_notify == Block({}, {"ThesadaAction"}, {"ThesadaAction"}, <<>>)

thesada_notify_temp ==
    Block({}, {"ThesadaTempAction"}, {"ThesadaTempAction", "ThesadaAction"}, <<>>)

logic_blocks ==
    [controls_if     |-> Block({}, AnyType, AnyType, "IF0" :> Value({"Boolean"}) @@ "DO0" :> Stmt(AnyType)),
     logic_compare   |-> Block({"Boolean"}, {}, {}, "A" :> Value(AnyType) @@ "B" :> Value(AnyType)),
     logic_operation |-> Block({"Boolean"}, {}, {}, "A" :> Value({"Boolean"}) @@ "B" :> Value({"Boolean"})),
     logic_negate    |-> Block({"Boolean"}, {}, {}, "BOOL" :> Value({"Boolean"}))]

text_block == [text |-> Block({"String"}, {}, {}, <<>>)]

Defs ==
    [thesada_rules_root  |-> thesada_rules_root,
     thesada_on_sensor   |-> thesada_on_sensor,
     thesada_if_temp     |-> thesada_if_temp,
     thesada_if_above    |-> thesada_if_temp,
     thesada_if_current  |-> thesada_if_current,
     thesada_if_battery  |-> thesada_if_battery,
     thesada_notify      |-> thesada_notify,
     thesada_notify_temp |-> thesada_notify_temp] @@ logic_blocks @@ text_block

\* The mutation of controls_if: how many else-ifs, and whether an else.
Plain == [elseifs |-> 0, else |-> FALSE]

\* The inputs updateShape_ removes and adds again, in the order of removal.
Rebuilt == <<"ELSE", "IF1", "DO1">>

Inputs(b) ==
    Defs[b.type].ins
        @@ (IF b.extra.elseifs > 0 THEN "IF1" :> Value({"Boolean"}) @@ "DO1" :> Stmt(AnyType) ELSE <<>>)
        @@ (IF b.extra.else THEN "ELSE" :> Stmt(AnyType) ELSE <<>>)

\* Every connection a child can hang from.
Sockets(b) ==
    Inputs(b) @@ (IF Defs[b.type].next = {} THEN <<>> ELSE "next" :> Stmt(Defs[b.type].next))

\* The order of inputList, with the next connection behind it.
SlotOrder == <<"BODY", "IF0", "DO0", "IF1", "DO1", "ELSE", "A", "B", "BOOL", "DO", "next">>

-----------------------------------------------------------------------------
(* The forest *)

Children(w, b) == {c \in DOMAIN w : w[c].up = b}

\* targetBlock of a connection
At(w, b, s) == IF \E c \in Children(w, b) : w[c].slot = s
               THEN CHOOSE c \in Children(w, b) : w[c].slot = s
               ELSE None

Tops(w) == Children(w, None)

RECURSIVE getDescendants(_, _)
getDescendants(w, b) ==
    {b} \union UNION {getDescendants(w, c) : c \in Children(w, b)}

doTypeChecks(a, b) == a = AnyType \/ b = AnyType \/ a \cap b # {}

\* canConnect without the drag checks: two blocks, opposite kinds, checks.
canConnect(w, p, s, c) ==
    /\ p # c
    /\ s \in DOMAIN Sockets(w[p])
    /\ LET conn == Sockets(w[p])[s]
           plug == IF conn.kind = "stmt" THEN Defs[w[c].type].prev ELSE Defs[w[c].type].out
       IN plug # {} /\ doTypeChecks(conn.check, plug)

\* The block at the end of b's stack.
RECURSIVE lastInStack(_, _)
lastInStack(w, b) == IF At(w, b, "next") = None THEN b ELSE lastInStack(w, At(w, b, "next"))

\* getConnectionForOrphanedOutput: follow the only input that fits until it is free.
RECURSIVE OrphanedOutput(_, _, _)
OrphanedOutput(w, a, h) ==
    LET fits == {s \in DOMAIN Inputs(w[a]) : canConnect(w, a, s, h)}
        s == CHOOSE x \in fits : TRUE
    IN IF Cardinality(fits) # 1 THEN <<>>
       ELSE IF At(w, a, s) = None THEN <<a, s>> ELSE OrphanedOutput(w, At(w, a, s), h)

\* Where a block h that c displaced goes: <<>>, or a connection of c's stack.
getConnectionForOrphanedConnection(w, c, h) ==
    IF Defs[w[h].type].out # {} THEN OrphanedOutput(w, c, h)
    ELSE IF canConnect(w, lastInStack(w, c), "next", h) THEN <<lastInStack(w, c), "next">> ELSE <<>>

\* The only value input of b that holds a block.
getOnlyValueConnection_(w, b) ==
    LET held == {s \in DOMAIN Inputs(w[b]) : Inputs(w[b])[s].kind = "value" /\ At(w, b, s) # None}
    IN IF Cardinality(held) = 1 THEN At(w, b, CHOOSE s \in held : TRUE) ELSE None

\* A block whose surrounding blocks (not the ones above it in its stack) are disabled.
RECURSIVE getInheritedDisabled(_, _)
getInheritedDisabled(w, b) ==
    LET p == w[b].up
    IN p # None /\ ((w[b].slot # "next" /\ ~w[p].on) \/ getInheritedDisabled(w, p))

-----------------------------------------------------------------------------
(* JSON *)

\* A save that forgets that a block is disabled.
RECURSIVE save_enabled(_, _, _)
save_enabled(w, b, next) ==
    [type |-> w[b].type, id |-> b, field |-> w[b].field, on |-> TRUE, extra |-> w[b].extra,
     kids |-> [s \in {w[c].slot : c \in Children(w, b)} \ (IF next THEN {} ELSE {"next"})
                 |-> save_enabled(w, At(w, b, s), TRUE)]]

RECURSIVE save(_, _, _)
save(w, b, next) ==
    [type |-> w[b].type, id |-> b, field |-> w[b].field, on |-> w[b].on, extra |-> w[b].extra,
     kids |-> [s \in {w[c].slot : c \in Children(w, b)} \ (IF next THEN {} ELSE {"next"})
                 |-> save(w, At(w, b, s), TRUE)]]

\* What the trash keeps of a deleted block.
RECURSIVE cleanBlockJson(_)
cleanBlockJson(t) ==
    [t EXCEPT !.id = None, !.on = TRUE, !.kids = [s \in DOMAIN @ |-> cleanBlockJson(@[s])]]

\* appendPrivate.  r is [ws, nid, ok]: the forest, the next fresh id, and whether
\* every block so far could be made.  What was made before a failure stays.
newRec(t) == [type |-> t.type, field |-> t.field, on |-> t.on, extra |-> t.extra, up |-> None, slot |-> ""]

make(r, t, b) == [ws |-> (b :> newRec(t)) @@ r.ws, nid |-> IF b = t.id THEN r.nid ELSE r.nid + 1, ok |-> TRUE]

plug(r, p, s, b) ==
    IF p = None THEN r
    ELSE IF canConnect(r.ws, p, s, b) THEN [r EXCEPT !.ws[b].up = p, !.ws[b].slot = s]
    ELSE [r EXCEPT !.ok = FALSE]

RECURSIVE appendPrivate(_, _, _, _)
appendPrivate(r, t, p, s) ==
    IF ~r.ok \/ t.type \notin DOMAIN Defs THEN [r EXCEPT !.ok = FALSE]
    ELSE LET b    == IF t.id # None /\ t.id \notin DOMAIN r.ws THEN t.id ELSE r.nid
             kids == SelectSeq(SlotOrder, LAMBDA k : k \in DOMAIN t.kids)
         IN FoldLeft(LAMBDA x, k : IF x.ok /\ k \in DOMAIN Sockets(newRec(t)) THEN appendPrivate(x, t.kids[k], b, k)
                                   ELSE [x EXCEPT !.ok = FALSE],
                     plug(make(r, t, b), p, s, b), kids)

\* serializeWorkspace, and its load into the forest of r.
serialize(w) == {save(w, b, TRUE) : b \in Tops(w)}

loadBlocks(r, json) == FoldLeft(LAMBDA x, t : appendPrivate(x, t, None, ""), r, SetToSeq(json))

-----------------------------------------------------------------------------
(* Lua *)

\* blockToCode with scrub_: the code of a stack.  A disabled block is skipped.
RECURSIVE blockToCode(_, _)
blockToCode(w, b) ==
    IF b = None THEN <<>>
    ELSE (IF w[b].on
          THEN <<[type |-> w[b].type, field |-> w[b].field,
                  body |-> [s \in DOMAIN Inputs(w[b]) |-> blockToCode(w, At(w, b, s))]]>>
          ELSE <<>>)
         \o blockToCode(w, At(w, b, "next"))

\* The code of each top-level rules file; other top blocks generate nothing.
generateLua(w) ==
    [r \in {b \in Tops(w) : w[b].type = "thesada_rules_root"} |-> blockToCode(w, r)]
=============================================================================
