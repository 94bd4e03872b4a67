---------------------------- MODULE RuleEditor ----------------------------
(***************************************************************************)
(* The rule editor of a device: the Blockly workspace, its event queue,    *)
(* groups, undo and redo stacks, drags, the field editor, delete-all, the  *)
(* clipboard and the trash, and what the page around it does - boot,       *)
(* template load and save.                                                 *)
(*                                                                         *)
(* ed holds what the Blockly core keeps and every operation touches:       *)
(*   ws    the forest            q     FIRE_QUEUE, flushed later           *)
(*   grp   the event group       rec   recordUndo                          *)
(*   drag  the dragged block     edit  the open field editor               *)
(*   del   blocks delete-all still has to delete, and its group            *)
(*   pv    prevBlocks_ of the compare blocks                               *)
(*   err   an exception ended the operation; hang: it never ends           *)
(*   ng, nid  the next fresh group and block id                            *)
(* Each operation of the code is an operator from such a record to one; an *)
(* action applies it to ed.                                                *)
(***************************************************************************)
EXTENDS BlockForest

CONSTANTS
    Toolbox,     \* the trees of the toolbox
    Fields,      \* values of a field
    Templates,   \* stored templates: sets of trees
    Stores,      \* what the device's slot may hold at boot: sets of trees, {} for none
    Default,     \* the value a new block's field has
    Seeded,      \* the value the seed gives some fields
    MaxSteps,    \* bound on the user's operations after a restore
    SeedSteps,   \* the same after a seed, whose workspace is larger
    MaxBlocks    \* bound on the blocks of the workspace

ASSUME EditorAssumption ==
    /\ {Default, Seeded} \subseteq Fields
    /\ {MaxSteps, SeedSteps, MaxBlocks} \subseteq Nat

VARIABLES
    ed,          \* the Blockly core, see above
    undo, redo,  \* undoStack_ and redoStack_
    clip,        \* copyData: {} or one tree
    trash,       \* what the trash can holds
    page,        \* what the page around the workspace keeps
    past,        \* a workspace undo should lead back to, and whether it can
    left         \* operations the bound still allows

editorVars == <<ed, undo, redo, clip, trash, page, past, left>>

NoEdit == [blk |-> None, old |-> None, new |-> None]
NoDel == [todo |-> {}, grp |-> 0]

-----------------------------------------------------------------------------
(* Events *)

Event(kind, b) ==
    [kind |-> kind, blk |-> b, grp |-> 0, rec |-> TRUE, old |-> None, new |-> None,
     what |-> "", tree |-> None, ids |-> <<>>, shift |-> FALSE]

BlockMove(b, old, new, shift) == [Event("move", b) EXCEPT !.old = old, !.new = new, !.shift = shift]
BlockChange(b, what, old, new) == [Event("change", b) EXCEPT !.what = what, !.old = old, !.new = new]

\* getDescendantIds: the block, then the blocks under it.
Ids(w, b) == <<b>> \o SetToSeq(getDescendants(w, b) \ {b})

BlockCreate(w, b) == [Event("create", b) EXCEPT !.tree = save(w, b, TRUE), !.ids = Ids(w, b)]
BlockDelete(w, b) == [Event("delete", b) EXCEPT !.tree = save(w, b, TRUE), !.ids = Ids(w, b)]

isNull(e) == e.kind \in {"move", "change"} /\ e.old = e.new /\ ~e.shift

\* A new event takes the group and recordUndo of the moment.
fire(S, e) == [S EXCEPT !.q = Append(@, [e EXCEPT !.grp = S.grp, !.rec = S.rec])]

setGroup(S) == [S EXCEPT !.grp = S.ng, !.ng = @ + 1]

\* const d = getGroup(); d || setGroup(true); ...; setGroup(d)
inGroup(S) == IF S.grp = 0 THEN setGroup(S) ELSE S
Grouped(S, F(_)) == [F(inGroup(S)) EXCEPT !.grp = S.grp]

Merged(k, e) == [k EXCEPT !.new = e.new, !.shift = @ \/ e.shift]

\* One event of filter's loop: a is [out, at], at[key] = <<position in out, index>>.
\* The index test of a merged move is dropped.
FilterStep_any(a, e, g) ==
    LET key == <<e.kind, e.blk>> IN
    IF isNull(e) THEN a
    ELSE IF key \in DOMAIN a.at /\ e.kind \in {"move", "change"} /\ a.out[a.at[key][1]].what = e.what
         THEN [out |-> [a.out EXCEPT ![a.at[key][1]] = Merged(@, e)], at |-> a.at]
    ELSE [out |-> Append(a.out, e), at |-> (key :> <<Len(a.out) + 1, g>>) @@ a.at]

\* Moves of one block merge when nothing lies between them, changes of one
\* element always; the merged event keeps its place and its group.
FilterStep(a, e, g) ==
    LET key == <<e.kind, e.blk>>
        k   == a.at[key]
    IN IF isNull(e) THEN a
       ELSE IF key \in DOMAIN a.at /\ e.kind = "move" /\ k[2] = g - 1
            THEN [out |-> [a.out EXCEPT ![k[1]] = Merged(@, e)], at |-> [a.at EXCEPT ![key] = <<k[1], g>>]]
       ELSE IF key \in DOMAIN a.at /\ e.kind = "change" /\ a.out[k[1]].what = e.what
            THEN [out |-> [a.out EXCEPT ![k[1]] = Merged(@, e)], at |-> a.at]
       ELSE [out |-> Append(a.out, e), at |-> (key :> <<Len(a.out) + 1, g>>) @@ a.at]

isMutation(e) == e.kind = "change" /\ e.what = "mutation"

\* for(g = 1...) a mutation: a.unshift(a.splice(g, 1)[0])
MutationsFirst(s) ==
    IF s = <<>> THEN s
    ELSE Reverse(SelectSeq(Tail(s), isMutation))
         \o <<Head(s)>> \o SelectSeq(Tail(s), LAMBDA e : ~isMutation(e))

filter(s, forward) ==
    LET in  == IF forward THEN s ELSE Reverse(s)
        out == FoldLeftDomain(LAMBDA a, g : FilterStep(a, in[g], g), [out |-> <<>>, at |-> <<>>], in).out
        some == SelectSeq(out, LAMBDA e : ~isNull(e))
    IN MutationsFirst(IF forward THEN some ELSE Reverse(some))

-----------------------------------------------------------------------------
(* Connections *)

Loc(w, b) == <<w[b].up, w[b].slot>>

Moved(S, b, p, s) ==
    fire([S EXCEPT !.ws[b].up = p, !.ws[b].slot = s], BlockMove(b, Loc(S.ws, b), <<p, s>>, FALSE))

disconnect(S, c) == Grouped(S, LAMBDA T : Moved(T, c, None, ""))

\* The block that was in the way goes below the new one, if it fits there.
replug(S, h, spot) == IF spot = <<>> THEN S ELSE Moved(S, h, spot[1], spot[2])
rehome(S, h, c) == replug(S, h, getConnectionForOrphanedConnection(S.ws, c, h))

connect_(S, p, s, c) ==
    LET h == At(S.ws, p, s)
    IN IF h = None THEN Moved(S, c, p, s) ELSE rehome(Moved(disconnect(S, h), c, p, s), h, c)

\* A connect that takes any block.
connect_unchecked(S, p, s, c) == Grouped(S, LAMBDA T : connect_(T, p, s, c))

connect(S, p, s, c) ==
    IF canConnect(S.ws, p, s, c) THEN Grouped(S, LAMBDA T : connect_(T, p, s, c)) ELSE S

\* unplugFromRow_ and unplugFromStack_: out of the parent; with heal the block behind
\* takes the place.
detached(S, b) == IF S.ws[b].up = None THEN S ELSE disconnect(S, b)

behind(w, b) ==
    IF Defs[w[b].type].out = {} THEN At(w, b, "next")
    ELSE IF w[b].up = None THEN None ELSE getOnlyValueConnection_(w, b)

closeGap(S, at, c) == IF at[1] = None THEN S ELSE connect(S, at[1], at[2], c)

healed(S, b, c) == closeGap(disconnect(detached(S, b), c), Loc(S.ws, b), c)

unplug(S, b, heal) ==
    LET c == behind(S.ws, b)
    IN IF heal /\ c # None THEN healed(S, b, c) ELSE detached(S, b)

-----------------------------------------------------------------------------
(* Making and disposing of blocks *)

\* One change for everything typed, then no group.
widgetDispose_(S) ==
    [(IF S.edit.new = S.edit.old THEN S ELSE fire(S, BlockChange(S.edit.blk, "field", S.edit.old, S.edit.new)))
        EXCEPT !.edit = NoEdit, !.grp = 0]

\* Without the dead blocks; prevBlocks_ drops a disposed operand.
without(S, dead) ==
    [S EXCEPT !.ws = [x \in DOMAIN @ \ dead |-> @[x]],
              !.del.todo = @ \ dead,
              !.pv = [c \in DOMAIN @ \ dead |-> [i \in 1..2 |-> IF @[c][i] \in dead THEN None ELSE @[c][i]]]]

\* The fields of a dying block close their editor; a dragged one ends its gesture.
endEdit(S, dead) == IF S.edit.blk \in dead THEN widgetDispose_(S) ELSE S
endGesture(S, dead) == IF S.drag \in dead THEN [S EXCEPT !.drag = None, !.grp = 0] ELSE S

die(S, b, dead) == endGesture(endEdit(without(fire(S, BlockDelete(S.ws, b)), dead), dead), dead)

disposeUnplugged(S, b) == die(S, b, getDescendants(S.ws, b))

dispose(S, b, heal) == disposeUnplugged(unplug(S, b, heal), b)

disposeIds(S, ids) ==
    FoldLeft(LAMBDA T, b : IF b \in DOMAIN T.ws THEN dispose(T, b, FALSE) ELSE T, S, ids)

\* The root block an append of t to S makes.
appended(S, t) == IF t.id # None /\ t.id \notin DOMAIN S.ws THEN t.id ELSE S.nid

\* appendInternal: events are off while the tree is made; one create event follows.
\* A failure throws past the lines that restore the group and recordUndo.
filled(S, r) == [S EXCEPT !.ws = r.ws, !.nid = r.nid, !.err = ~r.ok]

announce(S, b) == IF S.err THEN S ELSE fire(S, BlockCreate(S.ws, b))

restored(S, grp, rec) == IF S.err THEN S ELSE [S EXCEPT !.grp = grp, !.rec = rec]

append(S, t, rec) ==
    restored(announce(filled([inGroup(S) EXCEPT !.rec = rec],
                             appendPrivate([ws |-> S.ws, nid |-> S.nid, ok |-> TRUE], t, None, "")),
                      appended(S, t)),
             S.grp, S.rec)

\* A tree made with events off, as the flyout and the paster do, and announced afterwards.
quietly(S, t) == filled(S, appendPrivate([ws |-> S.ws, nid |-> S.nid, ok |-> TRUE], t, None, ""))

-----------------------------------------------------------------------------
(* Changing a block *)

setValue(S, b, v) == fire([S EXCEPT !.ws[b].field = v], BlockChange(b, "field", S.ws[b].field, v))

setEnabled(S, b, on) == fire([S EXCEPT !.ws[b].on = on], BlockChange(b, "disabled", ~S.ws[b].on, ~on))

\* updateShape_: the inputs are removed, which unplugs what they hold, and added as x says.
updateShape_(S, b, x) ==
    LET T == FoldLeft(LAMBDA Z, s : IF At(Z.ws, b, s) = None THEN Z ELSE disconnect(Z, At(Z.ws, b, s)), S, Rebuilt)
    IN [T EXCEPT !.ws[b].extra = x]

\* compose with reconnectChildBlocks_: what an arm that stays held is plugged in again.
compose(S, b, x) ==
    LET held(s) == At(S.ws, b, s)
        back(Z, s) == IF held(s) # None /\ s \in DOMAIN Inputs(Z.ws[b]) THEN connect(Z, b, s, held(s)) ELSE Z
    IN FoldLeft(back, updateShape_(S, b, x), <<"IF1", "DO1", "ELSE">>)

recomposeSourceBlock(S, b, x) ==
    Grouped(S, LAMBDA T : fire(compose(T, b, x), BlockChange(b, "mutation", S.ws[b].extra, x)))

-----------------------------------------------------------------------------
(* Undo *)

runCreate(S, e, forward) == IF forward THEN append(S, e.tree, FALSE) ELSE disposeIds(S, e.ids)

runDelete(S, e, forward) == IF forward THEN disposeIds(S, e.ids) ELSE append(S, e.tree, FALSE)

\* A change of a block that is gone throws.
runChange(S, e, forward) ==
    LET v == IF forward THEN e.new ELSE e.old
        b == e.blk
    IN IF b \notin DOMAIN S.ws THEN [S EXCEPT !.err = TRUE]
       ELSE CASE e.what = "field"    -> setValue(S, b, v)
              [] e.what = "disabled" -> setEnabled(S, b, ~v)
              [] e.what = "mutation" -> fire(updateShape_(S, b, v), BlockChange(b, "mutation", S.ws[b].extra, v))

\* A move of, or to, a block that is gone is a warning.  connect looks for no cycle:
\* a block plugged in below itself has no root, and the walk up to it does not end.
plugIn(S, b, at) ==
    IF at[1] = None THEN S
    ELSE IF at[1] \in getDescendants(S.ws, b) /\ canConnect(S.ws, at[1], at[2], b) THEN [S EXCEPT !.hang = TRUE]
    ELSE connect(S, at[1], at[2], b)

runMove(S, e, forward) ==
    LET to == IF forward THEN e.new ELSE e.old
    IN IF e.blk \notin DOMAIN S.ws \/ (to[1] # None /\ to[1] \notin DOMAIN S.ws) THEN S
       ELSE plugIn(detached(S, e.blk), e.blk, to)

run(S, e, forward) ==
    IF S.err \/ S.hang THEN S
    ELSE CASE e.kind = "create" -> runCreate(S, e, forward)
           [] e.kind = "delete" -> runDelete(S, e, forward)
           [] e.kind = "change" -> runChange(S, e, forward)
           [] e.kind = "move"   -> runMove(S, e, forward)

\* How many events at the end of a stack make one step: a group, or one ungrouped event.
RECURSIVE Step(_)
Step(s) ==
    IF Len(s) < 2 THEN Len(s)
    ELSE LET f == Front(s) IN
         IF Last(s).grp # 0 /\ Last(s).grp = Last(f).grp THEN 1 + Step(f) ELSE 1

runAll(S, es, forward) == FoldLeft(LAMBDA T, e : run(T, e, forward), S, es)

ended(S) == [S EXCEPT !.rec = TRUE, !.err = FALSE]

\* Workspace.undo on [ed, from, to]: the step changes stacks, then its events are run.
undoStep(z, forward) ==
    LET k      == Len(z.from) - Step(z.from)
        popped == Reverse(SubSeq(z.from, k + 1, Len(z.from)))
    IN [ed   |-> ended(runAll([z.ed EXCEPT !.rec = FALSE], filter(popped, forward), forward)),
        from |-> SubSeq(z.from, 1, k),
        to   |-> z.to \o popped]

-----------------------------------------------------------------------------
(* Flush *)

\* LOGIC_COMPARE_ONCHANGE: an operand of another type than its neighbour is put back.
putBack(S, c, s, new, old) ==
    IF new = old THEN S
    ELSE IF old = None THEN detached(S, new)
    ELSE connect(detached(S, new), c, s, old)

remember(S, c) == [S EXCEPT !.pv[c] = <<At(S.ws, c, "A"), At(S.ws, c, "B")>>]

mismatch(w, a, b) == a # None /\ b # None /\ ~doTypeChecks(Defs[w[a].type].out, Defs[w[b].type].out)

restoreOperands(S, c, a, b, grp) ==
    [putBack(putBack([S EXCEPT !.grp = grp], c, "A", a, S.pv[c][1]), c, "B", b, S.pv[c][2]) EXCEPT !.grp = 0]

onchange(S, c, grp) ==
    LET a == At(S.ws, c, "A")
        b == At(S.ws, c, "B")
    IN remember(IF mismatch(S.ws, a, b) THEN restoreOperands(S, c, a, b, grp) ELSE S, c)

Compares(w) == {b \in DOMAIN w : w[b].type = "logic_compare"}

\* Every listening compare block, with prevBlocks_ of a new one empty.
listen(S, grp) ==
    LET cs == SetToSeq(Compares(S.ws))
        S0 == [S EXCEPT !.pv = [c \in Compares(S.ws) |-> IF c \in DOMAIN @ THEN @[c] ELSE <<None, None>>]]
    IN FoldLeft(LAMBDA T, c : onchange(T, c, grp), S0, cs)

\* The trash can keeps every deleted tree.
onDelete(kept, e) == IF e.kind = "delete" THEN kept \union {cleanBlockJson(e.tree)} ELSE kept

\* fireNow on [ed, undo, redo, trash]: fireChangeListener for each event, then the
\* group at the end of the undo stack is filtered once more.
fireChangeListener(z, e) ==
    [ed    |-> listen(z.ed, e.grp),
     undo  |-> IF e.rec THEN Append(z.undo, e) ELSE z.undo,
     redo  |-> IF e.rec THEN <<>> ELSE z.redo,
     trash |-> onDelete(z.trash, e)]

tailFiltered(s) ==
    LET n == Step(s)
        k == Len(s) - n
    IN IF n < 2 THEN s ELSE SubSeq(s, 1, k) \o filter(SubSeq(s, k + 1, Len(s)), TRUE)

fireNow(z) ==
    LET y == FoldLeft(fireChangeListener, [z EXCEPT !.ed.q = <<>>], filter(z.ed.q, TRUE))
    IN [y EXCEPT !.undo = tailFiltered(@)]

-----------------------------------------------------------------------------
(* Filling the workspace *)

\* newBlock and setFieldValue
newBlock(S, type, field) ==
    LET b == S.nid
        w == (b :> [type |-> type, field |-> Default, on |-> TRUE, extra |-> Plain, up |-> None, slot |-> ""]) @@ S.ws
        T == Grouped([S EXCEPT !.ws = w, !.nid = @ + 1], LAMBDA Z : fire(Z, BlockCreate(w, b)))
    IN IF field = Default THEN T ELSE setValue(T, b, field)

\* Type, parent (by position), input and field of the starter's blocks.
Starter ==
    << <<"thesada_rules_root",  0, "",     Default>>,
       <<"thesada_on_sensor",   1, "BODY", Default>>,
       <<"thesada_if_temp",     2, "DO",   Default>>,
       <<"thesada_notify_temp", 3, "DO",   Default>>,
       <<"thesada_on_sensor",   2, "next", Seeded>>,
       <<"thesada_if_battery",  5, "DO",   Default>>,
       <<"thesada_notify",      6, "DO",   Seeded>> >>

\* The root is also moved off the corner.
seedWorkspace(S) ==
    LET id(i) == S.nid + i - 1
        add(T, i) ==
            LET k == Starter[i]
                U == newBlock(T, k[1], k[4])
            IN IF k[2] = 0 THEN fire(U, BlockMove(id(i), <<None, "">>, <<None, "">>, TRUE))
               ELSE connect(U, id(k[2]), k[3], id(i))
    IN FoldLeftDomain(add, S, Starter)

\* Workspace.clear: everything in one group, which is put back afterwards.
clear(S) == [disposeIds(inGroup(S), SetToSeq(Tops(S.ws))) EXCEPT !.grp = S.grp]

\* workspaces.load: not recorded.  A failure throws past the last line.
load(S, json) ==
    restored(FoldLeft(LAMBDA T, t : IF T.err THEN T ELSE append(T, t, FALSE),
                      [inGroup(S) EXCEPT !.rec = FALSE], SetToSeq(json)),
             S.grp, S.rec)

loadWorkspace(S, json) == load(clear(S), json)

-----------------------------------------------------------------------------
(* The actions *)

Empty ==
    [ws |-> <<>>, q |-> <<>>, grp |-> 0, rec |-> TRUE, drag |-> None, edit |-> NoEdit,
     del |-> NoDel, pv |-> <<>>, err |-> FALSE, hang |-> FALSE, ng |-> 1, nid |-> 1]

NewEditor == [Empty EXCEPT !.nid = 100]

Stored(json) == [mine |-> FALSE, json |-> json, lua |-> generateLua(loadBlocks([ws |-> <<>>, nid |-> 1, ok |-> TRUE], json).ws)]

EditorInit ==
    /\ ed = NewEditor
    /\ undo = <<>> /\ redo = <<>> /\ clip = {} /\ trash = {}
    /\ \E json \in Stores :
          page = [phase |-> "boot", locked |-> FALSE, want |-> {}, writing |-> {}, stored |-> Stored(json)]
    /\ past = [ws |-> <<>>, base |-> 0, clean |-> TRUE, hurried |-> FALSE, loaded |-> FALSE]
    /\ left = MaxSteps

\* The blocks of a tree.
RECURSIVE Size(_)
Size(t) == 1 + FoldFunction(LAMBDA k, n : Size(k) + n, 0, t.kids)

Ready == page.phase = "ready"
Idle == Ready /\ ed.drag = None /\ ed.edit = NoEdit
Quiet == Idle /\ ed.q = <<>> /\ ed.del = NoDel

Room(t) == Cardinality(DOMAIN ed.ws) + Size(t) <= MaxBlocks

\* An operation of the user on the core.  Whether the record stays good is kept in past.
\* One that does not wait for the queued events counts twice against the bound.
CoreIf(S, good) ==
    LET cost == IF ed.q = <<>> THEN 1 ELSE 2 IN
    /\ left >= cost
    /\ left' = left - cost
    /\ ed' = S
    /\ past' = [past EXCEPT !.clean = @ /\ good, !.hurried = @ \/ ed.q # <<>>]

Core(S) == CoreIf(S, TRUE)

\* The saved workspace is restored.
Restored(S) ==
    /\ ~S.err
    /\ ed' = S
    /\ page' = [page EXCEPT !.phase = "ready"]
    /\ past' = [past EXCEPT !.ws = S.ws]
    /\ UNCHANGED <<undo, redo, clip, trash, left>>

Restore == page.phase = "boot" /\ page.stored.json # {} /\ Restored(loadWorkspace(ed, page.stored.json))

\* Nothing is saved: the starter.
Seed ==
    /\ page.phase = "boot" /\ page.stored.json = {}
    /\ ed' = seedWorkspace(ed)
    /\ page' = [page EXCEPT !.phase = "ready"]
    /\ left' = SeedSteps
    /\ UNCHANGED <<undo, redo, clip, trash, past>>

\* The restore failed: the half-filled workspace is thrown away for the starter, and
\* writes are locked.  A load that threw leaves Blockly's group and recordUndo behind.
Locked(S) ==
    /\ ed' = seedWorkspace(S)
    /\ page' = [page EXCEPT !.phase = "ready", !.locked = TRUE]
    /\ past' = [past EXCEPT !.clean = S.rec]
    /\ left' = SeedSteps
    /\ UNCHANGED <<undo, redo, clip, trash>>

Threw(S) == S.err /\ Locked([NewEditor EXCEPT !.grp = S.grp, !.rec = S.rec])

FetchFails == page.phase = "boot" /\ Locked(NewEditor)

RestoreFails == page.phase = "boot" /\ Threw(loadWorkspace(ed, page.stored.json))

UseStarter ==
    /\ Ready /\ page.locked
    /\ page' = [page EXCEPT !.locked = FALSE]
    /\ UNCHANGED <<ed, undo, redo, clip, trash, past, left>>

rest == <<undo, redo, clip, trash, page>>

\* BlockDragger.startDrag
startDrag(S, b, heal) == [unplug(inGroup(S), b, heal) EXCEPT !.drag = b]

startDraggingBlock(b, heal) == Idle /\ Core(startDrag(ed, b, heal)) /\ UNCHANGED rest

\* A block dragged out of the toolbox or the trash.
createBlock(S, b) == fire(setGroup(S), BlockCreate(S.ws, b))

updateIsDraggingFromFlyout(t) ==
    /\ Idle /\ Room(t)
    /\ Core([createBlock(quietly(ed, t), appended(ed, t)) EXCEPT !.drag = appended(ed, t)])
    /\ UNCHANGED rest

\* Pairs of connections that may come close, one of them the dragged block's own or
\* the last of its stack: <<parent, socket, child>>.
Neighbours(w, b) ==
    LET far == DOMAIN w \ getDescendants(w, b)
        own == {<<b, s>> : s \in DOMAIN Sockets(w[b])} \union {<<lastInStack(w, b), "next">>}
    IN UNION {{<<p, s, b>> : s \in DOMAIN Sockets(w[p])} : p \in far}
       \union {<<o[1], o[2], c>> : o \in own, c \in far \cap Tops(w)}

\* A dragged block displaces what it lands on, unless it would end a stack that goes
\* on; nothing that lies still displaces a dragged block's children.
doDragChecks(w, x, b) ==
    LET h == At(w, x[1], x[2]) IN
    \/ h = None
    \/ x[3] = b /\ ~(/\ Sockets(w[x[1]])[x[2]].kind = "stmt"
                     /\ Defs[w[b].type].next = {} /\ Defs[w[h].type].next # {})

Candidates(w, b) == {x \in Neighbours(w, b) : canConnect(w, x[1], x[2], x[3]) /\ doDragChecks(w, x, b)}

dropped == fire([ed EXCEPT !.drag = None], BlockMove(ed.drag, <<None, "">>, <<None, "">>, TRUE))

\* The drop: where it is, on a connection, or into the trash.
endDrag ==
    \/ ed' = [dropped EXCEPT !.grp = 0]
    \/ \E x \in Candidates(ed.ws, ed.drag) : ed' = [connect(dropped, x[1], x[2], x[3]) EXCEPT !.grp = 0]
    \/ ed' = [dispose(dropped, ed.drag, FALSE) EXCEPT !.grp = 0]

handleUp == ed.drag # None /\ endDrag /\ UNCHANGED <<left, past, rest>>

deleted(b) == [dispose(setGroup(ed), b, Defs[ed.ws[b].type].out = {}) EXCEPT !.grp = 0]

checkAndDelete(b) == Idle /\ Core(deleted(b)) /\ UNCHANGED rest

copy(b) ==
    /\ Idle /\ Core(ed)
    /\ clip' = {save(ed.ws, b, FALSE)}
    /\ UNCHANGED <<undo, redo, trash, page>>

cut(b) ==
    /\ Idle /\ Core(deleted(b))
    /\ clip' = {save(ed.ws, b, FALSE)}
    /\ UNCHANGED <<undo, redo, trash, page>>

\* The new block gets no group of its own.
paste(t) ==
    LET S == quietly(ed, t) IN
    /\ Idle /\ Room(t)
    /\ Core(fire(S, BlockCreate(S.ws, appended(ed, t))))
    /\ UNCHANGED rest

pasteCopied == \E t \in clip : paste(t)

duplicate(b) == paste(save(ed.ws, b, FALSE))

Dropdowns == {"thesada_on_sensor", "thesada_if_temp", "thesada_if_current", "logic_compare", "logic_operation"}
TextInputs == {"thesada_if_temp", "thesada_if_current", "thesada_if_battery", "thesada_notify",
               "thesada_notify_temp", "text"}

\* A dropdown: one change, in whatever group there is.
onItemSelected_(b, v) ==
    /\ Idle /\ ed.ws[b].type \in Dropdowns /\ v # ed.ws[b].field
    /\ Core(setValue(ed, b, v))
    /\ UNCHANGED rest

showEditor_(b) ==
    /\ Idle /\ ed.ws[b].type \in TextInputs
    /\ Core([setGroup(ed) EXCEPT !.edit = [blk |-> b, old |-> ed.ws[b].field, new |-> ed.ws[b].field]])
    /\ UNCHANGED rest

\* Every keystroke changes the field; none is recorded.
onHtmlInputChange_(v) ==
    /\ ed.edit # NoEdit /\ v # ed.edit.new
    /\ Core([ed EXCEPT !.ws[ed.edit.blk].field = v, !.edit.new = v])
    /\ UNCHANGED rest

\* Enter, Tab or a click elsewhere; or Escape, which puts the old value back.
onHtmlInputKeyDown_ ==
    /\ ed.edit # NoEdit
    /\ \/ ed' = widgetDispose_(ed)
       \/ ed' = widgetDispose_([ed EXCEPT !.ws[ed.edit.blk].field = ed.edit.old, !.edit.new = ed.edit.old])
    /\ UNCHANGED <<left, past, rest>>

blockDisable(b) ==
    /\ Idle /\ ~getInheritedDisabled(ed.ws, b)
    /\ Core(Grouped(ed, LAMBDA T : setEnabled(T, b, ~T.ws[b].on)))
    /\ UNCHANGED rest

\* A block in an arm that stays leaves no event, and undo, which rebuilds the arms
\* with loadExtraState, does not plug it in again.
mutate(b, x) ==
    LET stays == \E s \in Range(Rebuilt) : At(ed.ws, b, s) # None /\ s \in DOMAIN Inputs([ed.ws[b] EXCEPT !.extra = x])
    IN /\ Idle /\ ed.ws[b].type = "controls_if" /\ x # ed.ws[b].extra
       /\ CoreIf(recomposeSourceBlock(ed, b, x), ~stays)
       /\ UNCHANGED rest

\* Undo and redo: z is what undoStep made of the two stacks.
Done(S, good) ==
    /\ CoreIf(S, good)
    /\ page' = [page EXCEPT !.phase = IF S.hang THEN "hung" ELSE @]

Undone(z) ==
    /\ Done(z.ed, Len(z.from) >= past.base)
    /\ undo' = z.from /\ redo' = z.to
    /\ UNCHANGED <<clip, trash>>

Redone(z) ==
    /\ Done(z.ed, Len(z.to) >= past.base)
    /\ redo' = z.from /\ undo' = z.to
    /\ UNCHANGED <<clip, trash>>

undoWorkspace == Idle /\ undo # <<>> /\ Undone(undoStep([ed |-> ed, from |-> undo, to |-> redo], FALSE))

redoWorkspace == Idle /\ redo # <<>> /\ Redone(undoStep([ed |-> ed, from |-> redo, to |-> undo], TRUE))

\* deleteNext_: one block at a time, a timer between them, all in one group.
deleteNext(S, b) == [dispose([S EXCEPT !.grp = S.del.grp], b, FALSE) EXCEPT !.grp = 0]

workspaceDelete ==
    /\ Idle /\ ed.del = NoDel /\ DOMAIN ed.ws # {}
    /\ \E b \in Tops(ed.ws) :
          Core(deleteNext([setGroup(ed) EXCEPT !.del = [todo |-> DOMAIN ed.ws, grp |-> ed.ng]], b))
    /\ UNCHANGED rest

\* The timer does not care what the user is doing; its last round only ends the group.
deleteNext_ ==
    /\ Ready /\ ed.del # NoDel
    /\ \/ /\ ed.del.todo = {}
          /\ ed' = [ed EXCEPT !.del = NoDel, !.grp = 0]
       \/ \E b \in ed.del.todo : ed.ws[b].up \notin ed.del.todo /\ ed' = deleteNext(ed, b)
    /\ past' = [past EXCEPT !.clean = @ /\ Idle]
    /\ UNCHANGED <<undo, redo, clip, trash, page, left>>

Fired(z) ==
    /\ ed' = z.ed /\ undo' = z.undo /\ redo' = z.redo /\ trash' = z.trash
    /\ UNCHANGED <<clip, page, past, left>>

flush == Ready /\ ed.q # <<>> /\ Fired(fireNow([ed |-> ed, undo |-> undo, redo |-> redo, trash |-> trash]))

\* The template arrives when it arrives.
loadTemplate(t) ==
    /\ Ready /\ page.want = {} /\ left > 0
    /\ page' = [page EXCEPT !.want = {t}]
    /\ left' = left - 1
    /\ UNCHANGED <<ed, undo, redo, clip, trash, past>>

Replaced(S) ==
    /\ ed' = [S EXCEPT !.err = FALSE]
    /\ page' = [page EXCEPT !.want = {}]
    /\ past' = [past EXCEPT !.ws = ed.ws, !.base = Len(undo), !.loaded = TRUE,
                            !.clean = Quiet /\ ed.rec /\ ~S.err]
    /\ UNCHANGED <<undo, redo, clip, trash, left>>

templateArrives == Ready /\ \E t \in page.want : Replaced(loadWorkspace(ed, t))

\* What the click saw is what is stored, whatever happens before the answer.
saveWorkspace ==
    /\ Ready /\ ~page.locked /\ page.writing = {} /\ left > 0
    /\ page' = [page EXCEPT !.writing = {[mine |-> TRUE, json |-> serialize(ed.ws), lua |-> generateLua(ed.ws)]}]
    /\ left' = left - 1
    /\ UNCHANGED <<ed, undo, redo, clip, trash, past>>

saveEnds ==
    Ready /\ \E r \in page.writing :
        /\ \/ page' = [page EXCEPT !.writing = {}, !.stored = r]
           \/ page' = [page EXCEPT !.writing = {}]
        /\ UNCHANGED <<ed, undo, redo, clip, trash, past, left>>

Mutations == [elseifs : 0..1, else : BOOLEAN]

Edit ==
    \E b \in DOMAIN ed.ws :
        \/ \E heal \in BOOLEAN : startDraggingBlock(b, heal)
        \/ checkAndDelete(b)
        \/ copy(b)
        \/ cut(b)
        \/ duplicate(b)
        \/ \E v \in Fields : onItemSelected_(b, v)
        \/ showEditor_(b)
        \/ blockDisable(b)
        \/ \E x \in Mutations : mutate(b, x)

EditorNext ==
    \/ Restore \/ Seed \/ FetchFails \/ RestoreFails \/ UseStarter
    \/ Edit
    \/ \E t \in Toolbox \union trash : updateIsDraggingFromFlyout(t)
    \/ handleUp
    \/ pasteCopied
    \/ \E v \in Fields : onHtmlInputChange_(v)
    \/ onHtmlInputKeyDown_
    \/ undoWorkspace \/ redoWorkspace
    \/ workspaceDelete \/ deleteNext_
    \/ flush
    \/ \E t \in Templates : loadTemplate(t)
    \/ templateArrives
    \/ saveWorkspace \/ saveEnds

EditorSpec == EditorInit /\ [][EditorNext]_editorVars

-----------------------------------------------------------------------------
(* Properties *)

\* No block hangs from itself.
RECURSIVE Rooted(_, _, _)
Rooted(w, b, fuel) == fuel > 0 /\ (w[b].up = None \/ Rooted(w, w[b].up, fuel - 1))

\* The blocks are a forest in which every plug fits its socket, whatever drags,
\* heals, undo, paste, mutation, template loads and delete-all timers did to it;
\* once the events are flushed, a compare block holds operands of one type.  Only an
\* undo after an operation that did not wait for the events before it can hang the page.
WellPlugged ==
    LET w == ed.ws IN
    /\ page.phase = "hung" => past.hurried
    /\ \A b \in DOMAIN w : w[b].up # None =>
          /\ w[b].up \in DOMAIN w
          /\ canConnect(w, w[b].up, w[b].slot, b)
          /\ Rooted(w, b, Cardinality(DOMAIN w))
          /\ \A c \in DOMAIN w : Loc(w, c) = Loc(w, b) => c = b
    /\ (Quiet => \A c \in Compares(w) :
          LET a == At(w, c, "A")
              b == At(w, c, "B")
          IN ~mismatch(w, a, b))

RECURSIVE UndoTo(_, _)
UndoTo(z, base) == IF Len(z.from) <= base THEN z.ed.ws ELSE UndoTo(undoStep(z, FALSE), base)

\* The trees of a forest, without their ids.
RECURSIVE NoIds(_)
NoIds(t) == [t EXCEPT !.id = None, !.kids = [s \in DOMAIN @ |-> NoIds(@[s])]]
Trees(w) == {NoIds(t) : t \in serialize(w)}

\* Undo leads back: from a flushed workspace whose events were recorded in order,
\* undo restores the workspace the record started from, block for block; after a
\* template was loaded, which is itself not recorded, it brings back every rule the
\* load cleared.
UndoReturns ==
    Quiet /\ past.clean /\ ~past.hurried =>
        LET back == UndoTo([ed |-> ed, from |-> undo, to |-> <<>>], past.base)
        IN IF past.loaded THEN Trees(past.ws) \subseteq Trees(back) ELSE back = past.ws

\* What is stored for the editor and what is stored for the device agree: the saved
\* JSON loads, and the workspace it gives generates the saved Lua.
StoredAgrees ==
    LET r == loadBlocks([ws |-> <<>>, nid |-> 1, ok |-> TRUE], page.stored.json)
    IN page.stored.mine => r.ok /\ generateLua(r.ws) = page.stored.lua
=============================================================================
