----------------------------- MODULE MCEditor -------------------------------
(* The rule editor and the rules it generates, one part in each behaviour.   *)
EXTENDS RuleEditor, MCRules

Tree(type, id, extra, kids) ==
    [type |-> type, id |-> id, field |-> "f0", on |-> TRUE, extra |-> extra, kids |-> kids]

Single(type, id) == Tree(type, id, Plain, <<>>)

MCToolbox == {Single("controls_if", 0)}

\* A rule with a condition and an action.
SavedRule == Tree("thesada_rules_root", 1, Plain,
             "BODY" :> Tree("thesada_on_sensor", 2, Plain,
                 "DO" :> Tree("thesada_if_temp", 3, Plain, "DO" :> Single("thesada_notify", 4))))

\* An if that holds an action in its else.
SavedBranch == Tree("thesada_on_sensor", 1, Plain,
               "DO" :> Tree("controls_if", 2, [elseifs |-> 0, else |-> TRUE],
                            "ELSE" :> Single("thesada_notify", 3)))

\* A comparison with a text, and an operand of another type.
SavedCompare == {Tree("logic_compare", 1, Plain, "A" :> Single("text", 2)), Single("logic_negate", 3)}

\* Saved with a block type that is gone.
SavedOld == {Tree("thesada_rules_root", 5, Plain, "BODY" :> Single("thesada_gone", 6))}

MCStores == {{}, {SavedRule}, {SavedBranch}, SavedCompare, SavedOld}

\* One template shares ids with the workspace, one does not load.
MCTemplates == {{Tree("thesada_rules_root", 1, Plain, "BODY" :> Single("thesada_on_sensor", 2))}, SavedOld}

MCInit ==
    /\ EditorInit /\ RulesInit
    /\ part \in {"editor", "rules", "text", "logic", "helpers"}
    /\ part # "editor" => page.stored.json = {}
    /\ part # "rules" => rules = <<Pump>>

MCNext ==
    /\ \/ RulesNext /\ UNCHANGED editorVars
       \/ part = "editor" /\ EditorNext /\ UNCHANGED RulesVars
    /\ UNCHANGED part

MCSpec == MCInit /\ [][MCNext]_<<editorVars, RulesVars, part>>
=============================================================================
