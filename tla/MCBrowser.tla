----------------------------- MODULE MCBrowser ------------------------------
(* The device tables and the service worker of the user's browser, one  *)
(* of the two in each behaviour: they share no state.                       *)
(*                                                                          *)
(* Tables: two tabs of the live list with two devices, or one tab of the    *)
(* admin list with three.  As text "10" < "1a" < "9", as numbers 9 < 10:    *)
(* three rows with these keys make a cycle of the comparator.               *)
(*                                                                          *)
(* Worker: three versions, with an asset that comes with the second and     *)
(* goes with the third: a put of the first can land while the third         *)
(* installs, activates or is active.                                        *)
EXTENDS DevicesTable, ShellCache, TLC

CONSTANTS t1, t2, t3

MCTabs == [devices |-> {t1, t2}, admin |-> {t3}]
MCRows == [devices |-> <<"d1", "d2">>, admin |-> <<"d1", "d2", "d3">>]

Nine == [num |-> 9, txt |-> 3]
Ten == [num |-> 10, txt |-> 1]
OneA == [num |-> NotNumeric, txt |-> 2]
MCRenders ==
    [devices |-> {[d1 |-> NoKey, d2 |-> Nine]},
     admin |-> {[d1 |-> Nine, d2 |-> Ten, d3 |-> OneA], [d1 |-> NoKey, d2 |-> Ten, d3 |-> Nine],
                [d1 |-> OneA, d2 |-> NoKey, d3 |-> OneA]}]
MCQueries == [x |-> {"d2", "d3"}]

MCVersions == 1..3
MCShells == <<{"offline"}, {"offline", "css"}, {"offline"}>>
MCAssets == {"offline", "css"}

MCSymmetry == Permutations({t1, t2}) \cup Permutations(Requests)

VARIABLE part   \* what this behaviour explores

MCInit ==
    /\ TableInit /\ Init
    /\ part \in {"tables", "worker"}
    /\ part # "tables" => name = "devices"

MCNext ==
    /\ \/ part = "tables" /\ TableNext /\ UNCHANGED vars
       \/ part = "worker" /\ Next /\ UNCHANGED tableVars
    /\ UNCHANGED part

MCSpec == MCInit /\ [][MCNext]_<<vars, tableVars, part>>
=============================================================================
