----------------------------- MODULE MCParts -----------------------------
(***************************************************************************)
(* Four items, two of them with equal keys.  The table starts with one     *)
(* bucket and grows to two and to four; keys 0 and 4 share a bucket in all *)
(* of them.  Five bits in two words of three, and numbers on both sides.   *)
(* An array of three cells, and four elements for the stack that is a list *)
(* The main thread and one that is forked, on six hosts, any number of     *)
(* switches.  Every option alone, and any two of some that are done one    *)
(* after the other.                                                        *)
(***************************************************************************)
EXTENDS Parts, TLC
CONSTANTS i1, i2, i3, i4

MCItem == {i1, i2, i3, i4}
MCKeyOf == i1 :> 0 @@ i2 :> 1 @@ i3 :> 1 @@ i4 :> 4
MCKey == {0, 1, 4}
MCHash == [k \in MCKey |-> k]
MCWhich == -1 .. 5
MCTasks == {<<"-K">>, <<"-r", "f">>, <<"-cp", "f", "g">>, <<"-l">>, <<"-x", "f">>, <<"-x", "g">>, <<"-m", "f">>}
MCCommand == [1 .. 2 -> MCTasks] \cup {<<<<"-cp">>>>, <<<<"-ci">>>>}
MCTestThread == {"main", "forked thread", "ping", "list ping"}
MCTestList == {"this", "selfTestPing"}
MCTestSem == {<<"ping">>, <<"test">>} \cup {<<"lock", l>> : l \in MCTestList} \cup {<<"waiter", t>> : t \in MCTestThread}
=============================================================================
