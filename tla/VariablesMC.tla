---------------------------- MODULE VariablesMC ----------------------------
(* Variables, for TLC: the sessions are interchangeable; a run is given    *)
(* either three commands of one name and value, or two of many.            *)
EXTENDS Variables, TLC

Interchangeable == Permutations(Sessions)

Deep == [commands |-> 3, words |-> {"A"}, types |-> {"number"}, texts |-> {"7"}]
Wide == [commands |-> 2, words |-> {"A", "$A", "$@A", "ABCDE", "ABCDEFGHIJK"},
         types |-> {"string", "boolean", "number", "guid"}, texts |-> {"65535", "<x"}]
DeepAndWide == {Deep, Wide}
=============================================================================
