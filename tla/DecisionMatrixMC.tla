-------------------------- MODULE DecisionMatrixMC --------------------------
(* Small instances of DecisionMatrix for TLC.                              *)
EXTENDS DecisionMatrix

CONSTANTS t1, v1

Base == [kinds |-> {"other"}, allow |-> {TRUE}, action |-> "noop",
         param |-> <<"word">>,
         var |-> v1, pre |-> "", timer |-> t1, delay |-> 0, set |-> TRUE]

On(kind, action) == [Base EXCEPT !.kinds = {kind}, !.action = action]
StartRow(kind, d) == [On(kind, "start") EXCEPT !.delay = d]

(* A timer started by events and by the clock, and everything that may     *)
(* touch it or its variable.                                               *)
Small == {
  <<StartRow("other", 2), On("minute", "pause")>>,
  <<[On("loop", "execute") EXCEPT !.allow = BOOLEAN], On("other", "conditional"),
    StartRow("minute", 0)>>,
  <<On("other", "file"), On("minute", "store"), On("minute", "resume"),
    On("minute", "write"), On("minute", "url"), On("minute", "stop")>>,
  <<On("other", "add"), [StartRow("second", 1) EXCEPT !.pre = "$"]>>,
  <<On("loop", "multiply"), On("minute", "divide"), On("random", "subtract"),
    On("random", "send")>>,
  <<>>,
  <<[On("other", "noop") EXCEPT !.param = <<"percent">>],
    [On("other", "write") EXCEPT !.param = <<"escape", "word", "percent", "space", "word">>],
    [On("second", "url") EXCEPT !.param = <<"escape", "double", "space", "word">>],
    [On("loop", "url") EXCEPT !.param = <<"double", "space", "data">>],
    [On("minute", "stop") EXCEPT !.param = <<"percent", "word">>]>> }

OneRow == {On("minute", "store")}
=============================================================================
