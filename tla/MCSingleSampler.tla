-------------------------- MODULE MCSingleSampler --------------------------
(* Instances of SingleSampler for TLC: two stacks that differ in a line     *)
(* only, and one whose leaf is dropped.                                     *)
EXTENDS SingleSampler

F(class, function, line) == [class |-> class, function |-> function, line |-> line]

MCStacks == {<<F("A", "f", 1), F("", "main", 5)>>, <<F("A", "f", 2), F("", "main", 5)>>,
             <<F("", "f", 3)>>, <<F("S", "start", 1), F("", "main", 5)>>}
MCDropLeaf == {<<"S", "start">>}
MCMetas == {[uri |-> "/", method |-> "none"]}
MCKeyOrder == <<<<<<"", "f">>>>, <<<<"", "main">>, <<"A", "f">>>>>>
=============================================================================
