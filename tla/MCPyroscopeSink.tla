-------------------------- MODULE MCPyroscopeSink --------------------------
(* Instances of PyroscopeSink for TLC: two functions of one name in two     *)
(* files and two lines, one of them named like a string of the profile's    *)
(* own, in stacks that share frames. The wall clock may be set back by more *)
(* than a window lasts.                                                     *)
EXTENDS PyroscopeSink

MCNames == {"count", "f"}
MCFiles == {"", "a.php"}
MCLines == {1, 2}

F(name, file, line) == [name |-> name, file |-> file, line |-> line]

MCStacks ==
  {<<F("f", "a.php", 1)>>,
   <<F("count", "", 1), F("f", "a.php", 2)>>,
   <<F("f", "a.php", 2), F("f", "", 1)>>}

MCSkews == {-3}
=============================================================================
