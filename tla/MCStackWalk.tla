---------------------------- MODULE MCStackWalk ----------------------------
(* Instances of StackWalk for TLC. *)
EXTENDS StackWalk

CONSTANTS s1, s2, f1, f2, f3, a1, a2, n1, n2, x, long

\* A script's main code, an internal function, and the code of an eval.
MCFunction ==
  f1 :> [type |-> "user", name |-> [function |-> Null, class |-> Null, file |-> a2]]
  @@ f2 :> [type |-> "internal", name |-> [function |-> a1, class |-> Null, file |-> Null]]
  @@ f3 :> [type |-> "other", name |-> [function |-> Null, class |-> a1, file |-> a2]]

\* The second name is longer than what is read of it.
MCCut == n1 :> n1 @@ n2 :> long

B(key, tag, inner, val) == [key |-> key, tag |-> tag, inner |-> inner, val |-> val]

\* A $_SERVER that was unset, then set again; one that is a reference, with a deleted
\* entry before the live one.
MCRequests ==
  {[globals |-> <<B("_SERVER", "undef", "undef", x), B("_SERVER", "array", "array", x)>>,
    server  |-> <<B("REQUEST_URI", "string", "string", n1)>>],
   [globals |-> <<B("_SERVER", "reference", "array", x)>>,
    server  |-> <<B("REQUEST_URI", "undef", "undef", n1),
                  B("REQUEST_METHOD", "string", "string", n1),
                  B("REQUEST_URI", "reference", "string", n2)>>]}

\* A wild function, a frame that is its own caller, a wild caller of an
\* unknown frame.
MCGarbage ==
  {[func |-> Wild, prev |-> Null], [func |-> f2, prev |-> s1],
   [func |-> Null, prev |-> Wild]}

\* Names are alike: let all strings hold the same one at first.
MCInit == Init /\ text = [a \in Addrs |-> n1]
MCSpec == MCInit /\ [][Next]_vars /\ WF_vars(Walker)
=============================================================================
