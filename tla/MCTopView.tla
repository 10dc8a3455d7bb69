----------------------------- MODULE MCTopView -----------------------------
(* Instances of TopView for TLC: two processes, in a container and in one    *)
(* nested in it; a function that calls itself.                              *)
EXTENDS TopView

CONSTANTS p1, p2, f, g

\* The texts of comm, of cmdline, and of the components of cgroup paths.
Ids == {"c1", "c2"}
Texts == Ids \cup {"", "docker", "system.slice", "docker-c1.scope", "docker-.scope",
                   "php-fpm", "php-fpm: pool"}

MCSubstrings ==
  [t \in Texts |-> {""} \cup
     CASE t \in Ids -> {t}
       [] t = "docker-c1.scope" -> {"c1"}
       [] t \in {"php-fpm", "php-fpm: pool"} -> {"php"}
       [] OTHER -> {}]

MCAfterDash ==
  [t \in Texts |-> CASE t = "docker-c1.scope" -> "c1"
                     [] t = "docker-.scope" -> ""
                     [] OTHER -> None]

MCFirst64 == [t \in Texts |-> t]

InScope == <<<<"", "system.slice", "docker-c1.scope">>>>
Nested == <<<<"", "docker", "c1", "docker", "c2">>>>

MCProcess ==
  p1 :> [comm |-> "php-fpm", cmdline |-> "php-fpm: pool", cgroup |-> InScope]
  @@ p2 :> [comm |-> "php-fpm", cmdline |-> "", cgroup |-> Nested]

\* What the profiler sees of its own cgroup: the inner container, an id that is empty,
\* its namespace's root.
MCSelves == {Nested, <<<<"", "docker-.scope">>>>, <<<<"", "">>>>}

O(pid, cmdline, thisContainer) ==
  [pid |-> pid, name |-> "php", cmdline |-> cmdline, thisContainer |-> thisContainer]
MCOptions == {O(p1, None, FALSE), O(None, "php", FALSE), O(None, None, TRUE)}

MCStacks == {<<f, f, g>>, <<g>>}
=============================================================================
