------------------------------ MODULE Discovery ------------------------------
(***************************************************************************)
(* discover.rs: which processes a filter selects, and the identity of the  *)
(* profiler's own container.                                               *)
(*                                                                         *)
(* A cgroup file is a sequence of lines, each the components of its path.  *)
(* comm, cmdline and a component are texts; what is in a text, what stands *)
(* in it after "docker-" and what its first 64 characters are, is given.   *)
(* What follows "docker-" ends within its component and what follows       *)
(* "/docker/" has 64 characters there, or ends the path: a needle is never *)
(* spread over two components.                                             *)
(***************************************************************************)
EXTENDS Naturals, SequencesExt

CONSTANTS
  None,
  Empty,       \* the empty text
  DockerDir,   \* the component "docker"
  Substrings,  \* per text: what can be asked for that is in it
  AfterDash,   \* per component: from behind its last "docker-" to the next dot, or None
  First64      \* per component: its first 64 characters

Holds(text, needle) == needle = Empty \/ needle \in Substrings[text]

\* The id is looked for in all of the file, wherever it stands in a path.
CgroupHolds(lines, needle) ==
  \/ needle = Empty
  \/ \E line \in ToSet(lines) : \E part \in ToSet(line) : Holds(part, needle)

\* A zombie has a comm, an empty cmdline, and a cgroup; what is not there
\* cannot be read. The container matters only if it was asked for.
Selects(filter, state, process) ==
  /\ state # "absent"
  /\ filter.name = None \/ Holds(process.comm, filter.name)
  /\ \/ filter.cmdline = None
     \/ Holds(IF state = "zombie" THEN Empty ELSE process.cmdline, filter.cmdline)
  /\ filter.cgroup = None \/ CgroupHolds(process.cgroup, filter.cgroup)

Discover(filter, states, process) ==
  {p \in DOMAIN states : Selects(filter, states[p], process[p])}

\* Docker's two ways of writing an id, the last of the path: docker-ID.scope, or
\* else /docker/ID.
IdOf(path) ==
  LET dash  == SelectLastInSeq(path, LAMBDA part : AfterDash[part] # None)
      slash == SelectLastInSeq(Front(path), LAMBDA part : part = DockerDir)
  IN  IF dash > 0 THEN AfterDash[path[dash]]
      ELSE IF slash > 0 THEN First64[path[slash + 1]]
      ELSE None

SelfCgroupId(lines) ==
  LET i == SelectInSeq(lines, LAMBDA path : IdOf(path) # None)
  IN  IF i = 0 THEN None ELSE IdOf(lines[i])
=============================================================================
