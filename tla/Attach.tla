------------------------------- MODULE Attach -------------------------------
(***************************************************************************)
(* Target::attach: from a process id to the address of executor_globals    *)
(* and the layout of its structures, or an error.                          *)
(*                                                                         *)
(* A world is everything the attach meets: the memory map, the files       *)
(* behind it, what the options say. It says more than the profiler can     *)
(* see, so that what it concludes can be held against what is so.          *)
(***************************************************************************)
EXTENDS Accessors, FiniteSetsExt

CONSTANTS
  Worlds,     \* the worlds to attach in
  Php,        \* the file that is PHP
  Tasks,      \* the threads of the target
  Leader,     \* its main thread
  PhpTasks,   \* those with a TSRM cache
  EgOf,       \* where the executor_globals of a thread are
  Layouts,    \* the minor versions of PHP 8 that are known, and their layout
  None

\* Where PHP was loaded, and where its executor_globals are.
TrueBiasOf(w) ==
  IF w.disk[Php].type = "DYN"
  THEN Min({m.start : m \in {n \in ToSet(w.maps) : n.path = Php}}) ELSE 0

TrueEgsOf(w) ==
  IF w.disk[Php].zts THEN {EgOf[t] : t \in PhpTasks}
  ELSE {w.disk[Php].at["executor_globals"] + TrueBiasOf(w)}

Names == {"executor_globals", "php_version", "tsrm_get_ls_cache",
          "tsrm_get_ls_cache_tcb_offset", "executor_globals_offset"}

ASSUME TasksAssumption == Leader \in Tasks /\ PhpTasks \subseteq Tasks
ASSUME LayoutsAssumption == /\ DOMAIN Layouts \subseteq 0..9
                            /\ \A v \in DOMAIN Layouts : Layouts[v] # None
ASSUME NoneAssumption == None \notin Nat

VARIABLES
  world,    \* what is so
  alive,    \* the target is running
  pc,       \* the next step of the attach, or "done" or "error"
  binary,   \* the principal binary: its path and load base
  elf,      \* the file that was opened for it
  eg,       \* Symbols.executor_globals, 0 = not yet known
  layout,
  failed    \* the step that failed

vars == <<world, alive, pc, binary, elf, eg, layout, failed>>

Init ==
  /\ world \in Worlds
  /\ alive = TRUE
  /\ pc = "maps"
  /\ binary = None /\ elf = None
  /\ eg = 0 /\ layout = None /\ failed = None

Steps == {"maps", "open", "resolve", "zts", "version"}

\* The step at hand ends in an error, or the attach goes on with another.
GoesOn(ok, step) ==
  /\ pc' = IF ok THEN step ELSE "error"
  /\ failed' = IF ok THEN None ELSE pc

(***************************************************************************)
(* The principal binary                                                    *)
(***************************************************************************)

\* Mutant: shared mappings are not skipped.
AnyExecutable(m) == m.exec /\ m.kind = "file"

\* A private executable mapping of a file that is there: no pseudo path, no
\* device, not deleted.
IsText(m) == m.exec /\ m.private /\ m.kind = "file"

PrincipalBinary(maps) ==
  LET i == SelectInSeq(maps, IsText)
  IN  IF i = 0 THEN None
      ELSE [path |-> maps[i].path,
            base |-> Min({m.start : m \in {n \in ToSet(maps) :
                            n.path = maps[i].path /\ n.kind = maps[i].kind}})]

ReadMaps ==
  /\ pc = "maps"
  /\ binary' = IF alive THEN PrincipalBinary(world.maps) ELSE None
  /\ GoesOn(binary' # None, "open")
  /\ UNCHANGED <<world, alive, elf, eg, layout>>

\* The path is tried in the profiler's own file system first, then in the
\* target's.
OpenBinary ==
  /\ pc = "open"
  /\ elf' = IF world.own[binary.path] # None THEN world.own[binary.path]
            ELSE IF alive THEN world.disk[binary.path] ELSE None
  /\ GoesOn(elf' # None, "resolve")
  /\ UNCHANGED <<world, alive, binary, eg, layout>>

(***************************************************************************)
(* symbols::resolve                                                        *)
(***************************************************************************)

\* Mutant: a fixed-address executable is biased as well.
AlwaysBiased == binary.base

Bias == IF elf.type = "DYN" THEN binary.base ELSE 0

Has(name) == name \in elf.symbols
IsZts(symbols) == symbols \cap {"tsrm_get_ls_cache", "executor_globals_offset"} # {}
ZtsComplete(symbols) ==
  {"tsrm_get_ls_cache_tcb_offset", "executor_globals_offset"} \subseteq symbols

ApplyOverride(addr) == IF addr >= binary.base THEN addr ELSE addr + binary.base

\* Type and machine are checked, then the symbols of a ZTS build, then
\* executor_globals: an override wins over the symbol.
Resolve ==
  /\ pc = "resolve"
  /\ LET zts == IsZts(elf.symbols)
         ok == /\ elf.type \in {"DYN", "EXEC"} /\ elf.native
               /\ zts => ZtsComplete(elf.symbols)
               /\ world.override # None \/ Has("executor_globals") \/ zts
     IN  /\ eg' = IF ~ok THEN 0
                  ELSE IF world.override # None THEN ApplyOverride(world.override)
                  ELSE IF Has("executor_globals") THEN elf.at["executor_globals"] + Bias
                  ELSE 0
         /\ GoesOn(ok, IF zts /\ eg' = 0 THEN "zts" ELSE "version")
  /\ UNCHANGED <<world, alive, binary, elf, layout>>

(***************************************************************************)
(* tls::resolve_zts_executor_globals                                       *)
(***************************************************************************)

TrueBias == TrueBiasOf(world)

Readable == alive /\ world.permitted

\* Code at an address: that of the function, or of something else.
CodeAt(name) ==
  IF elf.at[name] + Bias = world.disk[Php].at[name] + TrueBias
  THEN world.disk[Php].code[name] ELSE <<>>

DecodeTcb == IF world.arm THEN DecodeTcbArm(CodeAt("tsrm_get_ls_cache_tcb_offset"))
             ELSE DecodeTcbX86(CodeAt("tsrm_get_ls_cache_tcb_offset"))

TrueTcb == Execute(0, world.disk[Php].code["tsrm_get_ls_cache_tcb_offset"], world.regs)

PickTask == IF Tasks = {Leader} THEN {Leader} ELSE Tasks \ {Leader}

\* The cache of the picked task, by way of its TLS base, which ptrace may fail to
\* give (see PtraceAttach); a wrong slot holds anything, say 0.
ResolveZts ==
  /\ pc = "zts"
  /\ \/ \E t \in PickTask \cap PhpTasks :
          /\ Readable /\ DecodeTcb # Bad
          /\ eg' = IF DecodeTcb = TrueTcb THEN EgOf[t] ELSE 0
          /\ GoesOn(TRUE, "version")
     \/ GoesOn(FALSE, "version") /\ UNCHANGED eg
  /\ UNCHANGED <<world, alive, binary, elf, layout>>

(***************************************************************************)
(* The version and its layout                                              *)
(***************************************************************************)

\* Of the runs of a section, a version is the first that a \0 ends, that is one and
\* that is longer than five bytes.
Matches(r) == r.ended /\ r.minor # None /\ r.length > 5

ScanForVersion(runs) ==
  LET i == SelectInSeq(runs, Matches) IN IF i = 0 THEN None ELSE runs[i].minor

FindVersion(sections) ==
  LET i == SelectInSeq(sections, LAMBDA runs : ScanForVersion(runs) # None)
  IN  IF i = 0 THEN None ELSE ScanForVersion(sections[i])

ReadVersion ==
  LET fn == elf.at["php_version"] + Bias
      code == CodeAt("php_version")
      at == IF world.arm THEN DecodeVersionArm(fn, code) ELSE DecodeVersionX86(fn, code)
  IN  IF Readable /\ at # Bad /\ at = Execute(fn, code, world.regs)
      THEN world.disk[Php].minor ELSE None

\* --php-version, else a literal, else the accessor.
Version ==
  IF world.version # None THEN world.version
  ELSE IF FindVersion(elf.sections) # None THEN FindVersion(elf.sections)
  ELSE IF Has("php_version") THEN ReadVersion ELSE None

\* The first digit of the minor version decides: "8.10" starts with "8.1".
Leading(minor) ==
  IF minor < 10 THEN minor ELSE IF minor < 100 THEN minor \div 10 ELSE minor \div 100

Pick(minor) == IF Leading(minor) \in DOMAIN Layouts THEN Layouts[Leading(minor)] ELSE None

DetectVersion ==
  /\ pc = "version"
  /\ layout' = IF Version = None THEN None ELSE Pick(Version)
  /\ GoesOn(layout' # None, "done")
  /\ UNCHANGED <<world, alive, binary, elf, eg>>

Exit ==
  /\ alive /\ pc \notin {"done", "error"}
  /\ alive' = FALSE
  /\ UNCHANGED <<world, pc, binary, elf, eg, layout, failed>>

Next == ReadMaps \/ OpenBinary \/ Resolve \/ ResolveZts \/ DetectVersion \/ Exit

Spec == Init /\ [][Next]_vars

(***************************************************************************)
(* What worlds are like                                                    *)
(***************************************************************************)

\* The loader maps a program's code privately; an accessor is what a compiler
\* makes of it (only code of that shape is asked of the one of the version: the
\* other may be any); "8.0.0" is the shortest version.
PhpIsRight(w) ==
  LET p == w.disk[Php]
  IN  /\ p # None /\ p.minor \in Nat /\ p.at \in [Names -> Int]
      /\ IF p.zts THEN /\ "executor_globals" \notin p.symbols
                       /\ IsCode(p.code["tsrm_get_ls_cache_tcb_offset"], w.regs)
         ELSE ~IsZts(p.symbols)
      /\ "php_version" \in p.symbols =>
           /\ IsCode(p.code["php_version"], w.regs)
           /\ IsVersionAccessor(w.arm, p.code["php_version"])
      /\ p.sections \in Seq(ToSet(p.sections))
      /\ \A runs \in ToSet(p.sections) :
           /\ runs \in Seq(ToSet(runs))
           /\ \A r \in ToSet(runs) : r.length \in Nat /\ (r.minor # None => r.length >= 5)

MapsAreRight(w) ==
  /\ w.maps \in Seq(ToSet(w.maps))
  /\ \A m \in ToSet(w.maps) :
       /\ m.start \in Nat
       /\ m.path = Php => m.kind \in {"file", "deleted"} /\ (m.exec => m.private)
  /\ None \notin [path : {m.path : m \in ToSet(w.maps)}, base : Nat]

\* No other file that is mapped has PHP's symbols, wherever it is looked for.
OthersAreRight(w) ==
  \A m \in ToSet(w.maps) : m.path # Php =>
    \A f \in {w.own[m.path], w.disk[m.path]} : f # None => f.symbols \cap Names = {}

\* An address that is given is one of PHP: as it is in memory, above where PHP was
\* loaded, or counted from there.
OptionsAreRight(w) ==
  /\ w.version \in {None, w.disk[Php].minor}
  /\ w.override # None =>
       LET b == PrincipalBinary(w.maps)
       IN  /\ b # None /\ b.path = Php /\ w.override \in Nat
           /\ \/ w.override >= b.base /\ w.override \in TrueEgsOf(w)
              \/ w.override < b.base /\ w.override + b.base \in TrueEgsOf(w)

ASSUME WorldsAssumption ==
  \A w \in Worlds : PhpIsRight(w) /\ MapsAreRight(w) /\ OthersAreRight(w) /\ OptionsAreRight(w)

(***************************************************************************)
(* Properties                                                              *)
(***************************************************************************)

php == world.disk[Php]

\* Where the profiler looks in the wrong place: its own file system has another
\* file under the path of PHP; PHP was replaced on disk since it was started.
Shadowed == world.own[Php] \notin {None, php}
Replaced == \E m \in ToSet(world.maps) : m.path = Php /\ m.kind = "deleted"

TrueEgs == TrueEgsOf(world)

\* A version that is not known, but starts as one that is: 8.10.
TwoDigits == php.minor >= 10

\* The first literal that looks like PHP's version may be another library's.
ForeignLiteral == FindVersion(php.sections) \notin {None, php.minor}

\* An attach that succeeds reads the executor_globals of the target, through the
\* layout of its version: whatever the type of the executable, the order of the
\* mappings, the option it came from, the code of the accessors. (Options are
\* right.)
AttachedRight ==
  pc = "done" /\ ~Shadowed /\ ~Replaced =>
    /\ eg \in TrueEgs
    /\ ~TwoDigits /\ ~ForeignLiteral => layout = Layouts[php.minor]

\* What an attach needs, and where it may know it from.
Sound ==
  /\ ~Shadowed /\ ~Replaced
  /\ php.type \in {"DYN", "EXEC"} /\ php.native
  /\ \E m \in ToSet(world.maps) : m.path = Php /\ m.exec
  /\ php.minor \in DOMAIN Layouts
KnowsAddress ==
  \/ world.override # None
  \/ ~php.zts /\ "executor_globals" \in php.symbols
  \/ php.zts /\ ZtsComplete(php.symbols)
KnowsVersion ==
  \/ world.version # None
  \/ \E runs \in ToSet(php.sections) : \E r \in ToSet(runs) :
        r.ended /\ r.minor = php.minor
  \/ "php_version" \in php.symbols /\ world.permitted

\* The reasons a good attach is refused for, all of them: the code of another file
\* comes first, say of a program that has PHP as a library; symbols of a thread-safe
\* build are missing, though options give what they are for; a version of five
\* characters ("8.0.0") is not looked at; a literal of another library comes first;
\* and a thread without a cache, or one that ptrace cannot stop.
Embedded == \E i \in DOMAIN world.maps :
              /\ world.maps[i].exec /\ world.maps[i].private /\ world.maps[i].kind = "file"
              /\ \A j \in 1..i : world.maps[j].path = Php => ~world.maps[j].exec
PartlyStripped == php.zts /\ IsZts(php.symbols) /\ ~ZtsComplete(php.symbols)
ShortLiteral == \E runs \in ToSet(php.sections) : \E r \in ToSet(runs) : r.length = 5

\* No attach is refused that could have been made, except for those reasons.
RefusedForAReason ==
  pc = "error" /\ alive /\ Sound /\ KnowsAddress /\ KnowsVersion =>
    Embedded \/ PartlyStripped \/ ShortLiteral \/ ForeignLiteral \/ failed = "zts"
=============================================================================
