------------------------------ MODULE MCAttach ------------------------------
(* Worlds for Attach: PHP as it is built and stripped, and what may lie     *)
(* around it in memory and on disk.                                         *)
EXTENDS Attach

Lib == "libc"
Httpd == "httpd"
Pool == "pool"

MCEgOf == [t \in Tasks |-> IF t = Leader THEN 200 ELSE 300]
MCLayouts == [v \in 0..5 |-> IF v = 5 THEN "late" ELSE IF v = 4 THEN "long" ELSE "early"]

\* What a C compiler makes of the accessors, plain.
I(op, rd, hw, imm) == [op |-> op, rd |-> rd, hw |-> hw, imm |-> imm]
Ret == I("ret", 0, 0, 0)
Code(arm) ==
  ("tsrm_get_ls_cache_tcb_offset" :> IF arm THEN <<I("movz", 0, 0, 3), Ret>>
                                     ELSE <<I("mov", 0, 0, 0 - 3), Ret>>)
  @@ ("php_version" :> IF arm THEN <<I("adrp", 0, 0, 2), I("add", 0, 0, 1), Ret>>
                       ELSE <<I("lea", 0, 0, 5), Ret>>)

AllNames == "executor_globals" :> 8 @@ "php_version" :> 9 @@ "tsrm_get_ls_cache" :> 10
            @@ "tsrm_get_ls_cache_tcb_offset" :> 11 @@ "executor_globals_offset" :> 12

R(minor, length, ended) == [minor |-> minor, length |-> length, ended |-> ended]
Good(minor) == <<<<R(None, 9, TRUE), R(minor, 6, TRUE)>>>>

ZtsNames == Names \ {"executor_globals"}
NtsNames == {"executor_globals", "php_version"}

Elf(type, zts, symbols, sections, code) ==
  [type |-> type, native |-> TRUE, zts |-> zts, symbols |-> symbols, code |-> code,
   at |-> IF type = "EXEC" THEN [n \in Names |-> AllNames[n] + 64] ELSE AllNames,
   sections |-> sections, minor |-> 3]

M(path, kind, exec, private, start) ==
  [path |-> path, kind |-> kind, exec |-> exec, private |-> private, start |-> start]
Typical == <<M(Php, "file", FALSE, TRUE, 64), M(Php, "file", TRUE, TRUE, 66),
             M(Lib, "file", TRUE, TRUE, 96)>>
Maps ==
  {Typical,
   <<M(Pool, "pseudo", TRUE, FALSE, 32), M(Pool, "file", TRUE, FALSE, 40)>> \o Typical,
   <<M(Php, "deleted", TRUE, TRUE, 64), M(Lib, "file", TRUE, TRUE, 96)>>,
   <<M(Pool, "pseudo", TRUE, TRUE, 32)>>,
   <<M(Httpd, "file", TRUE, TRUE, 48)>> \o Typical}

World(elf0) ==
  [maps |-> Typical, own |-> [p \in {Php, Lib, Httpd, Pool} |-> None],
   disk |-> [p \in {Php, Lib, Httpd, Pool} |->
               CASE p = Php -> elf0
                 [] p = Pool -> None
                 [] OTHER -> [Elf("DYN", FALSE, {}, <<>>, Code(FALSE)) EXCEPT !.minor = None]],
   override |-> None, version |-> None, permitted |-> TRUE, arm |-> FALSE,
   regs |-> [r \in 0..1 |-> 5 - r]]

\* Where files are and which they are.
FileWorlds ==
  {[World(e) EXCEPT !.maps = maps, !.own[Php] = own] :
     maps \in Maps,
     e \in {[Elf(type, zts, IF zts THEN ZtsNames ELSE NtsNames, Good(3), Code(FALSE))
                 EXCEPT !.native = native] :
                 type \in {"DYN", "EXEC", "CORE"}, zts \in BOOLEAN, native \in BOOLEAN},
     own \in {None, Elf("DYN", FALSE, NtsNames, Good(5), Code(FALSE)),
              Elf("EXEC", TRUE, ZtsNames, Good(4), Code(FALSE))}}

\* Which symbols and literals are left, and which options are given: an address
\* as the ELF file has it or as it is in memory.
Literals == {<<>>, Good(3), <<<<R(5, 5, TRUE)>>, <<R(3, 7, TRUE)>>>>, <<<<R(3, 5, TRUE)>>>>,
             <<<<R(5, 6, TRUE), R(3, 6, TRUE)>>>>, <<<<R(None, 4, TRUE), R(3, 6, FALSE)>>>>}
OptionWorlds ==
  LET of(zts, symbols, overrides) ==
        {[World(Elf("DYN", zts, symbols, literals, Code(arm)))
            EXCEPT !.override = override, !.version = version,
                   !.permitted = permitted, !.arm = arm] :
           literals \in Literals, arm \in BOOLEAN, override \in overrides \cup {None},
           version \in {None, 3}, permitted \in BOOLEAN}
  IN  UNION {of(FALSE, symbols, {8, 72}) : symbols \in SUBSET NtsNames}
      \cup UNION {of(TRUE, symbols, {300}) : symbols \in SUBSET ZtsNames}

\* Other accessors: any short function, and every page distance.
Pads == {<<>>, <<I("pad", 0, 0, 0)>>}
Instr(arm) ==
  {I("other", 0, 0, 0)} \cup
  IF arm THEN {I("movz", rd, hw, 1) : rd \in 0..1, hw \in 0..1}
              \cup {I("movk", rd, hw, 2) : rd \in 0..1, hw \in 0..1}
  ELSE {I("mov", rd, 0, 1) : rd \in 0..1} \cup {I("mov", 0, 0, 0 - 2)}
TcbWorlds ==
  LET of(arm) ==
        {[World(Elf("DYN", TRUE, ZtsNames, Good(3),
                    [Code(arm) EXCEPT !["tsrm_get_ls_cache_tcb_offset"] = pad \o body \o end]))
            EXCEPT !.arm = arm] :
           pad \in Pads, body \in UNION {[1..n -> Instr(arm)] : n \in 0..2},
           end \in {<<Ret>>, <<>>}}
  IN  of(TRUE) \cup of(FALSE)
VersionWorlds ==
  {[World([Elf("DYN", FALSE, NtsNames, <<>>, [Code(arm) EXCEPT !["php_version"] = body \o <<Ret>>])
             EXCEPT !.at["php_version"] = fn])
      EXCEPT !.arm = arm] :
     fn \in 16..(15 + Page),
     <<arm, body>> \in
       {<<TRUE, p \o <<I("adrp", 0, 0, page), I("add", 0, 0, low)>> >> :
          p \in Pads, page \in 0..(Page * Page - 1), low \in 0..(Page - 1)}
       \cup {<<FALSE, p \o <<I("lea", 0, 0, d)>> >> :
               p \in Pads, d \in {0 - 9, 0, 7}}}

NextVersion == [Elf("DYN", FALSE, NtsNames, Good(10), Code(FALSE)) EXCEPT !.minor = 10]

MCWorlds ==
  FileWorlds \cup OptionWorlds \cup TcbWorlds \cup VersionWorlds \cup {World(NextVersion)}
=============================================================================
