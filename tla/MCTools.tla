------------------------------ MODULE MCTools ------------------------------
(***************************************************************************)
(* Small instances of the Python programs under tools/ and scripts/.  They *)
(* share no state: a behaviour runs one of them, chosen at its start.      *)
(***************************************************************************)
EXTENDS BenchRun, RiscvTests, LinuxBoot, SimPlatform, UocRepack, TLC

CONSTANTS d1, d2

VARIABLE program

MCDirs == {d1, d2}

cm == [kind |-> "coremark", stop |-> TRUE, iterations |-> 1,
       expect |-> [sum |-> 7, flags |-> 0], plus |-> {}, elf |-> FALSE, hash |-> TRUE,
       golden |-> TRUE, loop |-> TRUE, decoded |-> TRUE,
       bounds |-> [owner_mismatch |-> <<0, 3>>], targets |-> [dup_emit |-> <<0, 4>>]]
br == [cm EXCEPT !.kind = "micro_branch", !.stop = FALSE, !.iterations = 0, !.expect = << >>,
                 !.elf = TRUE, !.hash = FALSE, !.golden = FALSE, !.bounds = << >>,
                 !.targets = << >>]
MCBench == [cm |-> cm, br |-> br]
MCManifest == [stage1 |-> <<"cm", "br">>, other |-> <<"br">>]
MCBaseline == [cm |-> [dup_emit |-> 3, owner_mismatch |-> 0]]

L(t, f, v) == [t |-> t, f |-> f, v |-> v]
\* The counters of a run come before its end; CoreMark's results come too.
Lines(owner, dup, sum, cycles) ==
    <<L("counter", "owner_mismatch", owner), L("counter", "dup_emit", dup),
      L("loop", "-", 0), L("decoded", "standalone", 0),
      L("bench", "sum", sum), L("bench", "flags", 0), L("bench", "iterations", 1),
      L("bench", "control", 2), L("bench", "cycles", cycles)>>
Ends(lines, t, v, rc) ==
    [launched |-> TRUE, rc |-> rc, hash |-> TRUE, lines |-> Append(lines, L(t, "-", v))]
MCOutcome ==
    [right   |-> Ends(Lines(0, 3, 7, 5), "pass", 1, 0),
     faster  |-> Ends(Lines(0, 1, 7, 5), "pass", 1, 0),
     wrong   |-> Ends(Lines(0, 3, 6, 5), "pass", 1, 0),
     drift   |-> Ends(Lines(1, 3, 7, 5), "pass", 1, 0),
     flagged |-> Ends(Append(Lines(0, 3, 7, 9), L("bench", "flags", 1)), "pass", 1, 0),
     hangs   |-> Ends(Lines(0, 3, 7, 5), "timeout", 0, 1),
     diverges |-> Ends(Append(Lines(0, 3, 7, 5), L("trip", "-", 1)), "pass", 1, 0),
     old_image |-> [Ends(Lines(0, 3, 7, 5), "pass", 1, 0) EXCEPT !.hash = FALSE],
     fails_late |-> Ends(Append(Lines(0, 3, 7, 5), L("pass", "-", 1)), "fail", 1, 1),
     unstarted |-> [launched |-> FALSE, rc |-> 1, hash |-> TRUE, lines |-> <<>>]]
MCPossible == [cm |-> DOMAIN MCOutcome \ {"hangs"},
               br |-> {"right", "drift", "hangs", "unstarted"}]
MCSound == [cm |-> {"right", "faster"}, br |-> {"right"}]
MCKept == {"right", "faster", "wrong", "old_image"}
MCFaster == {"faster"}
MCGuardRef == <<1, 6>>

Goal == [Plain EXCEPT !.goal = TRUE, !.plus = GoalPlusargs]
Mechanism == [Plain EXCEPT !.bench = {"cm"}, !.mech = "ftq_owned_delivery", !.named = TRUE,
                           !.baseline = "given", !.target = "dup_emit"]
MCArgs ==
    {Goal, Mechanism, [Plain EXCEPT !.manifest = "other"],
     [Plain EXCEPT !.bench = {"br"}, !.runner = "verilator"],
     [Plain EXCEPT !.bench = {"cm"}, !.run_class = "debug", !.no_summary = TRUE],
     [Plain EXCEPT !.bench = {"br"}, !.no_summary = TRUE],
     [Goal EXCEPT !.bench = {"cm"}, !.partial = TRUE, !.dry = TRUE],
     [Goal EXCEPT !.bench = {"cm"}],
     [Mechanism EXCEPT !.baseline = "none"],
     [Plain EXCEPT !.run_class = "dse", !.baseline = "absent"],
     [Plain EXCEPT !.plus = {"ENABLE_UOC"}]}

Clean == [rtlDirty |-> FALSE, contractDirty |-> FALSE, contract |-> TRUE]
MCRepos == {Clean, [Clean EXCEPT !.contractDirty = TRUE],
            [Clean EXCEPT !.rtlDirty = TRUE, !.contract = FALSE]}

MCSymmetry == Permutations(MCDirs)

-----------------------------------------------------------------------------
MCTestSeq == <<"add", "mul">>
Compliance == [force |-> FALSE, no_build |-> FALSE, build_only |-> FALSE, fresh |-> FALSE]
MCComplianceArgs ==
    {Compliance, [Compliance EXCEPT !.force = TRUE, !.fresh = TRUE], [Compliance EXCEPT !.fresh = TRUE],
     [Compliance EXCEPT !.no_build = TRUE], [Compliance EXCEPT !.build_only = TRUE]}

-----------------------------------------------------------------------------
BootEnd == [starts |-> TRUE, rc |-> 0, reached |-> {"opensbi", "boot_ok"}, said |-> {},
            printed |-> {}, idle |-> {}]
MCBootOutcome ==
    [boots     |-> BootEnd,
     unstarted |-> [BootEnd EXCEPT !.starts = FALSE, !.rc = 1, !.reached = {}],
     crashes   |-> [BootEnd EXCEPT !.rc = 1],
     panics    |-> [BootEnd EXCEPT !.said = {"bad"}],
     stops     |-> [BootEnd EXCEPT !.printed = {"no_commit"}],
     slow      |-> [BootEnd EXCEPT !.reached = {"opensbi"}, !.printed = {"timeout"}, !.idle = {1}],
     hangs     |-> [BootEnd EXCEPT !.printed = {"timeout"}, !.idle = {3}],
     logs_in   |-> [BootEnd EXCEPT !.reached = {"opensbi"}, !.said = {"login"}]]
\* The files by default, and what the options and the environment name otherwise:
\* the directory of the full profile, a simulator elsewhere, a relative log.
Default == [s \in Simulators |-> s]
Boot == [build |-> FALSE, build_sim |-> FALSE, run |-> TRUE, simulator |-> "auto",
         target |-> "boot_ok", pattern |-> {}, stale_limit |-> 2, output |-> "image",
         image |-> "image", made |-> Default, probe |-> Default, exec |-> Default,
         console |-> "uart", log |-> "uart"]
MCBootFiles == Simulators \union {"image", "uart", "other"}
MCBootArgs ==
    {Boot, [Boot EXCEPT !.build_sim = TRUE], [Boot EXCEPT !.build = TRUE, !.target = "opensbi"],
     [Boot EXCEPT !.build = TRUE, !.build_sim = TRUE, !.simulator = "verilator"],
     [Boot EXCEPT !.build_sim = TRUE, !.run = FALSE], [Boot EXCEPT !.run = FALSE],
     [Boot EXCEPT !.pattern = {"login"}, !.stale_limit = 0, !.simulator = "dsim"],
     [Boot EXCEPT !.build = TRUE, !.output = "other"], [Boot EXCEPT !.log = "other"],
     [Boot EXCEPT !.build_sim = TRUE, !.probe["dsim"] = "other", !.exec["dsim"] = "other"],
     [Boot EXCEPT !.simulator = "verilator", !.exec["verilator"] = "other"]}
\* Files that nobody looks for are left out.
MCBootInit ==
    /\ \A f \in {"image", "uart"} : binary[f] = {}
    /\ \A f \in BootFiles \ {"image"} : image[f] = {}

-----------------------------------------------------------------------------
Section(lma, size, contents, flags) ==
    [lma |-> lma, size |-> size, contents |-> contents, flags |-> flags]
Prog(sections, tohost) == [sections |-> sections, tohost |-> {tohost}]
\* Two versions, with a gap, a comment that is not loaded and a .bss; one that
\* starts below the base, or with a section whose line is misread.
MCProgram ==
    [kernel |-> <<Prog({Section(10, 2, TRUE, 5), Section(14, 1, TRUE, 4),
                        Section(1, 3, FALSE, 2), Section(16, 2, FALSE, 1)}, 14),
                  Prog({Section(11, 3, TRUE, 5), Section(15, 2, TRUE, 4)}, 15)>>,
     odd    |-> <<Prog({Section(7, 2, TRUE, 5)}, 7),
                  Prog({Section(9, 2, TRUE, 6), Section(12, 1, TRUE, 5)}, 12)>>,
     raw    |-> <<Prog({Section(8, 3, TRUE, 5)}, 8)>>,
     given  |-> <<Prog({Section(8, 1, TRUE, 5)}, 8)>>]
MCPlatformRow ==
    [kernel |-> [suite |-> "a", hex |-> FALSE, format |-> "elf", base |-> 8, tohost |-> {}],
     odd    |-> [suite |-> "b", hex |-> TRUE, format |-> "elf", base |-> 8, tohost |-> {9}],
     raw    |-> [suite |-> "b", hex |-> FALSE, format |-> "bin", base |-> 8, tohost |-> {}],
     given  |-> [suite |-> "b", hex |-> TRUE, format |-> "none", base |-> 8, tohost |-> {}]]
MCRowSeq == <<"kernel", "odd", "raw", "given">>
Prep == [bench |-> {}, suite |-> {}, list |-> FALSE, prepare_only |-> FALSE,
         rebuild |-> FALSE, objdump |-> TRUE, nm |-> TRUE]
MCPlatformArgs ==
    {Prep, [Prep EXCEPT !.rebuild = TRUE, !.bench = {"kernel", "odd"}],
     [Prep EXCEPT !.suite = {"b"}, !.prepare_only = TRUE],
     [Prep EXCEPT !.objdump = FALSE, !.nm = FALSE], [Prep EXCEPT !.list = TRUE],
     [Prep EXCEPT !.suite = {"a"}, !.bench = {"odd"}]}

-----------------------------------------------------------------------------
Uops(pc, kind) == <<[pc |-> pc, kind |-> kind]>>
\* With two sets: five heads of set 0, one of set 1 with a tag of set 0.
MCGroups ==
    {[uops |-> Uops(pc, "plain") \o Uops(pc, "indirect"), cause |-> IF pc = 8 THEN 6 ELSE 0] :
        pc \in {0, 4, 8, 12, 16}}
    \union {[uops |-> Uops(2, "plain"), cause |-> 1]}

-----------------------------------------------------------------------------
Programs == {"bench", "riscv", "boot", "platform", "uoc"}

ToolsInit ==
    /\ program \in Programs
    /\ BenchInit /\ ComplianceInit /\ BootInit /\ PlatformInit /\ UocInit
    /\ MCBootInit
    /\ program # "boot" => \A f \in BootFiles : image[f] = {} /\ binary[f] = {}

Idle(p, vars) == program # p /\ UNCHANGED vars
ToolsNext ==
    /\ UNCHANGED program
    /\ Idle("bench", benchVars) \/ (program = "bench" /\ BenchNext)
    /\ Idle("riscv", complianceVars) \/ (program = "riscv" /\ ComplianceNext)
    /\ Idle("boot", bootVars) \/ (program = "boot" /\ BootNext)
    /\ Idle("platform", platformVars) \/ (program = "platform" /\ PlatformNext)
    /\ Idle("uoc", uocVars) \/ (program = "uoc" /\ UocNext)

ToolsSpec ==
    ToolsInit /\ [][ToolsNext]_<<program, benchVars, complianceVars, bootVars, platformVars, uocVars>>
=============================================================================
