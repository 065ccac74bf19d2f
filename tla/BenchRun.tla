------------------------------ MODULE BenchRun ------------------------------
(***************************************************************************)
(* tools/run_benchmarks.py as it runs: one invocation after another over   *)
(* run directories that stay on disk, and the programs around it:          *)
(* run_stage3_rtl_guard.py and golden_pc_stream.py start it and look at    *)
(* what it left, audit_goal_runs.py and summarize_perf_profile.py read it. *)
(*                                                                         *)
(* An invocation writes its manifest, then simulates one benchmark at a    *)
(* time and rewrites results.json after each.  It may be interrupted after *)
(* any step.  A simulation that does not start leaves the log of an        *)
(* earlier one in place.                                                   *)
(***************************************************************************)
EXTENDS SignoffGate, FiniteSets

CONSTANTS Dirs,          \* run directories
          Bench,         \* the entries of the manifests, by name
          Manifest,      \* the manifests: sequences of names
          Images,        \* the benchmarks whose hex image is there
          Baseline,      \* counters of earlier results, by benchmark
          Outcome,       \* how a simulation may end, by name
          Possible,      \* for each benchmark, the outcomes it may have
          Args,          \* command lines of users
          Repos,         \* states of the repository: what git and the goal's manifest say
          GuardBenches, GuardRef,  \* BENCHES and the scores of BASELINE
          Sound,         \* for each benchmark, the outcomes that are right
          Faster,        \* outcomes that move ClassCounter below its baseline
          Kept,          \* outcomes that end well, at the guard's score, with no drift
          Reuse,         \* whether a directory is used again
          ByHand,        \* whether scripts/run_dsim.sh is used too
          MaxRuns        \* bound on the invocations

Names == DOMAIN Bench
Launched(o) == Outcome[o].launched

VARIABLES disk,     \* run directories
          legacy,   \* dsim_run.log: {} or the simulation that printed it
          golden,   \* the file golden_pc_stream.py emits: {} or its simulation
          run,      \* the invocation under way: {} or one record
          last,     \* history: the last invocation that ended, if it succeeded
          runs      \* invocations so far

benchVars == <<disk, legacy, golden, run, last, runs>>

NoLog == [run |-> 0, out |-> "none"]
EmptyDir == [manifest |-> {}, results |-> <<>>, log |-> [n \in Names |-> NoLog],
             profile |-> {}, uses |-> 0, fresh |-> FALSE, code |-> {}]
NoExit == [front |-> "none", args |-> {}, dir |-> {}, code |-> 0, run |-> 0,
           fresh |-> FALSE]

BenchInit ==
    /\ disk = [d \in Dirs |-> EmptyDir]
    /\ legacy = {} /\ golden = {0} /\ run = {} /\ last = NoExit /\ runs = 0

-----------------------------------------------------------------------------
\* The command lines of the programs that start run_benchmarks.py.

Plain == [run_class |-> "signoff", goal |-> FALSE, partial |-> FALSE,
          manifest |-> "stage1", bench |-> {}, mech |-> "default_rtl",
          named |-> FALSE, plus |-> {}, allow |-> {}, baseline |-> "none",
          target |-> "none", decrease |-> {}, nonincrease |-> {},
          movement |-> FALSE, loop |-> FALSE, decoded |-> FALSE, dry |-> FALSE,
          no_summary |-> FALSE, skip_golden |-> FALSE, skip_rtl_lock |-> FALSE,
          skip_goal_lock |-> FALSE, runner |-> "dsim"]

GuardArgs == [Plain EXCEPT !.run_class = "dse", !.named = TRUE,
                           !.bench = GuardBenches, !.plus = GoalPlusargs,
                           !.skip_golden = TRUE]
GoldenArgs(n, option) == [Plain EXCEPT !.run_class = "dse", !.bench = {n},
                                       !.plus = {option}]

Commands ==
    {[front |-> "user", args |-> a] : a \in Args}
    \union (IF GuardBenches = {} THEN {} ELSE {[front |-> "guard", args |-> GuardArgs]})
    \union {[front |-> "emit", args |-> GoldenArgs(n, "EMIT_COMMIT_PC_HEX")] :
               n \in {m \in Names : Bench[m].golden}}
    \union {[front |-> "verify", args |-> GoldenArgs(n, "CHECK_GOLDEN_PCS")] :
               n \in {m \in Names : Bench[m].golden}}

Selected(args) ==
    LET all == Manifest[args.manifest]
    IN  IF args.bench = {} THEN all ELSE SelectSeq(all, LAMBDA n : n \in args.bench)

Exit(c, d, code, fresh) ==
    last' = IF code # 0 THEN [NoExit EXCEPT !.code = code]
            ELSE [front |-> c.front, args |-> {c.args}, dir |-> d, code |-> 0,
                  run |-> runs, fresh |-> fresh]

\* What a program checks of its own before it starts run_benchmarks.py: the
\* guard builds the simulator, the others look for the golden file.
FrontFails(c, built, force) ==
    \/ c.front = "guard" /\ ~built
    \/ c.front = "emit" /\ golden # {} /\ ~force
    \/ c.front = "verify" /\ golden = {}

FailCode(c, bs, repo, built, force) ==
    IF FrontFails(c, built, force) THEN {IF c.front = "guard" THEN 1 ELSE 2}
    ELSE IF Errors(c.args, Manifest[c.args.manifest], {Bench[bs[i]] : i \in DOMAIN bs}, repo) # {}
    THEN {2}
    ELSE IF c.args.baseline = "absent" THEN {1}   \* not found, unless it scores
    ELSE IF bs = <<>> THEN {2} ELSE {}

\* An invocation ends before it has written anything.
Refuse(c, repo, built, force) ==
    /\ run = {} /\ runs < MaxRuns
    /\ \E code \in FailCode(c, Selected(c.args), repo, built, force) :
           Exit(c, {}, code, FALSE)
    /\ runs' = runs + 1
    /\ UNCHANGED <<disk, legacy, golden, run>>

DryRun(c, repo) ==
    /\ run = {} /\ runs < MaxRuns
    /\ c.args.dry /\ FailCode(c, Selected(c.args), repo, TRUE, TRUE) = {}
    /\ Exit(c, {}, IF \A i \in DOMAIN Selected(c.args) : Selected(c.args)[i] \in Images
                   THEN 0 ELSE 1, FALSE)
    /\ runs' = runs + 1
    /\ UNCHANGED <<disk, legacy, golden, run>>

\* No log of an earlier simulation can be taken for one of this run.
Unused(d) == disk[d].uses = 0 /\ legacy = {}

GoldenKept(c) == golden

\* emit --force removes the file first.
GoldenAtStart(c) == IF c.front = "emit" THEN {} ELSE golden

RunManifest(args, repo) ==
    [goal |-> args.goal, run_class |-> args.run_class, plus |-> args.plus,
     stage1 |-> args.manifest = "stage1", contract |-> repo.contract]

\* The manifest of the run is on disk before the first simulation starts.
Begin(c, d, repo) ==
    /\ run = {} /\ runs < MaxRuns
    /\ disk[d].uses = 0 \/ (Reuse /\ c.front \in {"user", "guard"})
    /\ ~c.args.dry /\ FailCode(c, Selected(c.args), repo, TRUE, TRUE) = {}
    /\ golden' = GoldenAtStart(c)
    /\ run' = {[front |-> c.front, args |-> c.args, dir |-> d, rows |-> <<>>,
                todo |-> Selected(c.args), out |-> "none", phase |-> "rows",
                fresh |-> Unused(d)]}
    /\ disk' = [disk EXCEPT ![d].manifest = {RunManifest(c.args, repo)}, ![d].uses = @ + 1, ![d].fresh = Unused(d), ![d].code = {}]
    /\ runs' = runs + 1 /\ last' = NoExit
    /\ UNCHANGED legacy

-----------------------------------------------------------------------------
\* One row.

GoldenChecked(args, n) ==
    \/ Bench[n].golden /\ golden # {} /\ ~args.skip_golden /\ args.runner = "dsim"
    \/ "CHECK_GOLDEN_PCS" \in args.plus

\* The simulator runs, or its script gives up before it.  Under Verilator
\* there is no log but what the program prints.
Simulate(r, o) ==
    /\ r.phase = "rows" /\ r.todo # <<>>
    /\ Head(r.todo) \in Images /\ o \in Possible[Head(r.todo)]
    /\ Trips(Outcome[o].lines) => GoldenChecked(r.args, Head(r.todo))
    /\ run' = {[r EXCEPT !.phase = "score", !.out = o]}
    /\ disk' = IF Launched(o) /\ r.args.runner = "dsim"
               THEN [disk EXCEPT ![r.dir].log[Head(r.todo)] = [run |-> runs, out |-> o]]
               ELSE disk
    /\ \/ Launched(o) /\ r.front = "emit" /\ golden' = {runs}
       \/ golden' = golden     \* a testbench that does not know the option
    /\ UNCHANGED <<legacy, last, runs>>

\* The log that is read: that of the directory, else the one in the root of
\* the repository.
LogRead(r, n) ==
    IF r.args.runner # "dsim" THEN NoLog
    ELSE IF disk[r.dir].log[n].run # 0 THEN disk[r.dir].log[n]
    ELSE IF legacy # {} THEN CHOOSE l \in legacy : TRUE ELSE NoLog

Text(r, n) ==
    LET read == LogRead(r, n)
    IN  Outcome[r.out].lines \o (IF read = NoLog THEN <<>> ELSE Outcome[read.out].lines)

\* load_baseline_results and benchmark_provenance
BaselineRows(args) == IF args.baseline = "given" THEN Baseline ELSE << >>
Provenance(o) == [hash |-> Outcome[o].hash]

\* What parse_xsim_log and calculate_metrics get out of the text.
Reading(n, text) ==
    [status |-> Status(text), metric |-> Metric(Bench[n], text),
     counters |-> [c \in DriftSafe |-> Counter(text, c)],
     loop |-> LastValue(text, Of(text, {"loop"})),
     decoded |-> LastValue(text, Of(text, {"decoded"}))]

\* sim is the invocation whose simulation the row speaks of.
Row(r, n) ==
    LET text == Text(r, n)
        read == Reading(n, text)
    IN  [name |-> n, status |-> read.status, metric |-> read.metric,
         gate |-> Gate(r.args, Bench[n], n, text, Provenance(r.out),
                       BaselineRows(r.args)),
         counters |-> read.counters, loop |-> read.loop, decoded |-> read.decoded,
         rc |-> Outcome[r.out].rc, run |-> runs, out |-> r.out,
         sim |-> IF LogRead(r, n) = NoLog THEN runs ELSE LogRead(r, n).run]

Score(r) ==
    /\ r.phase = "score"
    /\ LET rows == Append(r.rows, Row(r, Head(r.todo)))
       IN  /\ run' = {[r EXCEPT !.phase = "rows", !.out = "none", !.rows = rows,
                                !.todo = Tail(@)]}
           /\ disk' = [disk EXCEPT ![r.dir].results = rows]
    /\ UNCHANGED <<legacy, golden, last, runs>>

\* summarize_perf_profile.py reads one log for each row and knows of no end
\* but the line that says PASS.
ProfileStatus(lines) ==
    IF LastValue(lines, Of(lines, {"pass"})) # {1} THEN "NO_PASS"
    ELSE IF LastValue(lines, Naming(lines, "bench", "flags")) \subseteq {0} THEN "PASS"
    ELSE "PASS/flags"

\* run is the invocation that wrote the summary.
Profile(r) ==
    {[name |-> row.name, run |-> runs,
      status |-> ProfileStatus(LET log == LogRead(r, row.name)
                               IN  Outcome[IF log = NoLog THEN row.out ELSE log.out].lines)] :
        row \in {r.rows[i] : i \in {j \in DOMAIN r.rows :
                    r.args.runner # "dsim" \/ LogRead(r, r.rows[j].name) # NoLog}}}

RunCodeOfSimulator(r) == IF \A i \in DOMAIN r.rows : r.rows[i].rc = 0 THEN 0 ELSE 1

\* The exit code of run_benchmarks.py: the gate decides a signoff, the
\* simulator's return codes the others.
RunCode(r) ==
    IF \A i \in DOMAIN r.rows : IF r.args.run_class = "signoff"
                                THEN r.rows[i].gate = "PASS" ELSE r.rows[i].rc = 0
    THEN 0 ELSE 1

\* Without a log there is nothing to summarize, and the old summary stays.
Finish(r) ==
    /\ r.phase = "rows" /\ r.todo = <<>>
    /\ disk' = [disk EXCEPT ![r.dir].results = r.rows,
                            ![r.dir].profile = IF r.args.no_summary \/ Profile(r) = {}
                                                THEN @ ELSE Profile(r)]
    /\ run' = {[r EXCEPT !.phase = "done"]}
    /\ UNCHANGED <<legacy, golden, last, runs>>

\* evaluate_results of the guard: every benchmark is there, passed, scored no
\* less than the reference, and raised no counter.  A counter that is missing
\* is accepted.
WellScored(row) ==
    /\ row.status = "PASS"
    /\ \E m \in row.metric : m[1] * GuardRef[2] >= GuardRef[1] * m[2]
    /\ row.loop \subseteq {0} /\ row.decoded \subseteq {0}
    /\ \A c \in DriftSafe : row.counters[c] \subseteq {0}

GuardRow(rows, n) ==
    \E i \in DOMAIN rows :
        /\ rows[i].name = n /\ \A j \in DOMAIN rows : rows[j].name = n => j <= i
        /\ WellScored(rows[i]) /\ rows[i].gate \in {"PASS", "DSE_ONLY"}

\* A manifest names a benchmark once.  A simulation that was not started has
\* failed and reports no end: the script of dsim_shell_command exits with 1 where
\* it gives up.  Kept holds what the guard accepts of a simulation that has no
\* golden commits to compare with.
ASSUME BenchAssumption ==
    /\ Images \subseteq Names
    /\ \A args \in Args :
          /\ Selected(args) \in Seq(Names)
          /\ \A i, j \in DOMAIN Selected(args) : Selected(args)[i] = Selected(args)[j] => i = j
    /\ \A o \in DOMAIN Outcome :
          /\ Outcome[o].lines \in Seq([t : STRING, f : STRING, v : Nat])
          /\ ~Launched(o) => Outcome[o].rc # 0 /\ End(Outcome[o].lines) = {}
    /\ \A n \in GuardBenches : \A o \in Possible[n] :
          WellScored(Reading(n, Outcome[o].lines)) /\ ~Trips(Outcome[o].lines) => o \in Kept

GuardCode(rows) == IF \A n \in GuardBenches : GuardRow(rows, n) THEN 0 ELSE 1

CodeOfResults(r) ==
    IF r.front = "guard" THEN GuardCode(disk[r.dir].results) ELSE RunCode(r)

\* The program that started it goes on: the guard evaluates unless the run
\* failed, emit looks for its file, verify only prints what the log says.
Code(r) ==
    IF RunCode(r) # 0 THEN RunCode(r)
    ELSE IF r.front = "guard" THEN GuardCode(disk[r.dir].results)
    ELSE IF r.front = "emit" /\ golden = {} THEN 1 ELSE 0

Return(r) ==
    /\ r.phase = "done"
    /\ Exit(r, {r.dir}, Code(r), r.fresh)
    /\ run' = {}
    /\ disk' = [disk EXCEPT ![r.dir].code = {Code(r)}]
    /\ UNCHANGED <<legacy, golden, runs>>

\* The user interrupts, the machine stops, or the image is not there.
Stop(r) ==
    /\ Exit(r, {r.dir}, 130, r.fresh)
    /\ run' = {}
    /\ UNCHANGED <<disk, legacy, golden, runs>>

\* run_stage3_rtl_guard.py --evaluate-only
Evaluate(d) ==
    /\ run = {} /\ runs < MaxRuns /\ runs' = runs + 1
    /\ Exit([front |-> "evaluate", args |-> GuardArgs], {d},
            GuardCode(disk[d].results), FALSE)
    /\ UNCHANGED <<disk, legacy, golden, run>>

\* scripts/run_dsim.sh, by hand, on any image.
RunByHand(o) ==
    /\ ByHand /\ run = {} /\ runs < MaxRuns /\ runs' = runs + 1
    /\ Launched(o) /\ legacy' = {[run |-> runs + 1, out |-> o]} /\ last' = NoExit
    /\ UNCHANGED <<disk, golden, run>>

BenchNext ==
    \/ \E c \in Commands, repo \in Repos :
          \/ \E built, force \in BOOLEAN : Refuse(c, repo, built, force)
          \/ DryRun(c, repo)
          \/ \E d \in Dirs : Begin(c, d, repo)
    \/ \E r \in run :
          \/ \E o \in DOMAIN Outcome : Simulate(r, o)
          \/ Score(r) \/ Finish(r) \/ Return(r) \/ Stop(r)
    \/ \E d \in Dirs : Evaluate(d)
    \/ \E o \in DOMAIN Outcome : RunByHand(o)

BenchSpec == BenchInit /\ [][BenchNext]_benchVars

-----------------------------------------------------------------------------
\* audit_goal_runs.py
Audit(d) ==
    IF disk[d].manifest = {} THEN "NO_RUN_MANIFEST"
    ELSE LET m == CHOOSE x \in disk[d].manifest : TRUE
             rows == disk[d].results
         IN  IF m.goal
             THEN IF /\ m.run_class = "signoff" /\ m.stage1 /\ m.contract
                     /\ GoalPlusargs \subseteq m.plus
                     /\ rows # <<>> /\ \A i \in DOMAIN rows : rows[i].gate = "PASS"
                  THEN "GOAL_PASS" ELSE "GOAL_FAIL"
             ELSE CASE m.run_class = "dse" -> "DSE_SMOKE_ONLY"
                    [] m.run_class = "signoff" -> "SIGNOFF_WITHOUT_GOAL"
                    [] OTHER -> "NON_GOAL_ARTIFACT"

-----------------------------------------------------------------------------
\* The rows in d are those of the benchmarks named, in that order, and each
\* speaks of a simulation of invocation i that ended as it should, with the
\* counters a mechanism promised to move.
Earned(d, names, args, i) ==
    LET rows == disk[d].results
    IN  /\ [k \in DOMAIN rows |-> rows[k].name] = names
        /\ \A k \in DOMAIN rows :
              /\ rows[k].run = i /\ rows[k].sim = i
              /\ rows[k].out \in Sound[rows[k].name]
              /\ args.mech \in MovingClasses => rows[k].out \in Faster

Scored(c, args) == c.front = "user" /\ args.run_class = "signoff" /\ c.code = 0 /\ ~args.dry

\* A signoff that succeeds in a directory of its own has simulated every
\* benchmark it was asked for, and every one was right and moved the counter
\* its mechanism promised to move.
SignoffIsEarned ==
    run = {} => \A args \in last.args, d \in last.dir :
        Scored(last, args) /\ last.fresh => Earned(d, Selected(args), args, last.run)

\* As the program's description has it, a score stands for what was run: a
\* signoff that succeeds never speaks of a simulation of an earlier run.
SignoffIsThisRun ==
    run = {} => \A args \in last.args, d \in last.dir :
        Scored(last, args) =>
            \A i \in DOMAIN disk[d].results : disk[d].results[i].sim = last.run

\* What the audit takes for evidence of the goal, in a directory of one run,
\* is a run of the goal, every row of which was simulated and right; and if
\* that run was not interrupted it is all of the goal's benchmarks and the
\* audit agrees with the exit code.
GoalEvidence ==
    \A d \in Dirs : disk[d].fresh /\ disk[d].code \subseteq {0, 1} =>
        LET rows == disk[d].results
            pass == Audit(d) = "GOAL_PASS"
        IN  /\ pass => \A i \in DOMAIN rows :
                          /\ rows[i].sim = rows[1].run /\ rows[i].out \in Sound[rows[i].name]
                          /\ rows[i].name = Manifest["stage1"][i]
            /\ \A m \in disk[d].manifest, c \in disk[d].code :
                  m.goal => (pass <=> c = 0 /\ Len(rows) = Len(Manifest["stage1"]))

\* The guard lets a change through only after every one of its benchmarks was
\* simulated in this run, ended well and scored no less than the reference, in
\* a directory that was used before as well.  The checksum may be any: the
\* guard runs without the gate.
GuardHolds ==
    run = {} /\ last.front = "guard" /\ last.code = 0 =>
        \A d \in last.dir, n \in GuardBenches :
            \E i \in DOMAIN disk[d].results :
                LET row == disk[d].results[i]
                IN  /\ row.name = n /\ row.run = last.run /\ row.sim = last.run
                    /\ row.out \in Kept

\* A golden file that emit reports as written was written by its simulation,
\* whatever file was there before.
EmitIsFresh ==
    run = {} /\ last.front = "emit" /\ last.code = 0 => golden = {last.run}

\* The summary that a run has left beside its results never says of a row that
\* passed the gate that its simulation did not: both parsers, which are not the
\* same code and end on different lines, read the same log.  A run that is told
\* to write none leaves that of an earlier run.
ParsersAgree ==
    \A d \in Dirs : disk[d].code # {} =>
        \A p \in disk[d].profile, i \in DOMAIN disk[d].results :
            LET row == disk[d].results[i]
            IN  p.name = row.name /\ p.run = row.run /\ row.gate = "PASS"
                    => p.status # "NO_PASS"
=============================================================================
