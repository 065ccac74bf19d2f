---------------------------- MODULE SignoffGate ----------------------------
(***************************************************************************)
(* What tools/run_benchmarks.py decides without touching a file: which     *)
(* command lines it accepts, what it reads out of a simulation's log, and  *)
(* the verdict of the gate over one row.                                   *)
(*                                                                         *)
(* A log is a sequence of lines [t |-> kind, f |-> field, v |-> value].    *)
(* Counters, plusargs and files are names; a bound is an interval.  The    *)
(* reasons and errors the code writes as sentences are names in a set.     *)
(***************************************************************************)
EXTENDS Naturals, Sequences

CONSTANT GoalCount             \* benchmarks the goal's manifest must list

ASSUME GoalAssumption == GoalCount \in Nat

\* The counters that any refactoring of the front end keeps at zero, and the
\* counter whose fall each class of mechanism promises, by default.
DriftSafe == {"owner_mismatch"}
ClassCounter == "dup_emit"
Unlimited == 99                \* an upper bound that is absent

Allowed == {"CHECKS", "PERF", "TOHOST_ADDR"}
Forbidden == {"ENABLE_UOC"}
MovingClasses == {"ftq_owned_delivery"}          \* with default expectations
AcceptedClasses == MovingClasses \union {"default_rtl", "issue_wakeup_bypass"}
GoalPlusargs == {"CHECKS", "PERF"}

Timed == {"coremark", "dhrystone", "spec"}
If(c, r) == IF c THEN {r} ELSE {}

-----------------------------------------------------------------------------
\* Which command lines run at all.

Plusargs(args, bench) ==
    LET explicit == args.plus \union bench.plus
    IN  explicit \union If(bench.elf, "TOHOST_ADDR")

MovementRequired(args) ==
    args.movement \/ (args.run_class = "signoff" /\ args.mech # "default_rtl")

Decreases(args) ==
    (IF args.mech \in MovingClasses THEN {<<ClassCounter, 1>>} ELSE {})
    \union args.decrease

\* a goal over some of its benchmarks
GoalErrorsAnySelection(args, manifest, repo) ==
    If(args.manifest # "stage1", "manifest")
    \union If(~(GoalPlusargs \subseteq args.plus), "goal plusargs")

GoalErrors(args, manifest, repo) ==
    LET stage1 == args.manifest = "stage1"
    IN  If(~stage1, "manifest")
        \union If(stage1 /\ ~repo.contract, "contract")
        \union If(stage1 /\ Len(manifest) < GoalCount, "too few benchmarks")
        \union If(args.bench # {} /\ ~args.partial, "selection")
        \union If(args.partial /\ ~args.dry, "partial goal")
        \union If(~(GoalPlusargs \subseteq args.plus), "goal plusargs")
        \union If(args.no_summary, "no summary")
        \union If(~args.dry /\ ~args.skip_goal_lock /\ repo.contractDirty, "dirty contract")

MechanismErrors(args) ==
    If(args.mech \notin AcceptedClasses, "class")
    \union If(args.mech # "default_rtl" /\ ~args.named, "unnamed mechanism")
    \union If(MovementRequired(args) /\ args.baseline = "none", "no baseline")
    \union If(args.baseline = "absent", "baseline not found")
    \union If(args.mech # "default_rtl" /\ args.target = "none", "no target")
    \union If(/\ args.target # "none"
              /\ ~\E d \in Decreases(args) : d[1] = args.target, "target not declared")

PlusargErrors(args, benches) ==
    LET requested == args.plus \union UNION {b.plus : b \in benches}
    IN  If(requested \cap Forbidden # {}, "forbidden plusarg")
        \union If(args.allow \cap Forbidden # {}, "forbidden allowed")
        \union If(~(requested \subseteq Allowed \union args.allow), "plusarg")
        \union If(args.allow # {} /\ ~args.named, "unnamed plusargs")

\* validate_run_class_args: nothing is asked of a run that does not score,
\* but that it names no goal.
Errors(args, manifest, benches, repo) ==
    IF args.run_class # "signoff" THEN If(args.goal, "goal needs signoff")
    ELSE (IF args.goal THEN GoalErrors(args, manifest, repo) ELSE {})
         \union MechanismErrors(args)
         \union PlusargErrors(args, benches)
         \union If(~args.dry /\ ~args.skip_rtl_lock /\ repo.rtlDirty
                      /\ args.mech = "default_rtl", "dirty RTL")

-----------------------------------------------------------------------------
\* What a log says.  A value that was not printed is an empty set.

\* The places of lines of some kinds, and of those that name a field.
Of(log, kinds) == {i \in DOMAIN log : log[i].t \in kinds}
Naming(log, kind, f) == {i \in Of(log, {kind}) : log[i].f = f}

\* The last of them: {} or one line.
LastLine(log, places) == {log[i] : i \in {j \in places : \A k \in places : k <= j}}
LastValue(log, places) == {l.v : l \in LastLine(log, places)}

End(log) == LastLine(log, Of(log, {"pass", "fail", "timeout"}))

\* an end that is not FAIL taken for a PASS
StatusOfEnd(log) ==
    IF End(log) = {} THEN "UNKNOWN"
    ELSE IF \E l \in End(log) : l.t = "fail" THEN "FAIL" ELSE "PASS"

\* The last line that ends a simulation decides; with none of them the first
\* TOHOST= line, unless the simulator ran into its iteration limit.
Status(log) ==
    IF \E l \in End(log) : l.t = "fail" THEN "FAIL"
    ELSE IF \E l \in End(log) : l.t = "timeout" THEN "TIMEOUT"
    ELSE IF \E l \in End(log) : l.v = 1 THEN "PASS"
    ELSE IF End(log) # {} THEN "TOHOST"
    ELSE IF Of(log, {"iterlimit"}) # {} THEN "ITERLIMIT"
    ELSE IF Of(log, {"tohost"}) # {} THEN "TOHOST" ELSE "UNKNOWN"

Tohost(log) == LastValue(log, Of(log, {"pass", "tohost"}))

\* A benchmark prints its results again at the end; a zero time does not
\* replace a time.
Field(log, f) ==
    LET all == Naming(log, "bench", f)
        set == {i \in all : log[i].v # 0}
    IN  LastValue(log, IF f \in {"cycles", "instret"} /\ set # {} THEN set ELSE all)

Counter(log, c) == LastValue(log, Naming(log, "counter", c))
Trips(log) == Of(log, {"trip"}) # {}

RequiresStop(bench) == bench.stop

\* calculate_metrics: the cycles a score counts, and the score as the pair of
\* iterations and cycles it is the ratio of.
TimedCycles(bench, log) ==
    LET own == Field(log, "cycles") \ {0}
    IN  IF own # {} /\ (Field(log, "control") = {2} \/ ~RequiresStop(bench)) THEN own
        ELSE IF Status(log) = "PASS" /\ ~RequiresStop(bench)
        THEN LastValue(log, Of(log, {"mcycle"})) \ {0} ELSE {}

Metric(bench, log) ==
    LET printed == Field(log, "iterations") \ {0}
        iters   == IF printed # {} THEN printed ELSE {bench.iterations} \ {0}
    IN  {<<i, c>> : i \in IF /\ bench.kind \in Timed
                             /\ Field(log, "flags") \subseteq {0}
                             /\ Status(log) = "PASS" \/ ~RequiresStop(bench)
                          THEN iters ELSE {},
                    c \in TimedCycles(bench, log)}

-----------------------------------------------------------------------------
\* The gate.

\* The iterations of a timed benchmark are expected even when the manifest
\* does not say so.
Expected(bench) ==
    IF /\ "iterations" \notin DOMAIN bench.expect
       /\ bench.kind \in {"coremark", "dhrystone"} /\ bench.iterations # 0
    THEN [f \in DOMAIN bench.expect \union {"iterations"} |->
             IF f = "iterations" THEN bench.iterations ELSE bench.expect[f]]
    ELSE bench.expect

EndpointReasons(bench, log, files) ==
    If(Status(log) # "PASS", "status")
    \union If(RequiresStop(bench) /\ Tohost(log) # {1}, "tohost")
    \union {f \in DOMAIN Expected(bench) : Field(log, f) # {Expected(bench)[f]}}
    \union If(bench.hash /\ ~files.hash, "sha256")
    \union If(Trips(log), "golden")

\* counter_expectations and evaluate_architectural_counter_checks, against the
\* row of the same benchmark in the baseline.
MovementFailures(args, name, log, baseline) ==
    IF Decreases(args) = {} /\ args.nonincrease = {} THEN {}
    ELSE IF name \notin DOMAIN baseline THEN {"baseline missing"}
    ELSE LET base == baseline[name]
             Moved(c, d) == /\ c \in DOMAIN base
                            /\ \E v \in Counter(log, c) : v + d <= base[c]
         IN  IF DOMAIN base = {} THEN {"baseline has no counters"}
             ELSE {m[1] : m \in {x \in Decreases(args) : ~Moved(x[1], x[2])}}
                  \union {c \in args.nonincrease : ~Moved(c, 0)}

DriftSafeRequired(args, bench) ==
    /\ args.run_class # "debug"
    /\ args.run_class = "signoff" \/ args.goal \/ "CHECKS" \in Plusargs(args, bench)

\* The intervals a row's counters must lie in: those of every refactoring
\* narrowed by those of the manifest.
Bounds(args, bench) ==
    LET own(c)  == IF c \in DOMAIN bench.bounds THEN bench.bounds[c] ELSE <<0, Unlimited>>
        safe    == IF DriftSafeRequired(args, bench) THEN DriftSafe ELSE {}
        Less(x, y) == IF x < y THEN x ELSE y
    IN  [c \in safe \union DOMAIN bench.bounds |->
            IF c \in safe THEN <<own(c)[1], Less(own(c)[2], 0)>> ELSE own(c)]

Outside(log, bounds) ==
    {c \in DOMAIN bounds :
        ~\E v \in Counter(log, c) : bounds[c][1] <= v /\ v <= bounds[c][2]}

GateReasons(args, bench, name, log, files, baseline) ==
    LET zero == bench.decoded \/ args.decoded
        op   == LastLine(log, Of(log, {"decoded"}))
    IN  EndpointReasons(bench, log, files)
        \union (IF MovementRequired(args)
                THEN MovementFailures(args, name, log, baseline) ELSE {})
        \union If((bench.loop \/ args.loop) /\ LastValue(log, Of(log, {"loop"})) # {0}, "loop")
        \union If(zero /\ {l.v : l \in op} # {0}, "decoded")
        \union If(/\ args.run_class = "signoff" /\ zero
                  /\ {l.f : l \in op} # {"standalone"}, "label")
        \union Outside(log, Bounds(args, bench))
        \union (IF args.run_class = "signoff" THEN Outside(log, bench.targets) ELSE {})

\* evaluate_gate.  Only a signoff row can pass.
Gate(args, bench, name, log, files, baseline) ==
    CASE args.run_class = "debug" -> "DEBUG_ONLY"
      [] args.run_class = "dse" -> "DSE_ONLY"
      [] OTHER -> IF GateReasons(args, bench, name, log, files, baseline) = {}
                  THEN "PASS" ELSE "FAIL"
=============================================================================
